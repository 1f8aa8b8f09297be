---------------------------- MODULE MCRegistration ----------------------------
(***************************************************************************)
(* Two callers register two versions of one workflow.  The payloads have   *)
(* one to three stages: a chain listed backwards and a join are            *)
(* executable; the others fail one validator each, with cycles of one, two *)
(* and three stages, one of them behind a root.                            *)
(***************************************************************************)
EXTENDS Registration

MCNames == {"a", "b", "c", "x"}

Stage(id, dependencies) ==
  [id |-> id, depends_on |-> dependencies, failure_handler |-> NoHandler]

MCPayloads == {
  <<Stage("b", {"a"}), Stage("a", {})>>,
  <<Stage("a", {}), Stage("b", {}), 
    [Stage("c", {"a", "b"}) EXCEPT !.failure_handler = "a"]>>,
  <<Stage("a", {}), Stage("a", {})>>,
  <<Stage("a", {"x"})>>,
  <<[Stage("a", {}) EXCEPT !.failure_handler = "x"]>>,
  <<Stage("a", {"a"})>>,
  <<Stage("a", {}), Stage("b", {"a", "c"}), Stage("c", {"b"})>>,
  <<Stage("a", {"c"}), Stage("b", {"a"}), Stage("c", {"b"})>>}
===============================================================================
