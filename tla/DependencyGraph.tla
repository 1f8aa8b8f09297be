--------------------------- MODULE DependencyGraph ---------------------------
(***************************************************************************)
(* What a WorkflowDefinition's validators (definition.py) ask of a payload *)
(* and Kahn's algorithm (dependency_graph.py), one round of its loop per   *)
(* step.  Field types and the form of a version string are left out.       *)
(***************************************************************************)
EXTENDS Naturals, Sequences

CONSTANTS
  Names,      \* the strings a payload uses as stage ids
  NoHandler,  \* failure_handler is None
  Payloads    \* the stages lists that may be sent

StageDefinition == [id : Names, depends_on : SUBSET Names,
                    failure_handler : Names \cup {NoHandler}]

ASSUME PayloadAssumption == \A d \in Payloads : d \in Seq(StageDefinition)

VARIABLES
  payload,    \* the stages list under validation
  remaining,  \* topological_levels' locals: stages in no level yet,
  resolved,   \* stages in some level,
  levels,     \* the levels found
  verdict     \* the validator that raised, "checking" or "accepted"

graphVars == <<payload, remaining, resolved, levels, verdict>>

-----------------------------------------------------------------------------
StageIds(d) == {d[i].id : i \in DOMAIN d}

\* depends_on.get(s, []), once the ids are unique.
DependsOn(d, s) == UNION {d[i].depends_on : i \in {j \in DOMAIN d : d[j].id = s}}

UniqueIds(d) == \A i, j \in DOMAIN d : d[i].id = d[j].id => i = j

RealReferences(d) ==
  \A i \in DOMAIN d : /\ d[i].depends_on \subseteq StageIds(d)
                      /\ d[i].failure_handler \in StageIds(d) \cup {NoHandler}

\* The validators in the order they run, up to the call of topological_levels.
Validate(d) ==
  /\ verdict \notin {"checking", "accepted"}
  /\ payload' = d
  /\ remaining' = StageIds(d)
  /\ resolved' = {}
  /\ levels' = << >>
  /\ \/ ~UniqueIds(d) /\ verdict' = "duplicate stage id"
     \/ UniqueIds(d) /\ ~RealReferences(d) /\ verdict' = "unknown stage"
     \/ UniqueIds(d) /\ RealReferences(d) /\ verdict' = "checking"

Ready_AnyDependency ==
  {s \in remaining : \/ DependsOn(payload, s) = {}
                     \/ DependsOn(payload, s) \cap resolved # {}}
Ready == {s \in remaining : DependsOn(payload, s) \subseteq resolved}

NextLevel ==
  /\ verdict = "checking"
  /\ Ready # {}
  /\ levels' = Append(levels, Ready)
  /\ resolved' = resolved \cup Ready
  /\ remaining' = remaining \ Ready
  /\ UNCHANGED <<payload, verdict>>

\* CyclicDependencyError.
FindCycle ==
  /\ verdict = "checking"
  /\ remaining # {} /\ Ready = {}
  /\ verdict' = "cycle"
  /\ UNCHANGED <<payload, remaining, resolved, levels>>

Accept ==
  /\ verdict = "checking"
  /\ remaining = {}
  /\ verdict' = "accepted"
  /\ UNCHANGED <<payload, remaining, resolved, levels>>

GraphInit ==
  /\ payload = << >> /\ remaining = {} /\ resolved = {} /\ levels = << >>
  /\ verdict = "none"

Checking == NextLevel \/ FindCycle \/ Accept

GraphNext == (\E d \in Payloads : Validate(d)) \/ Checking

GraphSpec == GraphInit /\ [][GraphNext]_graphVars

-----------------------------------------------------------------------------
(* The reference the algorithm is compared with.                           *)

\* No cycle, as WorkflowExecutor assumes of its constants: every non-empty set
\* of stages has a member that depends on no other member.
Acyclic(d) ==
  \A S \in SUBSET StageIds(d) : S # {} => \E s \in S : DependsOn(d, s) \cap S = {}

\* The definitions WorkflowExecutor can run.
Executable(d) == UniqueIds(d) /\ RealReferences(d) /\ Acyclic(d)

\* A payload is accepted exactly if it is executable and refused as cyclic
\* exactly if its graph has a cycle, although the loop never follows a path;
\* and the levels of an accepted one hold every stage, each behind all it
\* depends on and no later than it must be (topological_levels).
ValidationIsRight ==
  /\ verdict = "accepted" =>
       /\ Executable(payload)
       /\ StageIds(payload) = UNION {levels[n] : n \in DOMAIN levels}
  /\ verdict = "cycle" => ~Acyclic(payload)
  /\ \A n \in DOMAIN levels : \A s \in levels[n] :
       /\ DependsOn(payload, s) \subseteq UNION {levels[m] : m \in 1..(n - 1)}
       /\ n > 1 => DependsOn(payload, s) \cap levels[n - 1] # {}
=============================================================================
