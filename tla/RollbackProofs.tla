---------------------------- MODULE RollbackProofs ----------------------------
(***************************************************************************)
(* A workflow that failed has rolled back what it completed, in an order   *)
(* that undoes dependents first.  RollbackOrder walks the definition's     *)
(* stage list by a recursive function; that the function exists, and what  *)
(* it has collected after each stage, is shown by the least position at    *)
(* which it would not hold.                                                *)
(***************************************************************************)
EXTENDS WorkerLoopProofs

\* A property of 0 that every position hands on to the next one holds of every
\* position of the stage list.
LEMMA EveryPosition ==
  ASSUME NEW n \in Nat, NEW Good \in SUBSET Nat, 0 \in Good,
         \A i \in 1..n : i - 1 \in Good => i \in Good
  PROVE  \A i \in 0..n : i \in Good
<1> DEFINE Bad == {i \in 0..n : i \notin Good}
           Less == OpToRel(<, Nat)
<1>1. CASE Bad = {}
  BY <1>1
<1>2. CASE Bad # {}
  <2>1. PICK m \in Bad : \A i \in Bad : ~(<<i, m>> \in Less)
    <3>1. Bad \subseteq Nat
      OBVIOUS
    <3> HIDE DEF Bad
    <3> QED BY <1>2, <3>1, WFMin, NatLessThanWellFounded, Zenon
  <2>2. \A i \in Bad : ~(i < m)
    <3>1. Bad \subseteq Nat
      OBVIOUS
    <3>2. \A i, j \in Nat : <<i, j>> \in Less <=> i < j
      BY DEF OpToRel
    <3> HIDE DEF Bad, Less
    <3> QED BY <2>1, <3>1, <3>2
  <2>3. m \in 1..n /\ m - 1 \in 0..n
    OBVIOUS
  <2>4. m - 1 \in Good
    BY <2>2, <2>3
  <2> QED BY <2>3, <2>4
<1> QED BY <1>1, <1>2

-----------------------------------------------------------------------------
(* The recursion over the stage list.                                      *)

\* What the walk has collected at position i, given what f says of i - 1.
Walked(f, C, i) ==
  IF i = 0 THEN <<>>
  ELSE IF StageOrder[i] \in C THEN <<StageOrder[i]>> \o f[i - 1]
  ELSE f[i - 1]

IsWalk(f, C, n) == f = [i \in 0..n |-> Walked(f, C, i)]

\* There is a walk of each length.
LEMMA WalkExists ==
  ASSUME NEW C, NEW n \in Nat
  PROVE  \E f : IsWalk(f, C, n)
<1> DEFINE Good == {m \in Nat : \E f : IsWalk(f, C, m)}
<1>1. 0 \in Good
  <2>1. IsWalk([i \in 0..0 |-> <<>>], C, 0)
    BY DEF IsWalk, Walked
  <2> QED BY <2>1
<1>2. ASSUME NEW m \in 1..n, m - 1 \in Good PROVE m \in Good
  <2>1. PICK f : IsWalk(f, C, m - 1)
    BY <1>2
  <2> DEFINE g == [i \in 0..m |-> IF i = m THEN Walked(f, C, m) ELSE f[i]]
  <2>2. DOMAIN g = 0..m /\ \A i \in 0..(m - 1) : g[i] = f[i]
    OBVIOUS
  <2>3. ASSUME NEW i \in 0..m PROVE g[i] = Walked(g, C, i)
    <3>1. i = 0 \/ g[i - 1] = f[i - 1]
      BY <2>2
    <3>2. Walked(g, C, i) = Walked(f, C, i)
      BY <3>1 DEF Walked
    <3>3. CASE i = m
      BY <3>2, <3>3
    <3>4. CASE i # m
      BY <2>1, <2>2, <3>2, <3>4 DEF IsWalk
    <3> QED BY <3>3, <3>4
  <2>4. g = [i \in 0..m |-> Walked(g, C, i)]
    <3>1. g = [i \in 0..m |-> g[i]]
      OBVIOUS
    <3> HIDE DEF g
    <3> QED BY <2>3, <3>1
  <2>5. IsWalk(g, C, m)
    BY <2>4 DEF IsWalk
  <2> QED BY <2>5
<1>3. \A i \in 0..n : i \in Good
  <2> HIDE DEF Good
  <2>1. Good \in SUBSET Nat
    BY DEF Good
  <2> QED BY <1>1, <1>2, <2>1, EveryPosition
<1> QED BY <1>3

\* RollbackOrder is where such a walk of the whole list ends.
LEMMA RollbackOrderWalks ==
  ASSUME NEW C
  PROVE  \E f : IsWalk(f, C, Len(StageOrder)) /\ RollbackOrder(C) = f[Len(StageOrder)]
<1> DEFINE n == Len(StageOrder)
           f == CHOOSE g : g = [i \in 0..n |-> IF i = 0 THEN <<>>
                                  ELSE IF StageOrder[i] \in C THEN <<StageOrder[i]>> \o g[i - 1]
                                  ELSE g[i - 1]]
<1>1. n \in Nat
  BY DefinitionAssumption
<1>2. \E g : IsWalk(g, C, n)
  BY <1>1, WalkExists
<1>3. IsWalk(f, C, n)
  BY <1>2, Zenon DEF IsWalk, Walked
<1>4. RollbackOrder(C) = f[n]
  BY Zenon DEF RollbackOrder
<1> QED BY <1>3, <1>4

-----------------------------------------------------------------------------
(* What the walk collects.                                                 *)

\* seq holds the stages of C among the first i of the list, each once, those
\* further down the list first.
Undoes(seq, C, i) ==
  /\ seq \in Seq(Stages)
  /\ \A k \in DOMAIN seq : \E p \in 1..i : seq[k] = StageOrder[p] /\ StageOrder[p] \in C
  /\ \A p \in 1..i : StageOrder[p] \in C => \E k \in DOMAIN seq : seq[k] = StageOrder[p]
  /\ \A k, l \in DOMAIN seq : \A p, q \in 1..Len(StageOrder) :
       k < l /\ seq[k] = StageOrder[p] /\ seq[l] = StageOrder[q] => q < p

\* The walk goes on: stage i of the list comes before what was collected.
LEMMA UndoesNext ==
  ASSUME NEW C, NEW i \in 1..Len(StageOrder), NEW seq, Undoes(seq, C, i - 1)
  PROVE  IF StageOrder[i] \in C THEN Undoes(<<StageOrder[i]>> \o seq, C, i)
         ELSE Undoes(seq, C, i)
<1>1. Len(StageOrder) \in Nat /\ StageOrder[i] \in Stages /\ i \in Nat /\ i - 1 \in Nat
  BY DefinitionAssumption
<1>2. \A p \in 1..i : p = i \/ p \in 1..(i - 1)
  BY <1>1
<1>3. \A p \in 1..(i - 1) : p \in 1..i
  BY <1>1
<1>4. CASE StageOrder[i] \notin C
  BY <1>2, <1>3, <1>4 DEF Undoes
<1>5. CASE StageOrder[i] \in C
  <2> DEFINE s == <<StageOrder[i]>> \o seq
  <2>1. /\ s \in Seq(Stages) /\ seq \in Seq(Stages)
        /\ Len(s) = Len(seq) + 1 /\ Len(seq) \in Nat
        /\ s[1] = StageOrder[i]
        /\ \A k \in 1..Len(seq) : s[k + 1] = seq[k]
    BY <1>1 DEF Undoes
  <2>2. DOMAIN s = 1..(Len(seq) + 1) /\ DOMAIN seq = 1..Len(seq)
    BY <2>1
  <2> HIDE DEF s
  <2>3. \A k \in DOMAIN s : k = 1 \/ (k - 1 \in DOMAIN seq /\ s[k] = seq[k - 1])
    <3> SUFFICES ASSUME NEW k \in DOMAIN s, k # 1 PROVE k - 1 \in DOMAIN seq /\ s[k] = seq[k - 1]
      OBVIOUS
    <3>1. k - 1 \in 1..Len(seq) /\ (k - 1) + 1 = k
      BY <2>1, <2>2
    <3> QED BY <2>1, <2>2, <3>1
  <2>4. ASSUME NEW k \in DOMAIN s
        PROVE  \E p \in 1..i : s[k] = StageOrder[p] /\ StageOrder[p] \in C
    <3>1. CASE k = 1
      BY <1>1, <1>5, <2>1, <3>1
    <3>2. CASE k # 1
      <4>1. k - 1 \in DOMAIN seq /\ s[k] = seq[k - 1]
        BY <2>3, <3>2
      <4>2. PICK p \in 1..(i - 1) : seq[k - 1] = StageOrder[p] /\ StageOrder[p] \in C
        BY <4>1 DEF Undoes
      <4> QED BY <1>3, <4>1, <4>2
    <3> QED BY <3>1, <3>2
  <2>5. ASSUME NEW p \in 1..i, StageOrder[p] \in C
        PROVE  \E k \in DOMAIN s : s[k] = StageOrder[p]
    <3>1. CASE p = i
      BY <2>1, <2>2, <3>1
    <3>2. CASE p \in 1..(i - 1)
      <4>1. PICK k \in DOMAIN seq : seq[k] = StageOrder[p]
        BY <2>5, <3>2 DEF Undoes
      <4>2. k + 1 \in DOMAIN s /\ s[k + 1] = StageOrder[p]
        BY <2>1, <2>2, <4>1
      <4> QED BY <4>2
    <3> QED BY <1>2, <3>1, <3>2
  <2>6. ASSUME NEW k \in DOMAIN s, NEW l \in DOMAIN s,
               NEW p \in 1..Len(StageOrder), NEW q \in 1..Len(StageOrder),
               k < l, s[k] = StageOrder[p], s[l] = StageOrder[q]
        PROVE  q < p
    <3>1. l # 1 /\ k \in Nat /\ l \in Nat
      BY <2>1, <2>2, <2>6
    <3>2. l - 1 \in DOMAIN seq /\ seq[l - 1] = StageOrder[q]
      BY <2>3, <2>6, <3>1
    <3>3. CASE k = 1
      <4>1. p = i
        BY <2>1, <2>6, <3>3, OrderAssumption
      <4>2. PICK r \in 1..(i - 1) : seq[l - 1] = StageOrder[r]
        BY <3>2 DEF Undoes
      <4>3. r \in 1..Len(StageOrder)
        BY <1>1
      <4>4. q = r
        BY <3>2, <4>2, <4>3, OrderAssumption
      <4> QED BY <1>1, <4>1, <4>4
    <3>4. CASE k # 1
      <4>1. k - 1 \in DOMAIN seq /\ seq[k - 1] = StageOrder[p]
        BY <2>3, <2>6, <3>4
      <4>2. k - 1 < l - 1
        BY <2>6, <3>1
      <4> QED BY <3>2, <4>1, <4>2 DEF Undoes
    <3> QED BY <3>3, <3>4
  <2>7. Undoes(s, C, i)
    BY <2>1, <2>4, <2>5, <2>6 DEF Undoes
  <2> QED BY <1>5, <2>7 DEF s
<1> QED BY <1>4, <1>5

\* RollbackOrder lists exactly the stages of C, those defined last first.
LEMMA RollbackOrderUndoes ==
  ASSUME NEW C
  PROVE  Undoes(RollbackOrder(C), C, Len(StageOrder))
<1>1. Len(StageOrder) \in Nat
  BY DefinitionAssumption
<1>2. PICK f : IsWalk(f, C, Len(StageOrder)) /\ RollbackOrder(C) = f[Len(StageOrder)]
  BY RollbackOrderWalks
<1> DEFINE Good == {i \in Nat : i <= Len(StageOrder) => Undoes(f[i], C, i)}
<1>3. \A i \in 0..Len(StageOrder) : f[i] = Walked(f, C, i)
  BY <1>2 DEF IsWalk
<1>4. 0 \in Good
  <2>1. f[0] = <<>>
    <3>1. f[0] = Walked(f, C, 0)
      BY <1>1, <1>3
    <3> QED BY <3>1 DEF Walked
  <2>2. Undoes(<<>>, C, 0)
    BY DEF Undoes
  <2> QED BY <2>1, <2>2
<1>5. ASSUME NEW i \in 1..Len(StageOrder), i - 1 \in Good PROVE i \in Good
  <2>1. Undoes(f[i - 1], C, i - 1)
    BY <1>1, <1>5
  <2>2. i \in 0..Len(StageOrder) /\ i # 0
    BY <1>1
  <2>3. f[i] = IF StageOrder[i] \in C THEN <<StageOrder[i]>> \o f[i - 1] ELSE f[i - 1]
    BY <1>3, <2>2 DEF Walked
  <2>4. Undoes(f[i], C, i)
    BY <2>1, <2>3, UndoesNext
  <2> QED BY <1>1, <2>4
<1>6. \A i \in 0..Len(StageOrder) : i \in Good
  <2>1. Good \in SUBSET Nat
    OBVIOUS
  <2> HIDE DEF Good
  <2> QED BY <1>1, <1>4, <1>5, <2>1, EveryPosition
<1> QED BY <1>1, <1>2, <1>6

-----------------------------------------------------------------------------
(* What a sequence that undoes a set of stages is good for.                *)

\* It is as long as the set is large.
LEMMA UndoesLength ==
  ASSUME NEW C \in SUBSET Stages, NEW seq, Undoes(seq, C, Len(StageOrder))
  PROVE  Len(seq) = Cardinality(C)
<1>1. Len(seq) \in Nat /\ DOMAIN seq = 1..Len(seq)
  BY DEF Undoes
<1>2. Len(StageOrder) \in Nat
  BY DefinitionAssumption
<1>3. \A k \in DOMAIN seq : seq[k] \in C
  BY DEF Undoes
<1>4. ASSUME NEW s \in C PROVE \E k \in DOMAIN seq : seq[k] = s
  <2>1. PICK p \in 1..Len(StageOrder) : StageOrder[p] = s
    BY OrderAssumption
  <2> QED BY <2>1 DEF Undoes
<1>5. ASSUME NEW k \in DOMAIN seq, NEW l \in DOMAIN seq, seq[k] = seq[l] PROVE k = l
  <2>1. PICK p \in 1..Len(StageOrder) : seq[k] = StageOrder[p]
    BY DEF Undoes
  <2>2. ~(p < p)
    BY <1>2
  <2>3. ~(k < l) /\ ~(l < k)
    BY <1>5, <2>1, <2>2 DEF Undoes
  <2> QED BY <1>1, <2>3
<1>6. ExistsBijection(1..Len(seq), C)
  <2> DEFINE g == [k \in 1..Len(seq) |-> seq[k]]
  <2>1. g \in Injection(1..Len(seq), C)
    BY <1>1, <1>3, <1>5 DEF Injection, IsInjective
  <2>2. g \in Surjection(1..Len(seq), C)
    BY <1>1, <1>3, <1>4 DEF Surjection
  <2> QED BY <2>1, <2>2 DEF ExistsBijection, Bijection
<1> QED BY <1>1, <1>6, FS_CountingElements

\* A dependent comes before what it depends on, if the list is in order.
LEMMA UndoesDependentsFirst ==
  ASSUME NEW C, NEW seq, Undoes(seq, C, Len(StageOrder)), ListedInOrder,
         NEW k \in DOMAIN seq, NEW l \in DOMAIN seq, k < l
  PROVE  seq[k] \notin DependsOn[seq[l]]
<1>1. PICK p \in 1..Len(StageOrder) : seq[k] = StageOrder[p]
  BY DEF Undoes
<1>2. PICK q \in 1..Len(StageOrder) : seq[l] = StageOrder[q]
  BY DEF Undoes
<1>3. q < p
  BY <1>1, <1>2 DEF Undoes
<1>4. ~(p < q)
  BY <1>3, DefinitionAssumption
<1> QED BY <1>1, <1>2, <1>4 DEF ListedInOrder

\* The last Len(s) elements of r \o s are s.
LEMMA LastOf ==
  ASSUME NEW S, NEW r \in Seq(S), NEW s \in Seq(S)
  PROVE  /\ Len(r \o s) >= Len(s)
         /\ SubSeq(r \o s, Len(r \o s) - Len(s) + 1, Len(r \o s)) = s
<1>1. /\ Len(r) \in Nat /\ Len(s) \in Nat /\ Len(r \o s) = Len(r) + Len(s)
      /\ r \o s \in Seq(S)
  OBVIOUS
<1> DEFINE last == SubSeq(r \o s, Len(r) + 1, Len(r) + Len(s))
<1>2. last = [k \in 1..Len(s) |-> (r \o s)[k + Len(r)]]
  BY <1>1
<1>3. \A k \in 1..Len(s) : (r \o s)[k + Len(r)] = s[k]
  BY <1>1
<1>4. s = [k \in 1..Len(s) |-> s[k]]
  OBVIOUS
<1>5. last = s
  <2> HIDE DEF last
  <2> QED BY <1>2, <1>3, <1>4
<1>6. Len(r \o s) - Len(s) + 1 = Len(r) + 1
  BY <1>1
<1> QED BY <1>1, <1>5, <1>6

-----------------------------------------------------------------------------
(* The inductive invariant.                                                *)

\* The hooks were last called, in a failed execution, for what is completed.
RolledBackLast ==
  /\ rolledBack \in Seq(Stages)
  /\ status = "failed" =>
       \E before \in Seq(Stages) :
         rolledBack = before \o RollbackOrder(StagesIn({"completed"}))

LEMMA RolledBackImplies ==
  ASSUME TypeOK, RolledBackLast
  PROVE  FailureRollsBack
<1> SUFFICES ASSUME status = "failed" PROVE FailureRollsBack
  BY DEF FailureRollsBack
<1> DEFINE completed == StagesIn({"completed"})
           order == RollbackOrder(completed)
<1>1. PICK before \in Seq(Stages) : rolledBack = before \o order
  BY DEF RolledBackLast
<1>2. completed \in SUBSET Stages /\ Undoes(order, completed, Len(StageOrder))
  BY RollbackOrderUndoes DEF StagesIn
<1>3. Len(order) = Cardinality(completed) /\ order \in Seq(Stages)
  BY <1>2, UndoesLength DEF Undoes
<1>4. /\ Len(rolledBack) >= Cardinality(completed)
      /\ order = SubSeq(rolledBack, Len(rolledBack) - Cardinality(completed) + 1,
                        Len(rolledBack))
  <2> HIDE DEF order, completed
  <2> QED BY <1>1, <1>3, LastOf
<1>5. ASSUME NEW s \in completed PROVE \E k \in DOMAIN order : order[k] = s
  <2>1. PICK p \in 1..Len(StageOrder) : StageOrder[p] = s
    BY <1>2, OrderAssumption
  <2> HIDE DEF order, completed
  <2> QED BY <1>2, <2>1 DEF Undoes
<1>6. ListedInOrder =>
        \A k, l \in DOMAIN order : k < l => order[k] \notin DependsOn[order[l]]
  <2> HIDE DEF order, completed
  <2> QED BY <1>2, UndoesDependentsFirst
<1> QED
  <2> HIDE DEF order
  <2> QED BY <1>4, <1>5, <1>6 DEF FailureRollsBack

\* A step leaves the hooks alone and does not fail the execution, or it calls
\* them for the stages that are completed when it is done.
RollbackMove ==
  \/ rolledBack' = rolledBack /\ (status' = "failed" => status = "failed")
  \/ rolledBack' =
       rolledBack \o RollbackOrder({s \in Stages : stageStatus'[s] = "completed"})

LEMMA RollbackEffect ==
  ASSUME TypeOK, [Next]_vars
  PROVE  RollbackMove
<1>1. CASE Submit \/ Start \/ Pause \/ Resume
  BY <1>1 DEF Submit, Start, Pause, Resume, Move, RollbackMove
<1>2. CASE Cancel
  BY <1>2 DEF Cancel, Finish, RollbackMove
<1>3. ASSUME NEW s \in Stages, SkipStage(s) \/ StrandStage(s) PROVE RollbackMove
  BY <1>3 DEF SkipStage, StrandStage, RollbackMove
<1>4. ASSUME NEW from, CheckCompletion(from), from \in {status, "running"},
             rolledBack' = rolledBack
      PROVE  RollbackMove
  BY <1>4 DEF CheckCompletion, Finish, RollbackMove
<1>5. ASSUME NEW from, FailWorkflow(from) PROVE RollbackMove
  BY <1>5 DEF FailWorkflow, RollbackMove
<1>6. ASSUME NEW s \in Stages, NEW d \in Decisions,
             \/ ApproveAndComplete(s, d) \/ ApproveAndRetry(s, d)
             \/ ApproveAndFail(s, d) \/ Reject(s, d)
      PROVE  RollbackMove
  BY <1>4, <1>5, <1>6 DEF ApproveAndComplete, ApproveAndRetry, ApproveAndFail, Reject
<1>7. ASSUME NEW s \in Stages, NEW d \in Decisions, RejectRefused(s, d)
      PROVE  RollbackMove
  <2>1. stageStatus' = stageStatus
    BY <1>7 DEF RejectRefused, stageVars
  <2>2. {x \in Stages : stageStatus'[x] = "completed"} = StagesIn({"completed"})
    BY <2>1 DEF StagesIn
  <2> QED BY <1>7, <2>2 DEF RejectRefused, RollbackMove
<1>8. ASSUME NEW s \in Stages,
             ReapEscalate(s) \/ ReapRetry(s) \/ ReapExhausted(s) \/ ReapCancel(s)
      PROVE  RollbackMove
  BY <1>5, <1>8
  DEF ReapEscalate, ReapRetry, ReapExhausted, ReapCancel, Move, RollbackMove
<1>9. CASE AdvanceIdle
  BY <1>4, <1>9 DEF AdvanceIdle
<1>10. ASSUME NEW done \in SUBSET Runnable, NEW retried \in SUBSET Runnable,
              NEW s \in Stages,
              \/ AdvanceRun(done, retried) \/ AdvanceToGate(s, done, retried)
              \/ AdvanceToFailure(s, done, retried)
       PROVE  RollbackMove
  BY <1>4, <1>5, <1>10
  DEF AdvanceRun, AdvanceToGate, AdvanceToFailure, Move, RollbackMove
<1>11. CASE Tick \/ UNCHANGED vars
  BY <1>11 DEF Tick, vars, RollbackMove
<1>12. Stages # {}
  BY DefinitionAssumption
<1> QED
  BY <1>1, <1>2, <1>3, <1>6, <1>7, <1>8, <1>9, <1>10, <1>11, <1>12
  DEF Next, Advance, ResolveApproval

\* What is completed when an execution fails stays completed, and nothing
\* joins it, so that the calls made then remain the right ones.
LEMMA RolledBackStep ==
  ASSUME TypeOK, RolledBackLast, [Next]_vars
  PROVE  RolledBackLast'
<1> DEFINE after == {s \in Stages : stageStatus'[s] = "completed"}
<1>1. StagesIn({"completed"})' = after
  BY DEF StagesIn
<1>2. RollbackOrder(after) \in Seq(Stages)
  BY RollbackOrderUndoes DEF Undoes
<1>3. CASE rolledBack' = rolledBack \o RollbackOrder(after)
  <2>1. rolledBack' \in Seq(Stages)
    <3> HIDE DEF after
    <3> QED BY <1>2, <1>3 DEF RolledBackLast
  <2>2. \E before \in Seq(Stages) : rolledBack' = before \o RollbackOrder(after)
    BY <1>3 DEF RolledBackLast
  <2> QED
    <3> HIDE DEF after
    <3> QED BY <1>1, <2>1, <2>2 DEF RolledBackLast
<1>4. CASE rolledBack' = rolledBack /\ (status' = "failed" => status = "failed")
  <2>1. ASSUME status' = "failed" PROVE after = StagesIn({"completed"})
    <3>1. status \in TerminalWorkflow
      BY <1>4, <2>1 DEF TerminalWorkflow
    <3>2. \A s \in Stages : \/ stageStatus'[s] = stageStatus[s]
                            \/ stageStatus[s] = "pending" /\ stageStatus'[s] = "skipped"
      BY <3>1, EndedStep
    <3> QED BY <3>2 DEF StagesIn
  <2> HIDE DEF after
  <2> QED BY <1>1, <1>4, <2>1 DEF RolledBackLast
<1> QED
  BY <1>3, <1>4, RollbackEffect DEF RollbackMove

\* However an execution came to fail, the hooks called last are those of all
\* its completed stages, dependents first in a definition listed in order.
THEOREM FailureAlwaysRollsBack == Spec => []FailureRollsBack
<1>1. Init => TypeOK /\ RolledBackLast
  BY SafeInit DEF Safe, Init, RolledBackLast
<1>2. TypeOK /\ RolledBackLast /\ [Next]_vars => TypeOK' /\ RolledBackLast'
  BY TypeStep, RolledBackStep
<1>3. TypeOK /\ RolledBackLast => FailureRollsBack
  BY RolledBackImplies
<1> QED BY <1>1, <1>2, <1>3, PTL DEF Spec

\* So it is with workers, requests and crashes around the execution: a crash
\* loses neither the failure nor what was rolled back for it.
THEOREM RollsBackInLoop == LoopSpec => []FailureRollsBack
<1>1. LoopInit => RolledBackLast
  BY DEF LoopInit, Init, RolledBackLast
<1>2. ASSUME LoopInv, RolledBackLast, NEW w \in Workers, Crash(w) PROVE RolledBackLast'
  <2>1. rolledBack' = rolledBack /\ (status' = "failed" => status = "failed")
    BY <1>2 DEF Crash
  <2>2. StagesIn({"completed"})' = StagesIn({"completed"})
    BY <1>2 DEF Crash, stageVars, StagesIn
  <2> QED BY <1>2, <2>1, <2>2 DEF RolledBackLast
<1>3. LoopInv /\ RolledBackLast /\ [LoopNext]_loopVars => RolledBackLast'
  BY <1>2, LoopSteps, RolledBackStep DEF LoopInv, Safe
<1>4. LoopInv /\ RolledBackLast => FailureRollsBack
  BY RolledBackImplies DEF LoopInv, Safe
<1> QED BY <1>1, <1>3, <1>4, LoopInvAlways, PTL DEF LoopSpec
=============================================================================
