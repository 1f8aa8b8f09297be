-------------------------- MODULE UsageReportsProofs --------------------------
(***************************************************************************)
(* For any calls, prices and windows: the committed ledger is what the     *)
(* committed answers cost, and the three reports over it agree.  The first *)
(* is an invariant of the steps; the second holds of every finite ledger,  *)
(* by what a sum over a finite set is.                                     *)
(***************************************************************************)
EXTENDS UsageReports, ModelRouterProofs, FiniteSetTheorems

-----------------------------------------------------------------------------
(* The ledger.                                                             *)

\* A row is flushed and waits for its caller's commit.
Kept(c) == call[c].pc = "done" /\ call[c].recorded /\ call[c].outcome = "answered"

Paid(c) == call[c].pc = "committed" /\ call[c].outcome = "answered"

LedgerRows(c) == {r \in ledger : r.call = c}

\* A call's one row is with its session or in the ledger, and it has no other.
RowsOfCall(c) ==
  /\ call[c].begun \in 0..MaxTime
  /\ call[c].pc \in {"record", "committed"} => call[c].recorded
  /\ Kept(c) => /\ call[c].answer.model \in saved
                /\ \E at \in 0..MaxTime : flushed[c] = {Row(c, at)}
  /\ ~Kept(c) => flushed[c] = {}
  /\ Paid(c) => /\ call[c].answer.model \in saved
                /\ \E at \in 0..MaxTime : LedgerRows(c) = {Row(c, at)}
  /\ ~Paid(c) => LedgerRows(c) = {}

LedgerInv ==
  /\ clock \in 0..MaxTime
  /\ flushed = [c \in Calls |-> flushed[c]]
  /\ IsFiniteSet(ledger)
  /\ \A r \in ledger : r.call \in Calls
  /\ \A c \in Calls : RowsOfCall(c)

\* A price is stored within half a millionth of a dollar.
LEMMA StoredClose ==
  ASSUME NEW cost \in Nat
  PROVE  Stored(cost) \in Nat /\ 100 * Stored(cost) - cost \in -50..50
<1>1. PICK q \in Nat, r \in 0..99 : cost + 50 = 100 * q + r
  <2>1. /\ (cost + 50) \div 100 \in Nat /\ (cost + 50) % 100 \in 0..99
        /\ cost + 50 = 100 * ((cost + 50) \div 100) + ((cost + 50) % 100)
    OBVIOUS
  <2> QED BY <2>1
<1>2. Stored(cost) = q
  BY <1>1 DEF Stored
<1> QED BY <1>1, <1>2

LEMMA InvImpliesLedger ==
  ASSUME ChainInv, LedgerInv
  PROVE  LedgerMatchesAnswers
<1> SUFFICES ASSUME NEW c \in Calls
             PROVE  IF Paid(c)
                    THEN /\ Cardinality(LedgerRows(c)) = 1
                         /\ \A r \in LedgerRows(c) :
                              /\ r.model = call[c].answer.model /\ r.project = call[c].project
                              /\ 100 * r.cost - call[c].answer.cost \in -50..50
                    ELSE LedgerRows(c) = {}
  BY DEF LedgerMatchesAnswers, LedgerRows, Paid
<1>1. RowsOfCall(c)
  BY DEF LedgerInv
<1>2. CASE Paid(c)
  <2>1. PICK at \in 0..MaxTime : LedgerRows(c) = {Row(c, at)}
    BY <1>1, <1>2 DEF RowsOfCall
  <2>2. call[c].answer.cost \in Nat
    BY DEF ChainInv, Typed, CallState, AnswerOf
  <2>3. 100 * Stored(call[c].answer.cost) - call[c].answer.cost \in -50..50
    BY <2>2, StoredClose
  <2>4. Cardinality(LedgerRows(c)) = 1
    BY <2>1, FS_Singleton
  <2>5. /\ Row(c, at).model = call[c].answer.model /\ Row(c, at).project = call[c].project
        /\ Row(c, at).cost = Stored(call[c].answer.cost)
    BY DEF Row
  <2> QED BY <1>2, <2>1, <2>3, <2>4, <2>5
<1>3. CASE ~Paid(c)
  BY <1>1, <1>3 DEF RowsOfCall
<1> QED BY <1>2, <1>3

\* A call that a step leaves alone keeps its rows.
LEMMA RowsStay ==
  ASSUME NEW d \in Calls, RowsOfCall(d), call'[d] = call[d], flushed'[d] = flushed[d],
         LedgerRows(d)' = LedgerRows(d), saved \subseteq saved'
  PROVE  RowsOfCall(d)'
<1>1. \A at : Row(d, at)' = Row(d, at)
  BY DEF Row
<1>2. Kept(d)' = Kept(d) /\ Paid(d)' = Paid(d)
  BY DEF Kept, Paid
<1> QED BY <1>1, <1>2 DEF RowsOfCall

\* A step of a call's that neither writes nor ends its session.
Unwritten(c) ==
  /\ UNCHANGED <<saved, clock, flushed, ledger>>
  /\ \A d \in Calls : d # c => call'[d] = call[d]
  /\ ~Kept(c) /\ ~Paid(c) /\ ~Kept(c)' /\ ~Paid(c)'
  /\ call'[c].begun \in {call[c].begun, clock}
  /\ call'[c].pc \in {"record", "committed"} => call'[c].recorded

LEMMA UnwrittenStep ==
  ASSUME LedgerInv, NEW c \in Calls, Unwritten(c)
  PROVE  LedgerInv'
<1>1. ASSUME NEW d \in Calls, d # c PROVE RowsOfCall(d)'
  BY <1>1, RowsStay DEF LedgerInv, Unwritten, LedgerRows
<1>2. RowsOfCall(c)'
  BY DEF LedgerInv, Unwritten, RowsOfCall, LedgerRows
<1> QED BY <1>1, <1>2 DEF LedgerInv, Unwritten

\* Every step of complete() is unwritten.
LEMMA RouteUnwritten ==
  ASSUME ChainInv, LedgerInv, NEW c \in Calls, Route(c) \/ RecordFails(c)
  PROVE  Unwritten(c)
<1>1. /\ call \in [Calls -> CallState] /\ call[c] \in CallState
      /\ call[c].pc \in {"candidate", "asking", "record"} => call[c].outcome = "none"
  BY DEF ChainInv, Typed, ChainOf, Concluded, Ended
<1>2. CASE Exhaust(c) \/ UnknownModel(c) \/ RecordFails(c)
  <2>1. PICK error \in {"exhausted", "not found", "unrecorded"} :
          /\ call' = [call EXCEPT ![c] = [@ EXCEPT !.pc = "done", !.outcome = error]]
          /\ call[c].pc \in {"candidate", "record"}
          /\ UNCHANGED <<saved, clock, flushed, ledger>>
    BY <1>2 DEF Exhaust, UnknownModel, RecordFails, Raise, AtCandidate
  <2>2. /\ call'[c].pc = "done" /\ call'[c].outcome = error /\ call'[c].begun = call[c].begun
        /\ \A d \in Calls : d # c => call'[d] = call[d]
    BY <1>1, <2>1 DEF CallState
  <2> QED BY <2>1, <2>2 DEF Unwritten, Kept, Paid
<1>3. ASSUME NEW r \in CallState, call' = [call EXCEPT ![c] = r],
             UNCHANGED <<saved, clock, flushed, ledger>>,
             call[c].pc \in {"candidate", "asking"}, r.begun = call[c].begun,
             \/ r.pc \in {"candidate", "asking"}
             \/ r.pc = "record" /\ r.recorded
             \/ r.pc = "done" /\ ~r.recorded
      PROVE  Unwritten(c)
  BY <1>1, <1>3 DEF Unwritten, Kept, Paid
<1>4. ChainInv'
  BY RouteStep
<1>5. call'[c] \in CallState
  BY <1>4 DEF ChainInv, Typed
<1>6. ASSUME SkipModel(c) \/ Ask(c) \/ FailAttempt(c) \/ \E tokens \in TokenCounts : Answer(c, tokens)
      PROVE  /\ call' = [call EXCEPT ![c] = call'[c]]
             /\ UNCHANGED <<saved, clock, flushed, ledger>>
             /\ call[c].pc \in {"candidate", "asking"} /\ call'[c].begun = call[c].begun
             /\ \/ call'[c].pc \in {"candidate", "asking"}
                \/ call'[c].pc = "record" /\ call'[c].recorded
                \/ call'[c].pc = "done" /\ ~call'[c].recorded
  <2>1. CASE SkipModel(c)
    BY <1>1, <2>1 DEF SkipModel, AtCandidate, CallState
  <2>2. CASE Ask(c)
    BY <1>1, <2>2 DEF Ask, AtCandidate, CallState
  <2>3. CASE FailAttempt(c)
    BY <1>1, <2>3 DEF FailAttempt, CallState
  <2>4. ASSUME NEW tokens \in TokenCounts, Answer(c, tokens)
        PROVE  /\ call' = [call EXCEPT ![c] = call'[c]]
               /\ UNCHANGED <<saved, clock, flushed, ledger>>
               /\ call[c].pc = "asking" /\ call'[c].begun = call[c].begun
               /\ \/ call'[c].pc = "record" /\ call'[c].recorded
                  \/ call'[c].pc = "done" /\ ~call'[c].recorded
    BY <1>1, <2>4 DEF Answer, CallState
  <2> QED BY <1>6, <2>1, <2>2, <2>3, <2>4
<1> QED BY <1>2, <1>3, <1>5, <1>6 DEF Route

\* A run's steps, and a call's first, write nothing either.
LEMMA OthersUnwritten ==
  ASSUME ChainInv, LedgerInv, NEW c \in Calls,
         \/ \E models \in Chains, retries \in Retries, project \in Projects \cup {NoProject} :
              Complete(c, models, retries, project)
         \/ \E models \in Chains, flawed \in Flaws : RunStage(c, models, flawed)
         \/ EndStage(c)
  PROVE  Unwritten(c)
<1>1. /\ call \in [Calls -> CallState] /\ call[c] \in CallState
      /\ call[c].pc = "idle" => call[c].outcome = "none"
  BY DEF ChainInv, Typed, ChainOf, Concluded, Ended
<1>2. ASSUME NEW models, NEW retries, NEW recorded, NEW project,
             Start(c, models, retries, recorded, project), call[c].pc = "idle",
             UNCHANGED <<saved, clock, flushed, ledger>>
      PROVE  Unwritten(c)
  <2>1. /\ call'[c].pc = "candidate" /\ call'[c].outcome = "none" /\ call'[c].begun = clock
        /\ \A d \in Calls : d # c => call'[d] = call[d]
    BY <1>1, <1>2 DEF Start, CallState
  <2> QED BY <1>2, <2>1 DEF Unwritten, Kept, Paid
<1>3. ASSUME call' = [call EXCEPT ![c].pc = "reported"], UNCHANGED <<saved, clock, flushed, ledger>>,
             \/ call[c].pc = "idle"
             \/ call[c].pc = "done" /\ ~call[c].recorded
      PROVE  Unwritten(c)
  <2>1. /\ call'[c].pc = "reported" /\ call'[c].begun = call[c].begun
        /\ \A d \in Calls : d # c => call'[d] = call[d]
    BY <1>1, <1>3 DEF CallState
  <2> QED BY <1>3, <2>1 DEF Unwritten, Kept, Paid
<1>4. ASSUME NEW models, NEW retries, NEW project, Complete(c, models, retries, project)
      PROVE  Unwritten(c)
  BY <1>2, <1>4 DEF Complete
<1>5. ASSUME NEW models, NEW flawed, RunStage(c, models, flawed) PROVE Unwritten(c)
  <2>1. \/ Start(c, models, 0, FALSE, NoProject)
        \/ call' = [call EXCEPT ![c].pc = "reported"]
    BY <1>5 DEF RunStage
  <2>2. call[c].pc = "idle" /\ UNCHANGED <<saved, clock, flushed, ledger>>
    BY <1>5 DEF RunStage
  <2> QED BY <1>2, <1>3, <2>1, <2>2
<1>6. ASSUME EndStage(c) PROVE Unwritten(c)
  BY <1>3, <1>6 DEF EndStage
<1> QED BY <1>4, <1>5, <1>6

\* The answer is flushed as its one row.
LEMMA RecordStep ==
  ASSUME ChainInv, LedgerInv, NEW c \in Calls, Record(c)
  PROVE  LedgerInv'
<1>1. /\ call \in [Calls -> CallState] /\ call[c] \in CallState /\ RowsOfCall(c)
      /\ flushed = [d \in Calls |-> flushed[d]] /\ clock \in 0..MaxTime
      /\ call[c].pc = "record" /\ call[c].answer.model \in saved
      /\ UNCHANGED <<saved, clock, ledger>>
  BY DEF ChainInv, Typed, LedgerInv, Record
<1>2. PICK at \in {call[c].begun, clock} :
        flushed' = [flushed EXCEPT ![c] = @ \cup {Row(c, at)}]
  BY DEF Record
<1>3. call' = [call EXCEPT ![c] = [@ EXCEPT !.pc = "done", !.outcome = "answered"]]
  BY DEF Record
<1>4. flushed[c] = {} /\ LedgerRows(c) = {} /\ call[c].recorded /\ at \in 0..MaxTime
  BY <1>1, <1>2 DEF RowsOfCall, Kept, Paid
<1>5. flushed'[c] = {Row(c, at)} /\ flushed' = [d \in Calls |-> flushed'[d]]
      /\ \A d \in Calls : d # c => flushed'[d] = flushed[d] /\ call'[d] = call[d]
  BY <1>1, <1>2, <1>3, <1>4
<1>6. /\ call'[c].pc = "done" /\ call'[c].outcome = "answered"
      /\ call'[c].recorded = call[c].recorded /\ call'[c].answer = call[c].answer
      /\ call'[c].project = call[c].project /\ call'[c].begun = call[c].begun
  BY <1>1, <1>3 DEF CallState
<1>7. Row(c, at)' = Row(c, at)
  BY <1>6 DEF Row
<1>8. RowsOfCall(c)'
  BY <1>1, <1>4, <1>5, <1>6, <1>7 DEF RowsOfCall, Kept, Paid, LedgerRows
<1>9. ASSUME NEW d \in Calls, d # c PROVE RowsOfCall(d)'
  BY <1>1, <1>5, <1>9, RowsStay DEF LedgerInv, LedgerRows
<1> QED BY <1>1, <1>5, <1>8, <1>9 DEF LedgerInv

\* A commit moves the row to the ledger.
LEMMA CommitStep ==
  ASSUME ChainInv, LedgerInv, NEW c \in Calls, Commit(c)
  PROVE  LedgerInv'
<1>1. /\ call \in [Calls -> CallState] /\ call[c] \in CallState /\ RowsOfCall(c)
      /\ flushed = [d \in Calls |-> flushed[d]]
      /\ call[c].pc = "done" /\ call[c].recorded
      /\ ledger' = ledger \cup flushed[c]
      /\ flushed' = [flushed EXCEPT ![c] = {}]
      /\ call' = [call EXCEPT ![c].pc = "committed"]
      /\ UNCHANGED <<saved, clock>>
  BY DEF ChainInv, Typed, LedgerInv, Commit
<1>2. /\ flushed'[c] = {} /\ flushed' = [d \in Calls |-> flushed'[d]]
      /\ \A d \in Calls : d # c => flushed'[d] = flushed[d] /\ call'[d] = call[d]
      /\ call'[c].pc = "committed" /\ call'[c].outcome = call[c].outcome
      /\ call'[c].recorded = call[c].recorded /\ call'[c].answer = call[c].answer
      /\ call'[c].project = call[c].project /\ call'[c].begun = call[c].begun
  BY <1>1 DEF CallState
<1>3. IsFiniteSet(flushed[c]) /\ \A r \in flushed[c] : r.call = c
  <2>1. CASE Kept(c)
    <3>1. PICK at \in 0..MaxTime : flushed[c] = {Row(c, at)}
      BY <1>1, <2>1 DEF RowsOfCall
    <3>2. Row(c, at).call = c
      BY DEF Row
    <3> QED BY <3>1, <3>2, FS_Singleton
  <2>2. CASE ~Kept(c)
    BY <1>1, <2>2, FS_EmptySet DEF RowsOfCall
  <2> QED BY <2>1, <2>2
<1>4. IsFiniteSet(ledger') /\ \A r \in ledger' : r.call \in Calls
  BY <1>1, <1>3, FS_Union DEF LedgerInv
<1>5. \A at : Row(c, at)' = Row(c, at)
  BY <1>2 DEF Row
<1>6. LedgerRows(c)' = flushed[c] /\ ~Paid(c)
  <2>1. ~Paid(c) /\ LedgerRows(c) = {}
    BY <1>1 DEF Paid, RowsOfCall
  <2> QED BY <1>1, <1>3, <2>1 DEF LedgerRows
<1>7. RowsOfCall(c)'
  <2>1. Paid(c)' = Kept(c) /\ ~Kept(c)'
    BY <1>1, <1>2 DEF Paid, Kept
  <2> QED BY <1>1, <1>2, <1>5, <1>6, <2>1 DEF RowsOfCall
<1>8. ASSUME NEW d \in Calls, d # c PROVE RowsOfCall(d)'
  <2>1. LedgerRows(d)' = LedgerRows(d)
    BY <1>1, <1>3, <1>8 DEF LedgerRows
  <2> QED BY <1>1, <1>2, <1>8, <2>1, RowsStay DEF LedgerInv
<1> QED BY <1>1, <1>2, <1>4, <1>7, <1>8 DEF LedgerInv

\* A rollback takes the row back.
LEMMA RollbackStep ==
  ASSUME ChainInv, LedgerInv, NEW c \in Calls, Rollback(c)
  PROVE  LedgerInv'
<1>1. /\ call \in [Calls -> CallState] /\ call[c] \in CallState /\ RowsOfCall(c)
      /\ flushed = [d \in Calls |-> flushed[d]]
      /\ call[c].pc \notin {"idle", "committed", "rolled back"}
      /\ flushed' = [flushed EXCEPT ![c] = {}]
      /\ call' = [call EXCEPT ![c].pc = "rolled back"]
      /\ UNCHANGED <<saved, clock, ledger>>
  BY DEF ChainInv, Typed, LedgerInv, Rollback
<1>2. /\ flushed'[c] = {} /\ flushed' = [d \in Calls |-> flushed'[d]]
      /\ \A d \in Calls : d # c => flushed'[d] = flushed[d] /\ call'[d] = call[d]
      /\ call'[c].pc = "rolled back" /\ call'[c].begun = call[c].begun
  BY <1>1 DEF CallState
<1>3. RowsOfCall(c)'
  BY <1>1, <1>2 DEF RowsOfCall, Kept, Paid, LedgerRows
<1>4. ASSUME NEW d \in Calls, d # c PROVE RowsOfCall(d)'
  BY <1>1, <1>2, <1>4, RowsStay DEF LedgerInv, LedgerRows
<1> QED BY <1>1, <1>2, <1>3, <1>4 DEF LedgerInv

LEMMA LedgerInductive ==
  /\ Init => LedgerInv
  /\ ChainInv /\ LedgerInv /\ [Next]_vars => LedgerInv'
<1>1. ASSUME Init PROVE LedgerInv
  <2>1. /\ clock = 0 /\ ledger = {} /\ flushed = [c \in Calls |-> {}] /\ MaxTime \in Nat
        /\ \A c \in Calls : call[c].pc = "idle" /\ call[c].begun = 0
    BY <1>1, RouterAssumption DEF Init, RouterInit
  <2>2. \A c \in Calls : RowsOfCall(c)
    BY <2>1 DEF RowsOfCall, Kept, Paid, LedgerRows
  <2> QED BY <2>1, <2>2, FS_EmptySet DEF LedgerInv
<1>2. ASSUME LedgerInv, call' = call, flushed' = flushed, ledger' = ledger,
             saved \subseteq saved', clock' \in 0..MaxTime
      PROVE  LedgerInv'
  <2>1. ASSUME NEW d \in Calls PROVE RowsOfCall(d)'
    BY <1>2, RowsStay DEF LedgerInv, LedgerRows
  <2> QED BY <1>2, <2>1 DEF LedgerInv
<1>3. ASSUME ChainInv, LedgerInv, [Next]_vars PROVE LedgerInv'
  <2>1. CASE Tick
    BY <1>2, <1>3, <2>1, RouterAssumption DEF Tick, LedgerInv
  <2>2. ASSUME NEW m \in Registered, Deactivate(m) \/ Save(m) PROVE LedgerInv'
    BY <1>2, <1>3, <2>2 DEF Deactivate, Save, LedgerInv
  <2>3. CASE UNCHANGED vars
    BY <1>2, <1>3, <2>3 DEF vars, routerVars, LedgerInv
  <2>4. ASSUME NEW c \in Calls, Route(c) \/ RecordFails(c) PROVE LedgerInv'
    BY <1>3, <2>4, RouteUnwritten, UnwrittenStep
  <2>5. ASSUME NEW c \in Calls, Record(c) \/ Commit(c) \/ Rollback(c) PROVE LedgerInv'
    BY <1>3, <2>5, RecordStep, CommitStep, RollbackStep
  <2>6. ASSUME NEW c \in Calls,
               \/ \E models \in Chains, retries \in Retries, project \in Projects \cup {NoProject} :
                    Complete(c, models, retries, project)
               \/ \E models \in Chains, flawed \in Flaws : RunStage(c, models, flawed)
               \/ EndStage(c)
        PROVE  LedgerInv'
    BY <1>3, <2>6, OthersUnwritten, UnwrittenStep
  <2> QED BY <1>3, <2>1, <2>2, <2>3, <2>4, <2>5, <2>6 DEF Next, RouterNext
<1> QED BY <1>1, <1>3

LEMMA LedgerAlways == Spec => [](ChainInv /\ LedgerInv)
<1>1. Init => ChainInv /\ LedgerInv
  BY InitChain, LedgerInductive
<1>2. ChainInv /\ LedgerInv /\ [Next]_vars => ChainInv' /\ LedgerInv'
  BY NextChain, LedgerInductive
<1> QED BY <1>1, <1>2, PTL DEF Spec

\* Whatever calls, saves and rollbacks interleave, every answer a committing
\* caller got is in the ledger once, at its price, and nothing else is.
THEOREM LedgerIsAnswers == Spec => []LedgerMatchesAnswers
<1>1. ChainInv /\ LedgerInv => LedgerMatchesAnswers
  BY InvImpliesLedger
<1> QED BY <1>1, LedgerAlways, PTL

-----------------------------------------------------------------------------
(* Sums over finite sets.  SumFunctionOnSet is a recursion over the        *)
(* subsets of a set, in the order in which CHOOSE picks; that it has a     *)
(* solution, and that the order does not matter, is what a least           *)
(* counterexample would contradict.                                        *)

Pick(s) == CHOOSE x \in s : TRUE

Adds(g, f, S) ==
  g = [s \in SUBSET S |-> IF s = {} THEN 0 ELSE f[Pick(s)] + g[s \ {Pick(s)}]]

\* Of any sets of elements of a finite set one is minimal.
LEMMA MinimalOf ==
  ASSUME NEW S, IsFiniteSet(S), NEW Sets \in SUBSET (SUBSET S), Sets # {}
  PROVE  \E U \in Sets : \A V \in SUBSET U : V # U => V \notin Sets
<1>1. IsWellFoundedOn(StrictSubsetOrdering(S), SUBSET S)
  BY FS_StrictSubsetOrderingWellFounded, FS_FiniteSubsetsOfFinite
<1>2. PICK U \in Sets : \A V \in Sets : ~(<<V, U>> \in StrictSubsetOrdering(S))
  BY <1>1, WFMin, Zenon
<1> QED BY <1>2 DEF StrictSubsetOrdering

\* What is picked of a non-empty set is an element of it.
LEMMA PickOf ==
  ASSUME NEW s, s # {}
  PROVE  Pick(s) \in s
BY DEF Pick

\* The recursion that adds up f over the subsets of a finite set has a
\* solution: one for the subsets of at most n elements, for every n.
LEMMA AddsExists ==
  ASSUME NEW S, IsFiniteSet(S), NEW f
  PROVE  \E g : Adds(g, f, S)
<1> DEFINE Unfold(g, s) == IF s = {} THEN 0 ELSE f[Pick(s)] + g[s \ {Pick(s)}]
           AddsTo(g, n) == /\ DOMAIN g = SUBSET S
                           /\ \A s \in SUBSET S : Cardinality(s) <= n => g[s] = Unfold(g, s)
           Bad == {n \in Nat : \A g : ~AddsTo(g, n)}
<1>1. \A s \in SUBSET S : IsFiniteSet(s) /\ Cardinality(s) \in Nat
  BY FS_Subset, FS_CardinalityType
<1>2. Bad = {}
  <2> SUFFICES ASSUME Bad # {} PROVE FALSE
    OBVIOUS
  <2>1. PICK n \in Bad : \A m \in Bad : ~(m < n)
    <3> DEFINE Less == OpToRel(<, Nat)
    <3>1. PICK n \in Bad : \A m \in Bad : ~(<<m, n>> \in Less)
      <4>1. Bad \subseteq Nat
        OBVIOUS
      <4> HIDE DEF Bad
      <4> QED BY <4>1, WFMin, NatLessThanWellFounded, Zenon
    <3> QED BY <3>1 DEF OpToRel
  <2>2. n \in Nat
    OBVIOUS
  <2>3. CASE n = 0
    <3> DEFINE g == [s \in SUBSET S |-> 0]
    <3>1. \A s \in SUBSET S : Cardinality(s) <= 0 => s = {}
      BY <1>1, FS_EmptySet
    <3>2. AddsTo(g, 0)
      BY <3>1
    <3> QED BY <2>1, <2>3, <3>2
  <2>4. CASE n # 0
    <3>1. n - 1 \in Nat /\ n - 1 < n
      BY <2>2, <2>4
    <3>2. n - 1 \notin Bad
      BY <2>1, <3>1
    <3>3. PICK h : AddsTo(h, n - 1)
      BY <3>1, <3>2
    <3> DEFINE g == [s \in SUBSET S |-> Unfold(h, s)]
    <3>4. ASSUME NEW s \in SUBSET S, Cardinality(s) <= n PROVE g[s] = Unfold(g, s)
      <4>1. CASE s = {}
        BY <4>1
      <4>2. CASE s # {}
        <5> DEFINE t == s \ {Pick(s)}
        <5>1. t \in SUBSET S /\ Cardinality(t) <= n - 1
          <6>1. Cardinality(t) = Cardinality(s) - 1
            BY <1>1, <4>2, PickOf, FS_RemoveElement
          <6> QED BY <1>1, <2>2, <3>4, <6>1
        <5>2. h[t] = Unfold(h, t)
          BY <3>3, <5>1
        <5>3. g[t] = Unfold(h, t)
          BY <5>1
        <5> QED BY <4>2, <5>2, <5>3
      <4> QED BY <4>1, <4>2
    <3>5. AddsTo(g, n)
      BY <3>4
    <3> QED BY <2>1, <3>5
  <2> QED BY <2>3, <2>4
<1>3. Cardinality(S) \in Nat
  BY <1>1
<1>4. PICK g : AddsTo(g, Cardinality(S))
  BY <1>2, <1>3
<1>5. \A s \in SUBSET S : Cardinality(s) <= Cardinality(S)
  BY FS_Subset
<1> DEFINE k == [s \in SUBSET S |-> g[s]]
<1>6. \A s \in SUBSET S : k[s] = Unfold(k, s)
  BY <1>4, <1>5
<1>7. Adds(k, f, S)
  BY <1>6 DEF Adds
<1> QED BY <1>7

\* Two solutions agree wherever both are defined.
LEMMA AddsAgree ==
  ASSUME NEW f, NEW S, NEW T, IsFiniteSet(S), NEW g, NEW h, Adds(g, f, S), Adds(h, f, T)
  PROVE  \A U \in SUBSET (S \cap T) : g[U] = h[U]
<1> DEFINE Bad == {U \in SUBSET (S \cap T) : g[U] # h[U]}
<1>1. /\ \A s \in SUBSET S : g[s] = IF s = {} THEN 0 ELSE f[Pick(s)] + g[s \ {Pick(s)}]
      /\ \A s \in SUBSET T : h[s] = IF s = {} THEN 0 ELSE f[Pick(s)] + h[s \ {Pick(s)}]
  BY DEF Adds
<1> SUFFICES ASSUME Bad # {} PROVE FALSE
  OBVIOUS
<1>2. PICK U \in Bad : \A V \in SUBSET U : V # U => V \notin Bad
  <2>1. Bad \in SUBSET (SUBSET S)
    OBVIOUS
  <2> HIDE DEF Bad
  <2> QED BY <2>1, MinimalOf
<1>3. U # {}
  BY <1>1
<1>4. Pick(U) \in U
  BY <1>3, PickOf
<1>5. g[U \ {Pick(U)}] = h[U \ {Pick(U)}]
  BY <1>2, <1>4
<1> QED BY <1>1, <1>3, <1>5

\* A sum over a finite set is the sum over the rest and the element picked.
LEMMA SumUnfolds ==
  ASSUME NEW f, NEW S, IsFiniteSet(S)
  PROVE  SumFunctionOnSet(f, S) =
           IF S = {} THEN 0 ELSE f[Pick(S)] + SumFunctionOnSet(f, S \ {Pick(S)})
<1> DEFINE Solution(T) == CHOOSE g : Adds(g, f, T)
<1>1. ASSUME NEW T, IsFiniteSet(T)
      PROVE  Adds(Solution(T), f, T) /\ SumFunctionOnSet(f, T) = Solution(T)[T]
  <2>1. SumFunctionOnSet(f, T) = Solution(T)[T]
    BY DEF SumFunctionOnSet, FoldFunctionOnSet, MapThenFoldSet, Adds, Pick
  <2>2. \E g : Adds(g, f, T)
    BY <1>1, AddsExists
  <2> QED BY <2>1, <2>2
<1> HIDE DEF Solution
<1>2. Solution(S)[S] = IF S = {} THEN 0 ELSE f[Pick(S)] + Solution(S)[S \ {Pick(S)}]
  BY <1>1 DEF Adds
<1>3. ASSUME S # {}
      PROVE  Solution(S)[S \ {Pick(S)}] = Solution(S \ {Pick(S)})[S \ {Pick(S)}]
  BY <1>1, AddsAgree, FS_RemoveElement
<1> QED BY <1>1, <1>2, <1>3, FS_RemoveElement

\* Integers add up to an integer.
LEMMA SumType ==
  ASSUME NEW S, IsFiniteSet(S), NEW f, \A x \in S : f[x] \in Int
  PROVE  \A U \in SUBSET S : SumFunctionOnSet(f, U) \in Int
<1> DEFINE Bad == {U \in SUBSET S : SumFunctionOnSet(f, U) \notin Int}
<1> SUFFICES ASSUME Bad # {} PROVE FALSE
  OBVIOUS
<1>1. PICK U \in Bad : \A V \in SUBSET U : V # U => V \notin Bad
  <2>1. Bad \in SUBSET (SUBSET S)
    OBVIOUS
  <2> HIDE DEF Bad
  <2> QED BY <2>1, MinimalOf
<1>2. IsFiniteSet(U)
  BY FS_Subset
<1>3. U # {}
  <2>1. SumFunctionOnSet(f, {}) = 0
    BY SumUnfolds, FS_EmptySet
  <2> QED BY <2>1
<1>4. Pick(U) \in U /\ SumFunctionOnSet(f, U) = f[Pick(U)] + SumFunctionOnSet(f, U \ {Pick(U)})
  BY <1>2, <1>3, SumUnfolds, PickOf
<1>5. SumFunctionOnSet(f, U \ {Pick(U)}) \in Int
  BY <1>1, <1>4
<1> QED BY <1>4, <1>5

\* Any element may be added last.
LEMMA SumRemove ==
  ASSUME NEW S, IsFiniteSet(S), NEW f, \A x \in S : f[x] \in Int
  PROVE  \A U \in SUBSET S : \A y \in U :
           SumFunctionOnSet(f, U) = f[y] + SumFunctionOnSet(f, U \ {y})
<1> DEFINE Sum(U) == SumFunctionOnSet(f, U)
           Holds(U) == \A y \in U : Sum(U) = f[y] + Sum(U \ {y})
           Bad == {U \in SUBSET S : ~Holds(U)}
<1>1. \A V \in SUBSET S : Sum(V) \in Int
  BY SumType
<1>u. \A V \in SUBSET S : V # {} => Pick(V) \in V /\ Sum(V) = f[Pick(V)] + Sum(V \ {Pick(V)})
  BY FS_Subset, SumUnfolds, PickOf
<1> HIDE DEF Sum
<1>2. ASSUME NEW U \in SUBSET S, \A V \in SUBSET U : V # U => Holds(V), NEW y \in U
      PROVE  Sum(U) = f[y] + Sum(U \ {y})
  <2>1. PICK x \in U : Sum(U) = f[x] + Sum(U \ {x})
    BY <1>u
  <2>2. CASE x = y
    BY <2>1, <2>2
  <2>3. CASE x # y
    <3>1. Holds(U \ {x}) /\ Holds(U \ {y})
      BY <1>2
    <3>2. Sum(U \ {x}) = f[y] + Sum((U \ {x}) \ {y})
      BY <2>3, <3>1
    <3>3. Sum(U \ {y}) = f[x] + Sum((U \ {y}) \ {x})
      BY <2>3, <3>1
    <3>4. (U \ {x}) \ {y} = (U \ {y}) \ {x} /\ (U \ {x}) \ {y} \in SUBSET S
      OBVIOUS
    <3>5. Sum((U \ {x}) \ {y}) \in Int
      BY <1>1, <3>4
    <3>6. f[x] \in Int /\ f[y] \in Int
      OBVIOUS
    <3>7. \A i, j, k \in Int : i + (j + k) = j + (i + k)
      OBVIOUS
    <3>8. f[x] + (f[y] + Sum((U \ {x}) \ {y})) = f[y] + (f[x] + Sum((U \ {x}) \ {y}))
      BY <3>5, <3>6, <3>7
    <3> QED BY <2>1, <3>2, <3>3, <3>4, <3>8
  <2> QED BY <2>2, <2>3
<1>3. Bad = {}
  <2> SUFFICES ASSUME Bad # {} PROVE FALSE
    OBVIOUS
  <2>1. PICK U \in Bad : \A V \in SUBSET U : V # U => V \notin Bad
    <3>1. Bad \in SUBSET (SUBSET S)
      OBVIOUS
    <3> HIDE DEF Bad
    <3> QED BY <3>1, MinimalOf
  <2>2. U \in SUBSET S /\ ~Holds(U) /\ \A V \in SUBSET U : V # U => Holds(V)
    <3> HIDE DEF Holds
    <3> QED BY <2>1
  <2> QED BY <1>2, <2>2
<1> QED BY <1>3 DEF Sum

\* The sum over two disjoint sets.
LEMMA SumUnion ==
  ASSUME NEW S, IsFiniteSet(S), NEW f, \A x \in S : f[x] \in Int,
         NEW A \in SUBSET S, NEW B \in SUBSET S, A \cap B = {}
  PROVE  SumFunctionOnSet(f, A \cup B) = SumFunctionOnSet(f, A) + SumFunctionOnSet(f, B)
<1> DEFINE Sum(U) == SumFunctionOnSet(f, U)
           Bad == {U \in SUBSET B : Sum(A \cup U) # Sum(A) + Sum(U)}
<1>0. \A U \in SUBSET S : /\ Sum(U) \in Int
                          /\ \A y \in U : Sum(U) = f[y] + Sum(U \ {y})
  BY SumType, SumRemove
<1>e. Sum({}) = 0
  BY SumUnfolds, FS_EmptySet
<1> SUFFICES ASSUME Bad # {} PROVE FALSE
  OBVIOUS
<1> HIDE DEF Sum
<1>1. PICK U \in Bad : \A V \in SUBSET U : V # U => V \notin Bad
  <2>1. Bad \in SUBSET (SUBSET S)
    OBVIOUS
  <2> HIDE DEF Bad
  <2> QED BY <2>1, MinimalOf
<1>2. U # {}
  <2>1. Sum(A \cup {}) = Sum(A) + Sum({})
    BY <1>0, <1>e
  <2> QED BY <2>1
<1>3. PICK y \in U : TRUE
  BY <1>2
<1>4. (A \cup U) \ {y} = A \cup (U \ {y})
  OBVIOUS
<1>5. Sum(A \cup (U \ {y})) = Sum(A) + Sum(U \ {y})
  BY <1>1
<1>6. Sum(A \cup U) = f[y] + Sum(A \cup (U \ {y})) /\ Sum(U) = f[y] + Sum(U \ {y})
  BY <1>0, <1>4
<1>7. Sum(A) \in Int /\ Sum(U \ {y}) \in Int /\ f[y] \in Int
  BY <1>0
<1> QED BY <1>5, <1>6, <1>7

\* A sum is the sum of the sums over its parts: of the elements of S that
\* have label m, for each label.
LEMMA SumByLabel ==
  ASSUME NEW S, IsFiniteSet(S), NEW f, \A x \in S : f[x] \in Int,
         NEW M, IsFiniteSet(M), NEW label \in [S -> M], NEW part,
         \A m \in M : part[m] = SumFunctionOnSet(f, {x \in S : label[x] = m})
  PROVE  SumFunctionOnSet(part, M) = SumFunctionOnSet(f, S)
<1> DEFINE Sum(U) == SumFunctionOnSet(f, U)
           Parts(N) == SumFunctionOnSet(part, N)
           Labelled(N) == {x \in S : label[x] \in N}
           Bad == {N \in SUBSET M : Parts(N) # Sum(Labelled(N))}
<1>1. \A m \in M : part[m] \in Int
  <2> TAKE m \in M
  <2>1. {x \in S : label[x] = m} \in SUBSET S
    OBVIOUS
  <2>2. SumFunctionOnSet(f, {x \in S : label[x] = m}) \in Int
    BY <2>1, SumType
  <2> QED BY <2>2
<1>2. \A N \in SUBSET M : /\ Parts(N) \in Int
                          /\ \A m \in N : Parts(N) = part[m] + Parts(N \ {m})
  BY <1>1, SumType, SumRemove
<1>3. \A A, B \in SUBSET S : A \cap B = {} => Sum(A \cup B) = Sum(A) + Sum(B)
  BY SumUnion
<1>4. Sum({}) = 0 /\ Parts({}) = 0
  BY SumUnfolds, FS_EmptySet
<1>5. \A m \in M : part[m] = Sum({x \in S : label[x] = m})
  OBVIOUS
<1>6. \A U \in SUBSET S : Sum(U) \in Int
  BY SumType
<1> HIDE DEF Sum, Parts
<1>7. Bad = {}
  <2> SUFFICES ASSUME Bad # {} PROVE FALSE
    OBVIOUS
  <2>1. PICK N \in Bad : \A V \in SUBSET N : V # N => V \notin Bad
    <3>1. Bad \in SUBSET (SUBSET M)
      OBVIOUS
    <3> HIDE DEF Bad
    <3> QED BY <3>1, MinimalOf
  <2>2. N # {}
    <3>1. Labelled({}) = {}
      OBVIOUS
    <3> QED BY <1>4, <3>1
  <2>3. PICK m \in N : TRUE
    BY <2>2
  <2>4. Labelled(N) = {x \in S : label[x] = m} \cup Labelled(N \ {m})
    OBVIOUS
  <2>5. {x \in S : label[x] = m} \cap Labelled(N \ {m}) = {}
    OBVIOUS
  <2>6. Sum(Labelled(N)) = part[m] + Sum(Labelled(N \ {m}))
    <3>1. {x \in S : label[x] = m} \in SUBSET S /\ Labelled(N \ {m}) \in SUBSET S
      OBVIOUS
    <3>2. part[m] = Sum({x \in S : label[x] = m})
      BY <1>5
    <3> HIDE DEF Labelled
    <3> QED BY <1>3, <2>4, <2>5, <3>1, <3>2
  <2>7. Parts(N \ {m}) = Sum(Labelled(N \ {m}))
    BY <2>1
  <2> QED BY <1>2, <2>6, <2>7
<1>8. Labelled(M) = S
  OBVIOUS
<1>9. Parts(M) = Sum(S)
  BY <1>7, <1>8
<1> QED BY <1>9 DEF Sum, Parts

-----------------------------------------------------------------------------
(* The reports.                                                            *)

\* Every row has a cost, a saved model, and a time on the clock.
LEMMA RowsAreReal ==
  ASSUME ChainInv, LedgerInv
  PROVE  /\ IsFiniteSet(ledger)
         /\ \A r \in ledger : r.cost \in Nat /\ r.model \in saved /\ r.created_at \in 0..MaxTime
<1> SUFFICES ASSUME NEW r \in ledger
             PROVE  r.cost \in Nat /\ r.model \in saved /\ r.created_at \in 0..MaxTime
  BY DEF LedgerInv
<1>1. PICK c \in Calls : c = r.call
  BY DEF LedgerInv
<1>2. r \in LedgerRows(c) /\ RowsOfCall(c)
  BY <1>1 DEF LedgerRows, LedgerInv
<1>3. PICK at \in 0..MaxTime : r = Row(c, at) /\ call[c].answer.model \in saved
  BY <1>2 DEF RowsOfCall
<1>4. call[c].answer.cost \in Nat
  BY DEF ChainInv, Typed, CallState, AnswerOf
<1>5. Stored(call[c].answer.cost) \in Nat
  BY <1>4, StoredClose
<1> QED BY <1>3, <1>5 DEF Row

\* The breakdown of a window adds up to the window's total.
LEMMA BreakdownAddsUp ==
  ASSUME ChainInv, LedgerInv, NEW p, NEW from, NEW to
  PROVE  AITotalCost(p, from, to).value = ByModelValue(p, from, to)
<1> DEFINE S == RowsOf(p, from, to)
           M == {r.model : r \in S}
           label == [r \in S |-> r.model]
           part == [m \in M |-> SumFunctionOnSet(Costs, {r \in S : r.model = m})]
<1>1. S \subseteq ledger /\ IsFiniteSet(S)
  <2>1. S \subseteq ledger
    BY DEF RowsOf
  <2> QED BY <2>1, RowsAreReal, FS_Subset
<1>2. M \cap saved = M
  BY <1>1, RowsAreReal
<1>3. \A r \in S : Costs[r] \in Int
  BY <1>1, RowsAreReal DEF Costs
<1>4. ByModelValue(p, from, to) = SumFunctionOnSet(part, M)
  <2> DEFINE byModel == AICostByModel(p, from, to)
  <2>1. byModel = [m \in M |-> [cost_usd |-> SumFunctionOnSet(Costs, {r \in S : r.model = m}),
                                completion_calls |-> Cardinality({r \in S : r.model = m})]]
    BY <1>2 DEF AICostByModel
  <2>2. [m \in DOMAIN byModel |-> byModel[m].cost_usd] = part
    BY <2>1
  <2>3. DOMAIN part = M
    OBVIOUS
  <2> HIDE DEF part
  <2> QED BY <2>2, <2>3 DEF ByModelValue, SumFunction
<1>5. AITotalCost(p, from, to).value = SumFunctionOnSet(Costs, S)
  BY DEF AITotalCost
<1>6. label \in [S -> M] /\ IsFiniteSet(M)
  <2>1. label \in Surjection(S, M)
    BY DEF Surjection
  <2> QED BY <1>1, <2>1, FS_Surjection
<1>7. \A m \in M : {r \in S : label[r] = m} = {r \in S : r.model = m}
  OBVIOUS
<1>8. \A m \in M : part[m] = SumFunctionOnSet(Costs, {r \in S : label[r] = m})
  <2> TAKE m \in M
  <2>1. part[m] = SumFunctionOnSet(Costs, {r \in S : r.model = m})
    OBVIOUS
  <2> QED BY <1>7, <2>1
<1> HIDE DEF S, M, label, part
<1> QED BY <1>1, <1>3, <1>4, <1>5, <1>6, <1>8, SumByLabel

\* A project's ledger is its window from the first moment to the last.
LEMMA WholeWindow ==
  ASSUME ChainInv, LedgerInv, NEW p
  PROVE  TotalCost(p) = AITotalCost(p, 0, MaxTime).value
<1>1. {r \in ledger : r.project = p} = RowsOf(p, 0, MaxTime)
  BY RowsAreReal, RouterAssumption DEF RowsOf
<1> QED BY <1>1 DEF TotalCost, AITotalCost

\* A window splits at any moment into two that share no row.
LEMMA WindowsAddUp ==
  ASSUME ChainInv, LedgerInv, NEW p, NEW t \in 1..MaxTime
  PROVE  AITotalCost(p, 0, t - 1).value + AITotalCost(p, t, MaxTime).value = TotalCost(p)
<1> DEFINE A == RowsOf(p, 0, t - 1)
           B == RowsOf(p, t, MaxTime)
<1>1. A \subseteq ledger /\ B \subseteq ledger
  BY DEF RowsOf
<1>2. A \cap B = {} /\ A \cup B = {r \in ledger : r.project = p}
  BY RowsAreReal, RouterAssumption DEF RowsOf
<1>3. IsFiniteSet(ledger) /\ \A r \in ledger : Costs[r] \in Int
  BY RowsAreReal DEF Costs
<1>4. AITotalCost(p, 0, t - 1).value = SumFunctionOnSet(Costs, A)
      /\ AITotalCost(p, t, MaxTime).value = SumFunctionOnSet(Costs, B)
  BY DEF AITotalCost
<1>5. TotalCost(p) = SumFunctionOnSet(Costs, A \cup B)
  BY <1>2 DEF TotalCost
<1> HIDE DEF A, B
<1> QED BY <1>1, <1>2, <1>3, <1>4, <1>5, SumUnion

\* The three reports of a project's cost agree, for any window, at any
\* moment, over any ledger the calls can have left.
THEOREM ReportsAlwaysAgree == Spec => []ReportsAgree
<1>1. ChainInv /\ LedgerInv => ReportsAgree
  BY BreakdownAddsUp, WholeWindow, WindowsAddUp DEF ReportsAgree
<1> QED BY <1>1, LedgerAlways, PTL
===============================================================================
