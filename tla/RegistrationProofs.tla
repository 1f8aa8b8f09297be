-------------------------- MODULE RegistrationProofs --------------------------
(***************************************************************************)
(* Two components for every value of their constants.  First dependency    *)
(* graph validation: Kahn's loop keeps resolved closed under dependencies  *)
(* and free of cycles, so an empty remaining set means there is none, and  *)
(* a remaining set without a ready stage is one in which every stage       *)
(* depends on another of the set, which is a cycle.  Then the safety       *)
(* properties of Registration, which persists what it accepts, and its     *)
(* refinement, for every set of callers, keys, versions and payloads.      *)
(***************************************************************************)
EXTENDS Registration, TLAPS

-----------------------------------------------------------------------------
(* Dependency graph validation.                                            *)

\* The stages of the levels of l below the n-th.
Below(l, n) == UNION {l[m] : m \in 1..(n - 1)}

GraphTypes ==
  /\ payload \in Seq(StageDefinition)
  /\ remaining \subseteq Names /\ resolved \subseteq Names
  /\ levels \in Seq(SUBSET Names)

\* What the loop keeps of the sets.
SetsInv ==
  /\ resolved = Below(levels, Len(levels) + 1)
  /\ remaining \cap resolved = {}
  /\ \A s \in resolved : DependsOn(payload, s) \subseteq resolved
  /\ \A S \in SUBSET resolved : S # {} => \E s \in S : DependsOn(payload, s) \cap S = {}

\* What it keeps of the levels: none could have come earlier.
LevelsInv ==
  /\ \A n \in 1..Len(levels) : \A s \in levels[n] :
       /\ DependsOn(payload, s) \subseteq Below(levels, n)
       /\ n > 1 => DependsOn(payload, s) \cap levels[n - 1] # {}
  /\ Len(levels) > 0 =>
       \A s \in remaining : ~(DependsOn(payload, s) \subseteq Below(levels, Len(levels)))

VerdictInv ==
  /\ verdict \in {"checking", "accepted", "cycle"} =>
       /\ UniqueIds(payload) /\ RealReferences(payload)
       /\ StageIds(payload) = remaining \cup resolved
  /\ verdict = "accepted" => remaining = {}
  /\ verdict = "cycle" => remaining # {} /\ Ready = {}

GraphInv == GraphTypes /\ SetsInv /\ LevelsInv /\ VerdictInv

\* Every dependency of a payload with real references is a stage of it.
LEMMA DependenciesAreStages ==
  ASSUME NEW d \in Seq(StageDefinition), RealReferences(d), NEW s
  PROVE  DependsOn(d, s) \subseteq StageIds(d)
BY DEF DependsOn, RealReferences

LEMMA IdsAreNames ==
  ASSUME NEW d \in Seq(StageDefinition)
  PROVE  StageIds(d) \subseteq Names
<1>1. ASSUME NEW i \in DOMAIN d
      PROVE  d[i].id \in Names
  <2>1. d[i] \in StageDefinition
    BY <1>1
  <2> QED
    BY <2>1 DEF StageDefinition
<1> QED
  BY <1>1 DEF StageIds

LEMMA GraphInitInv == GraphInit => GraphInv
<1> SUFFICES ASSUME GraphInit PROVE GraphInv
  OBVIOUS
<1> USE DEF GraphInit
<1>1. GraphTypes
  BY DEF GraphTypes
<1>2. SetsInv
  BY DEF SetsInv, Below
<1>3. LevelsInv /\ VerdictInv
  BY DEF LevelsInv, VerdictInv
<1> QED
  BY <1>1, <1>2, <1>3 DEF GraphInv

LEMMA ValidateInv ==
  ASSUME NEW d \in Payloads, Validate(d)
  PROVE  GraphInv'
<1>0. d \in Seq(StageDefinition)
  BY PayloadAssumption
<1>1. GraphTypes'
  <2>1. StageIds(d) \subseteq Names
    BY <1>0, IdsAreNames
  <2>2. << >> \in Seq(SUBSET Names)
    OBVIOUS
  <2> QED
    BY <1>0, <2>1, <2>2 DEF Validate, GraphTypes
<1>2. SetsInv'
  <2>0. levels' = << >>
    BY DEF Validate
  <2>1. Len(levels') + 1 = 1 /\ 1..(1 - 1) = {}
    BY <2>0
  <2>2. Below(levels', Len(levels') + 1) = {}
    BY <2>1 DEF Below
  <2> QED
    BY <2>2 DEF Validate, SetsInv
<1>3. LevelsInv'
  <2>0. levels' = << >>
    BY DEF Validate
  <2>1. Len(levels') = 0 /\ 1..0 = {}
    BY <2>0
  <2> QED
    BY <2>1 DEF LevelsInv
<1>4. VerdictInv'
  <2>1. CASE verdict' = "checking" /\ UniqueIds(d) /\ RealReferences(d)
    BY <2>1 DEF Validate, VerdictInv
  <2>2. CASE verdict' = "duplicate stage id" \/ verdict' = "unknown stage"
    BY <2>2 DEF VerdictInv
  <2> QED
    BY <2>1, <2>2, Zenon DEF Validate
<1> QED
  BY <1>1, <1>2, <1>3, <1>4 DEF GraphInv

LEMMA NextLevelInv ==
  ASSUME GraphInv, NextLevel
  PROVE  GraphInv'
<1> USE DEF GraphInv
<1> DEFINE n == Len(levels)
           stages == Ready
<1>1. /\ n \in Nat
      /\ Len(levels') = n + 1
      /\ levels'[n + 1] = stages
      /\ \A m \in 1..n : levels'[m] = levels[m]
      /\ stages \subseteq remaining
      /\ levels' \in Seq(SUBSET Names)
  BY DEF NextLevel, GraphTypes, Ready
<1>2. \A m \in 1..(n + 1) : Below(levels', m) = Below(levels, m)
  <2> SUFFICES ASSUME NEW m \in 1..(n + 1) PROVE Below(levels', m) = Below(levels, m)
    OBVIOUS
  <2>1. \A i \in 1..(m - 1) : i \in 1..n
    BY <1>1
  <2>2. {levels'[i] : i \in 1..(m - 1)} = {levels[i] : i \in 1..(m - 1)}
    BY <1>1, <2>1
  <2> QED
    BY <2>2 DEF Below
<1>3. Below(levels', n + 2) = resolved \cup stages
  <2>1. resolved = UNION {levels[i] : i \in 1..n}
    BY <1>1 DEF SetsInv, Below
  <2>2. Below(levels', n + 2) = UNION {levels'[i] : i \in 1..(n + 1)}
    BY <1>1 DEF Below
  <2>3. {levels'[i] : i \in 1..(n + 1)} = {levels[i] : i \in 1..n} \cup {stages}
    BY <1>1
  <2> QED
    BY <2>1, <2>2, <2>3
<1>4. GraphTypes'
  BY <1>1 DEF NextLevel, GraphTypes
<1>5. SetsInv'
  <2>1. (resolved = Below(levels, Len(levels) + 1))'
    <3>1. (Len(levels) + 1)' = n + 2
      BY <1>1
    <3> QED
      BY <1>3, <3>1 DEF NextLevel
  <2>2. (remaining \cap resolved = {})'
    BY DEF NextLevel, SetsInv
  <2>3. ASSUME NEW s \in resolved'
        PROVE  DependsOn(payload', s) \subseteq resolved
    BY DEF NextLevel, SetsInv, Ready
  <2>4. ASSUME NEW S \in SUBSET (resolved'), S # {}
        PROVE  \E s \in S : DependsOn(payload', s) \cap S = {}
    <3>1. CASE S \cap resolved # {}
      <4>1. PICK s \in S \cap resolved : DependsOn(payload, s) \cap (S \cap resolved) = {}
        BY <3>1 DEF SetsInv
      <4>2. DependsOn(payload, s) \subseteq resolved
        BY DEF SetsInv
      <4> QED
        BY <4>1, <4>2 DEF NextLevel
    <3>2. CASE S \cap resolved = {}
      <4>1. PICK s \in S : TRUE
        BY <2>4
      <4>2. DependsOn(payload, s) \subseteq resolved
        BY <3>2, <4>1 DEF NextLevel, Ready
      <4> QED
        BY <3>2, <4>1, <4>2 DEF NextLevel
    <3> QED
      BY <3>1, <3>2
  <2>5. resolved \subseteq resolved'
    BY DEF NextLevel
  <2> QED
    BY <2>1, <2>2, <2>3, <2>4, <2>5 DEF SetsInv
<1>6. LevelsInv'
  <2>1. ASSUME NEW m \in 1..(n + 1), NEW s \in levels'[m]
        PROVE  /\ DependsOn(payload', s) \subseteq Below(levels', m)
               /\ m > 1 => DependsOn(payload', s) \cap levels'[m - 1] # {}
    <3>1. CASE m \in 1..n
      <4>1. s \in levels[m] /\ (m > 1 => levels'[m - 1] = levels[m - 1])
        BY <1>1, <3>1
      <4> QED
        BY <1>2, <3>1, <4>1 DEF NextLevel, LevelsInv
    <3>2. CASE m = n + 1
      <4>1. s \in remaining /\ DependsOn(payload, s) \subseteq resolved
        BY <1>1, <3>2 DEF Ready
      <4>2. resolved = Below(levels, n + 1)
        BY DEF SetsInv
      <4>3. DependsOn(payload', s) \subseteq Below(levels', m)
        BY <1>1, <1>2, <3>2, <4>1, <4>2 DEF NextLevel
      <4>4. ASSUME m > 1
            PROVE  DependsOn(payload, s) \cap levels[n] # {}
        <5>1. n > 0
          BY <1>1, <3>2, <4>4
        <5>2. ~(DependsOn(payload, s) \subseteq Below(levels, n))
          BY <4>1, <5>1 DEF LevelsInv
        <5>3. Below(levels, n + 1) = Below(levels, n) \cup levels[n]
          <6>1. {levels[i] : i \in 1..n} = {levels[i] : i \in 1..(n - 1)} \cup {levels[n]}
            BY <1>1, <5>1
          <6> QED
            BY <1>1, <6>1 DEF Below
        <5> QED
          BY <4>1, <4>2, <5>2, <5>3
      <4>5. m > 1 => levels'[m - 1] = levels[n]
        BY <1>1, <3>2
      <4> QED
        BY <4>3, <4>4, <4>5 DEF NextLevel
    <3> QED
      BY <1>1, <3>1, <3>2
  <2>2. ASSUME NEW s \in remaining'
        PROVE  ~(DependsOn(payload', s) \subseteq Below(levels', n + 1))
    <3>1. s \in remaining /\ s \notin Ready
      BY DEF NextLevel
    <3>2. Below(levels', n + 1) = resolved
      BY <1>1, <1>2 DEF SetsInv
    <3> QED
      BY <3>1, <3>2 DEF NextLevel, Ready
  <2> QED
    BY <1>1, <2>1, <2>2 DEF LevelsInv
<1>7. VerdictInv'
  BY <1>1 DEF NextLevel, VerdictInv
<1> QED
  BY <1>4, <1>5, <1>6, <1>7

\* A step that leaves the loop's locals alone.
LEMMA LocalsKeptInv ==
  ASSUME GraphInv, UNCHANGED <<payload, remaining, resolved, levels>>, VerdictInv'
  PROVE  GraphInv'
BY DEF GraphInv, GraphTypes, SetsInv, LevelsInv, Below

LEMMA GraphNextInv ==
  ASSUME GraphInv, GraphNext
  PROVE  GraphInv'
<1>1. CASE \E d \in Payloads : Validate(d)
  BY <1>1, ValidateInv
<1>2. CASE NextLevel
  BY <1>2, NextLevelInv
<1>3. CASE FindCycle
  <2>1. VerdictInv'
    BY <1>3 DEF FindCycle, GraphInv, VerdictInv, Ready
  <2> QED
    BY <1>3, <2>1, LocalsKeptInv DEF FindCycle
<1>4. CASE Accept
  <2>1. VerdictInv'
    BY <1>4 DEF Accept, GraphInv, VerdictInv, Ready
  <2> QED
    BY <1>4, <2>1, LocalsKeptInv DEF Accept
<1> QED
  BY <1>1, <1>2, <1>3, <1>4 DEF GraphNext, Checking

LEMMA GraphInvImplies == GraphInv => ValidationIsRight
<1> SUFFICES ASSUME GraphInv PROVE ValidationIsRight
  OBVIOUS
<1> USE DEF GraphInv
<1>1. Len(levels) \in Nat /\ DOMAIN levels = 1..Len(levels)
  BY DEF GraphTypes
<1>2. ASSUME verdict = "accepted"
      PROVE  Executable(payload) /\ StageIds(payload) = UNION {levels[n] : n \in DOMAIN levels}
  <2>1. StageIds(payload) = resolved
    BY <1>2 DEF VerdictInv
  <2>2. resolved = UNION {levels[n] : n \in DOMAIN levels}
    BY <1>1 DEF SetsInv, Below
  <2>3. Acyclic(payload)
    BY <2>1 DEF SetsInv, Acyclic
  <2> QED
    BY <1>2, <2>1, <2>2, <2>3 DEF VerdictInv, Executable
<1>3. ASSUME verdict = "cycle"
      PROVE  ~Acyclic(payload)
  <2>1. remaining \in SUBSET StageIds(payload) /\ remaining # {}
    BY <1>3 DEF VerdictInv
  <2>2. ASSUME NEW s \in remaining
        PROVE  DependsOn(payload, s) \cap remaining # {}
    <3>1. ~(DependsOn(payload, s) \subseteq resolved)
      BY <1>3 DEF VerdictInv, Ready
    <3>2. DependsOn(payload, s) \subseteq remaining \cup resolved
      BY <1>3, DependenciesAreStages DEF VerdictInv, GraphTypes
    <3> QED
      BY <3>1, <3>2
  <2> QED
    BY <2>1, <2>2 DEF Acyclic
<1>4. \A n \in DOMAIN levels : \A s \in levels[n] :
        /\ DependsOn(payload, s) \subseteq UNION {levels[m] : m \in 1..(n - 1)}
        /\ n > 1 => DependsOn(payload, s) \cap levels[n - 1] # {}
  BY <1>1 DEF LevelsInv, Below
<1> QED
  BY <1>2, <1>3, <1>4 DEF ValidationIsRight

\* For every payload: the validators accept exactly the definitions the
\* executor can run, and the levels are in order (definition.py,
\* dependency_graph.py).
THEOREM GraphValidation == GraphSpec => []ValidationIsRight
<1>1. GraphInv /\ [GraphNext]_graphVars => GraphInv'
  <2>1. CASE GraphNext
    BY <2>1, GraphNextInv
  <2>2. CASE UNCHANGED graphVars
    BY <2>2, LocalsKeptInv DEF graphVars, GraphInv, VerdictInv, Ready
  <2> QED
    BY <2>1, <2>2
<1> QED
  BY <1>1, GraphInitInv, GraphInvImplies, PTL DEF GraphSpec

-----------------------------------------------------------------------------
(* Registration.                                                           *)

Pcs == {"idle", "find workflow", "insert workflow", "find version",
        "insert version", "insert stages", "commit"}
Replies == {"none", "created", "already registered", "error"}
Accepted == {e \in Payloads : Executable(e)}

Types ==
  /\ workflowRow \in [Keys -> Sessions \cup {Absent, Committed}]
  /\ versionRow \in [Slots -> Sessions \cup {Absent, Committed}]
  /\ DOMAIN graphSpec = Slots /\ graphSpec = [s \in Slots |-> graphSpec[s]]
  /\ DOMAIN stageRows = Slots /\ stageRows = [s \in Slots |-> stageRows[s]]
  /\ pc \in [Sessions -> Pcs]
  /\ slot \in [Sessions -> Slots]
  /\ DOMAIN definition = Sessions /\ definition = [p \in Sessions |-> definition[p]]
  /\ reply \in [Sessions -> Replies]

\* Whose the uncommitted rows are.
Owners ==
  /\ \A k \in Keys : workflowRow[k] \in Sessions =>
       /\ KeyOf(slot[workflowRow[k]]) = k
       /\ pc[workflowRow[k]] \in {"find version", "insert version", "insert stages", "commit"}
  /\ \A s \in Slots : versionRow[s] \in Sessions =>
       /\ slot[versionRow[s]] = s
       /\ pc[versionRow[s]] \in {"insert stages", "commit"}

\* What a session has done by the time it is at a statement.
Progress ==
  \A p \in Sessions :
    /\ pc[p] # "idle" => definition[p] \in Accepted
    /\ pc[p] \in {"find version", "insert version", "insert stages", "commit"} =>
         workflowRow[KeyOf(slot[p])] \in {p, Committed}
    /\ pc[p] \in {"insert stages", "commit"} =>
         versionRow[slot[p]] = p /\ graphSpec[slot[p]] = definition[p]
    /\ pc[p] = "commit" => stageRows[slot[p]] = PlanOf(definition[p])

\* What is committed is whole.
Whole ==
  \A s \in Slots : versionRow[s] = Committed =>
    /\ workflowRow[KeyOf(s)] = Committed
    /\ stageRows[s] = PlanOf(graphSpec[s])

Told ==
  \A p \in Sessions :
    /\ reply[p] \in {"created", "already registered"} => versionRow[slot[p]] = Committed
    /\ reply[p] = "error" => workflowRow[KeyOf(slot[p])] = Committed

Sent == verdict \in {"checking", "accepted", "cycle"} => payload \in Payloads

IndInv == GraphInv /\ Types /\ Owners /\ Progress /\ Whole /\ Told /\ Sent

LEMMA SlotKeys == \A s \in Slots : KeyOf(s) \in Keys
BY DEF Slots, KeyOf

LEMMA InitInv == Init => IndInv
<1> SUFFICES ASSUME Init PROVE IndInv
  OBVIOUS
<1>1. GraphInv
  BY GraphInitInv DEF Init
<1>2. (CHOOSE s \in Slots : TRUE) \in Slots
  BY SessionAssumption
<1>3. Types
  BY <1>2 DEF Init, Types, Pcs, Replies
<1>4. Owners /\ Progress /\ Whole /\ Told
  BY <1>2, SlotKeys, SessionAssumption DEF Init, Owners, Progress, Whole, Told
<1>5. Sent
  BY DEF Init, GraphInit, Sent
<1> QED
  BY <1>1, <1>3, <1>4, <1>5 DEF IndInv

-----------------------------------------------------------------------------
(* One lemma per step.                                                     *)

LEMMA GraphKept ==
  ASSUME IndInv, UNCHANGED graphVars
  PROVE  GraphInv' /\ Sent'
<1>1. VerdictInv'
  BY DEF IndInv, GraphInv, VerdictInv, graphVars, Ready
<1> QED
  BY <1>1, LocalsKeptInv DEF IndInv, Sent, graphVars

LEMMA ValidationStep ==
  ASSUME IndInv, GraphNext, UNCHANGED <<tables, callers>>
  PROVE  IndInv'
<1>1. GraphInv'
  BY GraphNextInv DEF IndInv
<1>2. Sent'
  <2>1. CASE \E d \in Payloads : Validate(d)
    BY <2>1 DEF Validate, Sent
  <2>2. CASE Checking
    BY <2>2 DEF Checking, NextLevel, FindCycle, Accept, IndInv, Sent
  <2> QED
    BY <2>1, <2>2 DEF GraphNext
<1>3. Types' /\ Owners' /\ Progress' /\ Whole' /\ Told'
  BY DEF IndInv, Types, Owners, Progress, Whole, Told, tables, callers
<1> QED
  BY <1>1, <1>2, <1>3 DEF IndInv

LEMMA RegisterStep ==
  ASSUME IndInv, NEW p \in Sessions, NEW s \in Slots, Register(p, s)
  PROVE  IndInv'
<1> USE DEF IndInv
<1>1. payload \in Accepted
  BY GraphInvImplies DEF Register, Sent, ValidationIsRight, Accepted
<1>2. GraphInv' /\ Sent'
  <2>1. GraphTypes' /\ SetsInv' /\ LevelsInv'
    <3>1. payload' = << >> /\ remaining' = {} /\ resolved' = {} /\ levels' = << >>
      BY DEF Register
    <3>2. Len(levels') = 0 /\ Len(levels') + 1 = 1 /\ 1..(1 - 1) = {} /\ 1..0 = {}
      BY <3>1
    <3>3. Below(levels', Len(levels') + 1) = {}
      BY <3>2 DEF Below
    <3> QED
      BY <3>1, <3>2, <3>3 DEF GraphTypes, SetsInv, LevelsInv
  <2>2. VerdictInv' /\ Sent'
    BY DEF Register, VerdictInv, Sent
  <2> QED
    BY <2>1, <2>2 DEF GraphInv
<1>3. Types'
  BY DEF Register, Types, tables, Pcs, Replies
<1>4. Owners'
  BY DEF Register, Types, Owners, tables
<1>5. Progress'
  BY <1>1 DEF Register, Types, Progress, tables
<1>6. Whole' /\ Told'
  BY DEF Register, Types, Whole, Told, tables
<1> QED
  BY <1>2, <1>3, <1>4, <1>5, <1>6

LEMMA FindWorkflowStep ==
  ASSUME IndInv, NEW p \in Sessions, FindWorkflow(p)
  PROVE  IndInv'
<1> USE DEF IndInv
<1>1. GraphInv' /\ Sent'
  BY GraphKept DEF FindWorkflow, Continue
<1>2. pc' \in [Sessions -> Pcs] /\ pc'[p] \in {"find version", "insert workflow"}
      /\ \A q \in Sessions \ {p} : pc'[q] = pc[q]
  BY DEF FindWorkflow, Continue, Types, Pcs
<1>3. pc'[p] = "find version" => workflowRow[KeyOf(slot[p])] \in {p, Committed}
  BY <1>2 DEF FindWorkflow, Continue, Visible, Types
<1>4. Types'
  BY <1>2 DEF FindWorkflow, Continue, Types, tables
<1>5. Owners'
  BY <1>2 DEF FindWorkflow, Continue, Types, Owners, tables
<1>6. Progress'
  BY <1>2, <1>3 DEF FindWorkflow, Continue, Types, Progress, tables
<1>7. Whole' /\ Told'
  BY DEF FindWorkflow, Continue, Whole, Told, tables
<1> QED
  BY <1>1, <1>4, <1>5, <1>6, <1>7

LEMMA InsertWorkflowStep ==
  ASSUME IndInv, NEW p \in Sessions, InsertWorkflow(p)
  PROVE  IndInv'
<1> USE DEF IndInv
<1>1. GraphInv' /\ Sent'
  BY GraphKept DEF InsertWorkflow, Continue
<1>2. slot[p] \in Slots /\ KeyOf(slot[p]) \in Keys /\ workflowRow[KeyOf(slot[p])] = Absent
  BY SlotKeys DEF InsertWorkflow, Types
<1>3. Types'
  BY <1>2 DEF InsertWorkflow, Continue, Types, Pcs
<1>4. Owners'
  BY <1>2 DEF InsertWorkflow, Continue, Types, Owners
<1>5. Progress'
  <2> SUFFICES ASSUME NEW q \in Sessions, pc'[q] # "idle"
               PROVE  /\ definition'[q] \in Accepted
                      /\ pc'[q] \in {"find version", "insert version", "insert stages", "commit"} =>
                           workflowRow'[KeyOf(slot'[q])] \in {q, Committed}
                      /\ pc'[q] \in {"insert stages", "commit"} =>
                           versionRow'[slot'[q]] = q /\ graphSpec'[slot'[q]] = definition'[q]
                      /\ pc'[q] = "commit" => stageRows'[slot'[q]] = PlanOf(definition'[q])
    BY DEF Progress
  <2>1. slot' = slot /\ definition' = definition /\ versionRow' = versionRow
        /\ graphSpec' = graphSpec /\ stageRows' = stageRows
        /\ pc'[p] = "find version" /\ pc[p] = "insert workflow"
        /\ workflowRow'[KeyOf(slot[p])] = p
    BY <1>2 DEF InsertWorkflow, Continue, Types
  <2>2. CASE q = p
    BY <2>1, <2>2 DEF Progress
  <2>3. CASE q # p
    <3>1. pc'[q] = pc[q] /\ slot[q] \in Slots /\ KeyOf(slot[q]) \in Keys
      BY <2>3, SlotKeys DEF InsertWorkflow, Continue, Types
    <3>2. pc[q] \in {"find version", "insert version", "insert stages", "commit"} =>
            workflowRow'[KeyOf(slot[q])] \in {q, Committed}
      <4>1. pc[q] \in {"find version", "insert version", "insert stages", "commit"} =>
              workflowRow[KeyOf(slot[q])] \in {q, Committed}
        BY DEF Progress
      <4>2. Absent \notin {q, Committed}
        BY SessionAssumption
      <4> QED
        BY <1>2, <3>1, <4>1, <4>2 DEF InsertWorkflow, Types
    <3> QED
      BY <2>1, <3>1, <3>2 DEF Progress
  <2> QED
    BY <2>2, <2>3
<1>6. Whole' /\ Told'
  BY <1>2, SlotKeys, SessionAssumption DEF InsertWorkflow, Continue, Types, Whole, Told
<1> QED
  BY <1>1, <1>3, <1>4, <1>5, <1>6

LEMMA FindVersionStep ==
  ASSUME IndInv, NEW p \in Sessions, FindVersion(p)
  PROVE  IndInv'
<1> USE DEF IndInv
<1>1. GraphInv' /\ Sent'
  BY GraphKept DEF FindVersion, Continue
<1>2. Types'
  BY DEF FindVersion, Continue, Types, tables, Pcs
<1>3. Owners'
  BY DEF FindVersion, Continue, Types, Owners, tables
<1>4. Progress'
  BY DEF FindVersion, Continue, Types, Progress, tables
<1>5. Whole' /\ Told'
  BY DEF FindVersion, Continue, Whole, Told, tables
<1> QED
  BY <1>1, <1>2, <1>3, <1>4, <1>5

LEMMA InsertVersionStep ==
  ASSUME IndInv, NEW p \in Sessions, InsertVersion(p)
  PROVE  IndInv'
<1> USE DEF IndInv
<1>1. GraphInv' /\ Sent'
  BY GraphKept DEF InsertVersion, Continue
<1>2. slot[p] \in Slots /\ versionRow[slot[p]] = Absent
  BY DEF InsertVersion, Types
<1>3. Types'
  BY <1>2 DEF InsertVersion, Continue, Types, Pcs
<1>4. Owners'
  BY <1>2 DEF InsertVersion, Continue, Types, Owners
<1>5. Progress'
  <2> SUFFICES ASSUME NEW q \in Sessions, pc'[q] # "idle"
               PROVE  /\ definition'[q] \in Accepted
                      /\ pc'[q] \in {"find version", "insert version", "insert stages", "commit"} =>
                           workflowRow'[KeyOf(slot'[q])] \in {q, Committed}
                      /\ pc'[q] \in {"insert stages", "commit"} =>
                           versionRow'[slot'[q]] = q /\ graphSpec'[slot'[q]] = definition'[q]
                      /\ pc'[q] = "commit" => stageRows'[slot'[q]] = PlanOf(definition'[q])
    BY DEF Progress
  <2>1. slot' = slot /\ definition' = definition /\ workflowRow' = workflowRow
        /\ stageRows' = stageRows
        /\ pc'[p] = "insert stages" /\ pc[p] = "insert version"
        /\ versionRow'[slot[p]] = p /\ graphSpec'[slot[p]] = definition[p]
    BY <1>2 DEF InsertVersion, Continue, Types
  <2>2. CASE q = p
    BY <2>1, <2>2 DEF Progress
  <2>3. CASE q # p
    <3>1. pc'[q] = pc[q] /\ slot[q] \in Slots
      BY <2>3 DEF InsertVersion, Continue, Types
    <3>2. pc[q] \in {"insert stages", "commit"} =>
            versionRow'[slot[q]] = q /\ graphSpec'[slot[q]] = definition[q]
      <4>1. ASSUME pc[q] \in {"insert stages", "commit"}
            PROVE  versionRow[slot[q]] = q /\ graphSpec[slot[q]] = definition[q] /\ slot[q] # slot[p]
        <5>1. versionRow[slot[q]] = q /\ graphSpec[slot[q]] = definition[q]
          BY <4>1 DEF Progress
        <5>2. versionRow[slot[p]] \notin Sessions
          BY <1>2, SessionAssumption
        <5> QED
          BY <5>1, <5>2
      <4> QED
        BY <3>1, <4>1 DEF InsertVersion, Types
    <3> QED
      BY <2>1, <3>1, <3>2 DEF Progress
  <2> QED
    BY <2>2, <2>3
<1>6. Whole' /\ Told'
  BY <1>2, SessionAssumption DEF InsertVersion, Continue, Types, Whole, Told
<1> QED
  BY <1>1, <1>3, <1>4, <1>5, <1>6

LEMMA InsertStagesStep ==
  ASSUME IndInv, NEW p \in Sessions, InsertStages(p)
  PROVE  IndInv'
<1> USE DEF IndInv
<1>1. GraphInv' /\ Sent'
  BY GraphKept DEF InsertStages, Continue
<1>2. slot[p] \in Slots /\ versionRow[slot[p]] = p
  BY DEF InsertStages, Types, Progress
<1>3. stageRows' = [stageRows EXCEPT ![slot[p]] = PlanOf(definition[p])]
  BY DEF InsertStages, PlanOf
<1>4. Types'
  BY <1>2, <1>3 DEF InsertStages, Continue, Types, Pcs
<1>5. Owners'
  BY DEF InsertStages, Continue, Types, Owners
<1>6. Progress'
  <2> SUFFICES ASSUME NEW q \in Sessions, pc'[q] # "idle"
               PROVE  /\ definition'[q] \in Accepted
                      /\ pc'[q] \in {"find version", "insert version", "insert stages", "commit"} =>
                           workflowRow'[KeyOf(slot'[q])] \in {q, Committed}
                      /\ pc'[q] \in {"insert stages", "commit"} =>
                           versionRow'[slot'[q]] = q /\ graphSpec'[slot'[q]] = definition'[q]
                      /\ pc'[q] = "commit" => stageRows'[slot'[q]] = PlanOf(definition'[q])
    BY DEF Progress
  <2>1. slot' = slot /\ definition' = definition /\ workflowRow' = workflowRow
        /\ versionRow' = versionRow /\ graphSpec' = graphSpec
        /\ pc'[p] = "commit" /\ pc[p] = "insert stages"
        /\ stageRows'[slot[p]] = PlanOf(definition[p])
    BY <1>2, <1>3 DEF InsertStages, Continue, Types
  <2>2. CASE q = p
    BY <2>1, <2>2 DEF Progress
  <2>3. CASE q # p
    <3>1. pc'[q] = pc[q] /\ slot[q] \in Slots
      BY <2>3 DEF InsertStages, Continue, Types
    <3>2. pc[q] = "commit" => stageRows'[slot[q]] = PlanOf(definition[q])
      <4>1. ASSUME pc[q] = "commit"
            PROVE  stageRows[slot[q]] = PlanOf(definition[q]) /\ slot[q] # slot[p]
        BY <1>2, <2>3, <4>1 DEF Progress
      <4> QED
        BY <1>3, <3>1, <4>1 DEF Types
    <3> QED
      BY <2>1, <3>1, <3>2 DEF Progress
  <2> QED
    BY <2>2, <2>3
<1>7. Whole'
  <2> SUFFICES ASSUME NEW s \in Slots, versionRow'[s] = Committed
               PROVE  workflowRow'[KeyOf(s)] = Committed /\ stageRows'[s] = PlanOf(graphSpec'[s])
    BY DEF Whole
  <2>1. workflowRow' = workflowRow /\ versionRow' = versionRow /\ graphSpec' = graphSpec
    BY DEF InsertStages
  <2>2. s # slot[p]
    BY <1>2, <2>1, SessionAssumption
  <2>3. stageRows'[s] = stageRows[s]
    BY <1>3, <2>2 DEF Types
  <2> QED
    BY <2>1, <2>3 DEF Whole
<1>8. Told'
  BY DEF InsertStages, Continue, Told
<1> QED
  BY <1>1, <1>4, <1>5, <1>6, <1>7, <1>8

LEMMA RollbackStep ==
  ASSUME IndInv, NEW p \in Sessions, NEW answer \in {"none", "already registered", "error"},
         Rollback(p, answer),
         answer = "already registered" => versionRow[slot[p]] = Committed,
         answer = "error" => workflowRow[KeyOf(slot[p])] = Committed
  PROVE  IndInv'
<1> USE DEF IndInv
<1>1. GraphInv' /\ Sent'
  BY GraphKept DEF Rollback, Finish
<1>2. /\ \A k \in Keys : workflowRow'[k] = IF workflowRow[k] = p THEN Absent ELSE workflowRow[k]
      /\ \A s \in Slots : /\ versionRow'[s] = IF versionRow[s] = p THEN Absent ELSE versionRow[s]
                          /\ versionRow[s] # p => /\ graphSpec'[s] = graphSpec[s]
                                                  /\ stageRows'[s] = stageRows[s]
  BY DEF Rollback
<1>3. /\ slot' = slot /\ pc'[p] = "idle" /\ reply'[p] = answer
      /\ \A q \in Sessions \ {p} : /\ pc'[q] = pc[q]
                                   /\ definition'[q] = definition[q]
                                   /\ reply'[q] = reply[q]
  BY DEF Rollback, Finish, Types
<1>4. Types'
  BY DEF Rollback, Finish, Types, Pcs, Replies
<1>5. Owners'
  <2>1. ASSUME NEW k \in Keys, workflowRow'[k] \in Sessions
        PROVE  /\ KeyOf(slot'[workflowRow'[k]]) = k
               /\ pc'[workflowRow'[k]] \in {"find version", "insert version", "insert stages", "commit"}
    <3>1. workflowRow'[k] = workflowRow[k] /\ workflowRow[k] \in Sessions \ {p}
      BY <1>2, <2>1, SessionAssumption
    <3> QED
      BY <1>3, <3>1 DEF Owners
  <2>2. ASSUME NEW s \in Slots, versionRow'[s] \in Sessions
        PROVE  slot'[versionRow'[s]] = s /\ pc'[versionRow'[s]] \in {"insert stages", "commit"}
    <3>1. versionRow'[s] = versionRow[s] /\ versionRow[s] \in Sessions \ {p}
      BY <1>2, <2>2, SessionAssumption
    <3> QED
      BY <1>3, <3>1 DEF Owners
  <2> QED
    BY <2>1, <2>2 DEF Owners
<1>6. Progress'
  <2> SUFFICES ASSUME NEW q \in Sessions, pc'[q] # "idle"
               PROVE  /\ definition'[q] \in Accepted
                      /\ pc'[q] \in {"find version", "insert version", "insert stages", "commit"} =>
                           workflowRow'[KeyOf(slot'[q])] \in {q, Committed}
                      /\ pc'[q] \in {"insert stages", "commit"} =>
                           versionRow'[slot'[q]] = q /\ graphSpec'[slot'[q]] = definition'[q]
                      /\ pc'[q] = "commit" => stageRows'[slot'[q]] = PlanOf(definition'[q])
    BY DEF Progress
  <2>1. q # p /\ pc'[q] = pc[q] /\ definition'[q] = definition[q] /\ slot'[q] = slot[q]
    BY <1>3
  <2>2. slot[q] \in Slots /\ KeyOf(slot[q]) \in Keys
    BY SlotKeys DEF Types
  <2>3. definition'[q] \in Accepted
    BY <2>1 DEF Progress
  <2>4. pc[q] \in {"find version", "insert version", "insert stages", "commit"} =>
          workflowRow'[KeyOf(slot[q])] \in {q, Committed}
    <3>1. pc[q] \in {"find version", "insert version", "insert stages", "commit"} =>
            workflowRow[KeyOf(slot[q])] \in {q, Committed}
      BY DEF Progress
    <3>2. q # p /\ Committed # p
      BY <2>1, SessionAssumption
    <3> QED
      BY <1>2, <2>2, <3>1, <3>2
  <2>5. pc[q] \in {"insert stages", "commit"} =>
          /\ versionRow'[slot[q]] = q
          /\ graphSpec'[slot[q]] = graphSpec[slot[q]] /\ graphSpec[slot[q]] = definition[q]
    BY <1>2, <2>1, <2>2 DEF Progress
  <2>6. pc[q] = "commit" => stageRows'[slot[q]] = PlanOf(definition[q])
    BY <1>2, <2>1, <2>2 DEF Progress
  <2> QED
    BY <2>1, <2>3, <2>4, <2>5, <2>6
<1>7. Whole'
  <2> SUFFICES ASSUME NEW s \in Slots, versionRow'[s] = Committed
               PROVE  workflowRow'[KeyOf(s)] = Committed /\ stageRows'[s] = PlanOf(graphSpec'[s])
    BY DEF Whole
  <2>1. versionRow[s] = Committed /\ versionRow[s] # p
    BY <1>2, SessionAssumption
  <2>2. workflowRow[KeyOf(s)] = Committed /\ KeyOf(s) \in Keys
    BY <2>1, SlotKeys DEF Whole
  <2>3. workflowRow'[KeyOf(s)] = Committed
    BY <1>2, <2>2, SessionAssumption
  <2> QED
    BY <1>2, <2>1, <2>3 DEF Whole
<1>8. Told'
  <2> SUFFICES ASSUME NEW q \in Sessions
               PROVE  /\ reply'[q] \in {"created", "already registered"} =>
                           versionRow'[slot'[q]] = Committed
                      /\ reply'[q] = "error" => workflowRow'[KeyOf(slot'[q])] = Committed
    BY DEF Told
  <2>1. slot'[q] = slot[q] /\ slot[q] \in Slots /\ KeyOf(slot[q]) \in Keys
    BY <1>3, SlotKeys DEF Types
  <2>2. /\ versionRow[slot[q]] = Committed => versionRow'[slot[q]] = Committed
        /\ workflowRow[KeyOf(slot[q])] = Committed => workflowRow'[KeyOf(slot[q])] = Committed
    BY <1>2, <2>1, SessionAssumption
  <2>3. CASE q = p
    BY <1>2, <1>3, <2>1, <2>2, <2>3
  <2>4. CASE q # p
    BY <1>3, <2>1, <2>2, <2>4 DEF Told
  <2> QED
    BY <2>3, <2>4
<1> QED
  BY <1>1, <1>4, <1>5, <1>6, <1>7, <1>8

LEMMA CommitStep ==
  ASSUME IndInv, NEW p \in Sessions, Commit(p)
  PROVE  IndInv'
<1> USE DEF IndInv
<1>1. GraphInv' /\ Sent'
  BY GraphKept DEF Commit, Finish
<1>2. /\ \A k \in Keys : workflowRow'[k] = IF workflowRow[k] = p THEN Committed ELSE workflowRow[k]
      /\ \A s \in Slots : versionRow'[s] = IF versionRow[s] = p THEN Committed ELSE versionRow[s]
      /\ graphSpec' = graphSpec /\ stageRows' = stageRows
  BY DEF Commit
<1>3. /\ slot' = slot /\ pc[p] = "commit" /\ pc'[p] = "idle" /\ reply'[p] = "created"
      /\ \A q \in Sessions \ {p} : /\ pc'[q] = pc[q]
                                   /\ definition'[q] = definition[q]
                                   /\ reply'[q] = reply[q]
  BY DEF Commit, Finish, Types
<1>4. Types'
  BY DEF Commit, Finish, Types, Pcs, Replies
<1>5. Owners'
  <2>1. ASSUME NEW k \in Keys, workflowRow'[k] \in Sessions
        PROVE  /\ KeyOf(slot'[workflowRow'[k]]) = k
               /\ pc'[workflowRow'[k]] \in {"find version", "insert version", "insert stages", "commit"}
    <3>1. workflowRow'[k] = workflowRow[k] /\ workflowRow[k] \in Sessions \ {p}
      BY <1>2, <2>1, SessionAssumption
    <3> QED
      BY <1>3, <3>1 DEF Owners
  <2>2. ASSUME NEW s \in Slots, versionRow'[s] \in Sessions
        PROVE  slot'[versionRow'[s]] = s /\ pc'[versionRow'[s]] \in {"insert stages", "commit"}
    <3>1. versionRow'[s] = versionRow[s] /\ versionRow[s] \in Sessions \ {p}
      BY <1>2, <2>2, SessionAssumption
    <3> QED
      BY <1>3, <3>1 DEF Owners
  <2> QED
    BY <2>1, <2>2 DEF Owners
<1>6. Progress'
  <2> SUFFICES ASSUME NEW q \in Sessions, pc'[q] # "idle"
               PROVE  /\ definition'[q] \in Accepted
                      /\ pc'[q] \in {"find version", "insert version", "insert stages", "commit"} =>
                           workflowRow'[KeyOf(slot'[q])] \in {q, Committed}
                      /\ pc'[q] \in {"insert stages", "commit"} =>
                           versionRow'[slot'[q]] = q /\ graphSpec'[slot'[q]] = definition'[q]
                      /\ pc'[q] = "commit" => stageRows'[slot'[q]] = PlanOf(definition'[q])
    BY DEF Progress
  <2>1. q # p /\ pc'[q] = pc[q] /\ definition'[q] = definition[q] /\ slot'[q] = slot[q]
    BY <1>3
  <2>2. slot[q] \in Slots /\ KeyOf(slot[q]) \in Keys
    BY SlotKeys DEF Types
  <2>3. definition'[q] \in Accepted
    BY <2>1 DEF Progress
  <2>4. pc[q] \in {"find version", "insert version", "insert stages", "commit"} =>
          workflowRow'[KeyOf(slot[q])] \in {q, Committed}
    <3>1. pc[q] \in {"find version", "insert version", "insert stages", "commit"} =>
            workflowRow[KeyOf(slot[q])] \in {q, Committed}
      BY DEF Progress
    <3>2. q # p /\ Committed # p
      BY <2>1, SessionAssumption
    <3> QED
      BY <1>2, <2>2, <3>1, <3>2
  <2>5. pc[q] \in {"insert stages", "commit"} =>
          /\ versionRow'[slot[q]] = q
          /\ graphSpec'[slot[q]] = graphSpec[slot[q]] /\ graphSpec[slot[q]] = definition[q]
    BY <1>2, <2>1, <2>2 DEF Progress
  <2>6. pc[q] = "commit" => stageRows'[slot[q]] = PlanOf(definition[q])
    BY <1>2, <2>1, <2>2 DEF Progress
  <2> QED
    BY <2>1, <2>3, <2>4, <2>5, <2>6
<1>7. Whole'
  <2> SUFFICES ASSUME NEW s \in Slots, versionRow'[s] = Committed
               PROVE  workflowRow'[KeyOf(s)] = Committed /\ stageRows'[s] = PlanOf(graphSpec'[s])
    BY DEF Whole
  <2>1. CASE versionRow[s] = p
    <3>1. slot[p] = s
      BY <2>1 DEF Owners
    <3> QED
      BY <1>2, <1>3, <3>1, SlotKeys DEF Progress
  <2>2. CASE versionRow[s] = Committed
    BY <1>2, <2>2, SlotKeys, SessionAssumption DEF Whole
  <2> QED
    BY <1>2, <2>1, <2>2
<1>8. Told'
  <2> SUFFICES ASSUME NEW q \in Sessions
               PROVE  /\ reply'[q] \in {"created", "already registered"} =>
                           versionRow'[slot'[q]] = Committed
                      /\ reply'[q] = "error" => workflowRow'[KeyOf(slot'[q])] = Committed
    BY DEF Told
  <2>1. slot'[q] = slot[q] /\ slot[q] \in Slots /\ KeyOf(slot[q]) \in Keys
    BY <1>3, SlotKeys DEF Types
  <2>2. /\ versionRow[slot[q]] = Committed => versionRow'[slot[q]] = Committed
        /\ workflowRow[KeyOf(slot[q])] = Committed => workflowRow'[KeyOf(slot[q])] = Committed
    BY <1>2, <2>1, SessionAssumption
  <2>3. CASE q = p
    BY <1>2, <1>3, <2>1, <2>2, <2>3 DEF Progress
  <2>4. CASE q # p
    BY <1>3, <2>1, <2>2, <2>4 DEF Told
  <2> QED
    BY <2>3, <2>4
<1> QED
  BY <1>1, <1>4, <1>5, <1>6, <1>7, <1>8

LEMMA WorkflowExistsStep ==
  ASSUME IndInv, NEW p \in Sessions, WorkflowExists(p)
  PROVE  IndInv'
BY RollbackStep DEF WorkflowExists

LEMMA VersionExistsStep ==
  ASSUME IndInv, NEW p \in Sessions, VersionExists(p)
  PROVE  IndInv'
<1>1. versionRow[slot[p]] = Committed
  BY DEF VersionExists, Visible, IndInv, Types, Owners
<1>2. workflowRow[KeyOf(slot[p])] = Committed
  BY <1>1 DEF IndInv, Types, Whole
<1>3. PICK answer \in {"already registered", "error"} : Rollback(p, answer)
  BY DEF VersionExists
<1> QED
  BY <1>1, <1>2, <1>3, RollbackStep

LEMMA CrashStep ==
  ASSUME IndInv, NEW p \in Sessions, Crash(p)
  PROVE  IndInv'
BY RollbackStep DEF Crash

LEMMA NextInv == IndInv /\ [Next]_vars => IndInv'
<1> SUFFICES ASSUME IndInv, [Next]_vars PROVE IndInv'
  OBVIOUS
<1>1. CASE GraphNext /\ UNCHANGED <<tables, callers>>
  BY <1>1, ValidationStep
<1>2. ASSUME NEW p \in Sessions, NEW s \in Slots, Register(p, s)
      PROVE  IndInv'
  BY <1>2, RegisterStep
<1>3. ASSUME NEW p \in Sessions, Proceed(p)
      PROVE  IndInv'
  BY <1>3, FindWorkflowStep, InsertWorkflowStep, WorkflowExistsStep, FindVersionStep,
     VersionExistsStep, InsertVersionStep, InsertStagesStep, CommitStep DEF Proceed
<1>4. ASSUME NEW p \in Sessions, Crash(p)
      PROVE  IndInv'
  BY <1>4, CrashStep
<1>5. CASE UNCHANGED vars
  <2>1. GraphInv' /\ Sent'
    BY <1>5, GraphKept DEF vars
  <2>2. Types' /\ Owners' /\ Progress' /\ Whole' /\ Told'
    BY <1>5 DEF vars, IndInv, Types, Owners, Progress, Whole, Told, tables, callers
  <2> QED
    BY <2>1, <2>2 DEF IndInv
<1> QED
  BY <1>1, <1>2, <1>3, <1>4, <1>5 DEF Next

THEOREM Inductive == Spec => []IndInv
BY InitInv, NextInv, PTL DEF Spec

-----------------------------------------------------------------------------
(* The properties.                                                         *)

\* Rows, callers and the owners of uncommitted rows keep their types
\* (registration.py).
THEOREM RegistrationTypes == Spec => []RegistrationTypeOK
<1>1. IndInv => RegistrationTypeOK
  BY DEF IndInv, Types, Owners, RegistrationTypeOK, Pcs, Replies
<1> QED
  BY <1>1, Inductive, PTL

\* Whatever callers do meanwhile, a payload is accepted exactly if it is
\* executable (definition.py, dependency_graph.py).
THEOREM ValidatedCorrectly == Spec => []ValidationIsRight
<1>1. IndInv => ValidationIsRight
  BY GraphInvImplies DEF IndInv
<1> QED
  BY <1>1, Inductive, PTL

\* No caller is told of a version that is not there (register_definition).
THEOREM AnswersHold == Spec => []AnswersAreTrue
<1>1. IndInv => AnswersAreTrue
  BY DEF IndInv, Types, Whole, Told, AnswersAreTrue
<1> QED
  BY <1>1, Inductive, PTL

-----------------------------------------------------------------------------
(* The refinement.                                                         *)

\* A step that commits no version, and touches none that is committed, is a
\* stutter of the catalog.
LEMMA PublishedKept ==
  ASSUME \A s \in Slots : /\ versionRow'[s] = Committed <=> versionRow[s] = Committed
                          /\ versionRow[s] = Committed => /\ graphSpec'[s] = graphSpec[s]
                                                         /\ stageRows'[s] = stageRows[s]
  PROVE  Published' = Published
BY DEF Published

LEMMA RollbackPublishes ==
  ASSUME IndInv, NEW p \in Sessions, NEW answer, Rollback(p, answer)
  PROVE  Published' = Published
<1>1. \A s \in Slots : /\ versionRow'[s] = IF versionRow[s] = p THEN Absent ELSE versionRow[s]
                       /\ versionRow[s] # p => /\ graphSpec'[s] = graphSpec[s]
                                               /\ stageRows'[s] = stageRows[s]
  BY DEF Rollback
<1> QED
  BY <1>1, PublishedKept, SessionAssumption

LEMMA InsertPublishes ==
  ASSUME IndInv, NEW p \in Sessions, InsertVersion(p) \/ InsertStages(p)
  PROVE  Published' = Published
<1>1. slot[p] \in Slots /\ versionRow[slot[p]] # Committed /\ versionRow'[slot[p]] # Committed
  <2>1. slot[p] \in Slots
    BY DEF IndInv, Types
  <2>2. CASE InsertVersion(p)
    BY <2>1, <2>2, SessionAssumption DEF InsertVersion, IndInv, Types
  <2>3. CASE InsertStages(p)
    <3>1. versionRow[slot[p]] = p /\ versionRow' = versionRow
      BY <2>3 DEF InsertStages, IndInv, Progress
    <3> QED
      BY <2>1, <3>1, SessionAssumption
  <2> QED
    BY <2>2, <2>3
<1>2. \A s \in Slots \ {slot[p]} : /\ versionRow'[s] = versionRow[s]
                                   /\ graphSpec'[s] = graphSpec[s]
                                   /\ stageRows'[s] = stageRows[s]
  BY <1>1 DEF IndInv, Types, InsertVersion, InsertStages
<1> QED
  BY <1>1, <1>2, PublishedKept

LEMMA CommitPublishes ==
  ASSUME IndInv, NEW p \in Sessions, Commit(p)
  PROVE  \E s \in Slots, plan \in Plans : Catalog!Publish(s, plan)
<1> DEFINE s == slot[p]
           plan == PlanOf(definition[p])
<1>1. /\ pc[p] = "commit" /\ s \in Slots
      /\ versionRow[s] = p /\ graphSpec[s] = definition[p] /\ stageRows[s] = plan
  BY DEF Commit, IndInv, Types, Progress
<1>2. plan \in Plans
  BY <1>1 DEF IndInv, Progress, Plans, Accepted
<1>3. Published[s] = Unpublished
  BY <1>1, SessionAssumption DEF Published
<1>4. /\ graphSpec' = graphSpec /\ stageRows' = stageRows
      /\ \A t \in Slots : versionRow'[t] = IF versionRow[t] = p THEN Committed ELSE versionRow[t]
  BY DEF Commit
<1>5. \A t \in Slots : versionRow[t] = p => t = s
  BY DEF IndInv, Owners
<1>6. Published' = [Published EXCEPT ![s] = plan]
  <2>1. \A t \in Slots : Published'[t] = IF t = s THEN plan ELSE Published[t]
    <3> SUFFICES ASSUME NEW t \in Slots
                 PROVE  Published'[t] = IF t = s THEN plan ELSE Published[t]
      OBVIOUS
    <3>1. CASE t = s
      BY <1>1, <1>4, <3>1 DEF Published
    <3>2. CASE t # s
      BY <1>4, <1>5, <3>2 DEF Published
    <3> QED
      BY <3>1, <3>2
  <2>2. Published' = [t \in Slots |-> Published'[t]] /\ Published = [t \in Slots |-> Published[t]]
    BY DEF Published
  <2> QED
    BY <1>1, <2>1, <2>2
<1> QED
  BY <1>1, <1>2, <1>3, <1>6 DEF Catalog!Publish

LEMMA NextPublishes ==
  ASSUME IndInv, [Next]_vars
  PROVE  \/ \E s \in Slots, plan \in Plans : Catalog!Publish(s, plan)
         \/ Published' = Published
<1>1. CASE UNCHANGED tables
  BY <1>1 DEF tables, Published
<1>2. ASSUME NEW p \in Sessions, Proceed(p), ~UNCHANGED tables
      PROVE  \/ \E s \in Slots, plan \in Plans : Catalog!Publish(s, plan)
             \/ Published' = Published
  <2>1. CASE InsertWorkflow(p)
    BY <2>1, PublishedKept DEF InsertWorkflow
  <2>2. CASE WorkflowExists(p) \/ VersionExists(p)
    BY <2>2, RollbackPublishes DEF WorkflowExists, VersionExists
  <2>3. CASE InsertVersion(p) \/ InsertStages(p)
    BY <2>3, InsertPublishes
  <2>4. CASE Commit(p)
    BY <2>4, CommitPublishes
  <2> QED
    BY <1>2, <2>1, <2>2, <2>3, <2>4 DEF Proceed, FindWorkflow, FindVersion
<1>3. ASSUME NEW p \in Sessions, Crash(p)
      PROVE  Published' = Published
  BY <1>3, RollbackPublishes DEF Crash
<1> QED
  BY <1>1, <1>2, <1>3 DEF Next, vars, Register

\* Registration implements the write-once catalog: every commit publishes one
\* whole, executable plan in an empty slot, and no other step changes what is
\* published (register_definition, register_version).
THEOREM Refinement == Spec => ImplementsCatalog
<1>1. Init => Catalog!Init
  BY SessionAssumption DEF Init, Published, Catalog!Init
<1>2. IndInv /\ [Next]_vars => [Catalog!Next]_Published
  BY NextPublishes DEF Catalog!Next
<1> QED
  BY <1>1, <1>2, Inductive, PTL DEF Spec, ImplementsCatalog, Catalog!Spec
===============================================================================
