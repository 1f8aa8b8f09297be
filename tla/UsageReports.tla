----------------------------- MODULE UsageReports -----------------------------
(***************************************************************************)
(* The cost metrics of the analytics package and the ledger's own total,   *)
(* read at any time from what ModelRouter's callers have committed.        *)
(***************************************************************************)
EXTENDS CapabilityRuns, Functions

\* The column cost_usd.
Costs == [r \in ledger |-> r.cost]

\* created_at >= window_start, created_at <= window_end, and the scope.
RowsOf(project, from, to) ==
  {r \in ledger : r.project = project /\ r.created_at >= from /\ r.created_at <= to}

AITotalCost(project, from, to) ==
  LET rows == RowsOf(project, from, to)
  IN  [value |-> SumFunctionOnSet(Costs, rows), completion_calls |-> Cardinality(rows)]

\* The join finds a row's profile, which is referenced and cannot be deleted.
AICostByModel_EndExcluded(project, from, to) ==
  LET rows == {r \in RowsOf(project, from, to) : r.created_at < to}
      Of(m) == {r \in rows : r.model = m}
  IN  [m \in {r.model : r \in rows} \cap saved |->
         [cost_usd |-> SumFunctionOnSet(Costs, Of(m)), completion_calls |-> Cardinality(Of(m))]]
AICostByModel(project, from, to) ==
  LET rows == RowsOf(project, from, to)
      Of(m) == {r \in rows : r.model = m}
  IN  [m \in {r.model : r \in rows} \cap saved |->
         [cost_usd |-> SumFunctionOnSet(Costs, Of(m)), completion_calls |-> Cardinality(Of(m))]]

\* The value the metric gives with its breakdown.
ByModelValue(project, from, to) ==
  LET byModel == AICostByModel(project, from, to)
  IN  SumFunction([m \in DOMAIN byModel |-> byModel[m].cost_usd])

\* UsageLedger.total_cost of a project.
TotalCost(project) == SumFunctionOnSet(Costs, {r \in ledger : r.project = project})

-----------------------------------------------------------------------------
\* The three reports of a project's cost agree, for any window and at any
\* moment, and two windows that follow one another add up to the whole.
ReportsAgree ==
  \A p \in Projects :
    /\ \A from \in 0..MaxTime : \A to \in from..MaxTime :
         AITotalCost(p, from, to).value = ByModelValue(p, from, to)
    /\ TotalCost(p) = AITotalCost(p, 0, MaxTime).value
    /\ \A t \in 1..MaxTime :
         AITotalCost(p, 0, t - 1).value + AITotalCost(p, t, MaxTime).value = TotalCost(p)
===============================================================================
