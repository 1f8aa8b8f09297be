------------------------ MODULE SchemaMigrationsProofs ------------------------
(***************************************************************************)
(* The committed tables are always those of the recorded revision, and at  *)
(* head those of the ORM classes.  Every statement of a downgrade undoes   *)
(* one of the upgrade, in the opposite order, so the tables a command has  *)
(* in hand are always among those the upgrades alone go through.           *)
(***************************************************************************)
EXTENDS SchemaMigrations, WellFoundedInduction, TLAPS

-----------------------------------------------------------------------------
(* One statement and the one that undoes it.                               *)

IsTable(t) == t = [refs |-> t.refs, unique |-> t.unique, added |-> t.added]

\* Tables whose foreign keys all name a table that is there.
Sound(tables) ==
  /\ tables = [t \in DOMAIN tables |-> tables[t]]
  /\ \A t \in DOMAIN tables :
       /\ IsTable(tables[t])
       /\ \A r \in tables[t].refs : r.target \in DOMAIN tables

\* A statement of an upgrade that these tables are ready for, and that
\* changes them: it makes a table, a column or room for duplicate keys.
Fits(s, tables) ==
  \/ /\ s.op = "create" /\ s.table \notin DOMAIN tables /\ IsTable(s.def)
     /\ \A r \in s.def.refs : r.target \in DOMAIN tables \cup {s.table}
  \/ /\ s.op = "add_column" /\ s.table \in DOMAIN tables
     /\ s.column \notin tables[s.table].added
  \/ /\ s.op = "drop_index" /\ s.table \in DOMAIN tables
     /\ s.columns \in tables[s.table].unique

\* d takes back what s has made.
Reverses(d, s) ==
  /\ d.table = s.table
  /\ \/ s.op = "create" /\ d.op = "drop"
     \/ s.op = "add_column" /\ d.op = "drop_column" /\ d.column = s.column
     \/ s.op = "drop_index" /\ d.op = "create_unique" /\ d.columns = s.columns

\* The tables with other added columns of one of them, or other unique keys.
WithAdded(tables, name, added) ==
  [t \in DOMAIN tables |->
     IF t = name THEN [refs |-> tables[name].refs, unique |-> tables[name].unique,
                       added |-> added]
     ELSE tables[t]]

WithUnique(tables, name, unique) ==
  [t \in DOMAIN tables |->
     IF t = name THEN [refs |-> tables[name].refs, unique |-> unique,
                       added |-> tables[name].added]
     ELSE tables[t]]

\* What the four statements that alter a table do.
LEMMA AddColumnAdds ==
  ASSUME NEW tables, Sound(tables), NEW s, s.op = "add_column", s.table \in DOMAIN tables
  PROVE  Apply(tables, s) = WithAdded(tables, s.table, tables[s.table].added \cup {s.column})
<1>1. tables[s.table] = [refs |-> tables[s.table].refs, unique |-> tables[s.table].unique,
                         added |-> tables[s.table].added]
  BY DEF Sound, IsTable
<1>2. [tables[s.table] EXCEPT !.added = tables[s.table].added \cup {s.column}]
        = [refs |-> tables[s.table].refs, unique |-> tables[s.table].unique,
           added |-> tables[s.table].added \cup {s.column}]
  BY <1>1
<1>3. Apply(tables, s)
        = [tables EXCEPT ![s.table] = [@ EXCEPT !.added = tables[s.table].added \cup {s.column}]]
  BY DEF Apply
<1> QED BY <1>2, <1>3 DEF WithAdded

LEMMA DropColumnRemoves ==
  ASSUME NEW tables, Sound(tables), NEW s, s.op = "drop_column", s.table \in DOMAIN tables
  PROVE  Apply(tables, s) = WithAdded(tables, s.table, tables[s.table].added \ {s.column})
<1>1. tables[s.table] = [refs |-> tables[s.table].refs, unique |-> tables[s.table].unique,
                         added |-> tables[s.table].added]
  BY DEF Sound, IsTable
<1>2. [tables[s.table] EXCEPT !.added = tables[s.table].added \ {s.column}]
        = [refs |-> tables[s.table].refs, unique |-> tables[s.table].unique,
           added |-> tables[s.table].added \ {s.column}]
  BY <1>1
<1>3. Apply(tables, s)
        = [tables EXCEPT ![s.table] = [@ EXCEPT !.added = tables[s.table].added \ {s.column}]]
  BY DEF Apply
<1> QED BY <1>2, <1>3 DEF WithAdded

LEMMA DropIndexRemoves ==
  ASSUME NEW tables, Sound(tables), NEW s, s.op = "drop_index", s.table \in DOMAIN tables
  PROVE  Apply(tables, s) = WithUnique(tables, s.table, tables[s.table].unique \ {s.columns})
<1>1. tables[s.table] = [refs |-> tables[s.table].refs, unique |-> tables[s.table].unique,
                         added |-> tables[s.table].added]
  BY DEF Sound, IsTable
<1>2. [tables[s.table] EXCEPT !.unique = tables[s.table].unique \ {s.columns}]
        = [refs |-> tables[s.table].refs, unique |-> tables[s.table].unique \ {s.columns},
           added |-> tables[s.table].added]
  BY <1>1
<1>3. Apply(tables, s)
        = [tables EXCEPT ![s.table] = [@ EXCEPT !.unique = tables[s.table].unique \ {s.columns}]]
  BY DEF Apply
<1> QED BY <1>2, <1>3 DEF WithUnique

LEMMA CreateUniqueAdds ==
  ASSUME NEW tables, Sound(tables), NEW s, s.op = "create_unique", s.table \in DOMAIN tables
  PROVE  Apply(tables, s) = WithUnique(tables, s.table, tables[s.table].unique \cup {s.columns})
<1>1. tables[s.table] = [refs |-> tables[s.table].refs, unique |-> tables[s.table].unique,
                         added |-> tables[s.table].added]
  BY DEF Sound, IsTable
<1>2. [tables[s.table] EXCEPT !.unique = tables[s.table].unique \cup {s.columns}]
        = [refs |-> tables[s.table].refs, unique |-> tables[s.table].unique \cup {s.columns},
           added |-> tables[s.table].added]
  BY <1>1
<1>3. Apply(tables, s)
        = [tables EXCEPT ![s.table] = [@ EXCEPT !.unique = tables[s.table].unique \cup {s.columns}]]
  BY DEF Apply
<1> QED BY <1>2, <1>3 DEF WithUnique

\* Altering a table keeps the tables sound, and altering it back restores them.
LEMMA WithAddedSound ==
  ASSUME NEW tables, Sound(tables), NEW name \in DOMAIN tables, NEW added
  PROVE  /\ Sound(WithAdded(tables, name, added))
         /\ DOMAIN WithAdded(tables, name, added) = DOMAIN tables
         /\ WithAdded(tables, name, added)[name].added = added
         /\ WithAdded(WithAdded(tables, name, added), name, tables[name].added) = tables
<1> DEFINE new == WithAdded(tables, name, added)
<1>1. /\ new = [t \in DOMAIN new |-> new[t]] /\ DOMAIN new = DOMAIN tables
      /\ new[name] = [refs |-> tables[name].refs, unique |-> tables[name].unique, added |-> added]
      /\ \A t \in DOMAIN tables : t # name => new[t] = tables[t]
  BY DEF WithAdded
<1>2. WithAdded(new, name, tables[name].added)
        = [t \in DOMAIN new |->
             IF t = name THEN [refs |-> new[name].refs, unique |-> new[name].unique,
                               added |-> tables[name].added]
             ELSE new[t]]
  BY DEF WithAdded
<1> HIDE DEF new
<1>3. Sound(new)
  BY <1>1 DEF Sound, IsTable
<1>4. WithAdded(new, name, tables[name].added) = tables
  BY <1>1, <1>2 DEF Sound, IsTable
<1> QED BY <1>1, <1>3, <1>4 DEF new

LEMMA WithUniqueSound ==
  ASSUME NEW tables, Sound(tables), NEW name \in DOMAIN tables, NEW unique
  PROVE  /\ Sound(WithUnique(tables, name, unique))
         /\ DOMAIN WithUnique(tables, name, unique) = DOMAIN tables
         /\ WithUnique(tables, name, unique)[name].unique = unique
         /\ WithUnique(WithUnique(tables, name, unique), name, tables[name].unique) = tables
<1> DEFINE new == WithUnique(tables, name, unique)
<1>1. /\ new = [t \in DOMAIN new |-> new[t]] /\ DOMAIN new = DOMAIN tables
      /\ new[name] = [refs |-> tables[name].refs, unique |-> unique, added |-> tables[name].added]
      /\ \A t \in DOMAIN tables : t # name => new[t] = tables[t]
  BY DEF WithUnique
<1>2. WithUnique(new, name, tables[name].unique)
        = [t \in DOMAIN new |->
             IF t = name THEN [refs |-> new[name].refs, unique |-> tables[name].unique,
                               added |-> new[name].added]
             ELSE new[t]]
  BY DEF WithUnique
<1> HIDE DEF new
<1>3. Sound(new)
  BY <1>1 DEF Sound, IsTable
<1>4. WithUnique(new, name, tables[name].unique) = tables
  BY <1>1, <1>2 DEF Sound, IsTable
<1> QED BY <1>1, <1>3, <1>4 DEF new

\* A statement that fits runs, and leaves sound tables.
LEMMA FittingRuns ==
  ASSUME NEW s, NEW tables, NEW twice, Sound(tables), Fits(s, tables)
  PROVE  Problem(s, tables, twice) = "none" /\ Sound(Apply(tables, s))
<1>1. CASE s.op = "create" /\ s.table \notin DOMAIN tables /\ IsTable(s.def)
           /\ \A r \in s.def.refs : r.target \in DOMAIN tables \cup {s.table}
  <2>1. Problem(s, tables, twice) = "none"
    BY <1>1 DEF Problem
  <2> DEFINE new == [t \in DOMAIN tables \cup {s.table} |->
                      IF t = s.table THEN s.def ELSE tables[t]]
  <2>2. Apply(tables, s) = new
    BY <1>1 DEF Apply
  <2>3. Sound(new)
    BY <1>1 DEF Sound
  <2> QED BY <2>1, <2>2, <2>3
<1>2. CASE s.op = "add_column" /\ s.table \in DOMAIN tables
  <2>1. Problem(s, tables, twice) = "none"
    BY <1>2 DEF Problem
  <2> DEFINE more == tables[s.table].added \cup {s.column}
  <2>2. Apply(tables, s) = WithAdded(tables, s.table, more)
    BY <1>2, AddColumnAdds
  <2> HIDE DEF more
  <2> QED BY <1>2, <2>1, <2>2, WithAddedSound
<1>3. CASE s.op = "drop_index" /\ s.table \in DOMAIN tables /\ s.columns \in tables[s.table].unique
  <2>1. Problem(s, tables, twice) = "none"
    BY <1>3 DEF Problem
  <2> DEFINE less == tables[s.table].unique \ {s.columns}
  <2>2. Apply(tables, s) = WithUnique(tables, s.table, less)
    BY <1>3, DropIndexRemoves
  <2> HIDE DEF less
  <2> QED BY <1>3, <2>1, <2>2, WithUniqueSound
<1> QED BY <1>1, <1>2, <1>3 DEF Fits

\* The statement that reverses it restores the tables.
LEMMA ReverseRestores ==
  ASSUME NEW s, NEW d, NEW tables, Sound(tables), Fits(s, tables), Reverses(d, s)
  PROVE  Apply(Apply(tables, s), d) = tables
<1>1. CASE s.op = "create" /\ s.table \notin DOMAIN tables /\ d.op = "drop" /\ d.table = s.table
  <2> DEFINE new == [t \in DOMAIN tables \cup {s.table} |->
                      IF t = s.table THEN s.def ELSE tables[t]]
  <2>1. Apply(tables, s) = new
    BY <1>1 DEF Apply
  <2>2. DOMAIN new \ {d.table} = DOMAIN tables /\ \A t \in DOMAIN tables : new[t] = tables[t]
    BY <1>1
  <2>3. Apply(new, d) = tables
    <3>1. Apply(new, d) = [t \in DOMAIN new \ {d.table} |-> new[t]]
      BY <1>1 DEF Apply
    <3> HIDE DEF new
    <3> QED BY <2>2, <3>1 DEF Sound
  <2> QED BY <2>1, <2>3
<1>2. CASE s.op = "add_column" /\ s.table \in DOMAIN tables /\ s.column \notin tables[s.table].added
           /\ d.op = "drop_column" /\ d.table = s.table /\ d.column = s.column
  <2> DEFINE new == Apply(tables, s)
             more == tables[s.table].added \cup {s.column}
  <2>1. /\ new = WithAdded(tables, s.table, more)
        /\ Sound(new) /\ d.table \in DOMAIN new /\ new[s.table].added = more
        /\ WithAdded(new, s.table, tables[s.table].added) = tables
    <3>1. new = WithAdded(tables, s.table, more)
      BY <1>2, AddColumnAdds
    <3> HIDE DEF more, new
    <3> QED BY <1>2, <3>1, WithAddedSound
  <2>2. more \ {d.column} = tables[s.table].added
    BY <1>2
  <2> HIDE DEF new, more
  <2>3. Apply(new, d) = WithAdded(new, d.table, new[d.table].added \ {d.column})
    BY <1>2, <2>1, DropColumnRemoves
  <2>4. Apply(new, d) = tables
    BY <1>2, <2>1, <2>2, <2>3
  <2> QED BY <2>4 DEF new
<1>3. CASE s.op = "drop_index" /\ s.table \in DOMAIN tables /\ s.columns \in tables[s.table].unique
           /\ d.op = "create_unique" /\ d.table = s.table /\ d.columns = s.columns
  <2> DEFINE new == Apply(tables, s)
             less == tables[s.table].unique \ {s.columns}
  <2>1. /\ new = WithUnique(tables, s.table, less)
        /\ Sound(new) /\ d.table \in DOMAIN new /\ new[s.table].unique = less
        /\ WithUnique(new, s.table, tables[s.table].unique) = tables
    <3>1. new = WithUnique(tables, s.table, less)
      BY <1>3, DropIndexRemoves
    <3> HIDE DEF less, new
    <3> QED BY <1>3, <3>1, WithUniqueSound
  <2>2. less \cup {d.columns} = tables[s.table].unique
    BY <1>3
  <2> HIDE DEF new, less
  <2>3. Apply(new, d) = WithUnique(new, d.table, new[d.table].unique \cup {d.columns})
    BY <1>3, <2>1, CreateUniqueAdds
  <2>4. Apply(new, d) = tables
    BY <1>3, <2>1, <2>2, <2>3
  <2> QED BY <2>4 DEF new
<1> QED BY <1>1, <1>2, <1>3 DEF Fits, Reverses

\* It can be run: only a unique key is ever refused, for the rows that repeat it.
LEMMA ReverseRuns ==
  ASSUME NEW s, NEW d, NEW tables, NEW twice, Sound(tables), Fits(s, tables), Reverses(d, s)
  PROVE  Problem(d, Apply(tables, s), twice) # "none" =>
           Problem(d, Apply(tables, s), twice) = "unique_violation" /\ s.op = "drop_index"
<1> DEFINE new == Apply(tables, s)
<1>1. CASE s.op = "create" /\ s.table \notin DOMAIN tables /\ d.op = "drop" /\ d.table = s.table
  <2>1. new = [t \in DOMAIN tables \cup {s.table} |-> IF t = s.table THEN s.def ELSE tables[t]]
    BY <1>1 DEF Apply
  <2> HIDE DEF new
  <2>2. \A t \in DOMAIN new \ {d.table} : \A r \in new[t].refs : r.target # d.table
    BY <1>1, <2>1 DEF Sound
  <2>3. d.table \in DOMAIN new
    BY <1>1, <2>1
  <2>4. Problem(d, new, twice) = "none"
    BY <1>1, <2>2, <2>3 DEF Problem
  <2> QED BY <2>4 DEF new
<1>2. CASE s.op = "add_column" /\ s.table \in DOMAIN tables
           /\ d.op = "drop_column" /\ d.table = s.table
  <2>1. d.table \in DOMAIN new
    BY <1>2, AddColumnAdds DEF WithAdded
  <2> HIDE DEF new
  <2>2. Problem(d, new, twice) = "none"
    BY <1>2, <2>1 DEF Problem
  <2> QED BY <2>2 DEF new
<1>3. CASE s.op = "drop_index" /\ s.table \in DOMAIN tables
           /\ d.op = "create_unique" /\ d.table = s.table
  <2>1. d.table \in DOMAIN new
    BY <1>3, DropIndexRemoves DEF WithUnique
  <2> HIDE DEF new
  <2>2. Problem(d, new, twice) \in {"none", "unique_violation"}
    BY <1>3, <2>1 DEF Problem
  <2> QED BY <1>3, <2>2 DEF new
<1> QED BY <1>1, <1>2, <1>3 DEF Fits, Reverses

-----------------------------------------------------------------------------
(* The recursions.                                                         *)

\* What holds of 0 and is handed on by every number holds up to n.
LEMMA EveryNumber ==
  ASSUME NEW n \in Nat, NEW Good \in SUBSET Nat, 0 \in Good,
         \A i \in 1..n : i - 1 \in Good => i \in Good
  PROVE  \A i \in 0..n : i \in Good
<1> DEFINE Bad == {i \in 0..n : i \notin Good}
           Less == OpToRel(<, Nat)
<1>1. CASE Bad = {}
  BY <1>1
<1>2. CASE Bad # {}
  <2>1. PICK m \in Bad : \A i \in Bad : ~(<<i, m>> \in Less)
    <3>1. Bad \subseteq Nat
      OBVIOUS
    <3> HIDE DEF Bad
    <3> QED BY <1>2, <3>1, WFMin, NatLessThanWellFounded, Zenon
  <2>2. \A i \in Bad : ~(i < m)
    <3>1. Bad \subseteq Nat
      OBVIOUS
    <3>2. \A i, j \in Nat : <<i, j>> \in Less <=> i < j
      BY DEF OpToRel
    <3> HIDE DEF Bad, Less
    <3> QED BY <2>1, <3>1, <3>2
  <2>3. m \in 1..n /\ m - 1 \in 0..n
    OBVIOUS
  <2>4. m - 1 \in Good
    BY <2>2, <2>3
  <2> QED BY <2>3, <2>4
<1> QED BY <1>1, <1>2

\* The tables after statement k, given those after statement k - 1.
AfterStatement(f, tables, script, k) ==
  IF k = 0 THEN tables ELSE Apply(f[k - 1], script[k])

IsRun(f, tables, script, n) == f = [k \in 0..n |-> AfterStatement(f, tables, script, k)]

\* A script of any length has such a run.
LEMMA RunExists ==
  ASSUME NEW tables, NEW script, NEW n \in Nat
  PROVE  \E f : IsRun(f, tables, script, n)
<1> DEFINE Good == {m \in Nat : \E f : IsRun(f, tables, script, m)}
<1>1. 0 \in Good
  <2>1. IsRun([k \in 0..0 |-> tables], tables, script, 0)
    BY DEF IsRun, AfterStatement
  <2> QED BY <2>1
<1>2. ASSUME NEW m \in 1..n, m - 1 \in Good PROVE m \in Good
  <2>1. PICK f : IsRun(f, tables, script, m - 1)
    BY <1>2
  <2> DEFINE g == [k \in 0..m |-> IF k = m THEN AfterStatement(f, tables, script, m) ELSE f[k]]
  <2>2. DOMAIN g = 0..m /\ \A k \in 0..(m - 1) : g[k] = f[k]
    OBVIOUS
  <2>3. ASSUME NEW k \in 0..m PROVE g[k] = AfterStatement(g, tables, script, k)
    <3>1. k = 0 \/ g[k - 1] = f[k - 1]
      BY <2>2
    <3>2. AfterStatement(g, tables, script, k) = AfterStatement(f, tables, script, k)
      BY <3>1 DEF AfterStatement
    <3>3. CASE k = m
      BY <3>2, <3>3
    <3>4. CASE k # m
      BY <2>1, <2>2, <3>2, <3>4 DEF IsRun
    <3> QED BY <3>3, <3>4
  <2>4. g = [k \in 0..m |-> AfterStatement(g, tables, script, k)]
    <3>1. g = [k \in 0..m |-> g[k]]
      OBVIOUS
    <3> HIDE DEF g
    <3> QED BY <2>3, <3>1
  <2>5. IsRun(g, tables, script, m)
    BY <2>4 DEF IsRun
  <2> QED BY <2>5
<1>3. \A k \in 0..n : k \in Good
  <2> HIDE DEF Good
  <2>1. Good \in SUBSET Nat
    BY DEF Good
  <2> QED BY <1>1, <1>2, <2>1, EveryNumber
<1> QED BY <1>3

\* TablesAfter is one.
LEMMA TablesAfterRuns ==
  ASSUME NEW tables, NEW script, Len(script) \in Nat
  PROVE  /\ TablesAfter(tables, script)[0] = tables
         /\ \A k \in 1..Len(script) :
              TablesAfter(tables, script)[k] = Apply(TablesAfter(tables, script)[k - 1], script[k])
<1> DEFINE n == Len(script)
           f == CHOOSE g : g = [k \in 0..n |-> IF k = 0 THEN tables ELSE Apply(g[k - 1], script[k])]
<1>1. \E g : IsRun(g, tables, script, n)
  BY RunExists
<1>2. IsRun(f, tables, script, n)
  BY <1>1, Zenon DEF IsRun, AfterStatement
<1>3. TablesAfter(tables, script) = f
  BY Zenon DEF TablesAfter
<1> HIDE DEF f
<1> QED BY <1>2, <1>3 DEF IsRun, AfterStatement

\* The same over the revisions: the schema of each, given that of the one below.
Revised(f, r) ==
  IF r = 0 THEN NoTables ELSE TablesAfter(f[r - 1], Upgrades[r])[Len(Upgrades[r])]

IsChain(f, n) == f = [r \in 0..n |-> Revised(f, r)]

LEMMA ChainExists ==
  ASSUME NEW n \in Nat
  PROVE  \E f : IsChain(f, n)
<1> DEFINE Good == {m \in Nat : \E f : IsChain(f, m)}
<1>1. 0 \in Good
  <2>1. IsChain([r \in 0..0 |-> NoTables], 0)
    BY DEF IsChain, Revised
  <2> QED BY <2>1
<1>2. ASSUME NEW m \in 1..n, m - 1 \in Good PROVE m \in Good
  <2>1. PICK f : IsChain(f, m - 1)
    BY <1>2
  <2> DEFINE g == [r \in 0..m |-> IF r = m THEN Revised(f, m) ELSE f[r]]
  <2>2. DOMAIN g = 0..m /\ \A r \in 0..(m - 1) : g[r] = f[r]
    OBVIOUS
  <2>3. ASSUME NEW r \in 0..m PROVE g[r] = Revised(g, r)
    <3>1. r = 0 \/ g[r - 1] = f[r - 1]
      BY <2>2
    <3>2. Revised(g, r) = Revised(f, r)
      BY <3>1 DEF Revised
    <3>3. CASE r = m
      BY <3>2, <3>3
    <3>4. CASE r # m
      BY <2>1, <2>2, <3>2, <3>4 DEF IsChain
    <3> QED BY <3>3, <3>4
  <2>4. g = [r \in 0..m |-> Revised(g, r)]
    <3>1. g = [r \in 0..m |-> g[r]]
      OBVIOUS
    <3> HIDE DEF g
    <3> QED BY <2>3, <3>1
  <2>5. IsChain(g, m)
    BY <2>4 DEF IsChain
  <2> QED BY <2>5
<1>3. \A r \in 0..n : r \in Good
  <2> HIDE DEF Good
  <2>1. Good \in SUBSET Nat
    BY DEF Good
  <2> QED BY <1>1, <1>2, <2>1, EveryNumber
<1> QED BY <1>3

\* The tables between the statements of upgrade r.
Midway(r) == TablesAfter(SchemaAt[r - 1], Upgrades[r])

LEMMA SchemaAtChain ==
  ASSUME HeadRevision \in Nat
  PROVE  /\ SchemaAt[0] = NoTables
         /\ \A r \in 1..HeadRevision : SchemaAt[r] = Midway(r)[Len(Upgrades[r])]
<1> DEFINE f == CHOOSE g : g = [r \in 0..HeadRevision |->
                  IF r = 0 THEN NoTables
                  ELSE TablesAfter(g[r - 1], Upgrades[r])[Len(Upgrades[r])]]
<1>1. \E g : IsChain(g, HeadRevision)
  BY ChainExists
<1>2. IsChain(f, HeadRevision)
  BY <1>1, Zenon DEF IsChain, Revised
<1>3. SchemaAt = f
  BY Zenon DEF SchemaAt
<1> HIDE DEF f
<1> QED BY <1>2, <1>3 DEF IsChain, Revised, Midway

\* Up and down between the same tables.
LEMMA MidwayEnds ==
  ASSUME HeadRevision \in Nat, NEW r \in 1..HeadRevision, Len(Upgrades[r]) \in Nat
  PROVE  /\ Midway(r)[0] = SchemaAt[r - 1]
         /\ Midway(r)[Len(Upgrades[r])] = SchemaAt[r]
         /\ \A k \in 1..Len(Upgrades[r]) :
              Midway(r)[k] = Apply(Midway(r)[k - 1], Upgrades[r][k])
BY SchemaAtChain, TablesAfterRuns DEF Midway

-----------------------------------------------------------------------------
(* The invariant of a command.                                             *)

\* A downgrade goes through the tables of the upgrades, in the opposite order.
InHand ==
  /\ command = [direction |-> command.direction, target |-> command.target,
                at |-> command.at, step |-> command.step, tables |-> command.tables]
  /\ command.target \in 0..HeadRevision /\ command.at \in 0..HeadRevision
  /\ failure = "none"
  /\ command.at = command.target => command.step = 1 /\ command.tables = SchemaAt[command.at]
  /\ \/ /\ command.direction = "upgrade"
        /\ command.at <= command.target
        /\ command.at < command.target =>
             /\ command.step \in 1..(Len(Upgrades[command.at + 1]) + 1)
             /\ command.tables = Midway(command.at + 1)[command.step - 1]
     \/ /\ command.direction = "downgrade"
        /\ command.target <= command.at /\ command.at <= revision
        /\ command.target < command.at =>
             /\ command.step \in 1..(Len(Upgrades[command.at]) + 1)
             /\ command.tables = Midway(command.at)[Len(Upgrades[command.at]) + 1 - command.step]

MigrationInv ==
  /\ revision \in 0..HeadRevision
  /\ SchemaMatchesRevision
  /\ OnlyDuplicatesFail
  /\ command = Idle \/ InHand

-----------------------------------------------------------------------------
(* What the six scripts are to the invariant.                              *)

ScriptFacts ==
  /\ HeadRevision \in Nat
  /\ \A r \in 1..HeadRevision :
       /\ Len(Upgrades[r]) \in Nat /\ Len(Downgrades[r]) = Len(Upgrades[r])
       /\ \A k \in 1..Len(Upgrades[r]) :
            /\ Sound(Midway(r)[k - 1]) /\ Fits(Upgrades[r][k], Midway(r)[k - 1])
            /\ Reverses(Downgrades[r][Len(Upgrades[r]) + 1 - k], Upgrades[r][k])
            /\ Upgrades[r][k].op = "drop_index" => r >= 4

-----------------------------------------------------------------------------
(* Every step keeps the invariant.                                         *)

LEMMA InitInv == ASSUME ScriptFacts, Init PROVE MigrationInv
<1>1. HeadRevision \in Nat
  BY DEF ScriptFacts
<1> QED BY <1>1, SchemaAtChain DEF Init, MigrationInv, SchemaMatchesRevision, OnlyDuplicatesFail

LEMMA BeginInv ==
  ASSUME ScriptFacts, MigrationInv, NEW direction \in {"upgrade", "downgrade"},
         NEW target \in 0..HeadRevision, Begin(direction, target)
  PROVE  MigrationInv'
<1>1. /\ HeadRevision \in Nat
      /\ \A r \in 1..HeadRevision :
           /\ Len(Upgrades[r]) \in Nat
           /\ Midway(r)[0] = SchemaAt[r - 1] /\ Midway(r)[Len(Upgrades[r])] = SchemaAt[r]
  BY MidwayEnds DEF ScriptFacts
<1>2. /\ revision \in 0..HeadRevision /\ revision' = revision
      /\ schema = SchemaAt[revision] /\ schema' = schema /\ failure' = "none"
      /\ command' = [direction |-> direction, target |-> target, at |-> revision,
                     step |-> 1, tables |-> schema]
  BY DEF Begin, MigrationInv, SchemaMatchesRevision
<1>3. CASE direction = "upgrade" /\ target > revision
  <2>1. revision + 1 \in 1..HeadRevision /\ (revision + 1) - 1 = revision
    BY <1>1, <1>2, <1>3
  <2>2. Midway(revision + 1)[0] = SchemaAt[revision] /\ Len(Upgrades[revision + 1]) \in Nat
    BY <1>1, <2>1
  <2>3. InHand'
    BY <1>1, <1>2, <1>3, <2>2 DEF InHand
  <2> QED BY <1>2, <2>3 DEF MigrationInv, SchemaMatchesRevision, OnlyDuplicatesFail
<1>4. CASE direction = "downgrade" /\ target < revision
  <2>1. revision \in 1..HeadRevision
    BY <1>1, <1>2, <1>4
  <2>2. InHand'
    BY <1>1, <1>2, <1>4, <2>1 DEF InHand
  <2> QED BY <1>2, <2>2 DEF MigrationInv, SchemaMatchesRevision, OnlyDuplicatesFail
<1> QED BY <1>3, <1>4 DEF Begin

\* The statement of downgrade r that reverses statement k of the upgrade.
LEMMA Descends ==
  ASSUME ScriptFacts, NEW r \in 1..HeadRevision, NEW k \in 1..Len(Upgrades[r]), NEW twice
  PROVE  LET down == Downgrades[r][Len(Upgrades[r]) + 1 - k]
         IN  /\ Apply(Midway(r)[k], down) = Midway(r)[k - 1]
             /\ Problem(down, Midway(r)[k], twice) # "none" =>
                  Problem(down, Midway(r)[k], twice) = "unique_violation" /\ r >= 4
<1> DEFINE below == Midway(r)[k - 1]
           up == Upgrades[r][k]
           down == Downgrades[r][Len(Upgrades[r]) + 1 - k]
<1>1. /\ Sound(below) /\ Fits(up, below) /\ Reverses(down, up)
      /\ up.op = "drop_index" => r >= 4
      /\ HeadRevision \in Nat /\ Len(Upgrades[r]) \in Nat
  BY DEF ScriptFacts
<1>2. Midway(r)[k] = Apply(below, up)
  BY <1>1, MidwayEnds
<1> HIDE DEF below, up, down
<1>3. Apply(Midway(r)[k], down) = below
  BY <1>1, <1>2, ReverseRestores
<1>4. Problem(down, Midway(r)[k], twice) # "none" =>
        Problem(down, Midway(r)[k], twice) = "unique_violation" /\ r >= 4
  BY <1>1, <1>2, ReverseRuns
<1> QED BY <1>3, <1>4 DEF below, down

\* A command before statement k of upgrade r, or before the statement of
\* downgrade r that reverses it.
Rising(r, k) ==
  /\ command.direction = "upgrade" /\ r = command.at + 1 /\ r <= command.target
  /\ k = command.step /\ Script[command.step] = Upgrades[r][k]
  /\ command.tables = Midway(r)[k - 1]

Falling(r, k) ==
  /\ command.direction = "downgrade" /\ r = command.at /\ command.target < r
  /\ r <= revision
  /\ command.step = Len(Upgrades[r]) + 1 - k
  /\ Script[command.step] = Downgrades[r][Len(Upgrades[r]) + 1 - k]
  /\ command.tables = Midway(r)[k]

\* A running command is before one or the other.
LEMMA BeforeStatement ==
  ASSUME ScriptFacts, MigrationInv, InScript
  PROVE  \/ \E r \in 1..HeadRevision : \E k \in 1..Len(Upgrades[r]) : Rising(r, k)
         \/ \E r \in 1..HeadRevision : \E k \in 1..Len(Upgrades[r]) : Falling(r, k)
<1>1. /\ HeadRevision \in Nat
      /\ \A r \in 1..HeadRevision :
           Len(Upgrades[r]) \in Nat /\ Len(Downgrades[r]) = Len(Upgrades[r])
  BY DEF ScriptFacts
<1>2. InHand /\ command.at # command.target /\ command.step <= Len(Script)
  BY DEF MigrationInv, InScript, Running, Reached
<1>3. command.at \in 0..HeadRevision /\ command.target \in 0..HeadRevision
  BY <1>2 DEF InHand
<1>4. CASE command.direction = "upgrade" /\ command.at <= command.target
  <2> DEFINE r == command.at + 1
             k == command.step
  <2>1. r \in 1..HeadRevision /\ r <= command.target
    BY <1>1, <1>2, <1>3, <1>4
  <2>2. Script = Upgrades[r]
    BY <1>4 DEF Script
  <2>3. k \in 1..(Len(Upgrades[r]) + 1) /\ command.tables = Midway(r)[k - 1]
    BY <1>2, <1>3, <1>4 DEF InHand
  <2>4. k \in 1..Len(Upgrades[r])
    BY <1>1, <1>2, <2>1, <2>2, <2>3
  <2> QED BY <1>4, <2>1, <2>2, <2>3, <2>4 DEF Rising
<1>5. CASE /\ command.direction = "downgrade" /\ command.target <= command.at
           /\ command.at <= revision
  <2> DEFINE r == command.at
             n == Len(Upgrades[r])
             k == n + 1 - command.step
  <2>1. r \in 1..HeadRevision /\ command.target < r
    BY <1>1, <1>2, <1>3, <1>5
  <2>2. Script = Downgrades[r] /\ n \in Nat /\ Len(Script) = n
    BY <1>1, <1>5, <2>1 DEF Script
  <2>3. command.step \in 1..(n + 1) /\ command.tables = Midway(r)[k]
    BY <1>2, <1>3, <1>5, <2>1 DEF InHand
  <2>4. k \in 1..n /\ n + 1 - k = command.step
    <3>1. command.step <= n /\ n \in Nat /\ command.step \in 1..(n + 1)
      BY <1>2, <2>2, <2>3
    <3> HIDE DEF n
    <3> QED BY <3>1
  <2> QED BY <1>5, <2>1, <2>2, <2>3, <2>4 DEF Falling
<1> QED BY <1>2, <1>4, <1>5 DEF InHand

LEMMA ExecuteInv == ASSUME ScriptFacts, MigrationInv, Execute PROVE MigrationInv'
<1>1. /\ HeadRevision \in Nat
      /\ \A r \in 1..HeadRevision : Len(Upgrades[r]) \in Nat
  BY DEF ScriptFacts
<1>2. /\ InHand /\ InScript /\ command.at # command.target
      /\ command' = [command EXCEPT !.tables = Apply(command.tables, Script[command.step]),
                                   !.step = command.step + 1]
      /\ UNCHANGED <<revision, schema, failure>>
  BY DEF Execute, InScript, Running, Reached, MigrationInv
<1>3. command' = [direction |-> command.direction, target |-> command.target,
                  at |-> command.at, step |-> command.step + 1,
                  tables |-> Apply(command.tables, Script[command.step])]
  BY <1>2 DEF InHand
<1>4. CASE \E r \in 1..HeadRevision : \E k \in 1..Len(Upgrades[r]) : Rising(r, k)
  <2>0. PICK r \in 1..HeadRevision : \E k \in 1..Len(Upgrades[r]) : Rising(r, k)
    BY <1>4
  <2>1. PICK k \in 1..Len(Upgrades[r]) : Rising(r, k)
    BY <2>0
  <2>2. Apply(command.tables, Script[command.step]) = Midway(r)[k]
    BY <1>1, <2>1, MidwayEnds DEF Rising
  <2>3. /\ command'.direction = "upgrade" /\ command'.at + 1 = r /\ r <= command'.target
        /\ command'.step - 1 = k /\ command'.step \in 1..(Len(Upgrades[r]) + 1)
        /\ command'.tables = Midway(r)[k]
    BY <1>1, <1>3, <2>1, <2>2 DEF Rising
  <2>4. /\ command'.target \in 0..HeadRevision /\ command'.at \in 0..HeadRevision
        /\ failure' = "none" /\ command'.at # command'.target
    BY <1>2, <1>3 DEF InHand
  <2>5. command'.at <= command'.target
    BY <1>1, <2>3, <2>4
  <2>6. InHand'
    BY <1>3, <2>3, <2>4, <2>5 DEF InHand
  <2> QED BY <1>2, <2>6 DEF MigrationInv, SchemaMatchesRevision, OnlyDuplicatesFail
<1>5. CASE \E r \in 1..HeadRevision : \E k \in 1..Len(Upgrades[r]) : Falling(r, k)
  <2>0. PICK r \in 1..HeadRevision : \E k \in 1..Len(Upgrades[r]) : Falling(r, k)
    BY <1>5
  <2>1. PICK k \in 1..Len(Upgrades[r]) : Falling(r, k)
    BY <2>0
  <2>4. Apply(command.tables, Script[command.step]) = Midway(r)[k - 1]
    BY <2>1, Descends DEF Falling
  <2>5. /\ k - 1 = Len(Upgrades[r]) + 1 - (command.step + 1)
        /\ command.step + 1 \in 1..(Len(Upgrades[r]) + 1)
    BY <1>1, <2>1 DEF Falling
  <2>6. /\ command'.direction = "downgrade" /\ command'.at = r /\ command'.target < r
        /\ r <= revision' /\ command'.step \in 1..(Len(Upgrades[r]) + 1)
        /\ command'.tables = Midway(r)[Len(Upgrades[r]) + 1 - command'.step]
    BY <1>2, <1>3, <2>1, <2>4, <2>5 DEF Falling
  <2>7. /\ command'.target \in 0..HeadRevision /\ command'.at \in 0..HeadRevision
        /\ failure' = "none" /\ command'.at # command'.target
    BY <1>2, <1>3 DEF InHand
  <2>8. command'.target <= command'.at
    BY <1>1, <2>6, <2>7
  <2>9. InHand'
    BY <1>3, <2>6, <2>7, <2>8 DEF InHand
  <2> QED BY <1>2, <2>9 DEF MigrationInv, SchemaMatchesRevision, OnlyDuplicatesFail
<1> QED BY <1>2, <1>4, <1>5, BeforeStatement

LEMMA NextRevisionInv == ASSUME ScriptFacts, MigrationInv, NextRevision PROVE MigrationInv'
<1>1. /\ HeadRevision \in Nat
      /\ \A r \in 1..HeadRevision :
           /\ Len(Upgrades[r]) \in Nat /\ Len(Downgrades[r]) = Len(Upgrades[r])
           /\ Midway(r)[0] = SchemaAt[r - 1] /\ Midway(r)[Len(Upgrades[r])] = SchemaAt[r]
  BY MidwayEnds DEF ScriptFacts
<1>2. /\ InHand /\ command.at # command.target /\ command.step > Len(Script)
      /\ command' = [command EXCEPT !.at = IF command.direction = "upgrade" THEN command.at + 1
                                          ELSE command.at - 1,
                                   !.step = 1]
      /\ UNCHANGED <<revision, schema, failure>>
  BY DEF NextRevision, Running, Reached, MigrationInv
<1>3. /\ command.at \in 0..HeadRevision /\ command.target \in 0..HeadRevision
      /\ revision \in 0..HeadRevision
  BY <1>2 DEF InHand, MigrationInv
<1>4. CASE command.direction = "upgrade" /\ command.at <= command.target
  <2> DEFINE r == command.at + 1
  <2>1. command' = [direction |-> "upgrade", target |-> command.target, at |-> r,
                    step |-> 1, tables |-> command.tables]
    BY <1>2, <1>4 DEF InHand
  <2>2. r \in 1..HeadRevision /\ r <= command.target /\ Script = Upgrades[r]
    BY <1>1, <1>2, <1>3, <1>4 DEF Script
  <2>3. command.step \in 1..(Len(Upgrades[r]) + 1) /\ command.tables = Midway(r)[command.step - 1]
    BY <1>2, <1>3, <1>4 DEF InHand
  <2>4. command.step - 1 = Len(Upgrades[r])
    BY <1>1, <1>2, <2>2, <2>3
  <2>5. command.tables = SchemaAt[r]
    BY <1>1, <2>2, <2>3, <2>4
  <2>6. r < command.target => r + 1 \in 1..HeadRevision /\ (r + 1) - 1 = r
    BY <1>1, <1>3, <2>2
  <2>7. r < command.target => Midway(r + 1)[0] = SchemaAt[r] /\ Len(Upgrades[r + 1]) \in Nat
    BY <1>1, <2>6
  <2>8. InHand'
    <3>1. /\ command'.direction = "upgrade" /\ command'.target = command.target
          /\ command'.at = r /\ command'.step = 1 /\ command'.tables = SchemaAt[r]
      BY <2>1, <2>5
    <3>2. r \in 0..HeadRevision /\ failure' = "none"
      BY <1>1, <1>2, <2>2 DEF InHand
    <3>3. r < command.target =>
            /\ 1 \in 1..(Len(Upgrades[r + 1]) + 1) /\ 1 - 1 = 0
            /\ Midway(r + 1)[0] = SchemaAt[r]
      BY <2>7
    <3> HIDE DEF r
    <3> QED BY <1>3, <2>1, <2>2, <3>1, <3>2, <3>3 DEF InHand
  <2> QED BY <1>2, <2>8 DEF MigrationInv, SchemaMatchesRevision, OnlyDuplicatesFail
<1>5. CASE /\ command.direction = "downgrade" /\ command.target <= command.at
           /\ command.at <= revision
  <2> DEFINE r == command.at
  <2>1. command' = [direction |-> "downgrade", target |-> command.target, at |-> r - 1,
                    step |-> 1, tables |-> command.tables]
    BY <1>2, <1>5 DEF InHand
  <2>2. r \in 1..HeadRevision /\ command.target < r /\ Script = Downgrades[r]
    BY <1>1, <1>2, <1>3, <1>5 DEF Script
  <2>3. /\ command.step \in 1..(Len(Upgrades[r]) + 1)
        /\ command.tables = Midway(r)[Len(Upgrades[r]) + 1 - command.step]
    BY <1>2, <1>3, <1>5, <2>2 DEF InHand
  <2>4. Len(Upgrades[r]) + 1 - command.step = 0
    BY <1>1, <1>2, <2>2, <2>3
  <2>5. command.tables = SchemaAt[r - 1]
    BY <1>1, <2>2, <2>3, <2>4
  <2>6. command.target < r - 1 => r - 1 \in 1..HeadRevision
    BY <1>1, <1>3, <2>2
  <2>7. command.target < r - 1 =>
          /\ Midway(r - 1)[Len(Upgrades[r - 1])] = SchemaAt[r - 1]
          /\ Len(Upgrades[r - 1]) \in Nat
    BY <1>1, <2>6
  <2>8. InHand'
    <3> DEFINE b == r - 1
    <3>1. /\ command'.direction = "downgrade" /\ command'.target = command.target
          /\ command'.at = b /\ command'.step = 1 /\ command'.tables = SchemaAt[b]
      BY <2>1, <2>5
    <3>2. /\ b \in 0..HeadRevision /\ failure' = "none" /\ revision' = revision
          /\ command.target <= b /\ b <= revision
      BY <1>1, <1>2, <1>3, <1>5, <2>2 DEF InHand
    <3>3. command.target < b =>
            /\ 1 \in 1..(Len(Upgrades[b]) + 1)
            /\ Midway(b)[Len(Upgrades[b]) + 1 - 1] = SchemaAt[b]
      BY <2>7
    <3>4. command' = [direction |-> "downgrade", target |-> command.target, at |-> b,
                      step |-> 1, tables |-> command.tables]
      BY <2>1
    <3> HIDE DEF b
    <3> QED BY <1>3, <3>1, <3>2, <3>3, <3>4 DEF InHand
  <2> QED BY <1>2, <2>8 DEF MigrationInv, SchemaMatchesRevision, OnlyDuplicatesFail
<1> QED BY <1>2, <1>4, <1>5 DEF InHand

\* Only a unique key that rows repeat is refused, and only e85ae5cf68b0 makes
\* one, on the way down.
LEMMA FailInv == ASSUME ScriptFacts, MigrationInv, Fail PROVE MigrationInv'
<1>1. /\ InScript /\ command' = Idle /\ UNCHANGED <<revision, schema>>
      /\ failure' = Problem(Script[command.step], command.tables, repeated)
      /\ failure' # "none"
  BY DEF Fail
<1>2. /\ HeadRevision \in Nat
      /\ \A r \in 1..HeadRevision : Len(Upgrades[r]) \in Nat
  BY DEF ScriptFacts
<1>3. ASSUME NEW r \in 1..HeadRevision, NEW k \in 1..Len(Upgrades[r]), Rising(r, k) PROVE FALSE
  <2>1. Sound(Midway(r)[k - 1]) /\ Fits(Upgrades[r][k], Midway(r)[k - 1])
    BY DEF ScriptFacts
  <2>2. Problem(Upgrades[r][k], Midway(r)[k - 1], repeated) = "none"
    BY <2>1, FittingRuns
  <2> QED BY <1>1, <1>3, <2>2 DEF Rising
<1>4. ASSUME NEW r \in 1..HeadRevision, NEW k \in 1..Len(Upgrades[r]), Falling(r, k)
      PROVE  failure' = "unique_violation" /\ revision >= 4
  <2> DEFINE down == Downgrades[r][Len(Upgrades[r]) + 1 - k]
  <2>1. Problem(down, Midway(r)[k], repeated) # "none" =>
          Problem(down, Midway(r)[k], repeated) = "unique_violation" /\ r >= 4
    BY Descends
  <2>2. failure' = Problem(down, Midway(r)[k], repeated)
    BY <1>1, <1>4 DEF Falling
  <2>3. revision \in 0..HeadRevision /\ r <= revision
    BY <1>4 DEF Falling, MigrationInv
  <2> HIDE DEF down
  <2>4. failure' = "unique_violation" /\ r >= 4
    BY <1>1, <2>1, <2>2
  <2>5. r \in Int /\ revision \in Int /\ r <= revision
    BY <1>2, <2>3
  <2>6. r >= 4
    BY <2>4
  <2>7. revision >= 4
    BY <2>5, <2>6
  <2> QED BY <2>4, <2>7
<1>5. failure' = "unique_violation" /\ revision >= 4
  BY <1>1, <1>3, <1>4, BeforeStatement
<1> QED BY <1>1, <1>5 DEF MigrationInv, SchemaMatchesRevision, OnlyDuplicatesFail

LEMMA CommitInv == ASSUME ScriptFacts, MigrationInv, Commit PROVE MigrationInv'
<1>1. /\ InHand /\ command.at = command.target
      /\ revision' = command.at /\ schema' = command.tables /\ command' = Idle
      /\ failure' = failure
  BY DEF Commit, Running, Reached, MigrationInv
<1>2. revision' \in 0..HeadRevision /\ schema' = SchemaAt[revision'] /\ failure' = "none"
  BY <1>1 DEF InHand
<1> QED BY <1>1, <1>2 DEF MigrationInv, SchemaMatchesRevision, OnlyDuplicatesFail

LEMMA NextInv == ASSUME ScriptFacts, MigrationInv, [Next]_vars PROVE MigrationInv'
<1>1. ASSUME NEW direction \in {"upgrade", "downgrade"}, NEW target \in 0..HeadRevision,
             Begin(direction, target)
      PROVE  MigrationInv'
  BY <1>1, BeginInv
<1>2. CASE Execute
  BY <1>2, ExecuteInv
<1>3. CASE NextRevision
  BY <1>3, NextRevisionInv
<1>4. CASE Fail
  BY <1>4, FailInv
<1>5. CASE Commit
  BY <1>5, CommitInv
<1>6. CASE Crash
  BY <1>6 DEF Crash, MigrationInv, SchemaMatchesRevision, OnlyDuplicatesFail
<1>7. CASE EnqueueAgain
  BY <1>7 DEF EnqueueAgain, MigrationInv, InHand, SchemaMatchesRevision, OnlyDuplicatesFail
<1>8. CASE UNCHANGED vars
  BY <1>8 DEF vars, MigrationInv, InHand, SchemaMatchesRevision, OnlyDuplicatesFail
<1> QED BY <1>1, <1>2, <1>3, <1>4, <1>5, <1>6, <1>7, <1>8 DEF Next

-----------------------------------------------------------------------------
(* Scripts that only make tables.                                          *)

\* The tables a script has made after n of its statements.
Made(script, n) == {script[i].table : i \in 1..n}

\* A script of new tables, each after those its foreign keys name.
Creates(script, names) ==
  /\ Len(script) \in Nat
  /\ \A k \in 1..Len(script) :
       /\ script[k].op = "create" /\ IsTable(script[k].def)
       /\ script[k].table \notin names \cup Made(script, k - 1)
       /\ \A r \in script[k].def.refs : r.target \in names \cup Made(script, k)

\* The tables in hand after k of its statements: those from before, unchanged,
\* and those it has made.
Grown(after, tables, script, k) ==
  /\ Sound(after)
  /\ DOMAIN after = DOMAIN tables \cup Made(script, k)
  /\ \A t \in DOMAIN tables : after[t] = tables[t]
  /\ \A i \in 1..k : after[script[i].table] = script[i].def

\* One statement more.
LEMMA CreationFits ==
  ASSUME NEW tables, NEW script, Creates(script, DOMAIN tables),
         NEW k \in 1..Len(script), NEW before, Grown(before, tables, script, k - 1)
  PROVE  Fits(script[k], before) /\ Grown(Apply(before, script[k]), tables, script, k)
<1> DEFINE s == script[k]
           after == Apply(before, s)
<1>1. /\ Len(script) \in Nat
      /\ s.op = "create" /\ IsTable(s.def)
      /\ s.table \notin DOMAIN tables \cup Made(script, k - 1)
      /\ \A r \in s.def.refs : r.target \in DOMAIN tables \cup Made(script, k)
  BY DEF Creates
<1>2. Made(script, k) = Made(script, k - 1) \cup {s.table}
  <2>1. 1..k = (1..(k - 1)) \cup {k}
    BY <1>1
  <2> QED BY <2>1 DEF Made
<1>3. /\ Sound(before) /\ DOMAIN before = DOMAIN tables \cup Made(script, k - 1)
      /\ \A t \in DOMAIN tables : before[t] = tables[t]
      /\ \A i \in 1..(k - 1) : before[script[i].table] = script[i].def
  BY DEF Grown
<1>4. Fits(s, before)
  BY <1>1, <1>2, <1>3 DEF Fits
<1>5. Sound(after)
  BY <1>3, <1>4, FittingRuns
<1>6. after = [t \in DOMAIN before \cup {s.table} |-> IF t = s.table THEN s.def ELSE before[t]]
  BY <1>1 DEF Apply
<1> HIDE DEF after
<1>7. DOMAIN after = DOMAIN tables \cup Made(script, k)
  BY <1>2, <1>3, <1>6
<1>8. \A t \in DOMAIN tables : after[t] = tables[t]
  BY <1>1, <1>3, <1>6
<1>9. ASSUME NEW i \in 1..k PROVE after[script[i].table] = script[i].def
  <2>1. CASE i = k
    BY <1>6, <2>1
  <2>2. CASE i # k
    <3>1. i \in 1..(k - 1) /\ script[i].table \in Made(script, k - 1)
      BY <1>1, <2>2 DEF Made
    <3> QED BY <1>1, <1>3, <1>6, <3>1
  <2> QED BY <2>1, <2>2
<1> QED BY <1>4, <1>5, <1>7, <1>8, <1>9 DEF Grown, after

\* So every statement of it fits the tables it finds.
LEMMA CreationsRun ==
  ASSUME NEW tables, Sound(tables), NEW script, Creates(script, DOMAIN tables)
  PROVE  /\ \A k \in 0..Len(script) :
              Grown(TablesAfter(tables, script)[k], tables, script, k)
         /\ \A k \in 1..Len(script) : Fits(script[k], TablesAfter(tables, script)[k - 1])
<1> DEFINE n == Len(script)
           after == TablesAfter(tables, script)
           Good == {k \in 0..n : Grown(after[k], tables, script, k)}
<1>1. n \in Nat
  BY DEF Creates
<1>2. after[0] = tables /\ \A k \in 1..n : after[k] = Apply(after[k - 1], script[k])
  BY <1>1, TablesAfterRuns
<1> HIDE DEF after
<1>3. 0 \in Good
  <2>1. Grown(tables, tables, script, 0)
    BY DEF Grown, Made
  <2> QED BY <1>1, <1>2, <2>1
<1>4. ASSUME NEW k \in 1..n, k - 1 \in Good
      PROVE  k \in Good /\ Fits(script[k], after[k - 1])
  <2>1. Grown(after[k - 1], tables, script, k - 1)
    BY <1>4
  <2>2. Fits(script[k], after[k - 1]) /\ Grown(after[k], tables, script, k)
    BY <1>2, <2>1, CreationFits
  <2> QED BY <1>1, <2>2
<1>5. \A k \in 0..n : k \in Good
  <2>1. Good \in SUBSET Nat
    BY <1>1
  <2> HIDE DEF Good
  <2> QED BY <1>1, <1>3, <1>4, <2>1, EveryNumber
<1>6. \A k \in 1..n : k - 1 \in 0..n
  BY <1>1
<1> QED BY <1>4, <1>5, <1>6 DEF after

-----------------------------------------------------------------------------
(* The four revisions that make tables, and drop them in the opposite      *)
(* order.                                                                  *)

\* A statement that makes this table, with foreign keys to these.
Makes(s, name, targets) ==
  /\ s.op = "create" /\ s.table = name /\ IsTable(s.def)
  /\ \A r \in s.def.refs : r.target \in targets

\* Two tables that later revisions bring to what the ORM classes declare.
Unfinished == {"workflow_queue", "workflow_stage_executions"}

\* The tables of da7249485c82.
InitialTables ==
  {"users", "notifications", "oauth_accounts", "organizations", "sessions",
   "user_preferences", "audit_logs", "organization_members", "projects",
   "project_members"}

\* The statements of UpgradeInitial, one after the other.
LEMMA InitialParts ==
  /\ Len(UpgradeInitial) = 10
  /\ UpgradeInitial[1] = CreateUserTables[1]
  /\ UpgradeInitial[2] = CreateUserTables[2]
  /\ UpgradeInitial[3] = CreateUserTables[3]
  /\ UpgradeInitial[4] = CreateUserTables[4]
  /\ UpgradeInitial[5] = CreateSessionTables[1]
  /\ UpgradeInitial[6] = CreateSessionTables[2]
  /\ UpgradeInitial[7] = CreateSessionTables[3]
  /\ UpgradeInitial[8] = CreateMembershipTables[1]
  /\ UpgradeInitial[9] = CreateMembershipTables[2]
  /\ UpgradeInitial[10] = CreateProjectMembers[1]
<1>1. PICK a, b, c, d : CreateUserTables = <<a, b, c, d>>
  BY Zenon DEF CreateUserTables
<1>2. PICK e, f, g : CreateSessionTables = <<e, f, g>>
  BY Zenon DEF CreateSessionTables
<1>3. PICK h, i : CreateMembershipTables = <<h, i>>
  BY Zenon DEF CreateMembershipTables
<1>4. PICK j : CreateProjectMembers = <<j>>
  BY Zenon DEF CreateProjectMembers
<1>5. UpgradeInitial = <<a, b, c, d>> \o <<e, f, g>> \o <<h, i>> \o <<j>>
  BY <1>1, <1>2, <1>3, <1>4 DEF UpgradeInitial
<1>6. /\ Len(UpgradeInitial) = 10
      /\ UpgradeInitial[1] = a /\ UpgradeInitial[2] = b /\ UpgradeInitial[3] = c
      /\ UpgradeInitial[4] = d /\ UpgradeInitial[5] = e /\ UpgradeInitial[6] = f
      /\ UpgradeInitial[7] = g /\ UpgradeInitial[8] = h /\ UpgradeInitial[9] = i
      /\ UpgradeInitial[10] = j
  BY <1>5
<1> QED BY <1>1, <1>2, <1>3, <1>4, <1>6

\* What its upgrade makes.
LEMMA InitialMakes ==
  /\ Len(UpgradeInitial) = 10
  /\ Makes(UpgradeInitial[1], "users", {})
  /\ Makes(UpgradeInitial[2], "notifications", {"users"})
  /\ Makes(UpgradeInitial[3], "oauth_accounts", {"users"})
  /\ Makes(UpgradeInitial[4], "organizations", {"users"})
  /\ Makes(UpgradeInitial[5], "sessions", {"users"})
  /\ Makes(UpgradeInitial[6], "user_preferences", {"users"})
  /\ Makes(UpgradeInitial[7], "audit_logs", {"users", "organizations"})
  /\ Makes(UpgradeInitial[8], "organization_members", {"users", "organizations"})
  /\ Makes(UpgradeInitial[9], "projects", {"users", "organizations"})
  /\ Makes(UpgradeInitial[10], "project_members", {"projects", "users"})
<1>1. /\ Makes(CreateUserTables[1], "users", {})
      /\ Makes(CreateUserTables[2], "notifications", {"users"})
      /\ Makes(CreateUserTables[3], "oauth_accounts", {"users"})
      /\ Makes(CreateUserTables[4], "organizations", {"users"})
  BY DEF Makes, CreateUserTables, Create, Table, Ref, IsTable
<1>2. /\ Makes(CreateSessionTables[1], "sessions", {"users"})
      /\ Makes(CreateSessionTables[2], "user_preferences", {"users"})
      /\ Makes(CreateSessionTables[3], "audit_logs", {"users", "organizations"})
  BY DEF Makes, CreateSessionTables, Create, Table, Ref, IsTable
<1>3. /\ Makes(CreateMembershipTables[1], "organization_members",
               {"users", "organizations"})
      /\ Makes(CreateMembershipTables[2], "projects", {"users", "organizations"})
  BY DEF Makes, CreateMembershipTables, Create, Table, Ref, IsTable
<1>4. /\ Makes(CreateProjectMembers[1], "project_members", {"projects", "users"})
  BY DEF Makes, CreateProjectMembers, Create, Table, Ref, IsTable
<1> QED BY <1>1, <1>2, <1>3, <1>4, InitialParts

\* All of it together.
LEMMA InitialMade == Made(UpgradeInitial, 10) = InitialTables
<1>1. 1..10 = {1, 2, 3, 4, 5, 6, 7, 8, 9, 10}
  OBVIOUS
<1> QED BY <1>1, InitialMakes DEF Made, Makes, InitialTables

\* No table is made twice or before one it refers to.
LEMMA InitialCreates == Creates(UpgradeInitial, {})
<1>1. ASSUME NEW k \in 1..10
      PROVE  /\ UpgradeInitial[k].op = "create" /\ IsTable(UpgradeInitial[k].def)
             /\ UpgradeInitial[k].table \notin Made(UpgradeInitial, k - 1)
             /\ \A r \in UpgradeInitial[k].def.refs :
                  r.target \in Made(UpgradeInitial, k)
  <2>1. k = 1 \/ k = 2 \/ k = 3 \/ k = 4 \/ k = 5 \/ k = 6
        \/ k = 7 \/ k = 8 \/ k = 9 \/ k = 10
    OBVIOUS
  <2> QED BY <2>1, InitialMakes DEF Makes, Made
<1> QED BY <1>1, InitialMakes DEF Creates

\* What its downgrade drops.
LEMMA InitialDrops ==
  /\ Len(DowngradeInitial) = 10
  /\ DowngradeInitial[1] = Drop("project_members")
  /\ DowngradeInitial[2] = Drop("projects")
  /\ DowngradeInitial[3] = Drop("organization_members")
  /\ DowngradeInitial[4] = Drop("audit_logs")
  /\ DowngradeInitial[5] = Drop("user_preferences")
  /\ DowngradeInitial[6] = Drop("sessions")
  /\ DowngradeInitial[7] = Drop("organizations")
  /\ DowngradeInitial[8] = Drop("oauth_accounts")
  /\ DowngradeInitial[9] = Drop("notifications")
  /\ DowngradeInitial[10] = Drop("users")
BY DEF DowngradeInitial, DropAll

\* They are the same tables, in the opposite order.
LEMMA InitialReverses ==
  \A k \in 1..10 : Reverses(DowngradeInitial[11 - k], UpgradeInitial[k])
<1> SUFFICES ASSUME NEW k \in 1..10 PROVE Reverses(DowngradeInitial[11 - k], UpgradeInitial[k])
  OBVIOUS
<1>1. k = 1 \/ k = 2 \/ k = 3 \/ k = 4 \/ k = 5 \/ k = 6
      \/ k = 7 \/ k = 8 \/ k = 9 \/ k = 10
  OBVIOUS
<1> QED BY <1>1, InitialMakes, InitialDrops DEF Makes, Drop, Reverses

\* They are as the ORM classes declare them.
LEMMA InitialDefs ==
  \A i \in 1..10 : UpgradeInitial[i].def = Models[UpgradeInitial[i].table]
<1>1. /\ CreateUserTables[1].def = User
      /\ CreateUserTables[2].def = Notification
      /\ CreateUserTables[3].def = OAuthAccount
      /\ CreateUserTables[4].def = Organization
  BY DEF Create, CreateUserTables, User, Notification, OAuthAccount, Organization
<1>2. /\ CreateSessionTables[1].def = UserSession
      /\ CreateSessionTables[2].def = UserPreference
      /\ CreateSessionTables[3].def = AuditLog
  BY DEF Create, CreateSessionTables, UserSession, UserPreference, AuditLog
<1>3. /\ CreateMembershipTables[1].def = OrganizationMember
      /\ CreateMembershipTables[2].def = Project
  BY DEF Create, CreateMembershipTables, OrganizationMember, Project
<1>4. /\ CreateProjectMembers[1].def = ProjectMember
  BY DEF Create, CreateProjectMembers, ProjectMember
<1>5. ASSUME NEW i \in 1..10 PROVE UpgradeInitial[i].def = Models[UpgradeInitial[i].table]
  <2>1. i = 1 \/ i = 2 \/ i = 3 \/ i = 4 \/ i = 5 \/ i = 6
        \/ i = 7 \/ i = 8 \/ i = 9 \/ i = 10
    OBVIOUS
  <2> QED BY <1>1, <1>2, <1>3, <1>4, <2>1, InitialParts, InitialMakes DEF Makes, Models
<1> QED BY <1>5

\* The tables of cfa3479fae2b.
WorkflowTables ==
  {"workflows", "workflow_templates", "workflow_versions",
   "workflow_executions", "workflow_stages", "workflow_events",
   "workflow_metrics", "workflow_queue", "workflow_stage_executions",
   "workflow_approvals", "workflow_artifacts", "workflow_logs"}

\* The statements of UpgradeWorkflow, one after the other.
LEMMA WorkflowParts ==
  /\ Len(UpgradeWorkflow) = 12
  /\ UpgradeWorkflow[1] = CreateWorkflowTables[1]
  /\ UpgradeWorkflow[2] = CreateWorkflowTables[2]
  /\ UpgradeWorkflow[3] = CreateWorkflowTables[3]
  /\ UpgradeWorkflow[4] = CreateExecutionTables[1]
  /\ UpgradeWorkflow[5] = CreateExecutionTables[2]
  /\ UpgradeWorkflow[6] = CreateEventTables[1]
  /\ UpgradeWorkflow[7] = CreateEventTables[2]
  /\ UpgradeWorkflow[8] = CreateEventTables[3]
  /\ UpgradeWorkflow[9] = CreateStageRunTables[1]
  /\ UpgradeWorkflow[10] = CreateStageRunTables[2]
  /\ UpgradeWorkflow[11] = CreateOutputTables[1]
  /\ UpgradeWorkflow[12] = CreateOutputTables[2]
<1>1. PICK a, b, c : CreateWorkflowTables = <<a, b, c>>
  BY Zenon DEF CreateWorkflowTables
<1>2. PICK d, e : CreateExecutionTables = <<d, e>>
  BY Zenon DEF CreateExecutionTables
<1>3. PICK f, g, h : CreateEventTables = <<f, g, h>>
  BY Zenon DEF CreateEventTables
<1>4. PICK i, j : CreateStageRunTables = <<i, j>>
  BY Zenon DEF CreateStageRunTables
<1>5. PICK k, l : CreateOutputTables = <<k, l>>
  BY Zenon DEF CreateOutputTables
<1>6. UpgradeWorkflow = <<a, b, c>> \o <<d, e>> \o <<f, g, h>> \o <<i, j>> \o <<k, l>>
  BY <1>1, <1>2, <1>3, <1>4, <1>5 DEF UpgradeWorkflow
<1>7. /\ Len(UpgradeWorkflow) = 12
      /\ UpgradeWorkflow[1] = a /\ UpgradeWorkflow[2] = b /\ UpgradeWorkflow[3] = c
      /\ UpgradeWorkflow[4] = d /\ UpgradeWorkflow[5] = e /\ UpgradeWorkflow[6] = f
      /\ UpgradeWorkflow[7] = g /\ UpgradeWorkflow[8] = h /\ UpgradeWorkflow[9] = i
      /\ UpgradeWorkflow[10] = j /\ UpgradeWorkflow[11] = k /\ UpgradeWorkflow[12] = l
  BY <1>6
<1> QED BY <1>1, <1>2, <1>3, <1>4, <1>5, <1>7

\* What its upgrade makes.
LEMMA WorkflowMakes ==
  /\ Len(UpgradeWorkflow) = 12
  /\ Makes(UpgradeWorkflow[1], "workflows", {"users"})
  /\ Makes(UpgradeWorkflow[2], "workflow_templates", {"workflows"})
  /\ Makes(UpgradeWorkflow[3], "workflow_versions", {"workflows"})
  /\ Makes(UpgradeWorkflow[4], "workflow_executions",
           {"projects", "users", "workflows", "workflow_versions"})
  /\ Makes(UpgradeWorkflow[5], "workflow_stages", {"workflow_versions"})
  /\ Makes(UpgradeWorkflow[6], "workflow_events", {"workflow_executions"})
  /\ Makes(UpgradeWorkflow[7], "workflow_metrics", {"workflow_executions"})
  /\ Makes(UpgradeWorkflow[8], "workflow_queue", {"workflow_executions"})
  /\ Makes(UpgradeWorkflow[9], "workflow_stage_executions",
           {"workflow_executions", "workflow_stages"})
  /\ Makes(UpgradeWorkflow[10], "workflow_approvals",
           {"users", "workflow_stage_executions", "workflow_executions"})
  /\ Makes(UpgradeWorkflow[11], "workflow_artifacts",
           {"workflow_stage_executions", "workflow_executions"})
  /\ Makes(UpgradeWorkflow[12], "workflow_logs",
           {"workflow_stage_executions", "workflow_executions"})
<1>1. /\ Makes(CreateWorkflowTables[1], "workflows", {"users"})
      /\ Makes(CreateWorkflowTables[2], "workflow_templates", {"workflows"})
      /\ Makes(CreateWorkflowTables[3], "workflow_versions", {"workflows"})
  BY DEF Makes, CreateWorkflowTables, Create, Table, Ref, IsTable, OfExecution, OfStageRun
<1>2. /\ Makes(CreateExecutionTables[1], "workflow_executions",
               {"projects", "users", "workflows", "workflow_versions"})
      /\ Makes(CreateExecutionTables[2], "workflow_stages", {"workflow_versions"})
  BY DEF Makes, CreateExecutionTables, Create, Table, Ref, IsTable, OfExecution, OfStageRun
<1>3. /\ Makes(CreateEventTables[1], "workflow_events", {"workflow_executions"})
      /\ Makes(CreateEventTables[2], "workflow_metrics", {"workflow_executions"})
      /\ Makes(CreateEventTables[3], "workflow_queue", {"workflow_executions"})
  BY DEF Makes, CreateEventTables, Create, Table, Ref, IsTable, OfExecution, OfStageRun
<1>4. /\ Makes(CreateStageRunTables[1], "workflow_stage_executions",
               {"workflow_executions", "workflow_stages"})
      /\ Makes(CreateStageRunTables[2], "workflow_approvals",
               {"users", "workflow_stage_executions", "workflow_executions"})
  BY DEF Makes, CreateStageRunTables, Create, Table, Ref, IsTable, OfExecution, OfStageRun
<1>5. /\ Makes(CreateOutputTables[1], "workflow_artifacts",
               {"workflow_stage_executions", "workflow_executions"})
      /\ Makes(CreateOutputTables[2], "workflow_logs",
               {"workflow_stage_executions", "workflow_executions"})
  BY DEF Makes, CreateOutputTables, Create, Table, Ref, IsTable, OfExecution, OfStageRun
<1> QED BY <1>1, <1>2, <1>3, <1>4, <1>5, WorkflowParts

\* All of it together.
LEMMA WorkflowMade == Made(UpgradeWorkflow, 12) = WorkflowTables
<1>1. 1..12 = {1, 2, 3, 4, 5, 6, 7, 8, 9, 10, 11, 12}
  OBVIOUS
<1> QED BY <1>1, WorkflowMakes DEF Made, Makes, WorkflowTables

\* No table is made twice or before one it refers to.
LEMMA WorkflowCreates == Creates(UpgradeWorkflow, InitialTables)
<1>1. ASSUME NEW k \in 1..12
      PROVE  /\ UpgradeWorkflow[k].op = "create" /\ IsTable(UpgradeWorkflow[k].def)
             /\ UpgradeWorkflow[k].table \notin InitialTables \cup Made(UpgradeWorkflow, k - 1)
             /\ \A r \in UpgradeWorkflow[k].def.refs :
                  r.target \in InitialTables \cup Made(UpgradeWorkflow, k)
  <2>1. k = 1 \/ k = 2 \/ k = 3 \/ k = 4 \/ k = 5 \/ k = 6
        \/ k = 7 \/ k = 8 \/ k = 9 \/ k = 10 \/ k = 11 \/ k = 12
    OBVIOUS
  <2> QED BY <2>1, WorkflowMakes DEF Makes, Made, InitialTables
<1> QED BY <1>1, WorkflowMakes DEF Creates

\* What its downgrade drops.
LEMMA WorkflowDrops ==
  /\ Len(DowngradeWorkflow) = 12
  /\ DowngradeWorkflow[1] = Drop("workflow_logs")
  /\ DowngradeWorkflow[2] = Drop("workflow_artifacts")
  /\ DowngradeWorkflow[3] = Drop("workflow_approvals")
  /\ DowngradeWorkflow[4] = Drop("workflow_stage_executions")
  /\ DowngradeWorkflow[5] = Drop("workflow_queue")
  /\ DowngradeWorkflow[6] = Drop("workflow_metrics")
  /\ DowngradeWorkflow[7] = Drop("workflow_events")
  /\ DowngradeWorkflow[8] = Drop("workflow_stages")
  /\ DowngradeWorkflow[9] = Drop("workflow_executions")
  /\ DowngradeWorkflow[10] = Drop("workflow_versions")
  /\ DowngradeWorkflow[11] = Drop("workflow_templates")
  /\ DowngradeWorkflow[12] = Drop("workflows")
BY DEF DowngradeWorkflow, DropAll

\* They are the same tables, in the opposite order.
LEMMA WorkflowReverses ==
  \A k \in 1..12 : Reverses(DowngradeWorkflow[13 - k], UpgradeWorkflow[k])
<1> SUFFICES ASSUME NEW k \in 1..12 PROVE Reverses(DowngradeWorkflow[13 - k], UpgradeWorkflow[k])
  OBVIOUS
<1>1. k = 1 \/ k = 2 \/ k = 3 \/ k = 4 \/ k = 5 \/ k = 6
      \/ k = 7 \/ k = 8 \/ k = 9 \/ k = 10 \/ k = 11 \/ k = 12
  OBVIOUS
<1> QED BY <1>1, WorkflowMakes, WorkflowDrops DEF Makes, Drop, Reverses

\* They are as the ORM classes declare them, except two.
LEMMA WorkflowDefs ==
  \A i \in 1..12 : \/ UpgradeWorkflow[i].table \in Unfinished
                  \/ UpgradeWorkflow[i].def = Models[UpgradeWorkflow[i].table]
<1>1. /\ CreateWorkflowTables[1].def = Workflow
      /\ CreateWorkflowTables[2].def = WorkflowTemplate
      /\ CreateWorkflowTables[3].def = WorkflowVersion
  BY DEF Create, CreateWorkflowTables, Workflow, WorkflowTemplate, WorkflowVersion
<1>2. /\ CreateExecutionTables[1].def = WorkflowExecution
      /\ CreateExecutionTables[2].def = WorkflowStage
  BY DEF Create, CreateExecutionTables, WorkflowExecution, WorkflowStage
<1>3. /\ CreateEventTables[1].def = WorkflowEvent
      /\ CreateEventTables[2].def = WorkflowMetric
  BY DEF Create, CreateEventTables, WorkflowEvent, WorkflowMetric
<1>4. /\ CreateStageRunTables[2].def = WorkflowApproval
  BY DEF Create, CreateStageRunTables, WorkflowApproval
<1>5. /\ CreateOutputTables[1].def = WorkflowArtifact
      /\ CreateOutputTables[2].def = WorkflowLog
  BY DEF Create, CreateOutputTables, WorkflowArtifact, WorkflowLog
<1>6. ASSUME NEW i \in 1..12
      PROVE  \/ UpgradeWorkflow[i].table \in Unfinished
             \/ UpgradeWorkflow[i].def = Models[UpgradeWorkflow[i].table]
  <2>1. i = 1 \/ i = 2 \/ i = 3 \/ i = 4 \/ i = 5 \/ i = 6
        \/ i = 7 \/ i = 8 \/ i = 9 \/ i = 10 \/ i = 11 \/ i = 12
    OBVIOUS
  <2> QED BY <1>1, <1>2, <1>3, <1>4, <1>5, <2>1, WorkflowParts, WorkflowMakes
         DEF Makes, Models, Unfinished
<1> QED BY <1>6

\* The tables of f0a06220c14f.
ModelRouterTables ==
  {"model_profiles", "usage_ledger"}

\* What its upgrade makes.
LEMMA ModelRouterMakes ==
  /\ Len(UpgradeModelRouter) = 2
  /\ Makes(UpgradeModelRouter[1], "model_profiles", {})
  /\ Makes(UpgradeModelRouter[2], "usage_ledger",
           {"model_profiles", "organizations", "projects", "workflow_executions"})
BY DEF Makes, UpgradeModelRouter, Create, Table, Ref, IsTable

\* All of it together.
LEMMA ModelRouterMade == Made(UpgradeModelRouter, 2) = ModelRouterTables
<1>1. 1..2 = {1, 2}
  OBVIOUS
<1> QED BY <1>1, ModelRouterMakes DEF Made, Makes, ModelRouterTables

\* No table is made twice or before one it refers to.
LEMMA ModelRouterCreates == Creates(UpgradeModelRouter, InitialTables \cup WorkflowTables)
<1> DEFINE names == InitialTables \cup WorkflowTables
<1>1. ASSUME NEW k \in 1..2
      PROVE  /\ UpgradeModelRouter[k].op = "create" /\ IsTable(UpgradeModelRouter[k].def)
             /\ UpgradeModelRouter[k].table \notin names \cup Made(UpgradeModelRouter, k - 1)
             /\ \A r \in UpgradeModelRouter[k].def.refs :
                  r.target \in names \cup Made(UpgradeModelRouter, k)
  <2>1. k = 1 \/ k = 2
    OBVIOUS
  <2> QED BY <2>1, ModelRouterMakes DEF Makes, Made, InitialTables, WorkflowTables
<1> QED BY <1>1, ModelRouterMakes DEF Creates

\* What its downgrade drops.
LEMMA ModelRouterDrops ==
  /\ Len(DowngradeModelRouter) = 2
  /\ DowngradeModelRouter[1] = Drop("usage_ledger")
  /\ DowngradeModelRouter[2] = Drop("model_profiles")
BY DEF DowngradeModelRouter, DropAll

\* They are the same tables, in the opposite order.
LEMMA ModelRouterReverses ==
  \A k \in 1..2 : Reverses(DowngradeModelRouter[3 - k], UpgradeModelRouter[k])
<1> SUFFICES ASSUME NEW k \in 1..2
             PROVE Reverses(DowngradeModelRouter[3 - k], UpgradeModelRouter[k])
  OBVIOUS
<1>1. k = 1 \/ k = 2
  OBVIOUS
<1> QED BY <1>1, ModelRouterMakes, ModelRouterDrops DEF Makes, Drop, Reverses

\* They are as the ORM classes declare them.
LEMMA ModelRouterDefs ==
  \A i \in 1..2 : UpgradeModelRouter[i].def = Models[UpgradeModelRouter[i].table]
BY DEF UpgradeModelRouter, Create, Models, ModelProfileRecord, UsageLedgerEntry

\* The tables of cef8e58d0a23.
MemoryTables ==
  {"architecture_decisions", "memory_events"}

\* What its upgrade makes.
LEMMA MemoryMakes ==
  /\ Len(UpgradeMemory) = 2
  /\ Makes(UpgradeMemory[1], "architecture_decisions",
           {"users", "projects", "architecture_decisions"})
  /\ Makes(UpgradeMemory[2], "memory_events", {"projects"})
BY DEF Makes, UpgradeMemory, Create, Table, Ref, IsTable

\* All of it together.
LEMMA MemoryMade == Made(UpgradeMemory, 2) = MemoryTables
<1>1. 1..2 = {1, 2}
  OBVIOUS
<1> QED BY <1>1, MemoryMakes DEF Made, Makes, MemoryTables

\* No table is made twice or before one it refers to.
LEMMA MemoryCreates ==
  Creates(UpgradeMemory, InitialTables \cup WorkflowTables \cup ModelRouterTables)
<1> DEFINE names == InitialTables \cup WorkflowTables \cup ModelRouterTables
<1>1. ASSUME NEW k \in 1..2
      PROVE  /\ UpgradeMemory[k].op = "create" /\ IsTable(UpgradeMemory[k].def)
             /\ UpgradeMemory[k].table \notin names \cup Made(UpgradeMemory, k - 1)
             /\ \A r \in UpgradeMemory[k].def.refs :
                  r.target \in names \cup Made(UpgradeMemory, k)
  <2>1. k = 1 \/ k = 2
    OBVIOUS
  <2> QED BY <2>1, MemoryMakes DEF Makes, Made, InitialTables, WorkflowTables, ModelRouterTables
<1> QED BY <1>1, MemoryMakes DEF Creates

\* What its downgrade drops.
LEMMA MemoryDrops ==
  /\ Len(DowngradeMemory) = 2
  /\ DowngradeMemory[1] = Drop("memory_events")
  /\ DowngradeMemory[2] = Drop("architecture_decisions")
BY DEF DowngradeMemory, DropAll

\* They are the same tables, in the opposite order.
LEMMA MemoryReverses ==
  \A k \in 1..2 : Reverses(DowngradeMemory[3 - k], UpgradeMemory[k])
<1> SUFFICES ASSUME NEW k \in 1..2 PROVE Reverses(DowngradeMemory[3 - k], UpgradeMemory[k])
  OBVIOUS
<1>1. k = 1 \/ k = 2
  OBVIOUS
<1> QED BY <1>1, MemoryMakes, MemoryDrops DEF Makes, Drop, Reverses

\* They are as the ORM classes declare them.
LEMMA MemoryDefs ==
  \A i \in 1..2 : UpgradeMemory[i].def = Models[UpgradeMemory[i].table]
BY DEF UpgradeMemory, Create, Models, ArchitectureDecision, MemoryEvent

-----------------------------------------------------------------------------
(* The chain of revisions.                                                 *)

\* The tables are those of the ORM classes, apart from some that are not yet.
AsModelled(tables, names, except) ==
  /\ Sound(tables) /\ DOMAIN tables = names
  /\ \A t \in names \ except : tables[t] = Models[t]

\* Every statement of upgrade r finds what it needs.
Ready(r) ==
  \A k \in 1..Len(Upgrades[r]) :
    Sound(Midway(r)[k - 1]) /\ Fits(Upgrades[r][k], Midway(r)[k - 1])

\* The two chains.
LEMMA Scripts ==
  /\ HeadRevision = 6
  /\ Upgrades[1] = UpgradeInitial /\ Downgrades[1] = DowngradeInitial
  /\ Upgrades[2] = UpgradeWorkflow /\ Downgrades[2] = DowngradeWorkflow
  /\ Upgrades[3] = UpgradeRetryAfter /\ Downgrades[3] = DowngradeRetryAfter
  /\ Upgrades[4] = UpgradeQueueKey /\ Downgrades[4] = DowngradeQueueKey
  /\ Upgrades[5] = UpgradeModelRouter /\ Downgrades[5] = DowngradeModelRouter
  /\ Upgrades[6] = UpgradeMemory /\ Downgrades[6] = DowngradeMemory
BY DEF HeadRevision, Upgrades, Downgrades

\* A revision that only makes tables.
LEMMA CreatingRevision ==
  ASSUME NEW r \in 1..6, Sound(SchemaAt[r - 1]),
         Creates(Upgrades[r], DOMAIN SchemaAt[r - 1])
  PROVE  Ready(r) /\ Grown(SchemaAt[r], SchemaAt[r - 1], Upgrades[r], Len(Upgrades[r]))
<1> DEFINE below == SchemaAt[r - 1]
           script == Upgrades[r]
<1>1. HeadRevision = 6 /\ Len(script) \in Nat
  BY Scripts DEF Creates
<1>2. Midway(r) = TablesAfter(below, script) /\ Midway(r)[Len(script)] = SchemaAt[r]
  BY <1>1, MidwayEnds DEF Midway
<1>3. Sound(below) /\ Creates(script, DOMAIN below)
  OBVIOUS
<1> HIDE DEF below, script
<1>4. /\ \A k \in 0..Len(script) : Grown(TablesAfter(below, script)[k], below, script, k)
      /\ \A k \in 1..Len(script) : Fits(script[k], TablesAfter(below, script)[k - 1])
  BY <1>3, CreationsRun
<1>5. ASSUME NEW k \in 1..Len(script)
      PROVE  Sound(Midway(r)[k - 1]) /\ Fits(script[k], Midway(r)[k - 1])
  <2>1. k - 1 \in 0..Len(script)
    BY <1>1
  <2> QED BY <1>2, <1>4, <2>1 DEF Grown
<1>6. Grown(SchemaAt[r], below, script, Len(script))
  BY <1>1, <1>2, <1>4
<1> QED BY <1>5, <1>6 DEF below, script, Ready

\* What it makes are tables of the ORM classes, as far as its statements are.
LEMMA GrownAsModelled ==
  ASSUME NEW tables, NEW names, NEW except, AsModelled(tables, names, except),
         NEW script, NEW n \in Nat, NEW after, Grown(after, tables, script, n), NEW new,
         \A i \in 1..n : script[i].table \in new \/ script[i].def = Models[script[i].table]
  PROVE  AsModelled(after, names \cup Made(script, n), except \cup new)
<1>1. Sound(after) /\ DOMAIN after = names \cup Made(script, n)
  BY DEF Grown, AsModelled
<1>2. ASSUME NEW t \in (names \cup Made(script, n)) \ (except \cup new)
      PROVE  after[t] = Models[t]
  <2>1. CASE t \in names
    BY <1>2, <2>1 DEF Grown, AsModelled
  <2>2. CASE t \in Made(script, n)
    BY <1>2, <2>2 DEF Grown, Made
  <2> QED BY <2>1, <2>2
<1> QED BY <1>1, <1>2 DEF AsModelled

\* The accounts.
LEMMA Revision1 == Ready(1) /\ AsModelled(SchemaAt[1], InitialTables, {})
<1>1. SchemaAt[0] = NoTables /\ DOMAIN NoTables = {} /\ Sound(NoTables) /\ AsModelled(NoTables, {}, {})
  BY Scripts, SchemaAtChain DEF NoTables, Sound, AsModelled
<1>2. /\ Upgrades[1] = UpgradeInitial /\ Len(UpgradeInitial) = 10
      /\ Creates(UpgradeInitial, {}) /\ 1 - 1 = 0
  BY Scripts, InitialMakes, InitialCreates
<1>3. Ready(1) /\ Grown(SchemaAt[1], NoTables, UpgradeInitial, 10)
  <2>1. Sound(SchemaAt[1 - 1]) /\ Creates(Upgrades[1], DOMAIN SchemaAt[1 - 1])
    BY <1>1, <1>2
  <2>2. Ready(1) /\ Grown(SchemaAt[1], SchemaAt[1 - 1], Upgrades[1], Len(Upgrades[1]))
    BY <2>1, CreatingRevision
  <2> QED BY <1>1, <1>2, <2>2
<1>4. AsModelled(SchemaAt[1], {} \cup Made(UpgradeInitial, 10), {} \cup {})
  BY <1>1, <1>3, InitialDefs, GrownAsModelled
<1> QED BY <1>3, <1>4, InitialMade

\* A revision of one statement that alters a table.
LEMMA AlteringRevision ==
  ASSUME NEW r \in 1..6, Len(Upgrades[r]) = 1,
         Sound(SchemaAt[r - 1]), Fits(Upgrades[r][1], SchemaAt[r - 1])
  PROVE  Ready(r) /\ SchemaAt[r] = Apply(SchemaAt[r - 1], Upgrades[r][1])
<1>1. HeadRevision = 6 /\ Len(Upgrades[r]) \in Nat
  BY Scripts
<1>2. /\ Midway(r)[0] = SchemaAt[r - 1] /\ Midway(r)[Len(Upgrades[r])] = SchemaAt[r]
      /\ \A k \in 1..Len(Upgrades[r]) : Midway(r)[k] = Apply(Midway(r)[k - 1], Upgrades[r][k])
  BY <1>1, MidwayEnds
<1>3. Midway(r)[1] = Apply(Midway(r)[0], Upgrades[r][1])
  BY <1>2
<1> QED BY <1>2, <1>3 DEF Ready

\* The two tables as cfa3479fae2b makes them and as the ORM classes have them.
LEMMA UnfinishedDefs ==
  LET stages == Table({OfExecution, Ref("workflow_stage_id", "workflow_stages", "RESTRICT")}, {})
  IN  /\ UpgradeWorkflow[8].table = "workflow_queue"
      /\ UpgradeWorkflow[8].def = Table({OfExecution}, {QueueKey})
      /\ Models["workflow_queue"] = Table({OfExecution}, {})
      /\ UpgradeWorkflow[9].table = "workflow_stage_executions"
      /\ UpgradeWorkflow[9].def = stages
      /\ Models["workflow_stage_executions"]
           = [refs |-> stages.refs, unique |-> stages.unique, added |-> {"retry_after"}]
<1> DEFINE refs == {OfExecution, Ref("workflow_stage_id", "workflow_stages", "RESTRICT")}
<1>1. /\ CreateEventTables[3] = Create("workflow_queue", {OfExecution}, {QueueKey})
      /\ CreateStageRunTables[1] = Create("workflow_stage_executions", refs, {})
  BY DEF CreateEventTables, CreateStageRunTables, QueueKey
<1>2. /\ Models["workflow_queue"] = WorkflowQueueEntry
      /\ Models["workflow_stage_executions"] = WorkflowStageExecution
  BY DEF Models
<1>3. WorkflowStageExecution = [Table(refs, {}) EXCEPT !.added = {"retry_after"}]
  BY DEF WorkflowStageExecution
<1> HIDE DEF refs
<1>4. WorkflowStageExecution = [refs |-> refs, unique |-> {}, added |-> {"retry_after"}]
  BY <1>3 DEF Table
<1>5. /\ UpgradeWorkflow[8].table = "workflow_queue"
      /\ UpgradeWorkflow[8].def = Table({OfExecution}, {QueueKey})
      /\ UpgradeWorkflow[9].table = "workflow_stage_executions"
      /\ UpgradeWorkflow[9].def = Table(refs, {})
  BY <1>1, WorkflowParts DEF Create
<1>6. Table(refs, {}).refs = refs /\ Table(refs, {}).unique = {}
  BY DEF Table
<1>7. WorkflowQueueEntry = Table({OfExecution}, {})
  BY DEF WorkflowQueueEntry
<1> QED BY <1>2, <1>4, <1>5, <1>6, <1>7 DEF refs

\* The workflows, two of whose tables are unfinished.
LEMMA Revision2 ==
  /\ Ready(2) /\ AsModelled(SchemaAt[2], InitialTables \cup WorkflowTables, Unfinished)
  /\ SchemaAt[2]["workflow_queue"] = UpgradeWorkflow[8].def
  /\ SchemaAt[2]["workflow_stage_executions"] = UpgradeWorkflow[9].def
<1>1. AsModelled(SchemaAt[1], InitialTables, {}) /\ 2 - 1 = 1
  BY Revision1
<1>2. /\ Upgrades[2] = UpgradeWorkflow /\ Len(UpgradeWorkflow) = 12
      /\ Creates(UpgradeWorkflow, InitialTables)
  BY Scripts, WorkflowMakes, WorkflowCreates
<1>3. Ready(2) /\ Grown(SchemaAt[2], SchemaAt[1], UpgradeWorkflow, 12)
  <2>1. Sound(SchemaAt[2 - 1]) /\ Creates(Upgrades[2], DOMAIN SchemaAt[2 - 1])
    BY <1>1, <1>2 DEF AsModelled
  <2>2. Ready(2) /\ Grown(SchemaAt[2], SchemaAt[2 - 1], Upgrades[2], Len(Upgrades[2]))
    BY <2>1, CreatingRevision
  <2> QED BY <1>1, <1>2, <2>2
<1>4. AsModelled(SchemaAt[2], InitialTables \cup Made(UpgradeWorkflow, 12), {} \cup Unfinished)
  BY <1>1, <1>3, WorkflowDefs, GrownAsModelled
<1>5. /\ SchemaAt[2][UpgradeWorkflow[8].table] = UpgradeWorkflow[8].def
      /\ SchemaAt[2][UpgradeWorkflow[9].table] = UpgradeWorkflow[9].def
  BY <1>3 DEF Grown
<1>6. {} \cup Unfinished = Unfinished
  OBVIOUS
<1> QED BY <1>3, <1>4, <1>5, <1>6, WorkflowMade, UnfinishedDefs

\* The column retry_after finishes the stage executions.
LEMMA Revision3 ==
  /\ Ready(3)
  /\ AsModelled(SchemaAt[3], InitialTables \cup WorkflowTables, {"workflow_queue"})
  /\ SchemaAt[3]["workflow_queue"] = UpgradeWorkflow[8].def
<1> DEFINE s == Upgrades[3][1]
           below == SchemaAt[2]
           names == InitialTables \cup WorkflowTables
<1>1. Upgrades[3] = UpgradeRetryAfter /\ Len(Upgrades[3]) = 1 /\ 3 - 1 = 2
  BY Scripts DEF UpgradeRetryAfter
<1>2. s.op = "add_column" /\ s.table = "workflow_stage_executions" /\ s.column = "retry_after"
  BY <1>1 DEF UpgradeRetryAfter, AddColumn
<1>3. /\ Sound(below) /\ DOMAIN below = names /\ s.table \in names /\ "workflow_queue" \in names
      /\ \A t \in names \ Unfinished : below[t] = Models[t]
      /\ below["workflow_queue"] = UpgradeWorkflow[8].def
      /\ below["workflow_stage_executions"] = UpgradeWorkflow[9].def
  BY <1>2, Revision2 DEF AsModelled, WorkflowTables
<1>4. /\ below[s.table].added = {}
      /\ Models[s.table] = [refs |-> below[s.table].refs, unique |-> below[s.table].unique,
                            added |-> {"retry_after"}]
  BY <1>2, <1>3, UnfinishedDefs DEF Table
<1> HIDE DEF s, names
<1>5. Fits(s, below)
  BY <1>2, <1>3, <1>4 DEF Fits
<1>6. Ready(3) /\ SchemaAt[3] = Apply(below, s)
  BY <1>1, <1>3, <1>5, AlteringRevision DEF s
<1>7. Apply(below, s) = WithAdded(below, s.table, {"retry_after"})
  <2>1. below[s.table].added \cup {s.column} = {"retry_after"}
    BY <1>2, <1>4
  <2> QED BY <1>2, <1>3, <2>1, AddColumnAdds
<1>8. Sound(SchemaAt[3]) /\ DOMAIN SchemaAt[3] = names
  BY <1>3, <1>6, <1>7, WithAddedSound
<1>9. ASSUME NEW t \in names
      PROVE  SchemaAt[3][t] = IF t = s.table THEN Models[s.table] ELSE below[t]
  BY <1>3, <1>4, <1>6, <1>7 DEF WithAdded
<1> QED BY <1>2, <1>3, <1>6, <1>8, <1>9 DEF AsModelled, Unfinished, names

\* Without its unique index the queue is finished too.
LEMMA Revision4 == Ready(4) /\ AsModelled(SchemaAt[4], InitialTables \cup WorkflowTables, {})
<1> DEFINE s == Upgrades[4][1]
           below == SchemaAt[3]
           names == InitialTables \cup WorkflowTables
<1>1. Upgrades[4] = UpgradeQueueKey /\ Len(Upgrades[4]) = 1 /\ 4 - 1 = 3
  BY Scripts DEF UpgradeQueueKey
<1>2. s.op = "drop_index" /\ s.table = "workflow_queue" /\ s.columns = QueueKey
  BY <1>1 DEF UpgradeQueueKey, DropIndex, QueueKey
<1>3. /\ Sound(below) /\ DOMAIN below = names /\ s.table \in names
      /\ \A t \in names \ {"workflow_queue"} : below[t] = Models[t]
      /\ below["workflow_queue"] = UpgradeWorkflow[8].def
  BY <1>2, Revision3 DEF AsModelled, WorkflowTables
<1>4. /\ below[s.table].unique = {QueueKey}
      /\ Models[s.table] = [refs |-> below[s.table].refs, unique |-> {},
                            added |-> below[s.table].added]
  BY <1>2, <1>3, UnfinishedDefs DEF Table
<1> HIDE DEF s, names
<1>5. Fits(s, below)
  BY <1>2, <1>3, <1>4 DEF Fits
<1>6. Ready(4) /\ SchemaAt[4] = Apply(below, s)
  BY <1>1, <1>3, <1>5, AlteringRevision DEF s
<1>7. Apply(below, s) = WithUnique(below, s.table, {})
  <2>1. below[s.table].unique \ {s.columns} = {}
    BY <1>2, <1>4
  <2> QED BY <1>2, <1>3, <2>1, DropIndexRemoves
<1>8. Sound(SchemaAt[4]) /\ DOMAIN SchemaAt[4] = names
  BY <1>3, <1>6, <1>7, WithUniqueSound
<1>9. ASSUME NEW t \in names PROVE SchemaAt[4][t] = Models[t]
  BY <1>2, <1>3, <1>4, <1>6, <1>7 DEF WithUnique
<1> QED BY <1>6, <1>8, <1>9 DEF AsModelled, names

\* The model router.
LEMMA Revision5 ==
  Ready(5) /\ AsModelled(SchemaAt[5], InitialTables \cup WorkflowTables \cup ModelRouterTables, {})
<1> DEFINE names == InitialTables \cup WorkflowTables
<1>1. AsModelled(SchemaAt[4], names, {}) /\ 5 - 1 = 4
  BY Revision4
<1>2. /\ Upgrades[5] = UpgradeModelRouter /\ Len(UpgradeModelRouter) = 2
      /\ Creates(UpgradeModelRouter, names)
  BY Scripts, ModelRouterMakes, ModelRouterCreates
<1> HIDE DEF names
<1>3. Ready(5) /\ Grown(SchemaAt[5], SchemaAt[4], UpgradeModelRouter, 2)
  <2>1. Sound(SchemaAt[5 - 1]) /\ Creates(Upgrades[5], DOMAIN SchemaAt[5 - 1])
    BY <1>1, <1>2 DEF AsModelled
  <2>2. Ready(5) /\ Grown(SchemaAt[5], SchemaAt[5 - 1], Upgrades[5], Len(Upgrades[5]))
    BY <2>1, CreatingRevision
  <2> QED BY <1>1, <1>2, <2>2
<1>4. AsModelled(SchemaAt[5], names \cup Made(UpgradeModelRouter, 2), {} \cup {})
  BY <1>1, <1>3, ModelRouterDefs, GrownAsModelled
<1> QED BY <1>3, <1>4, ModelRouterMade DEF names

\* The memory.
LEMMA Revision6 ==
  /\ Ready(6)
  /\ AsModelled(SchemaAt[6], InitialTables \cup WorkflowTables \cup ModelRouterTables
                               \cup MemoryTables, {})
<1> DEFINE names == InitialTables \cup WorkflowTables \cup ModelRouterTables
<1>1. AsModelled(SchemaAt[5], names, {}) /\ 6 - 1 = 5
  BY Revision5
<1>2. /\ Upgrades[6] = UpgradeMemory /\ Len(UpgradeMemory) = 2
      /\ Creates(UpgradeMemory, names)
  BY Scripts, MemoryMakes, MemoryCreates
<1> HIDE DEF names
<1>3. Ready(6) /\ Grown(SchemaAt[6], SchemaAt[5], UpgradeMemory, 2)
  <2>1. Sound(SchemaAt[6 - 1]) /\ Creates(Upgrades[6], DOMAIN SchemaAt[6 - 1])
    BY <1>1, <1>2 DEF AsModelled
  <2>2. Ready(6) /\ Grown(SchemaAt[6], SchemaAt[6 - 1], Upgrades[6], Len(Upgrades[6]))
    BY <2>1, CreatingRevision
  <2> QED BY <1>1, <1>2, <2>2
<1>4. AsModelled(SchemaAt[6], names \cup Made(UpgradeMemory, 2), {} \cup {})
  BY <1>1, <1>3, MemoryDefs, GrownAsModelled
<1> QED BY <1>3, <1>4, MemoryMade DEF names

\* After the last revision the tables are those of the ORM classes.
LEMMA HeadTables == SchemaAt[HeadRevision] = Models
<1> DEFINE names == InitialTables \cup WorkflowTables \cup ModelRouterTables \cup MemoryTables
<1>1. HeadRevision = 6 /\ AsModelled(SchemaAt[6], names, {})
  BY Scripts, Revision6
<1>2. DOMAIN Models = names
  BY DEF Models, InitialTables, WorkflowTables, ModelRouterTables, MemoryTables
<1>3. Models = [t \in DOMAIN Models |-> Models[t]]
  BY DEF Models
<1> HIDE DEF names
<1> QED BY <1>1, <1>2, <1>3 DEF AsModelled, Sound

\* What the proofs of the steps assume of the scripts is so.
LEMMA ScriptsFit == ScriptFacts
<1>1. \A r \in 1..6 : Ready(r)
  <2>1. ASSUME NEW r \in 1..6 PROVE r = 1 \/ r = 2 \/ r = 3 \/ r = 4 \/ r = 5 \/ r = 6
    OBVIOUS
  <2> QED BY <2>1, Revision1, Revision2, Revision3, Revision4, Revision5, Revision6
<1> DEFINE Undone(r) ==
      /\ Len(Upgrades[r]) \in Nat /\ Len(Downgrades[r]) = Len(Upgrades[r])
      /\ \A k \in 1..Len(Upgrades[r]) :
           /\ Reverses(Downgrades[r][Len(Upgrades[r]) + 1 - k], Upgrades[r][k])
           /\ Upgrades[r][k].op = "drop_index" => r >= 4
<1>2. Undone(1)
  BY Scripts, InitialMakes, InitialDrops, InitialReverses, InitialCreates DEF Creates
<1>3. Undone(2)
  BY Scripts, WorkflowMakes, WorkflowDrops, WorkflowReverses, WorkflowCreates DEF Creates
<1>4. Undone(3)
  BY Scripts DEF UpgradeRetryAfter, DowngradeRetryAfter, AddColumn, DropColumn, Reverses
<1>5. Undone(4)
  BY Scripts DEF UpgradeQueueKey, DowngradeQueueKey, DropIndex, CreateUnique, Reverses
<1>6. Undone(5)
  BY Scripts, ModelRouterMakes, ModelRouterDrops, ModelRouterReverses, ModelRouterCreates
     DEF Creates
<1>7. Undone(6)
  BY Scripts, MemoryMakes, MemoryDrops, MemoryReverses, MemoryCreates DEF Creates
<1>8. \A r \in 1..6 : Undone(r)
  <2>1. ASSUME NEW r \in 1..6 PROVE r = 1 \/ r = 2 \/ r = 3 \/ r = 4 \/ r = 5 \/ r = 6
    OBVIOUS
  <2> HIDE DEF Undone
  <2> QED BY <1>2, <1>3, <1>4, <1>5, <1>6, <1>7, <2>1
<1> QED BY <1>1, <1>8, Scripts DEF ScriptFacts, Ready

-----------------------------------------------------------------------------
(* The theorems.                                                           *)

\* The invariant of the commands: what a running command has in hand is what
\* the upgrades alone make of an empty database up to the statement it is at,
\* or the statement it is about to undo.
THEOREM CommandsKeepInv == Spec => []MigrationInv
<1>1. Init => MigrationInv
  BY ScriptsFit, InitInv
<1>2. MigrationInv /\ [Next]_vars => MigrationInv'
  BY ScriptsFit, NextInv
<1> QED BY <1>1, <1>2, PTL DEF Spec

\* After any commands, whole, failed or interrupted, the committed tables are
\* those of the recorded revision.
THEOREM SchemaFollowsRevision == Spec => []SchemaMatchesRevision
<1>1. MigrationInv => SchemaMatchesRevision
  BY DEF MigrationInv
<1> QED BY <1>1, CommandsKeepInv, PTL

\* At head they are the tables the ORM classes declare.
THEOREM HeadFollowsModels == Spec => []HeadMatchesModels
<1>1. MigrationInv => HeadMatchesModels
  BY HeadTables DEF MigrationInv, SchemaMatchesRevision, HeadMatchesModels
<1> QED BY <1>1, CommandsKeepInv, PTL

\* The only command that ever fails is a downgrade past e85ae5cf68b0 over rows
\* that repeat the key it makes unique again.
THEOREM OnlyDuplicatesEverFail == Spec => []OnlyDuplicatesFail
<1>1. MigrationInv => OnlyDuplicatesFail
  BY DEF MigrationInv
<1> QED BY <1>1, CommandsKeepInv, PTL

\* A downgrade to below e85ae5cf68b0 while an execution has two rows.
DowngradeOfDuplicates == command.direction = "downgrade" /\ command.at >= 4 /\ repeated

\* A refused unique key is a repeated one.
LEMMA DuplicatesRefused ==
  ASSUME NEW s, NEW tables, NEW twice, Problem(s, tables, twice) = "unique_violation"
  PROVE  twice
BY DEF Problem

\* No upgrade fails, and of the downgrades only those that make the queue's key
\* unique again, while an execution has two rows.
THEOREM UpgradesNeverFail == Spec => [][Fail => DowngradeOfDuplicates]_vars
<1>1. ASSUME MigrationInv, Fail PROVE DowngradeOfDuplicates
  <2>1. /\ InScript
        /\ Problem(Script[command.step], command.tables, repeated) # "none"
    BY <1>1 DEF Fail
  <2>2. ASSUME NEW r \in 1..HeadRevision, NEW k \in 1..Len(Upgrades[r]), Rising(r, k)
        PROVE  FALSE
    <3>1. Sound(Midway(r)[k - 1]) /\ Fits(Upgrades[r][k], Midway(r)[k - 1])
      BY ScriptsFit DEF ScriptFacts
    <3>2. Problem(Upgrades[r][k], Midway(r)[k - 1], repeated) = "none"
      BY <3>1, FittingRuns
    <3> QED BY <2>1, <2>2, <3>2 DEF Rising
  <2>3. ASSUME NEW r \in 1..HeadRevision, NEW k \in 1..Len(Upgrades[r]), Falling(r, k)
        PROVE  DowngradeOfDuplicates
    <3> DEFINE down == Downgrades[r][Len(Upgrades[r]) + 1 - k]
    <3>1. Problem(down, Midway(r)[k], repeated) # "none" =>
            Problem(down, Midway(r)[k], repeated) = "unique_violation" /\ r >= 4
      BY ScriptsFit, Descends
    <3>2. Script[command.step] = down /\ command.tables = Midway(r)[k]
      BY <2>3 DEF Falling
    <3> HIDE DEF down
    <3>3. Problem(down, Midway(r)[k], repeated) = "unique_violation" /\ r >= 4
      BY <2>1, <3>1, <3>2
    <3>4. repeated
      BY <3>3, DuplicatesRefused
    <3> QED BY <2>3, <3>3, <3>4 DEF Falling, DowngradeOfDuplicates
  <2> QED BY <1>1, <2>1, <2>2, <2>3, ScriptsFit, BeforeStatement
<1>2. MigrationInv /\ [Next]_vars => [Fail => DowngradeOfDuplicates]_vars
  BY <1>1
<1> QED BY <1>2, CommandsKeepInv, PTL DEF Spec
===============================================================================
