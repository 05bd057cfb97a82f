-------------------------- MODULE MigrationsProofs --------------------------
(***************************************************************************)
(* Proofs about Migrations, for any number of processes and users.         *)
(*                                                                         *)
(* The list of applied migrations a process has read may be out of date    *)
(* when it uses it.  What makes this harmless is in the invariant: the     *)
(* list is never ahead of the table, everything before the process's index *)
(* is in the table, and no level is given out before 001 is.               *)
(***************************************************************************)
EXTENDS Migrations, TLAPS

Passed(p) == {allMigrations[k] : k \in 1 .. (index[p] - 1)}

\* What a process believes to be applied is applied.
ListsAreBehind ==
    \A p \in Processes :
        /\ known[p] \subseteq applied
        /\ mpc[p] = "migrate" => Passed(p) \subseteq applied

\* Migration 002 is recorded only with its column.
ColumnIsThere == "002-add-podcast-credentials" \in applied => credentials

\* Before 001 nobody has been given a level.
NoneAssignedBefore001 ==
    "001-init" \notin applied => \A u \in exists : assigned[u] = 0

IndInv ==
    /\ TypeOK
    /\ ListsAreBehind
    /\ ColumnIsThere
    /\ NoneAssignedBefore001
    /\ SchemaIsCurrent
    /\ LevelsAsAssigned

-----------------------------------------------------------------------------
\* The two migrations, in order.
LEMMA TwoMigrations ==
    /\ Len(allMigrations) = 2
    /\ allMigrations[1] = "001-init"
    /\ allMigrations[2] = "002-add-podcast-credentials"
    /\ Names = {"001-init", "002-add-podcast-credentials"}
<1>1. /\ Len(allMigrations) = 2
      /\ allMigrations[1] = "001-init"
      /\ allMigrations[2] = "002-add-podcast-credentials"
  BY DEF allMigrations
<1>2. 1 .. 2 = {1, 2}
  OBVIOUS
<1> QED
  BY <1>1, <1>2 DEF Names

\* The invariant holds of a database as any release left it.
LEMMA InitEstablishesInv == Init => IndInv
<1> SUFFICES ASSUME Init PROVE IndInv
  OBVIOUS
<1>1. PICK r \in Releases : LeftBy(r)
  BY DEF Init
<1>2. r \in {"none", "beforeLevels", "beforeCredentials", "current"} /\ OldUsers \subseteq Users
  BY MigrationsAssumption
<1>3. TypeOK
  <2>1. bookkeeping \in BOOLEAN /\ applied \subseteq Names /\ credentials \in BOOLEAN
    BY <1>1, <1>2, TwoMigrations DEF LeftBy
  <2>2. exists \subseteq Users /\ level \in [Users -> Levels \cup {0}]
        /\ assigned \in [Users -> Levels \cup {0}]
    BY <1>1, <1>2 DEF LeftBy
  <2>3. mpc \in [Processes -> {"down", "hasTable", "createTable", "list", "migrate", "open"}]
        /\ known \in [Processes -> SUBSET Names]
    BY DEF Init
  <2>4. index \in [Processes -> 1 .. Len(allMigrations) + 1] /\ crashes \in 0 .. MaxCrashes
    BY TwoMigrations, MigrationsAssumption DEF Init
  <2> QED
    BY <2>1, <2>2, <2>3, <2>4 DEF TypeOK
<1>4. ListsAreBehind
  BY DEF Init, ListsAreBehind
<1>5. ColumnIsThere /\ NoneAssignedBefore001
  BY <1>1, <1>2, TwoMigrations DEF LeftBy, ColumnIsThere, NoneAssignedBefore001
<1>6. SchemaIsCurrent
  BY DEF Init, SchemaIsCurrent
<1>7. LevelsAsAssigned
  <2> SUFFICES ASSUME "001-init" \in applied, NEW u \in exists
               PROVE  level[u] = IF assigned[u] = 0 THEN Admin ELSE assigned[u]
    BY DEF LevelsAsAssigned
  <2>1. r \in {"beforeCredentials", "current"}
    BY <1>1, <1>2 DEF LeftBy
  <2>2. u \in Users /\ level[u] # 0 /\ assigned = level
    BY <1>1, <1>2, <2>1 DEF LeftBy
  <2> QED
    BY <2>2
<1> QED
  BY <1>3, <1>4, <1>5, <1>6, <1>7 DEF IndInv

\* A step that only moves a process keeps what is said of the database.
LEMMA DatabaseFactsKept ==
    ASSUME IndInv, UNCHANGED <<database, assigned>>
    PROVE  ColumnIsThere' /\ NoneAssignedBefore001' /\ LevelsAsAssigned'
BY DEF IndInv, database, ColumnIsThere, NoneAssignedBefore001, LevelsAsAssigned

\* A process that is not past the list yet claims nothing: Open, HasTable, and
\* CreateTable, which adds a table without rows.
LEMMA StartPreservesInv ==
    ASSUME IndInv, NEW p \in Processes, Open(p) \/ HasTable(p) \/ CreateTable(p)
    PROVE  IndInv'
<1>1. PICK place \in {"hasTable", "createTable", "list"} :
        mpc' = [mpc EXCEPT ![p] = place]
  BY DEF Open, HasTable, CreateTable, GoTo
<1>2. /\ UNCHANGED <<applied, credentials, exists, level, assigned, known, index, crashes>>
      /\ bookkeeping' \in {bookkeeping, TRUE}
  BY DEF Open, HasTable, CreateTable, database
<1>3. TypeOK'
  BY <1>1, <1>2 DEF IndInv, TypeOK
<1>4. ListsAreBehind'
  BY <1>1, <1>2 DEF IndInv, TypeOK, ListsAreBehind, Passed
<1>5. ColumnIsThere' /\ NoneAssignedBefore001' /\ LevelsAsAssigned'
  BY <1>2 DEF IndInv, ColumnIsThere, NoneAssignedBefore001, LevelsAsAssigned
<1>6. SchemaIsCurrent'
  BY <1>1, <1>2 DEF IndInv, TypeOK, SchemaIsCurrent
<1> QED
  BY <1>3, <1>4, <1>5, <1>6 DEF IndInv

\* The list is the table at this moment.
LEMMA ListPreservesInv ==
    ASSUME IndInv, NEW p \in Processes, listAppliedMigrations(p)
    PROVE  IndInv'
<1>1. /\ mpc' = [mpc EXCEPT ![p] = "migrate"]
      /\ known' = [known EXCEPT ![p] = applied]
      /\ index' = [index EXCEPT ![p] = 1]
      /\ UNCHANGED <<bookkeeping, applied, credentials, exists, level, assigned, crashes>>
  BY DEF listAppliedMigrations, GoTo, database
<1>2. TypeOK'
  BY <1>1, TwoMigrations DEF IndInv, TypeOK
<1>3. ListsAreBehind'
  <2> SUFFICES ASSUME NEW q \in Processes
               PROVE  /\ known'[q] \subseteq applied
                      /\ mpc'[q] = "migrate" => Passed(q)' \subseteq applied
    BY <1>1 DEF ListsAreBehind
  <2>1. CASE q = p
    <3>1. known'[p] = applied /\ index'[p] = 1
      BY <1>1 DEF IndInv, TypeOK
    <3>2. Passed(p)' = {}
      BY <3>1 DEF Passed
    <3> QED
      BY <2>1, <3>1, <3>2
  <2>2. CASE q # p
    BY <1>1, <2>2 DEF IndInv, TypeOK, ListsAreBehind, Passed
  <2> QED
    BY <2>1, <2>2
<1>4. ColumnIsThere' /\ NoneAssignedBefore001' /\ LevelsAsAssigned'
  BY <1>1, DatabaseFactsKept DEF database
<1>5. SchemaIsCurrent'
  BY <1>1 DEF IndInv, TypeOK, SchemaIsCurrent
<1> QED
  BY <1>2, <1>3, <1>4, <1>5 DEF IndInv

\* A process goes past a migration that is in the table now, whoever put it
\* there: the lists and indexes of all processes stay behind the table.
LEMMA NextMigrationKeepsLists ==
    ASSUME IndInv, NEW p \in Processes, NEW m \in Names,
           AtMigration(p, m), NextMigration(p),
           applied \subseteq applied', m \in applied'
    PROVE  /\ ListsAreBehind'
           /\ index' \in [Processes -> 1 .. Len(allMigrations) + 1]
<1>1. /\ mpc[p] = "migrate"
      /\ index[p] \in 1 .. 2
      /\ m = allMigrations[index[p]]
      /\ index' = [index EXCEPT ![p] = index[p] + 1]
      /\ UNCHANGED <<mpc, known>>
  BY TwoMigrations DEF AtMigration, NextMigration
<1>2. index \in [Processes -> 1 .. 3]
  BY TwoMigrations DEF IndInv, TypeOK
<1>3. index' \in [Processes -> 1 .. 3]
  BY <1>1, <1>2
<1>4. ASSUME NEW q \in Processes
      PROVE  /\ known'[q] \subseteq applied'
             /\ mpc'[q] = "migrate" => Passed(q)' \subseteq applied'
  <2>1. known'[q] \subseteq applied'
    BY <1>1 DEF IndInv, ListsAreBehind
  <2>2. CASE q = p
    <3>1. Passed(p) \subseteq applied
      BY <1>1 DEF IndInv, ListsAreBehind
    <3>2. index'[p] = index[p] + 1
      BY <1>1, <1>2
    <3>3. ASSUME NEW k \in 1 .. (index'[p] - 1) PROVE allMigrations[k] \in applied'
      <4>1. k = index[p] \/ k \in 1 .. (index[p] - 1)
        BY <1>1, <3>2
      <4> QED
        BY <1>1, <3>1, <4>1 DEF Passed
    <3> QED
      BY <2>1, <2>2, <3>3 DEF Passed
  <2>3. CASE q # p
    BY <1>1, <1>2, <2>1, <2>3 DEF IndInv, ListsAreBehind, Passed
  <2> QED
    BY <2>2, <2>3
<1> QED
  BY <1>3, <1>4, TwoMigrations DEF ListsAreBehind

\* Skipping a migration of the list.
LEMMA SkipPreservesInv ==
    ASSUME IndInv, NEW p \in Processes, NEW m \in Names, Skip(p, m)
    PROVE  IndInv'
<1>1. /\ AtMigration(p, m) /\ NextMigration(p)
      /\ m \in known[p]
      /\ UNCHANGED <<bookkeeping, applied, credentials, exists, level, assigned, crashes,
                     mpc, known>>
  BY DEF Skip, database, NextMigration
<1>2. m \in applied
  BY <1>1 DEF IndInv, ListsAreBehind
<1>3. ListsAreBehind' /\ index' \in [Processes -> 1 .. Len(allMigrations) + 1]
  BY <1>1, <1>2, NextMigrationKeepsLists
<1>4. TypeOK'
  BY <1>1, <1>3 DEF IndInv, TypeOK
<1>5. ColumnIsThere' /\ NoneAssignedBefore001' /\ LevelsAsAssigned'
  BY <1>1, DatabaseFactsKept DEF database
<1>6. SchemaIsCurrent'
  BY <1>1 DEF IndInv, SchemaIsCurrent
<1> QED
  BY <1>3, <1>4, <1>5, <1>6 DEF IndInv

\* Applying 001 happens once, before any level was given; applying 002 changes
\* nothing, and happens only where the column is.
LEMMA ApplyPreservesInv ==
    ASSUME IndInv, NEW p \in Processes, NEW m \in Names, Apply(p, m)
    PROVE  IndInv'
<1>1. /\ AtMigration(p, m) /\ NextMigration(p)
      /\ Migrate(m)
      /\ m \notin applied
      /\ applied' = applied \cup {m}
      /\ UNCHANGED <<bookkeeping, exists, assigned, crashes, mpc, known>>
  BY DEF Apply, Recorded, NextMigration, Migrate, Migrate001, Migrate002
<1>2. ListsAreBehind' /\ index' \in [Processes -> 1 .. Len(allMigrations) + 1]
  BY <1>1, NextMigrationKeepsLists
<1>3. CASE m = "001-init"
  <2>1. /\ credentials' = TRUE
        /\ level' = [u \in Users |-> IF u \in exists THEN Admin ELSE level[u]]
    BY <1>1, <1>3 DEF Migrate, Migrate001
  <2>2. Admin \in Levels
    BY DEF Admin, Levels
  <2>3. TypeOK'
    BY <1>1, <1>2, <2>1, <2>2 DEF IndInv, TypeOK
  <2>4. ColumnIsThere' /\ NoneAssignedBefore001'
    BY <1>1, <1>3, <2>1 DEF ColumnIsThere, NoneAssignedBefore001
  <2>5. SchemaIsCurrent'
    BY <1>1, <2>1 DEF IndInv, TypeOK, SchemaIsCurrent
  <2>6. LevelsAsAssigned'
    <3>1. \A u \in exists : u \in Users /\ assigned[u] = 0
      BY <1>1, <1>3 DEF IndInv, TypeOK, NoneAssignedBefore001
    <3> QED
      BY <1>1, <2>1, <3>1 DEF LevelsAsAssigned
  <2> QED
    BY <1>2, <2>3, <2>4, <2>5, <2>6 DEF IndInv
<1>4. CASE m # "001-init"
  <2>1. m = "002-add-podcast-credentials"
    BY <1>4, TwoMigrations
  <2>2. credentials /\ UNCHANGED <<credentials, level>>
    BY <1>1, <1>4, <2>1 DEF Migrate, Migrate002, CanMigrate
  <2>3. TypeOK'
    BY <1>1, <1>2, <2>2 DEF IndInv, TypeOK
  <2>4. ColumnIsThere'
    BY <2>2 DEF ColumnIsThere
  <2>5. NoneAssignedBefore001'
    BY <1>1 DEF IndInv, NoneAssignedBefore001
  <2>6. SchemaIsCurrent'
    BY <1>1, <2>2 DEF IndInv, TypeOK, SchemaIsCurrent
  <2>7. LevelsAsAssigned'
    BY <1>1, <1>4, <2>2 DEF IndInv, LevelsAsAssigned
  <2> QED
    BY <1>2, <2>3, <2>4, <2>5, <2>6, <2>7 DEF IndInv
<1> QED
  BY <1>3, <1>4

\* A process that ends takes its list along.
LEMMA EndPreservesInv ==
    ASSUME IndInv, NEW p \in Processes, Ended(p), crashes' \in 0 .. MaxCrashes
    PROVE  IndInv'
<1>1. /\ mpc' = [mpc EXCEPT ![p] = "down"]
      /\ known' = [known EXCEPT ![p] = {}]
      /\ index' = [index EXCEPT ![p] = 1]
      /\ UNCHANGED <<bookkeeping, applied, credentials, exists, level, assigned>>
  BY DEF Ended, GoTo, database
<1>2. TypeOK'
  BY <1>1, TwoMigrations DEF IndInv, TypeOK
<1>3. ListsAreBehind'
  BY <1>1 DEF IndInv, TypeOK, ListsAreBehind, Passed
<1>4. ColumnIsThere' /\ NoneAssignedBefore001' /\ LevelsAsAssigned'
  BY <1>1, DatabaseFactsKept DEF database
<1>5. SchemaIsCurrent'
  BY <1>1 DEF IndInv, TypeOK, SchemaIsCurrent
<1> QED
  BY <1>2, <1>3, <1>4, <1>5 DEF IndInv

\* A process past its last migration finds them all in the table.
LEMMA OpenedPreservesInv ==
    ASSUME IndInv, NEW p \in Processes, Opened(p)
    PROVE  IndInv'
<1>1. /\ mpc[p] = "migrate" /\ index[p] > 2
      /\ mpc' = [mpc EXCEPT ![p] = "open"]
      /\ known' = [known EXCEPT ![p] = {}]
      /\ index' = [index EXCEPT ![p] = 1]
      /\ UNCHANGED <<bookkeeping, applied, credentials, exists, level, assigned, crashes>>
  BY TwoMigrations DEF Opened, GoTo, database
<1>2. applied = Names /\ credentials
  <2>1. index[p] = 3
    BY <1>1, TwoMigrations DEF IndInv, TypeOK
  <2>2. allMigrations[1] \in Passed(p) /\ allMigrations[2] \in Passed(p)
    BY <2>1 DEF Passed
  <2>3. Passed(p) \subseteq applied /\ applied \subseteq Names
    BY <1>1 DEF IndInv, ListsAreBehind, TypeOK
  <2> QED
    BY <2>2, <2>3, TwoMigrations DEF IndInv, ColumnIsThere
<1>3. TypeOK'
  BY <1>1, TwoMigrations DEF IndInv, TypeOK
<1>4. ListsAreBehind'
  BY <1>1 DEF IndInv, TypeOK, ListsAreBehind, Passed
<1>5. ColumnIsThere' /\ NoneAssignedBefore001' /\ LevelsAsAssigned'
  BY <1>1, DatabaseFactsKept DEF database
<1>6. SchemaIsCurrent'
  BY <1>1, <1>2 DEF SchemaIsCurrent
<1> QED
  BY <1>3, <1>4, <1>5, <1>6 DEF IndInv

\* Levels are given by processes that have opened the database, so after 001.
LEMMA AssignPreservesInv ==
    ASSUME IndInv, NEW p \in Processes, NEW u \in Users, NEW l \in GivenLevels,
           AssignLevel(p, u, l)
    PROVE  IndInv'
<1>1. /\ mpc[p] = "open"
      /\ exists' = exists \cup {u}
      /\ level' = [level EXCEPT ![u] = l]
      /\ assigned' = [assigned EXCEPT ![u] = l]
      /\ UNCHANGED <<bookkeeping, applied, credentials, mpc, known, index, crashes>>
  BY DEF AssignLevel, migrating
<1>2. l \in Levels /\ l # 0
  BY MigrationsAssumption DEF Levels, Admin
<1>3. applied = Names
  BY <1>1 DEF IndInv, SchemaIsCurrent
<1>4. TypeOK'
  BY <1>1, <1>2 DEF IndInv, TypeOK
<1>5. ListsAreBehind' /\ ColumnIsThere' /\ SchemaIsCurrent'
  BY <1>1 DEF IndInv, ListsAreBehind, Passed, ColumnIsThere, SchemaIsCurrent
<1>6. NoneAssignedBefore001'
  BY <1>1, <1>3, TwoMigrations DEF NoneAssignedBefore001
<1>7. LevelsAsAssigned'
  BY <1>1, <1>2, <1>3, TwoMigrations DEF IndInv, TypeOK, LevelsAsAssigned
<1> QED
  BY <1>4, <1>5, <1>6, <1>7 DEF IndInv

\* No step of any process breaks the invariant.
LEMMA NextPreservesInv == IndInv /\ [Next]_vars => IndInv'
<1> SUFFICES ASSUME IndInv, [Next]_vars PROVE IndInv'
  OBVIOUS
<1>1. ASSUME NEW p \in Processes, Open(p) \/ Step(p) PROVE IndInv'
  <2>1. CASE Open(p) \/ HasTable(p) \/ CreateTable(p)
    BY <2>1, StartPreservesInv
  <2>2. CASE listAppliedMigrations(p)
    BY <2>2, ListPreservesInv
  <2>3. ASSUME NEW m \in Names, Skip(p, m) \/ Apply(p, m) PROVE IndInv'
    BY <2>3, SkipPreservesInv, ApplyPreservesInv
  <2>4. CASE MigrateFails(p)
    BY <2>4, EndPreservesInv DEF MigrateFails, IndInv, TypeOK
  <2>5. CASE Opened(p)
    BY <2>5, OpenedPreservesInv
  <2> QED
    BY <1>1, <2>1, <2>2, <2>3, <2>4, <2>5 DEF Step
<1>2. ASSUME NEW p \in Processes, CommandEnds(p) \/ Killed(p) PROVE IndInv'
  <2>1. Ended(p) /\ crashes' \in 0 .. MaxCrashes
    BY <1>2, MigrationsAssumption DEF CommandEnds, Killed, IndInv, TypeOK
  <2> QED
    BY <2>1, EndPreservesInv
<1>3. CASE UNCHANGED vars
  BY <1>3 DEF vars, database, migrating, IndInv, TypeOK, ListsAreBehind, Passed, ColumnIsThere,
              NoneAssignedBefore001, SchemaIsCurrent, LevelsAsAssigned
<1> QED
  BY <1>1, <1>2, <1>3, AssignPreservesInv DEF Next

\* Every reachable state satisfies the invariant.
LEMMA Invariance == Spec => []IndInv
BY InitEstablishesInv, NextPreservesInv, PTL DEF Spec

\* The rows, lists and places of any number of processes stay in their types.
THEOREM TypeCorrect == Spec => []TypeOK
<1>1. IndInv => TypeOK
  BY DEF IndInv
<1> QED
  BY <1>1, Invariance, PTL

\* Whatever release the database is from, and however many processes migrate it
\* at once and are killed: none gets to use it before its schema is current.
THEOREM OpenedIsCurrent == Spec => []SchemaIsCurrent
<1>1. IndInv => SchemaIsCurrent
  BY DEF IndInv
<1> QED
  BY <1>1, Invariance, PTL

\* Migration 001 makes the users from before it administrators, and never
\* overwrites a level that was given to anybody, although each process decides
\* by a list it may have read long ago.
THEOREM LevelsAreKept == Spec => []LevelsAsAssigned
<1>1. IndInv => LevelsAsAssigned
  BY DEF IndInv
<1> QED
  BY <1>1, Invariance, PTL
=============================================================================
