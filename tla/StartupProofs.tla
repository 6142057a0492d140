---------------------------- MODULE StartupProofs ---------------------------
(***************************************************************************)
(* Startup, for any instances, tables and rows: what an instance has       *)
(* counted or seeded stays seeded, so that it serves complete tables.      *)
(***************************************************************************)
EXTENDS Startup, TLAPS

(* The tables before the cursor of an instance are seeded, by whomever.    *)
Behind(i) ==
  /\ pc[i] \in {"connect", "migrate", "ddl"} => step[i] = 1
  /\ pc[i] \in {"count", "insert"} => \A k \in 1 .. step[i] - 1 : SeededTable(Order[k])
  /\ pc[i] \in {"redis", "serving"} => \A k \in 1 .. Len(Order) : SeededTable(Order[k])

IInv == TypeOK /\ SeedsArriveTogether /\ \A i \in Instances : Behind(i)

-----------------------------------------------------------------------------

LEMMA LengthNatural == Len(Order) \in Nat \ {0}
BY StartupAssumption

LEMMA AttemptsNatural == MaxAttempts \in Nat \ {0}
BY StartupAssumption

LEMMA CursorTable ==
  ASSUME TypeOK, NEW i \in Instances
  PROVE  Table(i) \in Tables
BY LengthNatural DEF TypeOK, Table, Tables

LEMMA TypeStep ==
  ASSUME TypeOK, [Next]_vars
  PROVE  TypeOK'
<1>1. CASE UNCHANGED vars
  BY <1>1 DEF TypeOK, vars
<1>2. ASSUME NEW i \in Instances, Start(i)
      PROVE  TypeOK'
  BY <1>2, LengthNatural, AttemptsNatural DEF TypeOK, Start, database, Places
<1>3. ASSUME NEW i \in Instances, Connect(i)
      PROVE  TypeOK'
  <2>1. UNCHANGED database
    BY <1>3 DEF Connect
  <2>2. CASE Goto(i, "migrate") \/ Goto(i, "down")
    BY <2>1, <2>2 DEF TypeOK, Goto, Places, database
  <2>3. CASE /\ attempt[i] < MaxAttempts
             /\ attempt' = [attempt EXCEPT ![i] = @ + 1]
             /\ UNCHANGED <<pc, step>>
    <3>1. attempt[i] + 1 \in 0 .. MaxAttempts
      BY <2>3, AttemptsNatural DEF TypeOK
    <3> QED BY <2>1, <2>3, <3>1 DEF TypeOK, database
  <2> QED BY <1>3, <2>2, <2>3 DEF Connect, Exit
<1>4. ASSUME NEW i \in Instances, Migrate(i) \/ CreateTables(i)
      PROVE  TypeOK'
  BY <1>4 DEF TypeOK, Migrate, CreateTables, Goto, Exit, database, Places
<1>5. ASSUME NEW i \in Instances, NextTable(i)
      PROVE  /\ pc' \in [Instances -> Places]
             /\ attempt' \in [Instances -> 0 .. MaxAttempts]
             /\ step' \in [Instances -> 1 .. Len(Order)]
  <2>1. CASE step[i] < Len(Order)
    <3>1. step[i] + 1 \in 1 .. Len(Order)
      BY <2>1, LengthNatural DEF TypeOK
    <3> QED BY <1>5, <2>1, <3>1 DEF TypeOK, NextTable, Places
  <2>2. CASE ~(step[i] < Len(Order))
    BY <1>5, <2>2 DEF TypeOK, NextTable, Goto, Places
  <2> QED BY <2>1, <2>2
<1>6. ASSUME NEW i \in Instances, CountRows(i)
      PROVE  TypeOK'
  <2>1. CASE NextTable(i)
    BY <2>1, <1>5, <1>6 DEF TypeOK, CountRows, database
  <2>2. CASE Goto(i, "insert")
    BY <2>2, <1>6 DEF TypeOK, CountRows, Goto, Places, database
  <2> QED BY <2>1, <2>2, <1>6 DEF CountRows
<1>7. ASSUME NEW i \in Instances, InsertSeeds(i)
      PROVE  TypeOK'
  <2>1. rows' \in [Tables -> [Codes -> RowStates]]
    BY <1>7, CursorTable DEF TypeOK, InsertSeeds, WithSeeds, RowStates
  <2>2. CASE NextTable(i)
    BY <2>1, <2>2, <1>5, <1>7 DEF TypeOK, InsertSeeds
  <2>3. CASE Exit(i)
    BY <2>1, <2>3, <1>7 DEF TypeOK, InsertSeeds, Exit, Goto, Places
  <2> QED BY <2>2, <2>3, <1>7 DEF InsertSeeds
<1>8. ASSUME NEW i \in Instances,
             InsertRefused(i) \/ ConnectRedis(i) \/ Shutdown(i) \/ Fails(i)
      PROVE  TypeOK'
  BY <1>8 DEF TypeOK, InsertRefused, ConnectRedis, Shutdown, Fails, Exit, Goto, Places, database
<1>9. ASSUME NEW i \in Instances, Request(i)
      PROVE  TypeOK'
  <2> PICK t \in Tables, c \in Codes :
        RequestCreates(i, t, c) \/ RequestChanges(i, t, c) \/ RequestDeletes(i, t, c)
    BY <1>9 DEF Request
  <2>1. /\ \E s \in RowStates : rows' = [rows EXCEPT ![t][c] = s]
        /\ UNCHANGED <<schema, pc, attempt, step>>
    BY DEF RequestCreates, RequestChanges, RequestDeletes, RowStates
  <2> QED BY <2>1 DEF TypeOK
<1> QED
  BY <1>1, <1>2, <1>3, <1>4, <1>6, <1>7, <1>8, <1>9 DEF Next, Opening

(* The fate of a row in one step. *)
LEMMA RowStep ==
  ASSUME TypeOK, [Next]_vars, NEW t \in Tables, NEW c \in Codes
  PROVE  /\ rows[t][c] = "seeded" => rows'[t][c] # "absent"
         /\ rows[t][c] = "worked" => rows'[t][c] \in {"worked", "deleted"}
         /\ rows[t][c] = "deleted" => rows'[t][c] = "deleted"
<1>1. CASE UNCHANGED rows
  BY <1>1
<1>2. ASSUME NEW i \in Instances, InsertSeeds(i)
      PROVE  rows[t][c] # "absent" => rows'[t][c] = rows[t][c]
  <2>1. CASE t = Table(i)
    BY <2>1, <1>2 DEF TypeOK, InsertSeeds, Unoccupied, WithSeeds
  <2>2. CASE t # Table(i)
    BY <2>2, <1>2 DEF TypeOK, InsertSeeds
  <2> QED BY <2>1, <2>2
<1>3. ASSUME NEW i \in Instances, Request(i)
      PROVE  /\ rows[t][c] = "seeded" => rows'[t][c] # "absent"
             /\ rows[t][c] = "worked" => rows'[t][c] \in {"worked", "deleted"}
             /\ rows[t][c] = "deleted" => rows'[t][c] = "deleted"
  <2> PICK u \in Tables, d \in Codes :
        RequestCreates(i, u, d) \/ RequestChanges(i, u, d) \/ RequestDeletes(i, u, d)
    BY <1>3 DEF Request
  <2>1. CASE u = t /\ d = c
    BY <2>1 DEF TypeOK, RequestCreates, RequestChanges, RequestDeletes, LiveRows
  <2>2. CASE ~(u = t /\ d = c)
    BY <2>2 DEF TypeOK, RequestCreates, RequestChanges, RequestDeletes
  <2> QED BY <2>1, <2>2
<1>4. ASSUME NEW i \in Instances,
             \/ Start(i) \/ Connect(i) \/ Migrate(i) \/ CreateTables(i) \/ CountRows(i)
             \/ InsertRefused(i) \/ ConnectRedis(i) \/ Shutdown(i) \/ Fails(i)
      PROVE  UNCHANGED rows
  BY <1>4 DEF Start, Connect, Migrate, CreateTables, CountRows, InsertRefused,
              ConnectRedis, Shutdown, Fails, database
<1> QED
  BY <1>1, <1>2, <1>3, <1>4 DEF Next, Opening, vars

LEMMA SeededStays ==
  ASSUME TypeOK, [Next]_vars, NEW t \in Tables, SeededTable(t)
  PROVE  SeededTable(t)'
<1> SUFFICES ASSUME NEW c \in SeedCodes PROVE rows'[t][c] # "absent"
  BY DEF SeededTable
<1>1. c \in Codes /\ rows[t][c] \in RowStates \ {"absent"}
  BY StartupAssumption DEF SeededTable, TypeOK
<1> QED BY <1>1, RowStep DEF RowStates

(* A live row shows that its table was seeded. *)
LEMMA LiveMeansSeeded ==
  ASSUME SeedsArriveTogether, NEW t \in Tables, LiveRows(t) # {}
  PROVE  SeededTable(t)
BY DEF SeedsArriveTogether, LiveRows

LEMMA SeedsStep ==
  ASSUME IInv, [Next]_vars
  PROVE  SeedsArriveTogether'
<1> SUFFICES ASSUME NEW t \in Tables
             PROVE  SeededTable(t)' \/ \A c \in Codes : rows'[t][c] = "absent"
  BY DEF SeedsArriveTogether
<1>1. CASE SeededTable(t)
  BY <1>1, SeededStays DEF IInv
<1>2. CASE \A c \in Codes : rows[t][c] = "absent"
  <2>1. CASE rows'[t] = rows[t]
    BY <2>1, <1>2
  <2>2. ASSUME NEW i \in Instances, InsertSeeds(i), rows'[t] # rows[t]
        PROVE  SeededTable(t)'
    <3>1. t = Table(i) /\ rows'[t] = WithSeeds(t)
      BY <2>2, CursorTable DEF IInv, TypeOK, InsertSeeds
    <3> QED BY <3>1, StartupAssumption DEF WithSeeds, SeededTable
  <2>3. ASSUME NEW i \in Instances, Request(i), rows'[t] # rows[t]
        PROVE  FALSE
    <3>1. pc[i] = "serving"
      BY <2>3 DEF Request, RequestCreates, RequestChanges, RequestDeletes, Requests, At
    <3>2. SeededTable(t)
      BY <3>1 DEF IInv, Behind, Tables
    <3>3. PICK c \in SeedCodes : TRUE
      BY StartupAssumption
    <3> QED BY <3>2, <3>3, <1>2, StartupAssumption DEF SeededTable
  <2>4. ASSUME NEW i \in Instances,
               \/ Start(i) \/ Connect(i) \/ Migrate(i) \/ CreateTables(i) \/ CountRows(i)
               \/ InsertRefused(i) \/ ConnectRedis(i) \/ Shutdown(i) \/ Fails(i)
        PROVE  rows'[t] = rows[t]
    BY <2>4 DEF Start, Connect, Migrate, CreateTables, CountRows, InsertRefused,
                ConnectRedis, Shutdown, Fails, database
  <2> QED
    BY <2>1, <2>2, <2>3, <2>4 DEF Next, Opening, vars
<1> QED
  BY <1>1, <1>2 DEF IInv, SeedsArriveTogether

(* The cursor moves past a table that is seeded. *)
LEMMA CursorMoves ==
  ASSUME IInv, [Next]_vars, NEW i \in Instances, pc[i] \in {"count", "insert"},
         NextTable(i), \A c \in SeedCodes : rows'[Table(i)][c] # "absent"
  PROVE  Behind(i)'
<1>1. \A k \in 1 .. step[i] : SeededTable(Order[k])'
  <2> SUFFICES ASSUME NEW k \in 1 .. step[i] PROVE SeededTable(Order[k])'
    OBVIOUS
  <2>1. CASE k = step[i]
    BY <2>1 DEF Table, SeededTable
  <2>2. CASE k # step[i]
    <3>1. k \in 1 .. step[i] - 1 /\ Order[k] \in Tables
      BY <2>2, LengthNatural DEF IInv, TypeOK, Tables
    <3>2. SeededTable(Order[k])
      BY <3>1 DEF IInv, Behind
    <3> QED BY <3>1, <3>2, SeededStays DEF IInv
  <2> QED BY <2>1, <2>2
<1>2. CASE step[i] < Len(Order)
  <2>1. pc'[i] = "count" /\ step'[i] = step[i] + 1
    BY <1>2 DEF NextTable, IInv, TypeOK
  <2>2. \A k \in 1 .. step'[i] - 1 : SeededTable(Order[k])'
    BY <2>1, <1>1, LengthNatural DEF IInv, TypeOK
  <2> QED BY <2>1, <2>2 DEF Behind
<1>3. CASE ~(step[i] < Len(Order))
  <2>1. pc'[i] = "redis" /\ step[i] = Len(Order)
    BY <1>3, LengthNatural DEF NextTable, Goto, IInv, TypeOK
  <2> QED BY <2>1, <1>1 DEF Behind
<1> QED BY <1>2, <1>3

(* An instance that does not move keeps what is behind it. *)
LEMMA BehindStays ==
  ASSUME IInv, [Next]_vars, NEW j \in Instances, pc'[j] = pc[j], step'[j] = step[j]
  PROVE  Behind(j)'
<1>1. \A k \in 1 .. Len(Order) : SeededTable(Order[k]) => SeededTable(Order[k])'
  BY SeededStays DEF IInv, Tables
<1>2. step[j] \in 1 .. Len(Order)
  BY DEF IInv, TypeOK
<1>3. pc[j] \in {"count", "insert"} => \A k \in 1 .. step[j] - 1 : SeededTable(Order[k])'
  BY <1>1, <1>2, LengthNatural DEF IInv, Behind
<1>4. pc[j] \in {"redis", "serving"} => \A k \in 1 .. Len(Order) : SeededTable(Order[k])'
  BY <1>1 DEF IInv, Behind
<1> QED BY <1>3, <1>4 DEF IInv, Behind

LEMMA BehindStep ==
  ASSUME IInv, [Next]_vars, NEW j \in Instances
  PROVE  Behind(j)'
<1>1. CASE pc'[j] = pc[j] /\ step'[j] = step[j]
  BY <1>1, BehindStays
<1>2. ASSUME NEW i \in Instances,
             \/ Start(i) \/ Connect(i) \/ Migrate(i) \/ CreateTables(i) \/ CountRows(i)
             \/ InsertSeeds(i) \/ InsertRefused(i) \/ ConnectRedis(i) \/ Shutdown(i)
             \/ Fails(i) \/ Request(i),
             i # j
      PROVE  pc'[j] = pc[j] /\ step'[j] = step[j]
  BY <1>2 DEF IInv, TypeOK, Start, Connect, Migrate, CreateTables, CountRows, InsertSeeds,
              InsertRefused, ConnectRedis, Shutdown, Fails, Request, RequestCreates,
              RequestChanges, RequestDeletes, NextTable, Goto, Exit
<1>3. ASSUME pc'[j] \in {"down", "connect", "migrate", "ddl"},
             pc'[j] # "down" => step'[j] = 1
      PROVE  Behind(j)'
  BY <1>3 DEF Behind
<1>4. CASE Start(j)
  BY <1>3, <1>4 DEF IInv, TypeOK, Start
<1>5. CASE Connect(j)
  BY <1>3, <1>5 DEF IInv, TypeOK, Connect, Goto, Exit, Behind, At
<1>6. CASE Migrate(j) \/ CreateTables(j)
  <2>1. step'[j] = 1 /\ pc'[j] \in {"down", "ddl", "count"}
    BY <1>6 DEF IInv, TypeOK, Migrate, CreateTables, Goto, Exit, Behind, At
  <2> QED BY <2>1 DEF Behind
<1>7. CASE CountRows(j)
  <2>1. CASE LiveRows(Table(j)) # {}
    <3>1. SeededTable(Table(j)) /\ NextTable(j) /\ pc[j] \in {"count", "insert"}
      BY <2>1, <1>7, LiveMeansSeeded, CursorTable DEF IInv, CountRows, At
    <3>2. UNCHANGED rows
      BY <1>7 DEF CountRows, database
    <3>3. \A c \in SeedCodes : rows'[Table(j)][c] # "absent"
      BY <3>1, <3>2 DEF SeededTable
    <3> QED BY <3>1, <3>3, CursorMoves
  <2>2. CASE ~(LiveRows(Table(j)) # {})
    <3>1. pc[j] = "count" /\ pc'[j] = "insert" /\ step'[j] = step[j] /\ UNCHANGED rows
      BY <2>2, <1>7 DEF CountRows, Goto, At, IInv, TypeOK, database
    <3> QED BY <3>1 DEF IInv, Behind, SeededTable
  <2> QED BY <2>1, <2>2
<1>8. CASE InsertSeeds(j)
  <2>1. CASE NextTable(j)
    <3>1. rows'[Table(j)] = WithSeeds(Table(j))
      BY <1>8, CursorTable DEF IInv, TypeOK, InsertSeeds
    <3>2. \A c \in SeedCodes : rows'[Table(j)][c] # "absent"
      BY <3>1, StartupAssumption DEF WithSeeds
    <3> QED BY <2>1, <3>2, <1>8, CursorMoves DEF InsertSeeds, At
  <2>2. CASE Exit(j)
    BY <2>2, <1>3 DEF IInv, TypeOK, Exit, Goto
  <2> QED BY <2>1, <2>2, <1>8 DEF InsertSeeds
<1>9. CASE InsertRefused(j) \/ Shutdown(j) \/ Fails(j)
  BY <1>9, <1>3 DEF IInv, TypeOK, InsertRefused, Shutdown, Fails, Exit, Goto
<1>10. CASE ConnectRedis(j)
  <2>1. pc[j] = "redis" /\ pc'[j] = "serving" /\ UNCHANGED rows
    BY <1>10 DEF IInv, TypeOK, ConnectRedis, Goto, At, database
  <2> QED BY <2>1 DEF IInv, Behind, SeededTable
<1>11. CASE Request(j)
  BY <1>11, <1>1 DEF Request, RequestCreates, RequestChanges, RequestDeletes
<1> QED
  BY <1>1, <1>2, <1>4, <1>5, <1>6, <1>7, <1>8, <1>9, <1>10, <1>11 DEF Next, Opening, vars

-----------------------------------------------------------------------------

LEMMA Invariance == Spec => []IInv
<1>1. Init => IInv
  <2> SUFFICES ASSUME Init PROVE IInv
    OBVIOUS
  <2>1. TypeOK
    <3>1. rows \in [Tables -> [Codes -> RowStates]]
      BY DEF Init, RowStates
    <3>2. pc \in [Instances -> Places] /\ schema \in BOOLEAN
      BY DEF Init, Places
    <3>3. 0 \in 0 .. MaxAttempts /\ 1 \in 1 .. Len(Order)
      BY LengthNatural, AttemptsNatural
    <3> QED BY <3>1, <3>2, <3>3 DEF Init, TypeOK
  <2>2. SeedsArriveTogether
    BY DEF Init, SeedsArriveTogether
  <2>3. \A i \in Instances : Behind(i)
    BY DEF Init, Behind
  <2> QED BY <2>1, <2>2, <2>3 DEF IInv
<1>2. IInv /\ [Next]_vars => IInv'
  BY TypeStep, SeedsStep, BehindStep DEF IInv
<1> QED BY <1>1, <1>2, PTL DEF Spec

(* Every variable of starting instances keeps its type, and the retry loop *)
(* its bound.                                                              *)
THEOREM TypeCorrect == Spec => []TypeOK
<1>1. IInv => TypeOK
  BY DEF IInv
<1> QED BY <1>1, Invariance, PTL

(* However many instances race and die, each table is seeded completely or *)
(* empty.                                                                  *)
THEOREM SeedingIsAtomic == Spec => []SeedsArriveTogether
<1>1. IInv => SeedsArriveTogether
  BY DEF IInv
<1> QED BY <1>1, Invariance, PTL

(* An instance that serves, serves tables that were all seeded.            *)
THEOREM CompleteBeforeServing == Spec => []ServesCompleteTables
<1>1. IInv => ServesCompleteTables
  BY DEF IInv, Behind, ServesCompleteTables, Tables
<1> QED BY <1>1, Invariance, PTL

(* No start, race or crash turns a row back.                               *)
THEOREM RestartsKeepWork == Spec => RestartKeepsWork
<1>1. IInv /\ [Next]_vars =>
        [\A t \in Tables : \A c \in Codes :
           /\ rows[t][c] = "seeded" => rows'[t][c] # "absent"
           /\ rows[t][c] = "worked" => rows'[t][c] \in {"worked", "deleted"}
           /\ rows[t][c] = "deleted" => rows'[t][c] = "deleted"]_vars
  BY RowStep DEF IInv
<1> QED BY <1>1, Invariance, PTL DEF Spec, RestartKeepsWork
=============================================================================
