------------------------------ MODULE Startup -------------------------------
(***************************************************************************)
(* Instances of the server starting over shared tables: connect, migrate,  *)
(* seed, connect redis, serve; exit on any error and be started again      *)
(* (backend/internal/database/database.go, cmd/server/main.go).            *)
(*                                                                         *)
(* Seeding a table is a count of its live rows and, if there are none, an  *)
(* insert; nothing locks the table in between, and the same tables are     *)
(* changed by the requests that serving instances handle.                  *)
(***************************************************************************)
EXTENDS Naturals, Sequences

CONSTANTS
  Instances,    \* processes of the server, and restarts of one process
  Order,        \* the tables in the order Seed visits them, users first
  Codes,        \* unique keys of rows: usernames and codes
  SeedCodes,    \* those of the rows Seed inserts into a table
  Kept,         \* [tables -> seed rows no request deletes: final decisions]
  MaxAttempts,  \* attempts to connect (20 in Open)
  Faults        \* the database may fail, deadlines expire, processes die

Tables == {Order[k] : k \in 1 .. Len(Order)}

ASSUME StartupAssumption ==
  /\ Order \in Seq(STRING)
  /\ Len(Order) > 0
  /\ \A j, k \in 1 .. Len(Order) : Order[j] = Order[k] => j = k
  /\ SeedCodes \subseteq Codes
  /\ SeedCodes # {}
  /\ Kept \in [Tables -> SUBSET SeedCodes]
  /\ MaxAttempts \in Nat \ {0}
  /\ Faults \in BOOLEAN

VARIABLES
  schema,   \* the tables exist
  rows,     \* [Tables -> [Codes -> what became of the row]]
  pc,       \* [Instances -> what the process does next]
  attempt,  \* [Instances -> attempts to connect, this one included]
  step      \* [Instances -> position in Order of the table being seeded]

database == <<schema, rows>>
vars == <<schema, rows, pc, attempt, step>>

(* As inserted by Seed, as a request left it, or soft-deleted.             *)
RowStates == {"absent", "seeded", "worked", "deleted"}

LiveRows(t) == {c \in Codes : rows[t][c] \in {"seeded", "worked"}}

At(i, place) == pc[i] = place

Goto(i, place) == pc' = [pc EXCEPT ![i] = place] /\ UNCHANGED <<attempt, step>>

(* Open returns an error and main exits, or the process dies.              *)
Exit(i) == Goto(i, "down")

(* The table under the cursor is done: the next one, or on to redis.       *)
NextTable(i) ==
  IF step[i] < Len(Order)
    THEN /\ pc' = [pc EXCEPT ![i] = "count"]
         /\ step' = [step EXCEPT ![i] = @ + 1]
         /\ UNCHANGED attempt
    ELSE Goto(i, "redis")

Table(i) == Order[step[i]]

-----------------------------------------------------------------------------
(* A process. *)

Start(i) ==
  /\ At(i, "down")
  /\ pc' = [pc EXCEPT ![i] = "connect"]
  /\ attempt' = [attempt EXCEPT ![i] = 1]
  /\ step' = [step EXCEPT ![i] = 1]
  /\ UNCHANGED database

(* Mutation: the loop makes one attempt too many.                          *)
ConnectOnceMore(i) ==
  /\ At(i, "connect")
  /\ \E answers \in BOOLEAN :
       /\ Faults \/ answers
       /\ \/ answers /\ Goto(i, "migrate")
          \/ /\ ~answers /\ attempt[i] <= MaxAttempts
             /\ attempt' = [attempt EXCEPT ![i] = @ + 1]
             /\ UNCHANGED <<pc, step>>
          \/ ~answers /\ attempt[i] > MaxAttempts /\ Exit(i)
  /\ UNCHANGED database

(* One turn of the retry loop.  The error kept is that of a second ping,   *)
(* so a database that answers it late ends the last turn without an error. *)
Connect(i) ==
  /\ At(i, "connect")
  /\ \E first, second \in BOOLEAN :
       /\ Faults \/ first
       /\ \/ /\ first \/ (second /\ attempt[i] = MaxAttempts)
             /\ Goto(i, "migrate")
          \/ /\ ~first /\ attempt[i] < MaxAttempts
             /\ attempt' = [attempt EXCEPT ![i] = @ + 1]
             /\ UNCHANGED <<pc, step>>
          \/ /\ ~first /\ ~second /\ attempt[i] = MaxAttempts
             /\ Exit(i)
  /\ UNCHANGED database

(* AutoMigrate looks whether the tables are there, and creates them.       *)
Migrate(i) ==
  /\ At(i, "migrate")
  /\ IF schema THEN Goto(i, "count") ELSE Goto(i, "ddl")
  /\ UNCHANGED database

CreateTables(i) ==
  /\ At(i, "ddl")
  /\ \/ ~schema /\ schema' = TRUE /\ Goto(i, "count")
     \/ schema /\ Exit(i) /\ UNCHANGED schema
  /\ UNCHANGED rows

(* Mutation: a table some of whose seed rows are gone counts as unseeded.  *)
CountSeedRows(i) ==
  /\ At(i, "count")
  /\ IF SeedCodes \subseteq LiveRows(Table(i)) THEN NextTable(i) ELSE Goto(i, "insert")
  /\ UNCHANGED database

(* GORM counts what is not soft-deleted.                                   *)
CountRows(i) ==
  /\ At(i, "count")
  /\ IF LiveRows(Table(i)) # {} THEN NextTable(i) ELSE Goto(i, "insert")
  /\ UNCHANGED database

Unoccupied(t) == \A c \in SeedCodes : rows[t][c] = "absent"

WithSeeds(t) == [c \in Codes |-> IF c \in SeedCodes THEN "seeded" ELSE rows[t][c]]

(* Mutation: the rows are inserted one by one, each in its transaction.    *)
InsertOneByOne(i) ==
  /\ At(i, "insert")
  /\ \E c \in SeedCodes :
       /\ rows[Table(i)][c] = "absent"
       /\ rows' = [rows EXCEPT ![Table(i)][c] = "seeded"]
       /\ IF SeedCodes \ {c} \subseteq {d \in Codes : rows[Table(i)][d] # "absent"}
            THEN NextTable(i)
            ELSE UNCHANGED <<pc, attempt, step>>
  /\ UNCHANGED schema

(* Mutation: the insert says ON CONFLICT DO UPDATE.                        *)
UpsertSeeds(i) ==
  /\ At(i, "insert")
  /\ rows' = [rows EXCEPT ![Table(i)] = WithSeeds(Table(i))]
  /\ NextTable(i)
  /\ UNCHANGED schema

(* One statement, or one transaction with the revisions: all rows or none. *)
(* If its acknowledgement is lost the process exits all the same.          *)
InsertSeeds(i) ==
  /\ At(i, "insert")
  /\ Unoccupied(Table(i))
  /\ rows' = [rows EXCEPT ![Table(i)] = WithSeeds(Table(i))]
  /\ NextTable(i) \/ (Faults /\ Exit(i))
  /\ UNCHANGED schema

(* A code is taken, by another instance's seeds or by a deleted row.       *)
InsertRefused(i) ==
  /\ At(i, "insert")
  /\ ~Unoccupied(Table(i))
  /\ Exit(i)
  /\ UNCHANGED database

ConnectRedis(i) ==
  /\ At(i, "redis")
  /\ Goto(i, "serving")
  /\ UNCHANGED database

(* SIGTERM, once the server listens. *)
Shutdown(i) ==
  /\ At(i, "serving")
  /\ Exit(i)
  /\ UNCHANGED database

(* Mutation: an error of the seeding is logged and the start goes on.      *)
SeedErrorIgnored(i) ==
  /\ Faults
  /\ \/ pc[i] \in {"count", "insert"} /\ NextTable(i)
     \/ pc[i] \notin {"down", "count", "insert"} /\ Exit(i)
  /\ UNCHANGED database

(* A statement fails, the startup deadline expires, or the process dies.   *)
Fails(i) ==
  /\ Faults
  /\ pc[i] # "down"
  /\ Exit(i)
  /\ UNCHANGED database

-----------------------------------------------------------------------------
(* What the mutating routes of a serving instance do to a row; users have  *)
(* no such routes.                                                         *)

Requests(i, t) == At(i, "serving") /\ t # "users"

RequestCreates(i, t, c) ==
  /\ Requests(i, t)
  /\ rows[t][c] = "absent"
  /\ rows' = [rows EXCEPT ![t][c] = "worked"]
  /\ UNCHANGED <<schema, pc, attempt, step>>

RequestChanges(i, t, c) ==
  /\ Requests(i, t)
  /\ rows[t][c] = "seeded"
  /\ rows' = [rows EXCEPT ![t][c] = "worked"]
  /\ UNCHANGED <<schema, pc, attempt, step>>

RequestDeletes(i, t, c) ==
  /\ Requests(i, t)
  /\ c \in LiveRows(t) \ Kept[t]
  /\ rows' = [rows EXCEPT ![t][c] = "deleted"]
  /\ UNCHANGED <<schema, pc, attempt, step>>

-----------------------------------------------------------------------------

Init ==
  /\ schema = FALSE
  /\ rows = [t \in Tables |-> [c \in Codes |-> "absent"]]
  /\ pc = [i \in Instances |-> "down"]
  /\ attempt = [i \in Instances |-> 0]
  /\ step = [i \in Instances |-> 1]

Opening(i) ==
  \/ Connect(i) \/ Migrate(i) \/ CreateTables(i)
  \/ CountRows(i) \/ InsertSeeds(i) \/ InsertRefused(i) \/ ConnectRedis(i)

Request(i) ==
  \E t \in Tables, c \in Codes :
    RequestCreates(i, t, c) \/ RequestChanges(i, t, c) \/ RequestDeletes(i, t, c)

Next ==
  \E i \in Instances : Start(i) \/ Opening(i) \/ Shutdown(i) \/ Fails(i) \/ Request(i)

Spec == Init /\ [][Next]_vars

(* Open is sequential code whose statements return; docker-compose starts  *)
(* an exited backend again (restart: unless-stopped).                      *)
FairSpec == Spec /\ \A i \in Instances : WF_vars(Start(i)) /\ WF_vars(Opening(i))

-----------------------------------------------------------------------------

Places == {"down", "connect", "migrate", "ddl", "count", "insert", "redis", "serving"}

(* Every variable has its type; the attempts stay within the loop's bound. *)
TypeOK ==
  /\ schema \in BOOLEAN
  /\ rows \in [Tables -> [Codes -> RowStates]]
  /\ pc \in [Instances -> Places]
  /\ attempt \in [Instances -> 0 .. MaxAttempts]
  /\ step \in [Instances -> 1 .. Len(Order)]

SeededTable(t) == \A c \in SeedCodes : rows[t][c] # "absent"

(* Seeding is all or nothing, table by table, whoever races and wherever a *)
(* process dies, and no row comes before the seeds: a table without its    *)
(* seed rows is empty, so that a later start can still complete it.        *)
SeedsArriveTogether ==
  \A t \in Tables : SeededTable(t) \/ \A c \in Codes : rows[t][c] = "absent"

(* An instance that serves requests serves complete tables, users to log   *)
(* in with included, although it may have seeded none of them itself.      *)
ServesCompleteTables ==
  \A i \in Instances : pc[i] = "serving" => \A t \in Tables : SeededTable(t)

(* A restart never takes back work: no start turns a changed or deleted    *)
(* row into a seed again, and no row disappears.                           *)
RestartKeepsWork ==
  [][\A t \in Tables : \A c \in Codes :
       /\ rows[t][c] = "seeded" => rows'[t][c] # "absent"
       /\ rows[t][c] = "worked" => rows'[t][c] \in {"worked", "deleted"}
       /\ rows[t][c] = "deleted" => rows'[t][c] = "deleted"]_vars

(* A table whose every row was deleted.  Its seed codes stay occupied, so  *)
(* every start counts no rows, tries to seed it again and exits.           *)
Emptied(t) == LiveRows(t) = {} /\ \E c \in Codes : rows[t][c] = "deleted"

(* An instance that starts comes to serve, also when it loses the race of  *)
(* creating or seeding a table and is started again; the only thing that   *)
(* can keep it from serving is a table all of whose rows were deleted.     *)
ServesUnlessEmptied ==
  \A i \in Instances :
    pc[i] = "connect" ~> (pc[i] = "serving" \/ \E t \in Tables : Emptied(t))
=============================================================================
