------------------------- MODULE DomainRecordsProofs ------------------------
(***************************************************************************)
(* Proofs about DomainRecords, for any of the three aggregates and any     *)
(* records, users, fields, requests and versions.                          *)
(***************************************************************************)
EXTENDS DomainRecords, TLAPS

(* Holds whatever versions clients send. *)
IInv == TableTypes /\ LocalTypes /\ HandlersChecked

-----------------------------------------------------------------------------
(* The status graphs. *)

(* An edge of a graph leads to a status of the graph.                      *)
LEMMA EdgesStay ==
  ASSUME NEW k \in Kinds, NEW from, NEW to, CanTransition(RecordTransitions[k], from, to)
  PROVE  to \in DOMAIN RecordTransitions[k]
<1>1. CASE k = "bridge"
  BY <1>1 DEF RecordTransitions, BridgeAssetTransitions, CanTransition
<1>2. CASE k = "inspection"
  BY <1>2 DEF RecordTransitions, InspectionRoundTransitions, CanTransition
<1>3. CASE k = "defect"
  BY <1>3 DEF RecordTransitions, DefectFindingTransitions, CanTransition
<1>4. QED
  BY <1>1, <1>2, <1>3 DEF Kinds

(* Records are created and seeded in a status of their aggregate.          *)
LEMMA FirstStatuses ==
  ASSUME NEW k \in Kinds
  PROVE  /\ RecordInitialStatus[k] \in DOMAIN RecordTransitions[k]
         /\ SeedStatuses[k] \subseteq DOMAIN RecordTransitions[k]
<1>1. CASE k = "bridge"
  BY <1>1 DEF RecordTransitions, BridgeAssetTransitions, RecordInitialStatus, SeedStatuses
<1>2. CASE k = "inspection"
  BY <1>2 DEF RecordTransitions, InspectionRoundTransitions, RecordInitialStatus, SeedStatuses
<1>3. CASE k = "defect"
  BY <1>3 DEF RecordTransitions, DefectFindingTransitions, RecordInitialStatus, SeedStatuses
<1>4. QED
  BY <1>1, <1>2, <1>3 DEF Kinds

-----------------------------------------------------------------------------
(* What the types amount to. *)

LEMMA StoredRow ==
  ASSUME NEW item \in Rows \cup {NoItem}, item.state # "absent"
  PROVE  item \in StoredRows
  BY DEF Rows, NoRow, NoItem

LEMMA NoRowType == NoRow \in Rows /\ ~Live(NoRow) /\ NoRow.state = "absent" /\ ~Live(NoItem)
  BY DEF Rows, NoRow, NoItem, Live

LEMMA RowVersion ==
  ASSUME NEW item \in Rows
  PROVE  item.version \in Nat
  BY DEF Rows, NoRow, StoredRows

LEMMA TypesKept ==
  ASSUME kind' = kind
  PROVE  /\ StoredRows' = StoredRows /\ Rows' = Rows
         /\ AuditEntries' = AuditEntries /\ Calls' = Calls
  BY DEF StoredRows, Rows, AuditEntries, Statuses, Calls, CreateCalls, UpdateCalls,
         TransitionCalls, DeleteCalls, NoRow

(* A call's operation tells which inputs it carries.                       *)
LEMMA CallFields ==
  ASSUME NEW c \in Calls
  PROVE  /\ c.op \in {"create", "update", "transition", "delete"}
         /\ c.user \in Users
         /\ c.id \in Records
         /\ c.op \in {"create", "update"} => c.fields \in Inputs
         /\ c.op \in {"update", "transition"} =>
              c.expected \in Nat /\ c.expected + 1 \in Nat \ {0}
<1>1. \A v \in ExpectedVersions : v \in Nat /\ v + 1 \in Nat \ {0}
  BY RecordsAssumption
<1>2. CASE c \in CreateCalls
  BY <1>2 DEF CreateCalls
<1>3. CASE c \in UpdateCalls
  BY <1>1, <1>3 DEF UpdateCalls
<1>4. CASE c \in TransitionCalls
  BY <1>1, <1>4 DEF TransitionCalls
<1>5. CASE c \in DeleteCalls
  BY <1>5 DEF DeleteCalls
<1>6. QED
  BY <1>2, <1>3, <1>4, <1>5 DEF Calls

(* A handler's locals, between its checks and its answer.                  *)
LEMMA Locals ==
  ASSUME IInv, NEW r \in Requests, InFlight(r)
  PROVE  /\ call[r] \in Calls
         /\ call[r].id \in Records
         /\ call[r].op # "create" => current[r] \in StoredRows /\ current[r].state = "live"
<1>1. call[r] \in Calls /\ current[r] \in Rows \cup {NoItem}
  BY DEF IInv, LocalTypes
<1>2. call[r].op # "create" => current[r].state = "live"
  BY DEF IInv, HandlersChecked, Live
<1>3. QED
  BY <1>1, <1>2, CallFields, StoredRow

(* The item a handler writes is a complete row at the version it names.    *)
LEMMA ItemType ==
  ASSUME IInv, NEW r \in Requests, InFlight(r), call[r].op # "delete"
  PROVE  /\ Item(r) \in StoredRows
         /\ Item(r).state = "live"
         /\ Item(r).version = IF call[r].op = "create" THEN 1 ELSE call[r].expected + 1
         /\ Item(r).status = CASE call[r].op = "create" -> RecordInitialStatus[kind]
                               [] call[r].op = "update" -> current[r].status
                               [] call[r].op = "transition" -> call[r].target
         /\ Item(r).fields =
              IF call[r].op = "transition" THEN current[r].fields ELSE call[r].fields
<1>1. call[r] \in Calls /\ kind \in Kinds
  BY DEF IInv, LocalTypes, TableTypes
<1>2. CASE call[r].op = "create"
  <2>1. call[r].fields \in Fields
    BY <1>1, <1>2, CallFields DEF IInv, HandlersChecked
  <2>2. Item(r) = NewRow(RecordInitialStatus[kind], call[r].fields)
    BY <1>2 DEF Item
  <2>3. QED
    BY <1>1, <1>2, <2>1, <2>2, FirstStatuses DEF NewRow, StoredRows, RowStates, Statuses
<1>3. CASE call[r].op = "update"
  <2>1. call[r].fields \in Fields /\ call[r].expected + 1 \in Nat \ {0}
    BY <1>1, <1>3, CallFields DEF IInv, HandlersChecked
  <2>2. current[r] \in StoredRows /\ current[r].state = "live"
    BY <1>3, Locals
  <2>3. Item(r) = [current[r] EXCEPT !.fields = call[r].fields, !.version = call[r].expected + 1]
    BY <1>3 DEF Item
  <2>4. QED
    BY <1>3, <2>1, <2>2, <2>3 DEF StoredRows
<1>4. CASE call[r].op = "transition"
  <2>1. call[r].target \in Statuses /\ call[r].expected + 1 \in Nat \ {0}
    BY <1>1, <1>4, CallFields, EdgesStay DEF IInv, HandlersChecked, Statuses
  <2>2. current[r] \in StoredRows /\ current[r].state = "live"
    BY <1>4, Locals
  <2>3. Item(r) = [current[r] EXCEPT !.status = call[r].target, !.version = call[r].expected + 1]
    BY <1>4 DEF Item
  <2>4. QED
    BY <1>4, <2>1, <2>2, <2>3 DEF StoredRows
<1>5. QED
  BY <1>1, <1>2, <1>3, <1>4, CallFields

-----------------------------------------------------------------------------
(* The steps of a handler, on its own locals. *)

(* A row stays in the table, its version never falls, and while it lives   *)
(* its content changes only with its version.                              *)
RowsRise ==
  \A d \in Records : row[d].state # "absent" =>
    /\ row'[d].state # "absent"
    /\ row[d].version <= row'[d].version
    /\ Live(row'[d]) /\ row'[d].version = row[d].version => row'[d] = row[d]

LEMMA NothingRises ==
  ASSUME IInv, row' = row
  PROVE  RowsRise
  BY RowVersion DEF RowsRise, IInv, TableTypes

(* A handler that answers, or goes on to a later step.                     *)
Advances(r) ==
  \/ \E code \in Replies : Answer(r, code)
  \/ InFlight(r) /\ \E step \in {"audit", "reread"} : Goto(r, step)

(* What the others have written leaves a handler with what it checked.     *)
LEMMA StillChecked ==
  ASSUME IInv, row' \in [Records -> Rows], kind' = kind, RowsRise,
         NEW r \in Requests, InFlight(r), call'[r] = call[r], current'[r] = current[r]
  PROVE  /\ call'[r].op \in {"create", "update"} => call'[r].fields \in Fields
         /\ call'[r].op # "create" =>
              LET now == row'[call'[r].id] IN
              /\ Live(current'[r])
              /\ now.state # "absent"
              /\ current'[r].version <= now.version
              /\ Live(now) /\ now.version = current'[r].version => now = current'[r]
         /\ call'[r].op = "transition" =>
              CanTransition(RecordTransitions[kind'], current'[r].status, call'[r].target)
<1> DEFINE d == call[r].id
<1>1. /\ call[r].op \in {"create", "update"} => call[r].fields \in Fields
      /\ call[r].op = "transition" =>
           CanTransition(RecordTransitions[kind], current[r].status, call[r].target)
  BY DEF IInv, HandlersChecked
<1>2. ASSUME call[r].op # "create"
      PROVE  /\ Live(current[r])
             /\ row'[d].state # "absent"
             /\ current[r].version <= row'[d].version
             /\ Live(row'[d]) /\ row'[d].version = current[r].version => row'[d] = current[r]
  <2>1. /\ Live(current[r])
        /\ row[d].state # "absent"
        /\ current[r].version <= row[d].version
        /\ Live(row[d]) /\ row[d].version = current[r].version => row[d] = current[r]
    BY <1>2 DEF IInv, HandlersChecked
  <2>2. d \in Records /\ current[r].version \in Nat
    BY <1>2, Locals DEF StoredRows
  <2>3. row[d].version \in Nat /\ row'[d].version \in Nat
    BY <2>2, RowVersion, TypesKept DEF IInv, TableTypes
  <2>4. /\ row'[d].state # "absent"
        /\ row[d].version <= row'[d].version
        /\ Live(row'[d]) /\ row'[d].version = row[d].version => row'[d] = row[d]
    BY <2>1, <2>2 DEF RowsRise
  <2>5. QED
    BY <2>1, <2>2, <2>3, <2>4
<1>3. QED
  BY <1>1, <1>2

LEMMA LocalStep ==
  ASSUME IInv, NEW q \in Requests, Advances(q),
         row' \in [Records -> Rows], kind' = kind, RowsRise
  PROVE  LocalTypes' /\ HandlersChecked'
<1>1. \A r \in Requests : InFlight(r)' =>
        /\ InFlight(r)
        /\ call'[r] = call[r]
        /\ current'[r] = current[r]
  BY DEF IInv, LocalTypes, Advances, Answer, Goto, InFlight
<1>2. LocalTypes'
  <2>1. CASE \E code \in Replies : Answer(q, code)
    BY <2>1, TypesKept DEF IInv, LocalTypes, Answer, InFlight
  <2>2. CASE InFlight(q) /\ \E step \in {"audit", "reread"} : Goto(q, step)
    BY <2>2, TypesKept DEF IInv, LocalTypes, Goto, InFlight
  <2>3. QED
    BY <2>1, <2>2 DEF Advances
<1>3. HandlersChecked'
  BY <1>1, StillChecked DEF HandlersChecked, Live
<1>4. QED
  BY <1>2, <1>3

-----------------------------------------------------------------------------
(* Every step keeps the invariant. *)

LEMMA InitIInv == Init => IInv
<1> SUFFICES ASSUME Init PROVE IInv
  OBVIOUS
<1>1. \A r \in Requests : ~InFlight(r)
  BY DEF Init, NoneArrived, InFlight
<1>2. LocalTypes /\ HandlersChecked
  BY <1>1 DEF Init, NoneArrived, LocalTypes, HandlersChecked, Replies
<1>3. Seeds(kind) \subseteq Rows
  <2>1. ASSUME NEW s \in SeedStatuses[kind], NEW f \in Fields
        PROVE  NewRow(s, f) \in Rows
    BY <2>1, FirstStatuses DEF Init, NewRow, Rows, StoredRows, RowStates, Statuses
  <2>2. QED
    BY <2>1, NoRowType DEF Seeds
<1>4. TableTypes
  BY <1>3 DEF Init, TableTypes
<1>5. QED
  BY <1>2, <1>4 DEF IInv

(* The steps that leave the table alone.                                   *)
LEMMA QuietStep ==
  ASSUME IInv, NEW q \in Requests, Advances(q),
         UNCHANGED <<kind, row>>, audits' \subseteq AuditEntries
  PROVE  IInv'
<1>1. RowsRise /\ row' \in [Records -> Rows]
  BY NothingRises DEF IInv, TableTypes
<1>2. LocalTypes' /\ HandlersChecked'
  BY <1>1, LocalStep
<1>3. TableTypes'
  BY TypesKept DEF IInv, TableTypes
<1>4. QED
  BY <1>2, <1>3 DEF IInv

(* A handler that passed its checks holds the call and the row it read.    *)
LEMMA StartStep ==
  ASSUME IInv, NEW q \in Requests, NEW c \in Calls, NEW item \in Rows \cup {NoItem},
         NEW verdict \in Replies \cup {"pass"},
         Handle(q, c, item, verdict),
         verdict = "pass" =>
           /\ c.op \in {"create", "update"} => c.fields \in Fields
           /\ c.op # "create" => item = row[c.id] /\ Live(item)
           /\ c.op = "transition" =>
                CanTransition(RecordTransitions[kind], item.status, c.target)
  PROVE  IInv'
<1>1. CASE verdict # "pass"
  <2>1. verdict \in Replies /\ Answer(q, verdict) /\ UNCHANGED tables
    BY <1>1 DEF Handle, Check
  <2>2. UNCHANGED <<kind, row>> /\ audits' \subseteq AuditEntries
    BY <2>1 DEF tables, IInv, TableTypes
  <2>3. QED
    BY <2>1, <2>2, QuietStep DEF Advances
<1>2. CASE verdict = "pass"
  <2>1. /\ pc' = [pc EXCEPT ![q] = "write"]
        /\ call' = [call EXCEPT ![q] = c]
        /\ current' = [current EXCEPT ![q] = item]
        /\ reply' = reply
        /\ kind' = kind /\ row' = row /\ audits' = audits
    BY <1>2, Zenon DEF Handle, Check, tables, Answer
  <2>2. TableTypes'
    BY <2>1, TypesKept DEF IInv, TableTypes
  <2>3. LocalTypes'
    BY <2>1, TypesKept DEF IInv, LocalTypes, InFlight
  <2>4. ASSUME NEW r \in Requests, r # q, InFlight(r)'
        PROVE  InFlight(r) /\ call'[r] = call[r] /\ current'[r] = current[r]
    BY <2>1, <2>4 DEF IInv, LocalTypes, InFlight
  <2>5. call'[q] = c /\ current'[q] = item
    BY <2>1 DEF IInv, LocalTypes
  <2>6. c.op # "create" =>
          /\ row[c.id].state # "absent"
          /\ item.version <= row[c.id].version
          /\ row[c.id] = item
    <3>1. c.id \in Records
      BY CallFields
    <3>2. row[c.id].version <= row[c.id].version
      BY <3>1, RowVersion DEF IInv, TableTypes
    <3>3. QED
      BY <1>2, <3>2 DEF Live
  <2>7. HandlersChecked'
    BY <1>2, <2>1, <2>4, <2>5, <2>6 DEF IInv, HandlersChecked, Live
  <2>8. QED
    BY <2>2, <2>3, <2>7 DEF IInv
<1>3. QED
  BY <1>1, <1>2

LEMMA ArriveStep ==
  ASSUME IInv, NEW q \in Requests, Arrive(q)
  PROVE  IInv'
<1>1. row \in [Records -> Rows]
  BY DEF IInv, TableTypes
<1>2. CASE Create(q)
  <2>1. PICK c \in CreateCalls : Handle(q, c, NoItem, CreateVerdict(c))
    BY <1>2 DEF Create
  <2>2. c \in Calls /\ c.op = "create"
    BY DEF Calls, CreateCalls
  <2>3. /\ CreateVerdict(c) \in Replies \cup {"pass"}
        /\ CreateVerdict(c) = "pass" => c.fields \in Fields
    BY DEF CreateVerdict, Replies
  <2>4. QED
    BY <2>1, <2>2, <2>3, StartStep
<1>3. CASE Update(q)
  <2>1. PICK c \in UpdateCalls : Handle(q, c, row[c.id], UpdateVerdict(c, row[c.id]))
    BY <1>3 DEF Update
  <2>2. c \in Calls /\ c.op = "update" /\ row[c.id] \in Rows
    BY <1>1 DEF Calls, UpdateCalls
  <2>3. /\ UpdateVerdict(c, row[c.id]) \in Replies \cup {"pass"}
        /\ UpdateVerdict(c, row[c.id]) = "pass" => Live(row[c.id]) /\ c.fields \in Fields
    BY DEF UpdateVerdict, Replies
  <2>4. QED
    BY <2>1, <2>2, <2>3, StartStep
<1>4. CASE Transition(q)
  <2>1. PICK c \in TransitionCalls : Handle(q, c, row[c.id], TransitionVerdict(c, row[c.id]))
    BY <1>4 DEF Transition
  <2>2. c \in Calls /\ c.op = "transition" /\ row[c.id] \in Rows
    BY <1>1 DEF Calls, TransitionCalls
  <2>3. /\ TransitionVerdict(c, row[c.id]) \in Replies \cup {"pass"}
        /\ TransitionVerdict(c, row[c.id]) = "pass" =>
             /\ Live(row[c.id])
             /\ CanTransition(RecordTransitions[kind], row[c.id].status, c.target)
    BY DEF TransitionVerdict, Replies
  <2>4. QED
    BY <2>1, <2>2, <2>3, StartStep
<1>5. CASE Delete(q)
  <2>1. PICK c \in DeleteCalls : Handle(q, c, row[c.id], DeleteVerdict(c, row[c.id]))
    BY <1>5 DEF Delete
  <2>2. c \in Calls /\ c.op = "delete" /\ row[c.id] \in Rows
    BY <1>1 DEF Calls, DeleteCalls
  <2>3. /\ DeleteVerdict(c, row[c.id]) \in Replies \cup {"pass"}
        /\ DeleteVerdict(c, row[c.id]) = "pass" => Live(row[c.id])
    BY DEF DeleteVerdict, Replies
  <2>4. QED
    BY <2>1, <2>2, <2>3, StartStep
<1>6. QED
  BY <1>2, <1>3, <1>4, <1>5 DEF Arrive

LEMMA WriteRefusedStep ==
  ASSUME IInv, NEW q \in Requests, WriteRefused(q)
  PROVE  IInv'
<1>1. \E code \in Replies : Answer(q, code)
  BY DEF WriteRefused, Replies
<1>2. UNCHANGED <<kind, row>> /\ audits' \subseteq AuditEntries
  BY DEF WriteRefused, tables, IInv, TableTypes
<1>3. QED
  BY <1>1, <1>2, QuietStep DEF Advances

LEMMA AuditEntryType ==
  ASSUME IInv, NEW q \in Requests, InFlight(q)
  PROVE  AuditEntry(q) \in AuditEntries
<1>1. /\ call[q].user \in Users
      /\ call[q].op \in {"create", "update", "transition", "delete"}
      /\ call[q].id \in Records
  BY Locals, CallFields
<1>2. call[q].op # "create" => current[q].status \in Statuses
  BY Locals DEF StoredRows
<1>3. call[q].op # "delete" => Item(q).status \in Statuses
  BY ItemType DEF StoredRows
<1>4. QED
  BY <1>1, <1>2, <1>3 DEF AuditEntry, AuditEntries

LEMMA FinishStep ==
  ASSUME IInv, NEW q \in Requests, Finish(q)
  PROVE  IInv'
<1>1. audits \subseteq AuditEntries
  BY DEF IInv, TableTypes
<1>2. ASSUME InFlight(q), AfterAudit(q)
      PROVE  Advances(q)
  BY <1>2 DEF AfterAudit, Advances, Replies
<1>3. CASE AppendAudit(q)
  <2>1. InFlight(q) /\ audits' = audits \cup {AuditEntry(q)} /\ UNCHANGED <<kind, row>>
    BY <1>3 DEF AppendAudit, InFlight
  <2>2. QED
    BY <1>1, <1>2, <1>3, <2>1, AuditEntryType, QuietStep DEF AppendAudit
<1>4. CASE AuditFails(q)
  <2>1. /\ InFlight(q)
        /\ audits' \in {audits, audits \cup {AuditEntry(q)}}
        /\ UNCHANGED <<kind, row>>
    BY <1>4 DEF AuditFails, InFlight
  <2>2. Advances(q)
    BY <1>2, <1>4, <2>1 DEF AuditFails, Advances, Replies
  <2>3. QED
    BY <1>1, <2>1, <2>2, AuditEntryType, QuietStep
<1>5. CASE Reread(q)
  <2>1. UNCHANGED <<kind, row>> /\ audits' \subseteq AuditEntries
    BY <1>1, <1>5 DEF Reread, tables
  <2>2. Advances(q)
    BY <1>5 DEF Reread, Advances, Replies
  <2>3. QED
    BY <2>1, <2>2, QuietStep
<1>6. QED
  BY <1>3, <1>4, <1>5 DEF Finish

LEMMA DatabaseErrorStep ==
  ASSUME IInv, NEW q \in Requests, DatabaseError(q)
  PROVE  IInv'
<1>1. UNCHANGED <<kind, row>> /\ audits' \subseteq AuditEntries
  BY DEF DatabaseError, tables, IInv, TableTypes
<1>2. Advances(q)
  BY DEF DatabaseError, StatementFails, Advances, Replies
<1>3. QED
  BY <1>1, <1>2, QuietStep

LEMMA CrashStep ==
  ASSUME IInv, Crash
  PROVE  IInv'
<1>1. kind' = kind /\ TableTypes'
  BY TypesKept DEF Crash, tables, IInv, TableTypes
<1>2. \A r \in Requests : pc'[r] \in {"new", "done"} /\ ~InFlight(r)'
  BY DEF Crash, ProcessDies, InFlight, IInv, LocalTypes
<1>3. LocalTypes'
  <2>1. reply' \in [Requests -> Replies]
    BY DEF Crash, ProcessDies, IInv, LocalTypes, Replies
  <2>2. current' \in [Requests -> Rows' \cup {NoItem}]
    BY DEF Crash, ProcessDies
  <2>3. pc' \in [Requests -> {"new", "write", "audit", "reread", "done"}]
    BY <1>2 DEF Crash, ProcessDies
  <2>4. DOMAIN call' = Requests /\ \A r \in Requests : call'[r] = NoCall
    BY DEF Crash, ProcessDies
  <2>5. QED
    BY <1>2, <2>1, <2>2, <2>3, <2>4 DEF LocalTypes
<1>4. HandlersChecked'
  BY <1>2 DEF HandlersChecked
<1>5. QED
  BY <1>1, <1>3, <1>4 DEF IInv

-----------------------------------------------------------------------------
(* The steps that write. *)

LEMMA CommittedAdvances ==
  ASSUME NEW q \in Requests, pc[q] = "write", NEW acked \in BOOLEAN, Committed(q, "audit", acked)
  PROVE  Advances(q)
  BY DEF Committed, Advances, InFlight, Replies

(* The row an insert writes, and where.                                    *)
LEMMA InsertEffect ==
  ASSUME IInv, NEW q \in Requests, NEW acked \in BOOLEAN, InsertRow(q, acked)
  PROVE  /\ call[q].id \in Records
         /\ row[call[q].id] = NoRow
         /\ Item(q) \in StoredRows /\ Item(q).state = "live"
         /\ Item(q).status = RecordInitialStatus[kind]
         /\ Item(q).fields \in Fields /\ Item(q).version = 1
         /\ row' = [row EXCEPT ![call[q].id] = Item(q)]
         /\ kind' = kind /\ audits' = audits /\ Advances(q)
<1>1. InFlight(q) /\ call[q].op = "create"
  BY DEF InsertRow, InFlight
<1>2. call[q].id \in Records
  BY <1>1, Locals
<1>3. row[call[q].id] = NoRow
  <2>1. row[call[q].id] \in Rows /\ row[call[q].id].state = "absent"
    BY <1>2 DEF InsertRow, IInv, TableTypes
  <2>2. QED
    BY <2>1 DEF Rows, StoredRows
<1>4. Item(q) \in StoredRows /\ Item(q).fields \in Fields
  BY <1>1, ItemType DEF StoredRows
<1>5. QED
  BY <1>1, <1>2, <1>3, <1>4, ItemType, CommittedAdvances DEF InsertRow

(* The row a conditional update writes, over the one at the version named. *)
LEMMA UpdateEffect ==
  ASSUME IInv, NEW q \in Requests, NEW acked \in BOOLEAN, UpdateRow(q, acked)
  PROVE  LET d == call[q].id
             new == Stored(row[d], Item(q))
         IN
         /\ d \in Records
         /\ row[d] \in StoredRows /\ row[d].state = "live"
         /\ row[d].version = call[q].expected
         /\ new \in StoredRows /\ new.state = "live"
         /\ new.version = row[d].version + 1
         /\ new.status = IF call[q].op = "transition" THEN call[q].target ELSE current[q].status
         /\ new.fields = IF call[q].op = "transition" THEN current[q].fields ELSE call[q].fields
         /\ row' = [row EXCEPT ![d] = new]
         /\ kind' = kind /\ audits' = audits /\ Advances(q)
<1> DEFINE d == call[q].id
           new == Stored(row[d], Item(q))
<1>1. InFlight(q) /\ call[q].op \in {"update", "transition"}
  BY DEF UpdateRow, InFlight
<1>2. d \in Records
  BY <1>1, Locals
<1>3. row[d].state = "live" /\ row[d].version = call[q].expected
  BY DEF UpdateRow, Matches, Live
<1>4. row[d] \in StoredRows
  BY <1>2, <1>3, StoredRow DEF IInv, TableTypes
<1>5. Item(q) \in StoredRows /\ Item(q).version = call[q].expected + 1
  BY <1>1, ItemType
<1>6. new \in StoredRows /\ new.state = "live" /\ new.version = row[d].version + 1
  BY <1>3, <1>4, <1>5 DEF Stored, StoredRows
<1>7. /\ new.status = IF call[q].op = "transition" THEN call[q].target ELSE current[q].status
      /\ new.fields = IF call[q].op = "transition" THEN current[q].fields ELSE call[q].fields
  <2>1. new.status = Item(q).status /\ new.fields = Item(q).fields
    BY <1>4 DEF Stored, StoredRows
  <2>2. QED
    BY <1>1, <2>1, ItemType
<1>8. QED
  BY <1>1, <1>2, <1>3, <1>4, <1>6, <1>7, CommittedAdvances DEF UpdateRow

LEMMA DeleteEffect ==
  ASSUME IInv, NEW q \in Requests, NEW acked \in BOOLEAN, DeleteRow(q, acked)
  PROVE  LET d == call[q].id
             new == SoftDeleted(row[d])
         IN
         /\ d \in Records
         /\ row[d] \in StoredRows /\ row[d].state = "live"
         /\ new \in StoredRows /\ new.state = "deleted"
         /\ new.version = row[d].version /\ new.status = row[d].status
         /\ new.fields = row[d].fields
         /\ row' = [row EXCEPT ![d] = new]
         /\ kind' = kind /\ audits' = audits /\ Advances(q)
<1>1. InFlight(q)
  BY DEF DeleteRow, InFlight
<1>2. call[q].id \in Records /\ row[call[q].id].state = "live"
  BY <1>1, Locals DEF DeleteRow, Live
<1>3. row[call[q].id] \in StoredRows
  BY <1>2, StoredRow DEF IInv, TableTypes
<1>4. QED
  BY <1>1, <1>2, <1>3, CommittedAdvances DEF DeleteRow, SoftDeleted, StoredRows, RowStates

(* One row written, at a later version if it stays in use.                 *)
LEMMA WriteRises ==
  ASSUME IInv, NEW d \in Records, NEW new \in StoredRows,
         row' = [row EXCEPT ![d] = new],
         row[d].state # "absent" =>
           /\ row[d].version <= new.version
           /\ Live(new) => new.version # row[d].version
  PROVE  RowsRise
<1>1. row'[d] = new /\ new.state # "absent"
  BY DEF IInv, TableTypes, StoredRows
<1>2. ASSUME NEW e \in Records, e # d
      PROVE  row'[e] = row[e] /\ row[e].version <= row[e].version
  BY <1>2, RowVersion DEF IInv, TableTypes
<1>3. QED
  BY <1>1, <1>2 DEF RowsRise

LEMMA WriteStep ==
  ASSUME IInv, NEW q \in Requests, Advances(q),
         NEW d \in Records, NEW new \in StoredRows,
         row' = [row EXCEPT ![d] = new],
         kind' = kind, audits' = audits,
         row[d].state # "absent" =>
           /\ row[d].version <= new.version
           /\ Live(new) => new.version # row[d].version
  PROVE  IInv'
<1>1. row' \in [Records -> Rows]
  BY DEF IInv, TableTypes, Rows
<1>2. RowsRise
  BY WriteRises
<1>3. TableTypes'
  BY <1>1, TypesKept DEF IInv, TableTypes
<1>4. QED
  BY <1>1, <1>2, <1>3, LocalStep DEF IInv

LEMMA WritesStep ==
  ASSUME IInv, NEW q \in Requests, Write(q)
  PROVE  IInv' /\ RowsRise
<1>1. ASSUME NEW acked \in BOOLEAN, InsertRow(q, acked)
      PROVE  IInv' /\ RowsRise
  BY <1>1, InsertEffect, WriteStep, WriteRises, NoRowType
<1>2. ASSUME NEW acked \in BOOLEAN, UpdateRow(q, acked)
      PROVE  IInv' /\ RowsRise
  <2> DEFINE d == call[q].id
             new == Stored(row[d], Item(q))
  <2>1. /\ d \in Records /\ new \in StoredRows /\ Advances(q)
        /\ row[d].version \in Nat /\ new.version = row[d].version + 1
        /\ row' = [row EXCEPT ![d] = new] /\ kind' = kind /\ audits' = audits
    BY <1>2, UpdateEffect DEF StoredRows
  <2> HIDE DEF d, new
  <2>2. row[d].version <= new.version /\ new.version # row[d].version
    BY <2>1
  <2>3. QED
    BY <2>1, <2>2, WriteStep, WriteRises
<1>3. ASSUME NEW acked \in BOOLEAN, DeleteRow(q, acked)
      PROVE  IInv' /\ RowsRise
  <2> DEFINE d == call[q].id
             new == SoftDeleted(row[d])
  <2>1. /\ d \in Records /\ new \in StoredRows /\ Advances(q)
        /\ row[d].version \in Nat /\ new.version = row[d].version /\ ~Live(new)
        /\ row' = [row EXCEPT ![d] = new] /\ kind' = kind /\ audits' = audits
    BY <1>3, DeleteEffect DEF StoredRows, Live
  <2> HIDE DEF d, new
  <2>2. row[d].version <= new.version
    BY <2>1
  <2>3. QED
    BY <2>1, <2>2, WriteStep, WriteRises
<1>4. CASE WriteRefused(q)
  <2>1. RowsRise
    BY <1>4, NothingRises DEF WriteRefused, tables
  <2>2. QED
    BY <1>4, <2>1, WriteRefusedStep
<1>5. QED
  BY <1>1, <1>2, <1>3, <1>4 DEF Write

LEMMA NextIInv == IInv /\ [Next]_vars => IInv'
<1> SUFFICES ASSUME IInv, [Next]_vars PROVE IInv'
  OBVIOUS
<1>1. CASE UNCHANGED vars
  BY <1>1, TypesKept DEF vars, IInv, TableTypes, LocalTypes, HandlersChecked, InFlight
<1>2. ASSUME NEW q \in Requests, Arrive(q) \/ Write(q) \/ Finish(q) \/ DatabaseError(q)
      PROVE  IInv'
  BY <1>2, ArriveStep, WritesStep, FinishStep, DatabaseErrorStep
<1>3. QED
  BY <1>1, <1>2, CrashStep DEF Next

LEMMA Inductive == Spec => []IInv
<1>1. QED
  BY InitIInv, NextIInv, PTL DEF Spec

(* TypeOK holds in every reachable state: whatever clients send and        *)
(* however handlers interleave, no field the service validates is blank in *)
(* a stored row, and its status is one of its own aggregate's.             *)
THEOREM TypeCorrect == Spec => []TypeOK
<1>1. IInv => TypeOK
  BY DEF IInv, TypeOK
<1>2. QED
  BY <1>1, Inductive, PTL

(* What a handler checked stays true until its answer, and a version of a  *)
(* record stands for one content (HandlersChecked).                        *)
THEOREM ChecksPersist == Spec => []HandlersChecked
<1>1. IInv => HandlersChecked
  BY DEF IInv
<1>2. QED
  BY <1>1, Inductive, PTL

(* Whatever versions clients send, a row never leaves the table, its       *)
(* version never falls, and while it lives its content only changes        *)
(* together with its version: a version a client was shown stands for what *)
(* it was shown (RowsRise).                                                *)
THEOREM RecordsOnlyRise == Spec => [][RowsRise]_vars
<1>1. ASSUME IInv, Next
      PROVE  RowsRise
  <2>1. ASSUME NEW q \in Requests, Arrive(q) \/ Finish(q) \/ DatabaseError(q)
        PROVE  row' = row
    BY <2>1 DEF Arrive, Create, Update, Transition, Delete, Handle, Finish, AppendAudit,
                AuditFails, Reread, DatabaseError, tables
  <2>2. CASE Crash
    BY <1>1, <2>2, NothingRises DEF Crash, tables
  <2>3. QED
    BY <1>1, <2>1, <2>2, NothingRises, WritesStep DEF Next
<1>2. IInv /\ [Next]_vars => [RowsRise]_vars
  BY <1>1
<1>3. QED
  BY <1>2, Inductive, PTL DEF Spec
=============================================================================
