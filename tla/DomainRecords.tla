--------------------------- MODULE DomainRecords ----------------------------
(***************************************************************************)
(* Bridge assets, inspection rounds and defect findings: the four mutating *)
(* routes of an aggregate without revisions (handler, service and          *)
(* repository of bridge_asset.go, inspection_round.go, defect_finding.go). *)
(* The three services are the same code over three tables and three status *)
(* graphs; requests for different aggregates share no row, so the module   *)
(* is about one of them, whichever it is.                                  *)
(*                                                                         *)
(* Unlike a priority decision, a record has no owner and no final status:  *)
(* any operator may edit and move it, and its status is not looked at by   *)
(* an update or a deletion.                                                *)
(***************************************************************************)
EXTENDS FiniteSets, StatusGraphs, Handlers

CONSTANTS
  Records,           \* codes; a code stands for the row's id
  Inputs,            \* the business fields a request may carry
  BlankIn,           \* [Inputs -> SUBSET RequiredFields]: those only of blanks
  Blank,             \* the fields of a row that does not exist
  ExpectedVersions,  \* the versions a client may send
  EchoClients        \* clients only send a version some read has shown them

(* The text fields the binding requires (dto/bridge_asset.go), but for the *)
(* code, which is the row's identity.  Blanks satisfy it and are trimmed.  *)
RequiredFields == {"name", "facility", "owner", "category"}

(* The fields the service wants more of than blanks: not the category.     *)
ValidatedFields == {"name", "facility", "owner"}

ASSUME RecordsAssumption ==
  /\ BlankIn \in [Inputs -> SUBSET RequiredFields]
  /\ Blank \notin Inputs
  /\ ExpectedVersions \subseteq Nat \ {0}      \* binding:"required" on a uint
  /\ EchoClients \in BOOLEAN

VARIABLES
  kind,    \* the aggregate; it never changes
  row,     \* its table: [Records -> row]
  audits   \* table audit_logs, the entries of this entity type

tables == <<kind, row, audits>>
vars == <<kind, row, audits, pc, call, current, reply>>

-----------------------------------------------------------------------------
(* Rows and requests. *)

(* The fields validateBridgeAssetBusinessFields lets through. *)
Fields == {f \in Inputs : BlankIn[f] \cap ValidatedFields = {}}

Statuses == DOMAIN RecordTransitions[kind]

NoRow == [state |-> "absent", status |-> "none", version |-> 0, fields |-> Blank]

NewRow(status, fields) ==
  [state |-> "live", status |-> status, version |-> 1, fields |-> fields]

(* A transition may name any status, one of another aggregate too. *)
Targets == UNION {DOMAIN RecordTransitions[k] : k \in Kinds}

CreateCalls == [op : {"create"}, user : Users, id : Records, fields : Inputs]
UpdateCalls == [op : {"update"}, user : Users, id : Records,
                expected : ExpectedVersions, fields : Inputs]
TransitionCalls == [op : {"transition"}, user : Users, id : Records,
                    expected : ExpectedVersions, target : Targets]
DeleteCalls == [op : {"delete"}, user : Users, id : Records]

Calls == CreateCalls \cup UpdateCalls \cup TransitionCalls \cup DeleteCalls

-----------------------------------------------------------------------------
(* The checks made before the write, in the order of the early returns. *)

CreateVerdict(c) ==
  IF ~MayWrite(c.user) THEN "forbidden"
  ELSE IF c.fields \notin Fields THEN "rule"
  ELSE "pass"

(* Mutation: validateBridgeAssetBusinessFields is not called. *)
UpdateVerdictUnvalidated(c, item) ==
  IF ~MayWrite(c.user) THEN "forbidden"
  ELSE IF ~Live(item) THEN "not_found"
  ELSE "pass"

UpdateVerdict(c, item) ==
  IF ~MayWrite(c.user) THEN "forbidden"
  ELSE IF ~Live(item) THEN "not_found"
  ELSE IF c.fields \notin Fields THEN "rule"
  ELSE "pass"

TransitionVerdict(c, item) ==
  IF ~MayWrite(c.user) THEN "forbidden"
  ELSE IF ~Live(item) THEN "not_found"
  ELSE IF ~CanTransition(RecordTransitions[kind], item.status, c.target) THEN "rule"
  ELSE "pass"

DeleteVerdict(c, item) ==
  IF ~MayDelete(c.user) THEN "forbidden"
  ELSE IF ~Live(item) THEN "not_found"
  ELSE "pass"

-----------------------------------------------------------------------------
(* The handlers. *)

Handle(r, c, item, verdict) == Check(r, c, item, verdict) /\ UNCHANGED tables

(* A client that echoes has its version from an earlier answer or list.    *)
MaySend(c) == (EchoClients /\ Live(row[c.id])) => c.expected <= row[c.id].version

Create(r) == \E c \in CreateCalls : Handle(r, c, NoItem, CreateVerdict(c))

Update(r) ==
  \E c \in UpdateCalls :
    MaySend(c) /\ Handle(r, c, row[c.id], UpdateVerdict(c, row[c.id]))

Transition(r) ==
  \E c \in TransitionCalls :
    MaySend(c) /\ Handle(r, c, row[c.id], TransitionVerdict(c, row[c.id]))

Delete(r) ==
  \E c \in DeleteCalls : Handle(r, c, row[c.id], DeleteVerdict(c, row[c.id]))

(* The item a handler is about to store: the row it read with the          *)
(* request's fields or status over it, at the version after the one the    *)
(* client sent.                                                            *)
Item(r) ==
  CASE call[r].op = "create" -> NewRow(RecordInitialStatus[kind], call[r].fields)
    [] call[r].op = "update" ->
         [current[r] EXCEPT !.fields = call[r].fields, !.version = call[r].expected + 1]
    [] call[r].op = "transition" ->
         [current[r] EXCEPT !.status = call[r].target, !.version = call[r].expected + 1]

(* Every column but the omitted ones: id, code and deleted_at.             *)
Stored(old, item) ==
  [old EXCEPT !.status = item.status, !.version = item.version, !.fields = item.fields]

InsertRow(r, acked) ==
  /\ pc[r] = "write"
  /\ call[r].op = "create"
  /\ row[call[r].id].state = "absent"
  /\ row' = [row EXCEPT ![call[r].id] = Item(r)]
  /\ Committed(r, "audit", acked)
  /\ UNCHANGED <<kind, audits>>

UpdateRow(r, acked) ==
  /\ pc[r] = "write"
  /\ call[r].op \in {"update", "transition"}
  /\ Matches(row[call[r].id], call[r].expected)
  /\ row' = [row EXCEPT ![call[r].id] = Stored(@, Item(r))]
  /\ Committed(r, "audit", acked)
  /\ UNCHANGED <<kind, audits>>

(* Neither the version nor the status is part of this statement.           *)
DeleteRow(r, acked) ==
  /\ pc[r] = "write"
  /\ call[r].op = "delete"
  /\ Live(row[call[r].id])
  /\ row' = [row EXCEPT ![call[r].id] = SoftDeleted(@)]
  /\ Committed(r, "audit", acked)
  /\ UNCHANGED <<kind, audits>>

(* The statement matched no row, or hit the unique index on code.          *)
WriteRefused(r) ==
  /\ pc[r] = "write"
  /\ \/ /\ call[r].op = "create"
        /\ row[call[r].id].state # "absent"
        /\ Answer(r, "error")
     \/ /\ call[r].op \in {"update", "transition"}
        /\ ~Matches(row[call[r].id], call[r].expected)
        /\ Answer(r, "conflict")
     \/ /\ call[r].op = "delete"
        /\ ~Live(row[call[r].id])
        /\ Answer(r, "not_found")
  /\ UNCHANGED tables

AuditEntry(r) ==
  LET c == call[r] IN
  [request |-> r, actor |-> c.user, action |-> c.op, id |-> c.id,
   before |-> IF c.op = "create" THEN "" ELSE current[r].status,
   after |-> IF c.op = "delete" THEN "deleted" ELSE Item(r).status]

(* Create answers with the item it holds, Delete with no content; the      *)
(* others read the row again.                                              *)
AfterAudit(r) ==
  \/ call[r].op \in {"create", "delete"} /\ Answer(r, "ok")
  \/ call[r].op \in {"update", "transition"} /\ Goto(r, "reread")

AppendAudit(r) ==
  /\ pc[r] = "audit"
  /\ audits' = audits \cup {AuditEntry(r)}
  /\ AfterAudit(r)
  /\ UNCHANGED <<kind, row>>

(* Mutation: a transition drops the error of Audit as the others do.       *)
AuditFailsUnseen(r) ==
  /\ Faults
  /\ pc[r] = "audit"
  /\ AfterAudit(r)
  /\ audits' \in {audits, audits \cup {AuditEntry(r)}}
  /\ UNCHANGED <<kind, row>>

(* The insert fails, or it succeeds and its acknowledgement is lost.       *)
(* Create and Update drop the error of Audit, the others return it.        *)
AuditFails(r) ==
  /\ Faults
  /\ pc[r] = "audit"
  /\ \/ call[r].op \in {"create", "update"} /\ AfterAudit(r)
     \/ call[r].op \in {"transition", "delete"} /\ Answer(r, "error")
  /\ audits' \in {audits, audits \cup {AuditEntry(r)}}
  /\ UNCHANGED <<kind, row>>

(* The final Get: it may show a later version, or find the row deleted.    *)
Reread(r) ==
  /\ pc[r] = "reread"
  /\ Answer(r, IF Live(row[call[r].id]) THEN "ok" ELSE "not_found")
  /\ UNCHANGED tables

DatabaseError(r) == StatementFails(r) /\ UNCHANGED tables

(* The tables survive the process. *)
Crash == ProcessDies /\ UNCHANGED tables

-----------------------------------------------------------------------------

(* The rows of seedBridgeAsset and its siblings, all at version 1, with    *)
(* any fields a request could have stored; a code not used yet has none.   *)
SeedStatuses ==
  [ bridge     |-> {"active", "restricted", "closed"},
    inspection |-> {"planned", "running", "review"},
    defect     |-> {"new", "verified", "monitoring"} ]

Seeds(k) == {NoRow} \cup {NewRow(s, f) : s \in SeedStatuses[k], f \in Fields}

Init ==
  /\ kind \in Kinds
  /\ row \in [Records -> Seeds(kind)]
  /\ audits = {}
  /\ NoneArrived

Arrive(r) == Create(r) \/ Update(r) \/ Transition(r) \/ Delete(r)

Write(r) ==
  \/ \E acked \in BOOLEAN : InsertRow(r, acked) \/ UpdateRow(r, acked) \/ DeleteRow(r, acked)
  \/ WriteRefused(r)

Finish(r) == AppendAudit(r) \/ AuditFails(r) \/ Reread(r)

Next ==
  \/ \E r \in Requests : Arrive(r) \/ Write(r) \/ Finish(r) \/ DatabaseError(r)
  \/ Crash

Spec == Init /\ [][Next]_vars

-----------------------------------------------------------------------------
(* Types. *)

StoredRows == [state : RowStates \ {"absent"}, status : Statuses, version : Nat \ {0},
               fields : Fields]

Rows == {NoRow} \cup StoredRows

AuditEntries == [request : Requests, actor : Users,
                 action : {"create", "update", "transition", "delete"},
                 id : Records, before : Statuses \cup {""},
                 after : Statuses \cup {"deleted"}]

TableTypes ==
  /\ kind \in Kinds
  /\ row \in [Records -> Rows]
  /\ audits \subseteq AuditEntries

LocalTypes ==
  /\ pc \in [Requests -> {"new", "write", "audit", "reread", "done"}]
  /\ DOMAIN call = Requests
  /\ \A r \in Requests : call[r] \in IF InFlight(r) THEN Calls ELSE {NoCall}
  /\ current \in [Requests -> Rows \cup {NoItem}]
  /\ reply \in [Requests -> Replies]

(* Every variable has its type: no field of a stored row that the service  *)
(* validates is blank (the category may be), its status is one of its      *)
(* aggregate's, and a handler holds a call exactly between its checks and  *)
(* its answer.                                                             *)
TypeOK == TableTypes /\ LocalTypes

-----------------------------------------------------------------------------
(* Safety, whatever versions clients send. *)

(* What a handler knows at each step after its checks, while others write: *)
(* the row it read is still in the table, perhaps deleted, at no earlier a *)
(* version, and unchanged if its version is; what it is about to write has *)
(* passed the validator and follows an edge from the status it read, which *)
(* need not be the status the row has by now.                              *)
HandlersChecked ==
  \A r \in Requests : InFlight(r) =>
    /\ call[r].op \in {"create", "update"} => call[r].fields \in Fields
    /\ call[r].op # "create" =>
         LET now == row[call[r].id] IN
         /\ Live(current[r])
         /\ now.state # "absent"
         /\ current[r].version <= now.version
         /\ Live(now) /\ now.version = current[r].version => now = current[r]
    /\ call[r].op = "transition" =>
         CanTransition(RecordTransitions[kind], current[r].status, call[r].target)

-----------------------------------------------------------------------------
(* Safety when clients echo versions they were shown. *)

(* What a handler checked on its own read still holds where it matters:    *)
(* every write takes effect as one step on the record as it then is, so an *)
(* edit never takes back a move made in between, nor a move an edit.       *)
CellOf(item) ==
  IF item.state = "absent" THEN [status |-> "none", fields |-> "none", version |-> 0]
  ELSE [status |-> item.status, fields |-> item.fields, version |-> item.version]

Cell == [d \in Records |-> CellOf(row[d])]

Removed == {d \in Records : row[d].state = "deleted"}

Atomic == INSTANCE AtomicRecords WITH cell <- Cell, removed <- Removed

RecordsSpec == Atomic!RecordsSpec

(* The entries that say a record came to a status, or left it; those of a  *)
(* deletion say neither.                                                   *)
Arrivals(d, s) == {a \in audits : a.id = d /\ a.action # "delete" /\ a.after = s}
Departures(d, s) == {a \in audits : a.id = d /\ a.action # "delete" /\ a.before = s}

At(s, status) == IF s = status THEN 1 ELSE 0

Settled == \A r \in Requests : ~InFlight(r) /\ reply[r] \notin {"error", "cut"}

(* "All status changes are written to the audit log" (README): while no    *)
(* request is under way and none was answered with an error, the entries   *)
(* of a record form a walk from the status it was seeded in, or from       *)
(* nothing, to the status its row shows, although they are written after   *)
(* the row, in any order, and those of creations and edits may be missing. *)
TrailReachesStatus ==
  Settled =>
    \A d \in Records : row[d].state # "absent" =>
      \E start \in Statuses \cup {""} :
        \A s \in Statuses \cup {""} :
          Cardinality(Arrivals(d, s)) + At(s, start) =
            Cardinality(Departures(d, s)) + At(s, row[d].status)
=============================================================================
