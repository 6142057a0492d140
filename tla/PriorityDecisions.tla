-------------------------- MODULE PriorityDecisions -------------------------
(***************************************************************************)
(* Priority decisions: the four mutating routes, from the route guard to   *)
(* the answer, over the tables they share                                  *)
(* (handler, service and repository priority_decision.go, security.go).    *)
(*                                                                         *)
(* A handler reads the row (service Get), checks it, writes in one         *)
(* transaction, appends the audit entry in another statement and reads the *)
(* row again for the answer.                                               *)
(***************************************************************************)
EXTENDS StatusGraphs, Handlers

CONSTANTS
  Decisions,         \* decision codes; a code stands for the row's id
  Inputs,            \* the business fields a request may carry
  BlankIn,           \* [Inputs -> SUBSET RequiredFields]: those only of blanks
  Blank,             \* the fields of a row that does not exist
  SeedRequest,       \* the request id of seeded revisions
  SeedPreparer,      \* "operator" and "reviewer" of database.go
  SeedReviewer,
  Targets,           \* the statuses a transition request may name
  ExpectedVersions,  \* the versions a client may send
  EchoClients        \* clients only send a version some read has shown them

ASSUME RolesAssumption ==
  /\ {SeedPreparer, SeedReviewer} \subseteq Users
  /\ SeedPreparer # SeedReviewer
  /\ Role[SeedReviewer] \in {"reviewer", "admin"}

(* The fields the binding requires (dto/priority_decision.go), but for the *)
(* code, which is the row's identity.  Blanks satisfy it and are trimmed.  *)
RequiredFields == {"name", "facility", "owner", "category", "evidence", "relatedCode"}

(* The fields the service wants more of than blanks: not the category.     *)
ValidatedFields == {"name", "facility", "owner", "evidence", "relatedCode"}

ASSUME InputsAssumption ==
  /\ BlankIn \in [Inputs -> SUBSET RequiredFields]
  /\ Blank \notin Inputs
  /\ SeedRequest \notin Requests
  /\ ExpectedVersions \subseteq Nat \ {0}      \* binding:"required" on a uint
  /\ EchoClients \in BOOLEAN

VARIABLES
  row,        \* table priority_decisions: [Decisions -> row]
  revisions,  \* table priority_decision_revisions, by its unique index:
              \* [Decisions -> function from versions to revisions]
  audits      \* table audit_logs, the entries of this entity type

tables == <<row, revisions, audits>>
vars == <<row, revisions, audits, pc, call, current, reply>>

-----------------------------------------------------------------------------
(* Rows, revisions and requests. *)

(* The fields validatePriorityDecisionBusinessFields lets through.         *)
Evidence == {e \in Inputs : BlankIn[e] \cap ValidatedFields = {}}

Statuses == DOMAIN PriorityDecisionTransitions
Initial == PriorityDecisionInitialStatus

NoRow == [state |-> "absent", status |-> "none", version |-> 0,
          evidence |-> Blank, preparedBy |-> Blank]

NewRow(status, version, evidence, preparedBy) ==
  [state |-> "live", status |-> status, version |-> version,
   evidence |-> evidence, preparedBy |-> preparedBy]

newPriorityRevision(item, actor, request) ==
  [status |-> item.status, evidence |-> item.evidence,
   actor |-> actor, request |-> request]

CreateCalls == [op : {"create"}, user : Users, id : Decisions,
                evidence : Inputs]
UpdateCalls == [op : {"update"}, user : Users, id : Decisions,
                expected : ExpectedVersions, evidence : Inputs]
TransitionCalls == [op : {"transition"}, user : Users, id : Decisions,
                    expected : ExpectedVersions, target : Targets]
DeleteCalls == [op : {"delete"}, user : Users, id : Decisions]

Calls == CreateCalls \cup UpdateCalls \cup TransitionCalls \cup DeleteCalls

-----------------------------------------------------------------------------
(* The checks made before the write, in the order of the early returns;    *)
(* "pass" lets the handler go on, anything else is the answer.             *)

(* Mutation: validatePriorityDecisionBusinessFields is not called. *)
CreateVerdictUnvalidated(c) == IF ~MayWrite(c.user) THEN "forbidden" ELSE "pass"

CreateVerdict(c) ==
  IF ~MayWrite(c.user) THEN "forbidden"
  ELSE IF c.evidence \notin Evidence THEN "rule"
  ELSE "pass"

OwnsDraft(c, item) == c.user = item.preparedBy \/ Role[c.user] = "admin"

(* Mutation: the status is not looked at before an update. *)
UpdateVerdictUnlocked(c, item) ==
  IF ~MayWrite(c.user) THEN "forbidden"
  ELSE IF ~Live(item) THEN "not_found"
  ELSE IF ~OwnsDraft(c, item) THEN "forbidden"
  ELSE IF c.evidence \notin Evidence THEN "rule"
  ELSE "pass"

UpdateVerdict(c, item) ==
  IF ~MayWrite(c.user) THEN "forbidden"
  ELSE IF ~Live(item) THEN "not_found"
  ELSE IF item.status # Initial THEN "rule"
  ELSE IF ~OwnsDraft(c, item) THEN "forbidden"
  ELSE IF c.evidence \notin Evidence THEN "rule"
  ELSE "pass"

(* Mutation: the separation of duty exempts administrators. *)
IndependentUnlessAdmin(c, item) == c.user # item.preparedBy \/ Role[c.user] = "admin"

Independent(c, item) == c.user # item.preparedBy

TransitionVerdict(c, item) ==
  IF ~MayWrite(c.user) THEN "forbidden"
  ELSE IF ~Live(item) THEN "not_found"
  ELSE IF Role[c.user] \notin {"reviewer", "admin"} THEN "forbidden"
  ELSE IF ~Independent(c, item) THEN "rule"
  ELSE IF ~CanTransition(PriorityDecisionTransitions, item.status, c.target) THEN "rule"
  ELSE "pass"

DeleteVerdict(c, item) ==
  IF ~MayDelete(c.user) THEN "forbidden"
  ELSE IF ~Live(item) THEN "not_found"
  ELSE IF item.status # Initial THEN "rule"
  ELSE "pass"

-----------------------------------------------------------------------------
(* The handlers. *)

Handle(r, c, item, verdict) == Check(r, c, item, verdict) /\ UNCHANGED tables

(* A client that echoes has its version from an earlier answer or list.    *)
MaySend(c) == (EchoClients /\ Live(row[c.id])) => c.expected <= row[c.id].version

Create(r) == \E c \in CreateCalls : Handle(r, c, NoItem, CreateVerdict(c))

Update(r) ==
  \E c \in UpdateCalls :
    MaySend(c) /\ Handle(r, c, row[c.id], UpdateVerdict(c, row[c.id]))

Transition(r) ==
  \E c \in TransitionCalls :
    MaySend(c) /\ Handle(r, c, row[c.id], TransitionVerdict(c, row[c.id]))

Delete(r) ==
  \E c \in DeleteCalls : Handle(r, c, row[c.id], DeleteVerdict(c, row[c.id]))

(* The item a handler is about to store: for an update and a transition    *)
(* the row it read with the request's fields over it, whatever the row is  *)
(* by now, at the version after the one the client sent.                   *)
Item(r) ==
  CASE call[r].op = "create" ->
         NewRow(Initial, 1, call[r].evidence, call[r].user)
    [] call[r].op = "update" ->
         [current[r] EXCEPT !.evidence = call[r].evidence,
                            !.version = call[r].expected + 1]
    [] call[r].op = "transition" ->
         [current[r] EXCEPT !.status = call[r].target,
                            !.version = call[r].expected + 1]

(* Every column but the omitted ones: id, code, deleted_at, prepared_by.   *)
Stored(old, item) ==
  [old EXCEPT !.status = item.status, !.version = item.version,
              !.evidence = item.evidence]

(* Mutation: the next revision replaces the last one instead of joining it. *)
InsertOverLast(table, version, revision) ==
  [v \in DOMAIN table \cup {version} |->
     IF v \in {version, version - 1} THEN revision ELSE table[v]]

Insert(table, version, revision) ==
  [v \in DOMAIN table \cup {version} |->
     IF v = version THEN revision ELSE table[v]]

(* Mutation: an update is not recorded as a revision. *)
AddTransitionsOnly(r) ==
  revisions' = IF call[r].op = "update" THEN revisions
               ELSE [revisions EXCEPT ![call[r].id] =
                      Insert(@, Item(r).version, newPriorityRevision(Item(r), call[r].user, r))]

AddRevision(r) ==
  revisions' = [revisions EXCEPT ![call[r].id] =
    Insert(@, Item(r).version, newPriorityRevision(Item(r), call[r].user, r))]

CreateWithRevision(r, acked) ==
  /\ pc[r] = "write"
  /\ call[r].op = "create"
  /\ row[call[r].id].state = "absent"
  /\ row' = [row EXCEPT ![call[r].id] = Item(r)]
  /\ AddRevision(r)
  /\ Committed(r, "audit", acked)
  /\ UNCHANGED audits

(* What the conditional update and the unique index make of the write.     *)
UpdateAccepted(r) ==
  /\ Matches(row[call[r].id], call[r].expected)
  /\ Item(r).version \notin DOMAIN revisions[call[r].id]

UpdateWithRevision(r, acked) ==
  /\ pc[r] = "write"
  /\ call[r].op \in {"update", "transition"}
  /\ UpdateAccepted(r)
  /\ row' = [row EXCEPT ![call[r].id] = Stored(@, Item(r))]
  /\ AddRevision(r)
  /\ Committed(r, "audit", acked)
  /\ UNCHANGED audits

(* Neither the version nor the status is part of this statement.           *)
SoftDelete(r, acked) ==
  /\ pc[r] = "write"
  /\ call[r].op = "delete"
  /\ Live(row[call[r].id])
  /\ row' = [row EXCEPT ![call[r].id] = SoftDeleted(@)]
  /\ Committed(r, "audit", acked)
  /\ UNCHANGED <<revisions, audits>>

(* Mutation: the revision is inserted first and a conflict leaves it there. *)
WriteRefusedNotRolledBack(r) ==
  /\ pc[r] = "write"
  /\ call[r].op \in {"update", "transition"}
  /\ ~UpdateAccepted(r)
  /\ AddRevision(r)
  /\ Answer(r, "conflict")
  /\ UNCHANGED <<row, audits>>

(* The statement matched no row, or hit a unique index: rolled back.       *)
WriteRefused(r) ==
  /\ pc[r] = "write"
  /\ \/ /\ call[r].op = "create"
        /\ row[call[r].id].state # "absent"
        /\ Answer(r, "error")
     \/ /\ call[r].op \in {"update", "transition"}
        /\ ~UpdateAccepted(r)
        /\ Answer(r, IF Matches(row[call[r].id], call[r].expected)
                       THEN "error" ELSE "conflict")
     \/ /\ call[r].op = "delete"
        /\ ~Live(row[call[r].id])
        /\ Answer(r, "not_found")
  /\ UNCHANGED tables

AuditEntry(r) ==
  LET c == call[r] IN
  [request |-> r, actor |-> c.user, action |-> c.op, id |-> c.id,
   before |-> IF c.op = "create" THEN "" ELSE current[r].status,
   after |-> IF c.op = "delete" THEN "deleted" ELSE Item(r).status]

(* Mutation: only a change of status is worth an entry. *)
AuditStatusChanges(r) ==
  /\ pc[r] = "audit"
  /\ audits' = IF AuditEntry(r).before = AuditEntry(r).after THEN audits
               ELSE audits \cup {AuditEntry(r)}
  /\ \/ call[r].op = "delete" /\ Answer(r, "ok")
     \/ call[r].op # "delete" /\ Goto(r, "reread")
  /\ UNCHANGED <<row, revisions>>

AppendAudit(r) ==
  /\ pc[r] = "audit"
  /\ audits' = audits \cup {AuditEntry(r)}
  /\ \/ call[r].op = "delete" /\ Answer(r, "ok")
     \/ call[r].op # "delete" /\ Goto(r, "reread")
  /\ UNCHANGED <<row, revisions>>

(* The insert fails, or it succeeds and its acknowledgement is lost.       *)
(* Create and Update drop the error of Audit, the others return it.        *)
AuditFails(r) ==
  /\ Faults
  /\ pc[r] = "audit"
  /\ \/ call[r].op \in {"create", "update"} /\ Goto(r, "reread")
     \/ call[r].op \in {"transition", "delete"} /\ Answer(r, "error")
  /\ audits' \in {audits, audits \cup {AuditEntry(r)}}
  /\ UNCHANGED <<row, revisions>>

(* Mutation: the answer waits for the row instead of reporting its absence. *)
RereadUntilFound(r) ==
  /\ pc[r] = "reread"
  /\ Live(row[call[r].id])
  /\ Answer(r, "ok")
  /\ UNCHANGED tables

(* The final Get: it may show a later version, or find the row deleted.    *)
Reread(r) ==
  /\ pc[r] = "reread"
  /\ Answer(r, IF Live(row[call[r].id]) THEN "ok" ELSE "not_found")
  /\ UNCHANGED tables

DatabaseError(r) == StatementFails(r) /\ UNCHANGED tables

Crash == ProcessDies /\ UNCHANGED tables

-----------------------------------------------------------------------------

SeedRevision(status, evidence, actor) ==
  [status |-> status, evidence |-> evidence, actor |-> actor, request |-> SeedRequest]

(* The rows of seedPriorityDecision, or of requests answered before, each  *)
(* with its revisions: drafts and decisions already reviewed.  A code not  *)
(* used yet has none.                                                      *)
Unseeded == [row |-> NoRow, revisions |-> [v \in {} |-> NoRow]]

SeedDraft(e) ==
  [row |-> NewRow(Initial, 1, e, SeedPreparer),
   revisions |-> [v \in {1} |-> SeedRevision(Initial, e, SeedPreparer)]]

SeedReviewed(e, level) ==
  [row |-> NewRow(level, 2, e, SeedPreparer),
   revisions |-> [v \in {1, 2} |->
      IF v = 1 THEN SeedRevision(Initial, e, SeedPreparer)
      ELSE SeedRevision(level, e, SeedReviewer)]]

Seeds ==
  {Unseeded}
    \cup {SeedDraft(e) : e \in Evidence}
    \cup {SeedReviewed(e, level) : e \in Evidence, level \in {"observe", "restrict"}}

Init ==
  /\ \E seed \in [Decisions -> Seeds] :
       /\ row = [d \in Decisions |-> seed[d].row]
       /\ revisions = [d \in Decisions |-> seed[d].revisions]
  /\ audits = {}
  /\ NoneArrived

Arrive(r) == Create(r) \/ Update(r) \/ Transition(r) \/ Delete(r)

Write(r) ==
  \/ \E acked \in BOOLEAN :
       \/ CreateWithRevision(r, acked)
       \/ UpdateWithRevision(r, acked)
       \/ SoftDelete(r, acked)
  \/ WriteRefused(r)

Finish(r) == AppendAudit(r) \/ AuditFails(r) \/ Reread(r)

Next ==
  \/ \E r \in Requests : Arrive(r) \/ Write(r) \/ Finish(r) \/ DatabaseError(r)
  \/ Crash

Spec == Init /\ [][Next]_vars

(* A started handler is scheduled and its statements return, with a result *)
(* or an error.  Nothing obliges a client to send a request.               *)
Progress(r) == Write(r) \/ Finish(r)

FairSpec == Spec /\ \A r \in Requests : WF_vars(Progress(r))

-----------------------------------------------------------------------------
(* Types. *)

StoredRows == [state : RowStates \ {"absent"}, status : Statuses, version : Nat \ {0},
               evidence : Evidence, preparedBy : Users]

Rows == {NoRow} \cup StoredRows

Revisions == [status : Statuses, evidence : Evidence, actor : Users,
              request : Requests \cup {SeedRequest}]

AuditEntries == [request : Requests, actor : Users,
                 action : {"create", "update", "transition", "delete"},
                 id : Decisions, before : Statuses \cup {""},
                 after : Statuses \cup {"deleted"}]

TableTypes ==
  /\ row \in [Decisions -> Rows]
  /\ DOMAIN revisions = Decisions
  /\ \A d \in Decisions : revisions[d] \in [DOMAIN revisions[d] -> Revisions]
  /\ audits \subseteq AuditEntries

LocalTypes ==
  /\ pc \in [Requests -> {"new", "write", "audit", "reread", "done"}]
  /\ DOMAIN call = Requests
  /\ \A r \in Requests : call[r] \in IF InFlight(r) THEN Calls ELSE {NoCall}
  /\ current \in [Requests -> Rows \cup {NoItem}]
  /\ reply \in [Requests -> Replies]

(* Every variable has its type: in a stored row and in a revision no field *)
(* the service validates is blank (the category may be), and a handler     *)
(* holds a call exactly between its checks and its answer.                 *)
TypeOK == TableTypes /\ LocalTypes

-----------------------------------------------------------------------------
(* Safety, whatever versions clients send. *)

(* What a handler established by its checks still holds at every later     *)
(* step of it, although other handlers write in between: the row exists    *)
(* and has the preparer it was checked against.  It says nothing of the    *)
(* row's status or version, which other handlers do change.                *)
HandlersChecked ==
  \A r \in Requests : InFlight(r) =>
    /\ call[r].op \in {"create", "update"} => call[r].evidence \in Evidence
    /\ call[r].op # "create" =>
         /\ Live(current[r])
         /\ current[r].status = Initial
         /\ row[call[r].id].state # "absent"
         /\ row[call[r].id].preparedBy = current[r].preparedBy
    /\ call[r].op = "update" => OwnsDraft(call[r], current[r])
    /\ call[r].op = "transition" =>
         /\ call[r].target \in AllPriorityLevel
         /\ Independent(call[r], current[r])
         /\ Role[call[r].user] \in {"reviewer", "admin"}

LastRevision(d) == revisions[d][row[d].version]

(* "An accepted version can always be traced back to its evidence, actor   *)
(* and request" (model/priority_decision.go): the revisions of a decision  *)
(* are numbered 1 to its version without a gap, the last one says what the *)
(* row says, and the first is the draft its preparer wrote.                *)
LedgerMatchesRow ==
  \A d \in Decisions :
    /\ DOMAIN revisions[d] = 1 .. row[d].version
    /\ row[d].state # "absent" =>
         /\ LastRevision(d).status = row[d].status
         /\ LastRevision(d).evidence = row[d].evidence
         /\ revisions[d][1].status = Initial
         /\ revisions[d][1].actor = row[d].preparedBy

(* The separation of duty, as the ledger shows it: a revision that gives a *)
(* decision its level was made by a reviewer or an administrator who did   *)
(* not prepare it, even when the draft changed hands between the handler's *)
(* read and its write.                                                     *)
IndependentReview ==
  \A d \in Decisions : \A v \in DOMAIN revisions[d] :
    revisions[d][v].status \in AllPriorityLevel =>
      /\ revisions[d][v].actor # row[d].preparedBy
      /\ Role[revisions[d][v].actor] \in {"reviewer", "admin"}

(* "PriorityDecisionRevision is append-only": a committed revision is      *)
(* never changed or removed, by a conflict, a deletion or a crash.         *)
RevisionsAppendOnly ==
  [][\A d \in Decisions : \A v \in DOMAIN revisions[d] :
       v \in DOMAIN revisions'[d] /\ revisions'[d][v] = revisions[d][v]]_vars

WroteRevision(r) ==
  \E d \in Decisions : \E v \in DOMAIN revisions[d] : revisions[d][v].request = r

WroteReview(r) ==
  \E d \in Decisions : \E v \in DOMAIN revisions[d] :
    revisions[d][v].request = r /\ revisions[d][v].status \in AllPriorityLevel

Audited(r) == \E a \in audits : a.request = r

(* What a client may conclude from the answer: a refusal means that the    *)
(* request left no trace, a success that its effect is committed and, for  *)
(* a review or a deletion, in the audit log.  An error or a broken         *)
(* connection says nothing either way.                                     *)
AnswersAreHonest ==
  \A r \in Requests :
    /\ reply[r] \in {"conflict", "forbidden", "rule"} => ~WroteRevision(r) /\ ~Audited(r)
    /\ reply[r] = "ok" =>
         /\ ~WroteRevision(r) => \E a \in audits : a.request = r /\ a.action = "delete"
         /\ WroteReview(r) => Audited(r)

(* No entry of the trail is invented: a create, update or transition entry *)
(* names a revision its request committed, in the status it says, and a    *)
(* decision has one delete entry at most, made after the row was deleted,  *)
(* though any number of deletes may race.                                  *)
AuditsAreTrue ==
  \A a \in audits :
    /\ a.action # "delete" =>
         \E v \in DOMAIN revisions[a.id] :
           /\ revisions[a.id][v].request = a.request
           /\ revisions[a.id][v].actor = a.actor
           /\ revisions[a.id][v].status = a.after
    /\ a.action = "delete" =>
         /\ row[a.id].state = "deleted"
         /\ \A b \in audits : b.action = "delete" /\ b.id = a.id => b = a

-----------------------------------------------------------------------------
(* Safety when clients echo versions they were shown. *)

(* The check-then-write hazard: when the conditional update is about to    *)
(* succeed, the row is still exactly the one the handler checked, though   *)
(* no code compares the version it read with the version the client sent.  *)
CommitsWhatWasChecked ==
  \A r \in Requests :
    pc[r] = "write" /\ call[r].op \in {"update", "transition"} /\ UpdateAccepted(r) =>
      row[call[r].id] = current[r]

(* A final decision is closed: once its row shows a level, its status,     *)
(* evidence and version never change again.                                *)
FinalContentFrozen ==
  [][\A d \in Decisions :
       row[d].status \in AllPriorityLevel =>
         /\ row'[d].status = row[d].status
         /\ row'[d].evidence = row[d].evidence
         /\ row'[d].version = row[d].version]_vars

(* The reviewer closes what the preparer wrote: a level is only given by   *)
(* the last revision, on the evidence of the one before it.                *)
ReviewedEvidence ==
  \A d \in Decisions : \A v \in DOMAIN revisions[d] :
    revisions[d][v].status \in AllPriorityLevel =>
      /\ v = row[d].version
      /\ v > 1
      /\ revisions[d][v].evidence = revisions[d][v - 1].evidence

(* The decisions as a ledger: every step of every handler is one entry, a  *)
(* withdrawal, or nothing.                                                 *)
Chain == [d \in Decisions |-> [v \in DOMAIN revisions[d] |->
            [status |-> revisions[d][v].status,
             evidence |-> revisions[d][v].evidence,
             actor |-> revisions[d][v].actor]]]

Withdrawn == {d \in Decisions : row[d].state = "deleted"}

Ledger == INSTANCE DecisionLedger WITH chain <- Chain, withdrawn <- Withdrawn

LedgerSpec == Ledger!LedgerSpec

-----------------------------------------------------------------------------
(* Liveness. *)

(* Every handler that starts answers, in every interleaving.               *)
EveryRequestAnswered ==
  \A r \in Requests : InFlight(r) ~> pc[r] = "done"

(* Without failures, every committed revision gets its audit entry.        *)
CommittedIsAudited ==
  \A r \in Requests : WroteRevision(r) ~> Audited(r)

-----------------------------------------------------------------------------
(* What the documents say and the code does not do. *)

(* errors.go: "final priority decisions are immutable" is also the answer  *)
(* to deleting one.  A decision that shows a level is not taken away.      *)
FinalNeverWithdrawn ==
  [][\A d \in Decisions :
       row[d].status \in AllPriorityLevel => row'[d].state = row[d].state]_vars

(* README: every status change is written to the audit log.  Once the      *)
(* request that gave a decision its level is over, its entry is there.     *)
ReviewsAreAudited ==
  \A r \in Requests : pc[r] = "done" /\ WroteReview(r) => Audited(r)
=============================================================================
