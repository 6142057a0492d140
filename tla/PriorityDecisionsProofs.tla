----------------------- MODULE PriorityDecisionsProofs ----------------------
(***************************************************************************)
(* Proofs about PriorityDecisions, for any decisions, users, evidence,     *)
(* requests and versions, with failures and without.                       *)
(***************************************************************************)
EXTENDS PriorityDecisions, TLAPS

(* Holds whatever versions clients send. *)
IInv == TableTypes /\ LocalTypes /\ HandlersChecked /\ LedgerMatchesRow /\ IndependentReview

-----------------------------------------------------------------------------
(* The tables of statuses and roles. *)

(* The statuses of a decision: the draft and the three levels.             *)
LEMMA StatusValues ==
  /\ Statuses = {"draft", "observe", "restrict", "urgent"}
  /\ Initial = "draft"
  /\ AllPriorityLevel = {"observe", "restrict", "urgent"}
  BY DEF Statuses, Initial, PriorityDecisionInitialStatus, AllPriorityLevel,
         PriorityDecisionTransitions

(* The graph of a decision: from the draft to a level, and nothing else.   *)
LEMMA OnlyDraftsMove ==
  ASSUME NEW from, NEW to, CanTransition(PriorityDecisionTransitions, from, to)
  PROVE  from = Initial /\ to \in AllPriorityLevel
  BY DEF CanTransition, PriorityDecisionTransitions, Initial,
         PriorityDecisionInitialStatus, AllPriorityLevel

-----------------------------------------------------------------------------
(* What the type of a row in the table amounts to. *)

LEMMA StoredRow ==
  ASSUME NEW item \in Rows \cup {NoItem}, item.state # "absent"
  PROVE  item \in StoredRows
  BY DEF Rows, NoRow, NoItem

(* A call's operation tells which inputs it carries.                       *)
LEMMA CallFields ==
  ASSUME NEW c \in Calls
  PROVE  /\ c.op \in {"create", "update", "transition", "delete"}
         /\ c.user \in Users
         /\ c.id \in Decisions
         /\ c.op \in {"create", "update"} => c.evidence \in Inputs
         /\ c.op \in {"update", "transition"} =>
              c.expected \in Nat \ {0} /\ c.expected + 1 \in Nat \ {0}
<1>1. \A v \in ExpectedVersions : v \in Nat \ {0} /\ v + 1 \in Nat \ {0}
  BY InputsAssumption
<1>2. CASE c \in CreateCalls
  BY <1>2 DEF CreateCalls
<1>3. CASE c \in UpdateCalls
  BY <1>1, <1>3 DEF UpdateCalls
<1>4. CASE c \in TransitionCalls
  BY <1>1, <1>4 DEF TransitionCalls
<1>5. CASE c \in DeleteCalls
  BY <1>5 DEF DeleteCalls
<1>6. QED
  BY <1>2, <1>3, <1>4, <1>5 DEF Calls

LEMMA NoRowType == NoRow \in Rows /\ ~Live(NoRow) /\ NoRow.version = 0
  BY DEF Rows, NoRow, Live

(* The item a handler writes is a complete row at the version it names.    *)
LEMMA ItemType ==
  ASSUME IInv, NEW r \in Requests, InFlight(r), call[r].op # "delete"
  PROVE  /\ Item(r) \in StoredRows
         /\ Item(r).state = "live"
         /\ Item(r).version = IF call[r].op = "create" THEN 1 ELSE call[r].expected + 1
         /\ Item(r).status = IF call[r].op = "transition" THEN call[r].target ELSE Initial
         /\ Item(r).evidence =
              IF call[r].op = "transition" THEN current[r].evidence ELSE call[r].evidence
         /\ Item(r).preparedBy =
              IF call[r].op = "create" THEN call[r].user ELSE current[r].preparedBy
<1>1. call[r] \in Calls /\ current[r] \in Rows \cup {NoItem}
  BY DEF IInv, LocalTypes
<1>2. CASE call[r].op = "create"
  <2>1. call[r].evidence \in Evidence /\ call[r].user \in Users
    BY <1>1, <1>2, CallFields DEF IInv, HandlersChecked
  <2>2. Item(r) = NewRow(Initial, 1, call[r].evidence, call[r].user)
    BY <1>2 DEF Item
  <2>3. QED
    BY <1>2, <2>1, <2>2, StatusValues DEF NewRow, StoredRows, RowStates
<1>3. CASE call[r].op = "update"
  <2>1. call[r].evidence \in Evidence /\ call[r].expected + 1 \in Nat \ {0}
    BY <1>1, <1>3, CallFields DEF IInv, HandlersChecked
  <2>2. current[r].state = "live" /\ current[r].status = Initial
    BY <1>3 DEF IInv, HandlersChecked, Live
  <2>3. current[r] \in StoredRows
    BY <1>1, <2>2, StoredRow
  <2>4. Item(r) = [current[r] EXCEPT !.evidence = call[r].evidence, !.version = call[r].expected + 1]
    BY <1>3 DEF Item
  <2>5. QED
    BY <1>3, <2>1, <2>2, <2>3, <2>4 DEF StoredRows
<1>4. CASE call[r].op = "transition"
  <2>1. call[r].target \in Statuses /\ call[r].expected + 1 \in Nat \ {0}
    BY <1>1, <1>4, CallFields, StatusValues DEF IInv, HandlersChecked
  <2>2. current[r].state = "live" /\ current[r].status = Initial
    BY <1>4 DEF IInv, HandlersChecked, Live
  <2>3. current[r] \in StoredRows
    BY <1>1, <2>2, StoredRow
  <2>4. Item(r) = [current[r] EXCEPT !.status = call[r].target, !.version = call[r].expected + 1]
    BY <1>4 DEF Item
  <2>5. QED
    BY <1>4, <2>1, <2>2, <2>3, <2>4 DEF StoredRows
<1>5. QED
  BY <1>1, <1>2, <1>3, <1>4, CallFields

-----------------------------------------------------------------------------
(* The steps of a handler, on its own locals. *)

(* Rows stay, with their preparer, whatever is written.                    *)
RowsStay ==
  \A d \in Decisions : row[d].state # "absent" =>
    row'[d].state # "absent" /\ row'[d].preparedBy = row[d].preparedBy

(* A handler that answers, or goes on to a later step.                     *)
Advances(r) ==
  \/ \E code \in Replies : Answer(r, code)
  \/ InFlight(r) /\ \E step \in {"audit", "reread"} : Goto(r, step)

LEMMA LocalStep ==
  ASSUME LocalTypes, HandlersChecked, NEW q \in Requests, Advances(q), RowsStay
  PROVE  LocalTypes' /\ HandlersChecked'
<1>1. \A r \in Requests : InFlight(r)' =>
        /\ InFlight(r)
        /\ call'[r] = call[r]
        /\ current'[r] = current[r]
  BY DEF LocalTypes, Advances, Answer, Goto, InFlight
<1>2. LocalTypes'
  <2>1. CASE \E code \in Replies : Answer(q, code)
    BY <2>1, NoRowType DEF LocalTypes, Answer, InFlight
  <2>2. CASE InFlight(q) /\ \E step \in {"audit", "reread"} : Goto(q, step)
    BY <2>2 DEF LocalTypes, Goto, InFlight
  <2>3. QED
    BY <2>1, <2>2 DEF Advances
<1>3. HandlersChecked'
  <2> SUFFICES ASSUME NEW r \in Requests, InFlight(r)'
               PROVE  /\ call'[r].op \in {"create", "update"} => call'[r].evidence \in Evidence
                      /\ call'[r].op # "create" =>
                           /\ Live(current'[r])
                           /\ current'[r].status = Initial
                           /\ row'[call'[r].id].state # "absent"
                           /\ row'[call'[r].id].preparedBy = current'[r].preparedBy
                      /\ call'[r].op = "update" => OwnsDraft(call'[r], current'[r])
                      /\ call'[r].op = "transition" =>
                           /\ call'[r].target \in AllPriorityLevel
                           /\ Independent(call'[r], current'[r])
                           /\ Role[call'[r].user] \in {"reviewer", "admin"}
    BY DEF HandlersChecked
  <2>1. InFlight(r) /\ call'[r] = call[r] /\ current'[r] = current[r]
    BY <1>1
  <2>2. call[r].id \in Decisions
    BY <2>1, CallFields DEF LocalTypes
  <2>3. QED
    BY <2>1, <2>2 DEF HandlersChecked, RowsStay
<1>4. QED
  BY <1>2, <1>3

-----------------------------------------------------------------------------
(* The initial state. *)

LEMMA InitSeeds ==
  ASSUME Init, NEW d \in Decisions
  PROVE  \/ row[d] = NoRow /\ revisions[d] = [v \in {} |-> NoRow]
         \/ \E e \in Evidence :
              /\ row[d] = NewRow(Initial, 1, e, SeedPreparer)
              /\ revisions[d] = [v \in {1} |-> SeedRevision(Initial, e, SeedPreparer)]
         \/ \E e \in Evidence, level \in {"observe", "restrict"} :
              /\ row[d] = NewRow(level, 2, e, SeedPreparer)
              /\ revisions[d] = [v \in {1, 2} |->
                   IF v = 1 THEN SeedRevision(Initial, e, SeedPreparer)
                   ELSE SeedRevision(level, e, SeedReviewer)]
<1>1. PICK seed \in [Decisions -> Seeds] :
        row[d] = seed[d].row /\ revisions[d] = seed[d].revisions
  BY DEF Init, NoneArrived
<1>2. \/ seed[d] = Unseeded
      \/ \E e \in Evidence : seed[d] = SeedDraft(e)
      \/ \E e \in Evidence, level \in {"observe", "restrict"} : seed[d] = SeedReviewed(e, level)
  BY DEF Seeds
<1>3. CASE seed[d] = Unseeded
  BY <1>1, <1>3 DEF Unseeded
<1>4. CASE \E e \in Evidence : seed[d] = SeedDraft(e)
  BY <1>1, <1>4 DEF SeedDraft
<1>5. CASE \E e \in Evidence, level \in {"observe", "restrict"} : seed[d] = SeedReviewed(e, level)
  <2>1. PICK e \in Evidence, level \in {"observe", "restrict"} : seed[d] = SeedReviewed(e, level)
    BY <1>5
  <2>2. /\ row[d] = NewRow(level, 2, e, SeedPreparer)
        /\ revisions[d] = [v \in {1, 2} |->
             IF v = 1 THEN SeedRevision(Initial, e, SeedPreparer)
             ELSE SeedRevision(level, e, SeedReviewer)]
    BY <1>1, <2>1 DEF SeedReviewed
  <2>3. QED
    BY <2>2
<1>6. QED
  BY <1>2, <1>3, <1>4, <1>5

LEMMA InitIInv == Init => IInv
<1> SUFFICES ASSUME Init PROVE IInv
  OBVIOUS
<1>1. \A r \in Requests : ~InFlight(r)
  BY DEF Init, NoneArrived, InFlight
<1>2. LocalTypes /\ HandlersChecked
  BY <1>1, NoRowType DEF Init, NoneArrived, LocalTypes, HandlersChecked, Replies
<1>3. ASSUME NEW d \in Decisions
      PROVE  /\ row[d] \in Rows
             /\ revisions[d] \in [DOMAIN revisions[d] -> Revisions]
             /\ DOMAIN revisions[d] = 1 .. row[d].version
             /\ row[d].state # "absent" =>
                  /\ LastRevision(d).status = row[d].status
                  /\ LastRevision(d).evidence = row[d].evidence
                  /\ revisions[d][1].status = Initial
                  /\ revisions[d][1].actor = row[d].preparedBy
             /\ \A v \in DOMAIN revisions[d] :
                  revisions[d][v].status \in AllPriorityLevel =>
                    /\ revisions[d][v].actor # row[d].preparedBy
                    /\ Role[revisions[d][v].actor] \in {"reviewer", "admin"}
  <2>1. CASE row[d] = NoRow /\ revisions[d] = [v \in {} |-> NoRow]
    <3>1. DOMAIN revisions[d] = {} /\ row[d].state = "absent"
      BY <2>1 DEF NoRow
    <3>2. 1 .. row[d].version = {}
      BY <2>1, NoRowType
    <3>3. QED
      BY <2>1, <3>1, <3>2, NoRowType
  <2>2. CASE \E e \in Evidence :
               /\ row[d] = NewRow(Initial, 1, e, SeedPreparer)
               /\ revisions[d] = [v \in {1} |-> SeedRevision(Initial, e, SeedPreparer)]
    <3>1. PICK e \in Evidence :
            /\ row[d] = NewRow(Initial, 1, e, SeedPreparer)
            /\ revisions[d] = [v \in {1} |-> SeedRevision(Initial, e, SeedPreparer)]
      BY <2>2
    <3>2. row[d] \in Rows
      BY <3>1, StatusValues, RolesAssumption, HandlersAssumption DEF Rows, StoredRows, RowStates, NewRow
    <3>3. SeedRevision(Initial, e, SeedPreparer) \in Revisions
      BY StatusValues, RolesAssumption, HandlersAssumption DEF SeedRevision, Revisions
    <3>4. 1 .. 1 = {1}
      OBVIOUS
    <3>5. QED
      BY <3>1, <3>2, <3>3, <3>4, StatusValues DEF NewRow, SeedRevision, LastRevision
  <2>3. CASE \E e \in Evidence, level \in {"observe", "restrict"} :
               /\ row[d] = NewRow(level, 2, e, SeedPreparer)
               /\ revisions[d] = [v \in {1, 2} |->
                    IF v = 1 THEN SeedRevision(Initial, e, SeedPreparer)
                    ELSE SeedRevision(level, e, SeedReviewer)]
    <3>1. PICK e \in Evidence, level \in {"observe", "restrict"} :
            /\ row[d] = NewRow(level, 2, e, SeedPreparer)
            /\ revisions[d] = [v \in {1, 2} |->
                 IF v = 1 THEN SeedRevision(Initial, e, SeedPreparer)
                 ELSE SeedRevision(level, e, SeedReviewer)]
      BY <2>3
    <3>2. row[d] \in Rows
      BY <3>1, StatusValues, RolesAssumption, HandlersAssumption DEF Rows, StoredRows, RowStates, NewRow
    <3>3. /\ SeedRevision(Initial, e, SeedPreparer) \in Revisions
          /\ SeedRevision(level, e, SeedReviewer) \in Revisions
      BY StatusValues, RolesAssumption, HandlersAssumption DEF SeedRevision, Revisions
    <3>4. 1 .. 2 = {1, 2}
      OBVIOUS
    <3>5. QED
      BY <3>1, <3>2, <3>3, <3>4, StatusValues, RolesAssumption
         DEF NewRow, SeedRevision, LastRevision
  <2>4. QED
    BY <2>1, <2>2, <2>3, InitSeeds
<1>4. TableTypes
  <2>1. row \in [Decisions -> Rows] /\ DOMAIN revisions = Decisions
    BY <1>3 DEF Init, NoneArrived
  <2>2. QED
    BY <1>3, <2>1 DEF TableTypes, Init, NoneArrived
<1>5. LedgerMatchesRow /\ IndependentReview
  BY <1>3 DEF LedgerMatchesRow, IndependentReview
<1>6. QED
  BY <1>2, <1>4, <1>5 DEF IInv

-----------------------------------------------------------------------------
(* The steps that leave rows and revisions alone. *)

LEMMA QuietStep ==
  ASSUME IInv, NEW q \in Requests, Advances(q),
         UNCHANGED <<row, revisions>>, audits' \subseteq AuditEntries
  PROVE  IInv'
<1>1. RowsStay
  BY DEF RowsStay
<1>2. LocalTypes' /\ HandlersChecked'
  BY <1>1, LocalStep DEF IInv
<1>3. TableTypes'
  BY DEF IInv, TableTypes
<1>4. LedgerMatchesRow' /\ IndependentReview'
  BY DEF IInv, LedgerMatchesRow, IndependentReview, LastRevision
<1>5. QED
  BY <1>2, <1>3, <1>4 DEF IInv

(* A handler that passed its checks holds the call and the row it read.    *)
LEMMA StartStep ==
  ASSUME IInv, NEW q \in Requests, NEW c \in Calls, NEW item \in Rows \cup {NoItem},
         NEW verdict \in Replies \cup {"pass"},
         Handle(q, c, item, verdict),
         verdict = "pass" =>
           /\ c.op \in {"create", "update"} => c.evidence \in Evidence
           /\ c.op # "create" =>
                item = row[c.id] /\ Live(item) /\ item.status = Initial
           /\ c.op = "update" => OwnsDraft(c, item)
           /\ c.op = "transition" =>
                /\ c.target \in AllPriorityLevel
                /\ Independent(c, item)
                /\ Role[c.user] \in {"reviewer", "admin"}
  PROVE  IInv'
<1>1. CASE verdict # "pass"
  <2>1. verdict \in Replies /\ Answer(q, verdict) /\ UNCHANGED tables
    BY <1>1 DEF Handle, Check
  <2>2. UNCHANGED <<row, revisions>> /\ audits' \subseteq AuditEntries
    BY <2>1 DEF tables, IInv, TableTypes
  <2>3. QED
    BY <2>1, <2>2, QuietStep DEF Advances
<1>2. CASE verdict = "pass"
  <2>1. /\ pc' = [pc EXCEPT ![q] = "write"]
        /\ call' = [call EXCEPT ![q] = c]
        /\ current' = [current EXCEPT ![q] = item]
        /\ reply' = reply
        /\ row' = row /\ revisions' = revisions /\ audits' = audits
    BY <1>2, Zenon DEF Handle, Check, tables, Answer
  <2>2. TableTypes' /\ LedgerMatchesRow' /\ IndependentReview'
    BY <2>1 DEF IInv, TableTypes, LedgerMatchesRow, IndependentReview, LastRevision
  <2>3. LocalTypes'
    BY <2>1 DEF IInv, LocalTypes, InFlight
  <2>4. ASSUME NEW r \in Requests, r # q, InFlight(r)'
        PROVE  InFlight(r) /\ call'[r] = call[r] /\ current'[r] = current[r]
    BY <2>1, <2>4 DEF IInv, LocalTypes, InFlight
  <2>5. call'[q] = c /\ current'[q] = item
    BY <2>1 DEF IInv, LocalTypes
  <2>6. c.op # "create" => row[c.id].state # "absent" /\ row[c.id].preparedBy = item.preparedBy
    BY <1>2 DEF Live
  <2>7. HandlersChecked'
    BY <1>2, <2>1, <2>4, <2>5, <2>6 DEF IInv, HandlersChecked
  <2>8. QED
    BY <2>2, <2>3, <2>7 DEF IInv
<1>3. QED
  BY <1>1, <1>2

LEMMA CreateStep ==
  ASSUME IInv, NEW q \in Requests, Create(q)
  PROVE  IInv'
<1>1. PICK c \in CreateCalls : Handle(q, c, NoItem, CreateVerdict(c))
  BY DEF Create
<1>2. c \in Calls /\ c.op = "create"
  BY DEF Calls, CreateCalls
<1>3. CreateVerdict(c) \in Replies \cup {"pass"}
  BY DEF CreateVerdict, Replies
<1>4. CreateVerdict(c) = "pass" => c.evidence \in Evidence
  BY DEF CreateVerdict
<1>5. QED
  BY <1>1, <1>2, <1>3, <1>4, NoRowType, StartStep

LEMMA UpdateStep ==
  ASSUME IInv, NEW q \in Requests, Update(q)
  PROVE  IInv'
<1>1. PICK c \in UpdateCalls : Handle(q, c, row[c.id], UpdateVerdict(c, row[c.id]))
  BY DEF Update
<1>2. c \in Calls /\ c.op = "update" /\ row[c.id] \in Rows
  BY DEF Calls, UpdateCalls, IInv, TableTypes
<1>3. UpdateVerdict(c, row[c.id]) \in Replies \cup {"pass"}
  BY DEF UpdateVerdict, Replies
<1>4. UpdateVerdict(c, row[c.id]) = "pass" =>
        /\ c.evidence \in Evidence
        /\ Live(row[c.id])
        /\ row[c.id].status = Initial
        /\ OwnsDraft(c, row[c.id])
  BY DEF UpdateVerdict
<1>5. QED
  BY <1>1, <1>2, <1>3, <1>4, StartStep

LEMMA TransitionStep ==
  ASSUME IInv, NEW q \in Requests, Transition(q)
  PROVE  IInv'
<1>1. PICK c \in TransitionCalls : Handle(q, c, row[c.id], TransitionVerdict(c, row[c.id]))
  BY DEF Transition
<1>2. c \in Calls /\ c.op = "transition" /\ row[c.id] \in Rows
  BY DEF Calls, TransitionCalls, IInv, TableTypes
<1>3. TransitionVerdict(c, row[c.id]) \in Replies \cup {"pass"}
  BY DEF TransitionVerdict, Replies
<1>4. TransitionVerdict(c, row[c.id]) = "pass" =>
        /\ Live(row[c.id])
        /\ Role[c.user] \in {"reviewer", "admin"}
        /\ Independent(c, row[c.id])
        /\ CanTransition(PriorityDecisionTransitions, row[c.id].status, c.target)
  BY DEF TransitionVerdict
<1>5. QED
  BY <1>1, <1>2, <1>3, <1>4, OnlyDraftsMove, StartStep

LEMMA DeleteStep ==
  ASSUME IInv, NEW q \in Requests, Delete(q)
  PROVE  IInv'
<1>1. PICK c \in DeleteCalls : Handle(q, c, row[c.id], DeleteVerdict(c, row[c.id]))
  BY DEF Delete
<1>2. c \in Calls /\ c.op = "delete" /\ row[c.id] \in Rows
  BY DEF Calls, DeleteCalls, IInv, TableTypes
<1>3. DeleteVerdict(c, row[c.id]) \in Replies \cup {"pass"}
  BY DEF DeleteVerdict, Replies
<1>4. DeleteVerdict(c, row[c.id]) = "pass" => Live(row[c.id]) /\ row[c.id].status = Initial
  BY DEF DeleteVerdict
<1>5. QED
  BY <1>1, <1>2, <1>3, <1>4, StartStep

LEMMA WriteRefusedStep ==
  ASSUME IInv, NEW q \in Requests, WriteRefused(q)
  PROVE  IInv'
<1>1. \E code \in Replies : Answer(q, code)
  BY DEF WriteRefused, Replies
<1>2. UNCHANGED <<row, revisions>> /\ audits' \subseteq AuditEntries
  BY DEF WriteRefused, tables, IInv, TableTypes
<1>3. QED
  BY <1>1, <1>2, QuietStep DEF Advances

LEMMA AuditEntryType ==
  ASSUME IInv, NEW q \in Requests, InFlight(q)
  PROVE  AuditEntry(q) \in AuditEntries
<1>1. call[q] \in Calls /\ current[q] \in Rows \cup {NoItem}
  BY DEF IInv, LocalTypes
<1>2. /\ call[q].user \in Users
      /\ call[q].op \in {"create", "update", "transition", "delete"}
      /\ call[q].id \in Decisions
  BY <1>1, CallFields
<1>3. call[q].op # "create" => current[q].status \in Statuses
  BY StatusValues DEF IInv, HandlersChecked
<1>4. call[q].op # "delete" => Item(q).status \in Statuses
  BY ItemType DEF StoredRows
<1>5. QED
  BY <1>2, <1>3, <1>4 DEF AuditEntry, AuditEntries

LEMMA FinishStep ==
  ASSUME IInv, NEW q \in Requests, Finish(q)
  PROVE  IInv'
<1>1. audits \subseteq AuditEntries
  BY DEF IInv, TableTypes
<1>2. CASE AppendAudit(q)
  <2>1. InFlight(q) /\ audits' = audits \cup {AuditEntry(q)} /\ UNCHANGED <<row, revisions>>
    BY <1>2 DEF AppendAudit, InFlight
  <2>2. Advances(q)
    BY <1>2, <2>1 DEF AppendAudit, Advances, Replies
  <2>3. QED
    BY <1>1, <2>1, <2>2, AuditEntryType, QuietStep
<1>3. CASE AuditFails(q)
  <2>1. /\ InFlight(q)
        /\ audits' \in {audits, audits \cup {AuditEntry(q)}}
        /\ UNCHANGED <<row, revisions>>
    BY <1>3 DEF AuditFails, InFlight
  <2>2. Advances(q)
    BY <1>3, <2>1 DEF AuditFails, Advances, Replies
  <2>3. QED
    BY <1>1, <2>1, <2>2, AuditEntryType, QuietStep
<1>4. CASE Reread(q)
  <2>1. UNCHANGED <<row, revisions>> /\ audits' \subseteq AuditEntries
    BY <1>1, <1>4 DEF Reread, tables
  <2>2. Advances(q)
    BY <1>4 DEF Reread, Advances, Replies
  <2>3. QED
    BY <2>1, <2>2, QuietStep
<1>5. QED
  BY <1>2, <1>3, <1>4 DEF Finish

LEMMA DatabaseErrorStep ==
  ASSUME IInv, NEW q \in Requests, DatabaseError(q)
  PROVE  IInv'
<1>1. UNCHANGED <<row, revisions>> /\ audits' \subseteq AuditEntries
  BY DEF DatabaseError, StatementFails, tables, IInv, TableTypes
<1>2. Advances(q)
  BY DEF DatabaseError, StatementFails, Advances, Replies
<1>3. QED
  BY <1>1, <1>2, QuietStep

LEMMA CrashStep ==
  ASSUME IInv, Crash
  PROVE  IInv'
<1>1. TableTypes' /\ LedgerMatchesRow' /\ IndependentReview'
  BY DEF Crash, ProcessDies, tables, IInv, TableTypes, LedgerMatchesRow, IndependentReview, LastRevision
<1>2. \A r \in Requests : pc'[r] \in {"new", "done"} /\ ~InFlight(r)'
  BY DEF Crash, ProcessDies, InFlight, IInv, LocalTypes
<1>3. LocalTypes'
  <2>1. reply' \in [Requests -> Replies]
    BY DEF Crash, ProcessDies, IInv, LocalTypes, Replies
  <2>2. current' \in [Requests -> Rows \cup {NoItem}]
    BY NoRowType DEF Crash, ProcessDies
  <2>3. pc' \in [Requests -> {"new", "write", "audit", "reread", "done"}]
    BY <1>2 DEF Crash, ProcessDies
  <2>4. DOMAIN call' = Requests /\ \A r \in Requests : call'[r] = NoCall
    BY DEF Crash, ProcessDies
  <2>5. QED
    BY <1>2, <2>1, <2>2, <2>3, <2>4 DEF LocalTypes
<1>4. HandlersChecked'
  BY <1>2 DEF HandlersChecked
<1>5. QED
  BY <1>1, <1>3, <1>4 DEF IInv

-----------------------------------------------------------------------------
(* The steps that write. *)

LEMMA CommittedAdvances ==
  ASSUME NEW q \in Requests, pc[q] = "write", NEW acked \in BOOLEAN, Committed(q, "audit", acked)
  PROVE  Advances(q)
  BY DEF Committed, Advances, InFlight, Replies

(* One more revision, that says what the row now says, made by someone who *)
(* may: what the two transactions of the repository have in common.        *)
LEMMA RevisionStep ==
  ASSUME IInv, NEW q \in Requests, Advances(q),
         NEW d \in Decisions, NEW new \in StoredRows, NEW rev \in Revisions,
         row' = [row EXCEPT ![d] = new],
         revisions' = [revisions EXCEPT ![d] = Insert(@, new.version, rev)],
         audits' = audits,
         new.version = row[d].version + 1,
         rev.status = new.status,
         rev.evidence = new.evidence,
         row[d].state # "absent" => new.preparedBy = row[d].preparedBy,
         row[d].state = "absent" => rev.status = Initial /\ rev.actor = new.preparedBy,
         rev.status \in AllPriorityLevel =>
           rev.actor # new.preparedBy /\ Role[rev.actor] \in {"reviewer", "admin"}
  PROVE  IInv'
<1>1. /\ row'[d] = new
      /\ revisions'[d] = Insert(revisions[d], new.version, rev)
      /\ \A e \in Decisions : e # d => row'[e] = row[e] /\ revisions'[e] = revisions[e]
  BY DEF IInv, TableTypes
<1>2. /\ new.state # "absent"
      /\ new \in Rows
      /\ row[d].version \in Nat
  <2>1. row[d] \in Rows
    BY DEF IInv, TableTypes
  <2>2. row[d].version \in Nat
    BY <2>1, NoRowType DEF Rows, StoredRows
  <2>3. QED
    BY <2>2 DEF Rows, StoredRows
<1>3. /\ DOMAIN revisions[d] = 1 .. row[d].version
      /\ DOMAIN revisions'[d] = 1 .. new.version
      /\ revisions'[d][new.version] = rev
      /\ \A v \in DOMAIN revisions[d] : revisions'[d][v] = revisions[d][v]
  <2>1. DOMAIN revisions[d] = 1 .. row[d].version
    BY DEF IInv, LedgerMatchesRow
  <2>2. 1 .. new.version = (1 .. row[d].version) \cup {new.version}
    BY <1>2
  <2>3. new.version \notin 1 .. row[d].version
    BY <1>2
  <2>4. DOMAIN revisions'[d] = DOMAIN revisions[d] \cup {new.version}
    BY <1>1 DEF Insert
  <2>5. /\ revisions'[d][new.version] = rev
        /\ \A v \in DOMAIN revisions[d] : revisions'[d][v] = revisions[d][v]
    BY <1>1, <2>1, <2>3 DEF Insert
  <2>6. QED
    BY <2>1, <2>2, <2>4, <2>5
<1>4. TableTypes'
  <2>1. row' \in [Decisions -> Rows] /\ DOMAIN revisions' = Decisions /\ audits' \subseteq AuditEntries
    BY <1>2 DEF IInv, TableTypes
  <2>2. revisions'[d] \in [DOMAIN revisions'[d] -> Revisions]
    <3>1. revisions[d] \in [DOMAIN revisions[d] -> Revisions]
      BY DEF IInv, TableTypes
    <3>2. QED
      BY <1>1, <3>1 DEF Insert
  <2>3. QED
    BY <1>1, <2>1, <2>2 DEF IInv, TableTypes
<1>5. RowsStay
  BY <1>1, <1>2 DEF RowsStay
<1>6. LocalTypes' /\ HandlersChecked'
  BY <1>5, LocalStep DEF IInv
<1>7. LedgerMatchesRow'
  <2>1. ASSUME row[d].state = "absent"
        PROVE  new.version = 1
    <3>1. row[d] = NoRow
      BY <2>1 DEF IInv, TableTypes, Rows, StoredRows, RowStates
    <3>2. QED
      BY <3>1, NoRowType
  <2>2. ASSUME row[d].state # "absent"
        PROVE  1 \in DOMAIN revisions[d]
    <3>1. row[d] \in StoredRows
      BY <2>2, StoredRow DEF IInv, TableTypes
    <3>2. QED
      BY <1>3, <3>1 DEF StoredRows
  <2>3. /\ LastRevision(d)'.status = new.status
        /\ LastRevision(d)'.evidence = new.evidence
    BY <1>1, <1>3 DEF LastRevision
  <2>4. revisions'[d][1].status = Initial /\ revisions'[d][1].actor = new.preparedBy
    <3>1. CASE row[d].state = "absent"
      BY <1>3, <2>1, <3>1
    <3>2. CASE row[d].state # "absent"
      BY <1>3, <2>2, <3>2 DEF IInv, LedgerMatchesRow
    <3>3. QED
      BY <3>1, <3>2
  <2>5. ASSUME NEW e \in Decisions, e # d
        PROVE  LastRevision(e)' = LastRevision(e)
    BY <1>1, <2>5 DEF LastRevision
  <2>6. QED
    BY <1>1, <1>3, <2>3, <2>4, <2>5 DEF IInv, LedgerMatchesRow
<1>8. IndependentReview'
  <2>1. ASSUME NEW v \in DOMAIN revisions'[d], revisions'[d][v].status \in AllPriorityLevel
        PROVE  /\ revisions'[d][v].actor # row'[d].preparedBy
               /\ Role[revisions'[d][v].actor] \in {"reviewer", "admin"}
    <3>1. CASE v = new.version
      BY <1>1, <1>3, <2>1, <3>1
    <3>2. CASE v # new.version
      <4>1. v \in DOMAIN revisions[d] /\ revisions'[d][v] = revisions[d][v]
        BY <1>2, <1>3, <2>1, <3>2
      <4>2. row[d].state # "absent"
        <5>1. row[d].version # 0
          BY <1>3, <4>1
        <5>2. QED
          BY <5>1, NoRowType DEF IInv, TableTypes, Rows, StoredRows, RowStates
      <4>3. QED
        BY <1>1, <2>1, <4>1, <4>2 DEF IInv, IndependentReview
    <3>3. QED
      BY <3>1, <3>2
  <2>2. ASSUME NEW e \in Decisions, e # d, NEW v \in DOMAIN revisions'[e],
               revisions'[e][v].status \in AllPriorityLevel
        PROVE  /\ revisions'[e][v].actor # row'[e].preparedBy
               /\ Role[revisions'[e][v].actor] \in {"reviewer", "admin"}
    BY <1>1, <2>2 DEF IInv, IndependentReview
  <2>3. QED
    BY <2>1, <2>2 DEF IndependentReview
<1>9. QED
  BY <1>4, <1>6, <1>7, <1>8 DEF IInv

(* What each transaction does to the tables. *)
LEMMA CreateEffect ==
  ASSUME IInv, NEW q \in Requests, NEW acked \in BOOLEAN, CreateWithRevision(q, acked),
         NEW d, d = call[q].id,
         NEW rev, rev = newPriorityRevision(Item(q), call[q].user, q)
  PROVE  /\ d \in Decisions /\ call[q].user \in Users
         /\ row[d] = NoRow
         /\ Item(q) \in StoredRows
         /\ Item(q).state = "live"
         /\ Item(q).version = 1
         /\ Item(q).status = Initial
         /\ Item(q).preparedBy = call[q].user
         /\ rev \in Revisions
         /\ rev.status = Initial /\ rev.evidence = Item(q).evidence /\ rev.actor = call[q].user
         /\ row' = [row EXCEPT ![d] = Item(q)]
         /\ revisions' = [revisions EXCEPT ![d] = Insert(@, Item(q).version, rev)]
         /\ audits' = audits
<1>1. InFlight(q) /\ call[q].op = "create" /\ row[d].state = "absent"
  BY DEF CreateWithRevision, InFlight
<1>2. d \in Decisions /\ call[q].user \in Users
  BY <1>1, CallFields DEF IInv, LocalTypes
<1>3. row[d] = NoRow
  BY <1>1, <1>2 DEF IInv, TableTypes, Rows, StoredRows, RowStates
<1>4. /\ Item(q) \in StoredRows
      /\ Item(q).state = "live"
      /\ Item(q).version = 1
      /\ Item(q).status = Initial
      /\ Item(q).preparedBy = call[q].user
  BY <1>1, ItemType
<1>5. /\ rev \in Revisions
      /\ rev.status = Item(q).status /\ rev.evidence = Item(q).evidence
      /\ rev.actor = call[q].user
  BY <1>2, <1>4 DEF newPriorityRevision, Revisions, StoredRows
<1>6. /\ row' = [row EXCEPT ![d] = Item(q)]
      /\ revisions' = [revisions EXCEPT ![d] = Insert(@, Item(q).version, rev)]
      /\ audits' = audits
  BY DEF CreateWithRevision, AddRevision
<1>7. QED
  BY <1>2, <1>3, <1>4, <1>5, <1>6

LEMMA UpdateEffect ==
  ASSUME IInv, NEW q \in Requests, NEW acked \in BOOLEAN, UpdateWithRevision(q, acked),
         NEW d, d = call[q].id,
         NEW new, new = Stored(row[d], Item(q)),
         NEW rev, rev = newPriorityRevision(Item(q), call[q].user, q)
  PROVE  /\ d \in Decisions /\ call[q].user \in Users
         /\ call[q].op \in {"update", "transition"}
         /\ row[d] \in StoredRows
         /\ row[d].state = "live"
         /\ row[d].version = call[q].expected
         /\ new \in StoredRows
         /\ new.state = "live"
         /\ new.version = row[d].version + 1
         /\ new.status = IF call[q].op = "transition" THEN call[q].target ELSE Initial
         /\ new.evidence = IF call[q].op = "transition" THEN current[q].evidence ELSE call[q].evidence
         /\ new.preparedBy = row[d].preparedBy
         /\ rev \in Revisions
         /\ rev.status = new.status /\ rev.evidence = new.evidence /\ rev.actor = call[q].user
         /\ row' = [row EXCEPT ![d] = new]
         /\ revisions' = [revisions EXCEPT ![d] = Insert(@, new.version, rev)]
         /\ audits' = audits
<1>1. /\ InFlight(q)
      /\ call[q].op \in {"update", "transition"}
      /\ row[d].state = "live"
      /\ row[d].version = call[q].expected
  BY DEF UpdateWithRevision, InFlight, UpdateAccepted, Matches, Live
<1>2. d \in Decisions /\ call[q].user \in Users
  BY <1>1, CallFields DEF IInv, LocalTypes
<1>3. row[d] \in StoredRows
  BY <1>1, <1>2, StoredRow DEF IInv, TableTypes
<1>4. /\ Item(q) \in StoredRows
      /\ Item(q).version = row[d].version + 1
      /\ Item(q).status = IF call[q].op = "transition" THEN call[q].target ELSE Initial
      /\ Item(q).evidence = IF call[q].op = "transition" THEN current[q].evidence ELSE call[q].evidence
  BY <1>1, ItemType
<1>5. /\ new \in StoredRows
      /\ new.state = "live"
      /\ new.version = Item(q).version
      /\ new.status = Item(q).status
      /\ new.evidence = Item(q).evidence
      /\ new.preparedBy = row[d].preparedBy
  BY <1>1, <1>3, <1>4 DEF Stored, StoredRows
<1>6. /\ rev \in Revisions
      /\ rev.status = new.status /\ rev.evidence = new.evidence
      /\ rev.actor = call[q].user
  BY <1>2, <1>4, <1>5 DEF newPriorityRevision, Revisions, StoredRows
<1>7. /\ row' = [row EXCEPT ![d] = new]
      /\ revisions' = [revisions EXCEPT ![d] = Insert(@, new.version, rev)]
      /\ audits' = audits
  BY <1>5 DEF UpdateWithRevision, AddRevision
<1>8. QED
  BY <1>1, <1>2, <1>3, <1>4, <1>5, <1>6, <1>7

LEMMA CreateWithRevisionStep ==
  ASSUME IInv, NEW q \in Requests, NEW acked \in BOOLEAN, CreateWithRevision(q, acked)
  PROVE  IInv'
<1> DEFINE d == call[q].id
           new == Item(q)
           rev == newPriorityRevision(Item(q), call[q].user, q)
<1>1. Advances(q)
  BY CommittedAdvances DEF CreateWithRevision
<1>2. /\ d \in Decisions /\ new \in StoredRows /\ rev \in Revisions
      /\ row[d] = NoRow /\ new.version = 1 /\ new.status = Initial
      /\ rev.status = Initial /\ rev.evidence = new.evidence /\ rev.actor = new.preparedBy
      /\ row' = [row EXCEPT ![d] = new]
      /\ revisions' = [revisions EXCEPT ![d] = Insert(@, new.version, rev)]
      /\ audits' = audits
  BY CreateEffect
<1> HIDE DEF d, new, rev
<1>3. new.version = row[d].version + 1 /\ row[d].state = "absent"
  BY <1>2, NoRowType DEF NoRow
<1>4. rev.status \notin AllPriorityLevel
  BY <1>2, StatusValues
<1>5. QED
  BY <1>1, <1>2, <1>3, <1>4, RevisionStep

LEMMA UpdateWithRevisionStep ==
  ASSUME IInv, NEW q \in Requests, NEW acked \in BOOLEAN, UpdateWithRevision(q, acked)
  PROVE  IInv'
<1> DEFINE d == call[q].id
           new == Stored(row[d], Item(q))
           rev == newPriorityRevision(Item(q), call[q].user, q)
<1>1. Advances(q)
  BY CommittedAdvances DEF UpdateWithRevision
<1>2. /\ d \in Decisions /\ new \in StoredRows /\ rev \in Revisions
      /\ row[d].state = "live"
      /\ new.version = row[d].version + 1
      /\ new.status = IF call[q].op = "transition" THEN call[q].target ELSE Initial
      /\ new.preparedBy = row[d].preparedBy
      /\ rev.status = new.status /\ rev.evidence = new.evidence /\ rev.actor = call[q].user
      /\ row' = [row EXCEPT ![d] = new]
      /\ revisions' = [revisions EXCEPT ![d] = Insert(@, new.version, rev)]
      /\ audits' = audits
  BY UpdateEffect
<1>3. call[q].op = "transition" =>
        /\ Independent(call[q], current[q])
        /\ Role[call[q].user] \in {"reviewer", "admin"}
        /\ row[d].preparedBy = current[q].preparedBy
  BY DEF IInv, HandlersChecked, UpdateWithRevision, InFlight
<1> HIDE DEF d, new, rev
<1>4. rev.status \in AllPriorityLevel =>
        rev.actor # new.preparedBy /\ Role[rev.actor] \in {"reviewer", "admin"}
  BY <1>2, <1>3, StatusValues DEF Independent
<1>5. QED
  BY <1>1, <1>2, <1>4, RevisionStep

(* A deletion touches one column.                                          *)
LEMMA SoftDeleteStep ==
  ASSUME IInv, NEW q \in Requests, NEW acked \in BOOLEAN, SoftDelete(q, acked)
  PROVE  IInv'
<1> DEFINE d == call[q].id
<1>1. Advances(q)
  BY CommittedAdvances DEF SoftDelete
<1>2. InFlight(q) /\ row[d].state = "live"
  BY DEF SoftDelete, InFlight, Live
<1>3. d \in Decisions
  BY <1>2, CallFields DEF IInv, LocalTypes
<1>4. row[d] \in StoredRows
  BY <1>2, <1>3, StoredRow DEF IInv, TableTypes
<1>5. /\ SoftDeleted(row[d]) \in StoredRows
      /\ SoftDeleted(row[d]).state # "absent"
      /\ SoftDeleted(row[d]).status = row[d].status
      /\ SoftDeleted(row[d]).version = row[d].version
      /\ SoftDeleted(row[d]).evidence = row[d].evidence
      /\ SoftDeleted(row[d]).preparedBy = row[d].preparedBy
  BY <1>4 DEF SoftDeleted, StoredRows, RowStates
<1>6. /\ row'[d] = SoftDeleted(row[d])
      /\ \A e \in Decisions : e # d => row'[e] = row[e]
      /\ revisions' = revisions /\ audits' = audits
      /\ row' \in [Decisions -> Rows]
  BY <1>3, <1>5 DEF SoftDelete, IInv, TableTypes, Rows
<1> HIDE DEF d
<1>7. TableTypes'
  BY <1>6 DEF IInv, TableTypes
<1>8. RowsStay
  BY <1>5, <1>6 DEF RowsStay
<1>9. LocalTypes' /\ HandlersChecked'
  BY <1>1, <1>8, LocalStep DEF IInv
<1>10. LedgerMatchesRow'
  <2>1. ASSUME NEW e \in Decisions
        PROVE  /\ row'[e].version = row[e].version
               /\ row'[e].status = row[e].status
               /\ row'[e].evidence = row[e].evidence
               /\ row'[e].preparedBy = row[e].preparedBy
               /\ row'[e].state # "absent" => row[e].state # "absent"
               /\ LastRevision(e)' = LastRevision(e)
    BY <1>2, <1>5, <1>6 DEF LastRevision, d
  <2>2. QED
    BY <1>6, <2>1 DEF IInv, LedgerMatchesRow
<1>11. IndependentReview'
  BY <1>5, <1>6 DEF IInv, IndependentReview
<1>12. QED
  BY <1>7, <1>9, <1>10, <1>11 DEF IInv

-----------------------------------------------------------------------------
(* The invariant, and what it implies. *)

LEMMA NextIInv ==
  ASSUME IInv, [Next]_vars
  PROVE  IInv'
<1>1. CASE Next
  <2>1. ASSUME NEW q \in Requests, Arrive(q) PROVE IInv'
    BY <2>1, CreateStep, UpdateStep, TransitionStep, DeleteStep DEF Arrive
  <2>2. ASSUME NEW q \in Requests, Write(q) PROVE IInv'
    BY <2>2, CreateWithRevisionStep, UpdateWithRevisionStep, SoftDeleteStep, WriteRefusedStep DEF Write
  <2>3. ASSUME NEW q \in Requests, Finish(q) PROVE IInv'
    BY <2>3, FinishStep
  <2>4. ASSUME NEW q \in Requests, DatabaseError(q) PROVE IInv'
    BY <2>4, DatabaseErrorStep
  <2>5. CASE Crash
    BY <2>5, CrashStep
  <2>6. QED
    BY <1>1, <2>1, <2>2, <2>3, <2>4, <2>5 DEF Next
<1>2. CASE UNCHANGED vars
  BY <1>2 DEF vars, IInv, TableTypes, LocalTypes, HandlersChecked, LedgerMatchesRow,
              IndependentReview, LastRevision, InFlight
<1>3. QED
  BY <1>1, <1>2

LEMMA Invariance == Spec => []IInv
<1>1. Init => IInv
  BY InitIInv
<1>2. IInv /\ [Next]_vars => IInv'
  BY NextIInv
<1>3. QED
  BY <1>1, <1>2, PTL DEF Spec

(* Type correctness, for all inputs: in particular no field the service    *)
(* validates is blank in a stored row or a revision.                       *)
THEOREM TypeCorrect == Spec => []TypeOK
<1>1. IInv => TypeOK
  BY DEF IInv, TypeOK
<1>2. QED
  BY <1>1, Invariance, PTL

(* What a handler checked of its decision stays true until it answers,     *)
(* except the status and the version.                                      *)
THEOREM ChecksPersist == Spec => []HandlersChecked
<1>1. IInv => HandlersChecked
  BY DEF IInv
<1>2. QED
  BY <1>1, Invariance, PTL

(* Every accepted version of a decision can be traced back: revisions are  *)
(* numbered without a gap up to the row's version and end with its         *)
(* content, for any clients, any races and any failures.                   *)
THEOREM LedgerIntegrity == Spec => []LedgerMatchesRow
<1>1. IInv => LedgerMatchesRow
  BY DEF IInv
<1>2. QED
  BY <1>1, Invariance, PTL

(* The separation of duty holds for any number of concurrent requests.     *)
THEOREM SeparationOfDuty == Spec => []IndependentReview
<1>1. IInv => IndependentReview
  BY DEF IInv
<1>2. QED
  BY <1>1, Invariance, PTL

-----------------------------------------------------------------------------
(* The ledger only grows. *)

TableStep(q) ==
  \E acked \in BOOLEAN :
    CreateWithRevision(q, acked) \/ UpdateWithRevision(q, acked) \/ SoftDelete(q, acked)

LEMMA TableSteps ==
  ASSUME [Next]_vars
  PROVE  UNCHANGED <<row, revisions>> \/ \E q \in Requests : TableStep(q)
<1>1. CASE Next
  <2>1. ASSUME NEW q \in Requests, Arrive(q) PROVE UNCHANGED <<row, revisions>>
    BY <2>1 DEF Arrive, Create, Update, Transition, Delete, Handle, Check, tables
  <2>2. ASSUME NEW q \in Requests, Write(q) PROVE UNCHANGED <<row, revisions>> \/ TableStep(q)
    BY <2>2 DEF Write, TableStep, WriteRefused, tables
  <2>3. ASSUME NEW q \in Requests, Finish(q) PROVE UNCHANGED <<row, revisions>>
    BY <2>3 DEF Finish, AppendAudit, AuditFails, Reread, tables
  <2>4. ASSUME NEW q \in Requests, DatabaseError(q) PROVE UNCHANGED <<row, revisions>>
    BY <2>4 DEF DatabaseError, StatementFails, tables
  <2>5. CASE Crash
    BY <2>5 DEF Crash, ProcessDies, tables
  <2>6. QED
    BY <1>1, <2>1, <2>2, <2>3, <2>4, <2>5 DEF Next
<1>2. CASE UNCHANGED vars
  BY <1>2 DEF vars
<1>3. QED
  BY <1>1, <1>2

LEMMA DeleteEffect ==
  ASSUME IInv, NEW q \in Requests, NEW acked \in BOOLEAN, SoftDelete(q, acked),
         NEW d, d = call[q].id
  PROVE  /\ d \in Decisions
         /\ row[d].state = "live"
         /\ row' = [row EXCEPT ![d] = SoftDeleted(row[d])]
         /\ SoftDeleted(row[d]).state = "deleted"
         /\ SoftDeleted(row[d]).status = row[d].status
         /\ SoftDeleted(row[d]).version = row[d].version
         /\ SoftDeleted(row[d]).evidence = row[d].evidence
         /\ revisions' = revisions
<1>1. InFlight(q) /\ row[d].state = "live"
  BY DEF SoftDelete, InFlight, Live
<1>2. d \in Decisions
  BY <1>1, CallFields DEF IInv, LocalTypes
<1>3. row[d] \in StoredRows
  BY <1>1, <1>2, StoredRow DEF IInv, TableTypes
<1>4. QED
  BY <1>1, <1>2, <1>3 DEF SoftDelete, SoftDeleted, StoredRows, RowStates

(* Committed revisions stay as they are, whatever versions clients send.   *)
THEOREM RevisionsKept == Spec => RevisionsAppendOnly
<1>1. ASSUME IInv, [Next]_vars, NEW d \in Decisions, NEW v \in DOMAIN revisions[d]
      PROVE  v \in DOMAIN revisions'[d] /\ revisions'[d][v] = revisions[d][v]
  <2>1. CASE UNCHANGED <<row, revisions>>
    BY <1>1, <2>1
  <2>2. ASSUME NEW q \in Requests, NEW rev, NEW version,
               version \notin DOMAIN revisions[call[q].id],
               revisions' = [revisions EXCEPT ![call[q].id] = Insert(@, version, rev)]
        PROVE  v \in DOMAIN revisions'[d] /\ revisions'[d][v] = revisions[d][v]
    BY <1>1, <2>2 DEF Insert, IInv, TableTypes
  <2>3. ASSUME NEW q \in Requests, NEW acked \in BOOLEAN, CreateWithRevision(q, acked)
        PROVE  v \in DOMAIN revisions'[d] /\ revisions'[d][v] = revisions[d][v]
    <3>1. /\ call[q].id \in Decisions
          /\ row[call[q].id] = NoRow
          /\ revisions' = [revisions EXCEPT ![call[q].id] =
               Insert(@, Item(q).version, newPriorityRevision(Item(q), call[q].user, q))]
      BY <1>1, <2>3, CreateEffect
    <3>2. DOMAIN revisions[call[q].id] = {}
      <4>1. DOMAIN revisions[call[q].id] = 1 .. 0
        BY <1>1, <3>1, NoRowType DEF IInv, LedgerMatchesRow
      <4>2. QED
        BY <4>1
    <3>3. QED
      BY <2>2, <3>1, <3>2
  <2>4. ASSUME NEW q \in Requests, NEW acked \in BOOLEAN, UpdateWithRevision(q, acked)
        PROVE  v \in DOMAIN revisions'[d] /\ revisions'[d][v] = revisions[d][v]
    BY <2>2, <2>4 DEF UpdateWithRevision, UpdateAccepted, AddRevision
  <2>5. ASSUME NEW q \in Requests, NEW acked \in BOOLEAN, SoftDelete(q, acked)
        PROVE  v \in DOMAIN revisions'[d] /\ revisions'[d][v] = revisions[d][v]
    BY <1>1, <2>5 DEF SoftDelete
  <2>6. QED
    BY <1>1, <2>1, <2>3, <2>4, <2>5, TableSteps DEF TableStep
<1>2. IInv /\ [Next]_vars =>
        [\A d \in Decisions : \A v \in DOMAIN revisions[d] :
           v \in DOMAIN revisions'[d] /\ revisions'[d][v] = revisions[d][v]]_vars
  BY <1>1
<1>3. QED
  BY <1>2, Invariance, PTL DEF Spec, RevisionsAppendOnly

-----------------------------------------------------------------------------
(* Answers and the audit trail. *)

(* The revision that the entry of a handler will speak of.                 *)
Recorded(r) ==
  \E v \in DOMAIN revisions[call[r].id] :
    /\ revisions[call[r].id][v].request = r
    /\ revisions[call[r].id][v].actor = call[r].user
    /\ revisions[call[r].id][v].status = Item(r).status

(* What a request has left behind, at each step of its handler: nothing    *)
(* before the write, then its revision, then its entry, except that the    *)
(* entry of a draft may be missing.                                        *)
Trace(r) ==
  /\ pc[r] # "done" => reply[r] = "none"
  /\ pc[r] \in {"new", "write"} => ~WroteRevision(r) /\ ~Audited(r)
  /\ pc[r] = "audit" =>
       /\ ~Audited(r)
       /\ call[r].op = "delete" => ~WroteRevision(r)
       /\ call[r].op # "delete" => Recorded(r)
       /\ WroteReview(r) => call[r].op = "transition"
  /\ pc[r] = "reread" => WroteRevision(r) /\ (WroteReview(r) => Audited(r))
  /\ reply[r] \in {"conflict", "forbidden", "rule"} => ~WroteRevision(r) /\ ~Audited(r)
  /\ reply[r] = "ok" =>
       /\ ~WroteRevision(r) => \E a \in audits : a.request = r /\ a.action = "delete"
       /\ WroteReview(r) => Audited(r)

(* A handler that deleted a row is the only one, and the first to say so.  *)
Removing(r) == pc[r] = "audit" /\ call[r].op = "delete"

Removals ==
  \A r \in Requests : Removing(r) =>
    /\ row[call[r].id].state = "deleted"
    /\ \A a \in audits : a.action = "delete" => a.id # call[r].id
    /\ \A q \in Requests : Removing(q) /\ call[q].id = call[r].id => q = r

TraceInv == (\A r \in Requests : Trace(r)) /\ Removals /\ AuditsAreTrue

(* What a step of q does not touch: the locals of the others.              *)
OthersWait(q) ==
  \A r \in Requests : r # q =>
    pc'[r] = pc[r] /\ call'[r] = call[r] /\ current'[r] = current[r] /\ reply'[r] = reply[r]

LEMMA AnswerLocal ==
  ASSUME LocalTypes, NEW q \in Requests, NEW code, Answer(q, code)
  PROVE  pc'[q] = "done" /\ reply'[q] = code /\ call'[q] = NoCall /\ OthersWait(q)
  BY DEF LocalTypes, Answer, OthersWait

LEMMA GotoLocal ==
  ASSUME LocalTypes, NEW q \in Requests, NEW step, Goto(q, step)
  PROVE  /\ pc'[q] = step /\ call'[q] = call[q] /\ current'[q] = current[q]
         /\ reply'[q] = reply[q] /\ OthersWait(q)
  BY DEF LocalTypes, Goto, OthersWait

(* The traces of the others, when q leaves their revisions and entries.    *)
SameMarks(r) ==
  /\ WroteRevision(r)' <=> WroteRevision(r)
  /\ WroteReview(r)' <=> WroteReview(r)
  /\ Audited(r)' <=> Audited(r)

(* Revisions and audit entries stay.                                       *)
Kept ==
  /\ \A d \in Decisions : \A v \in DOMAIN revisions[d] :
       v \in DOMAIN revisions'[d] /\ revisions'[d][v] = revisions[d][v]
  /\ audits \subseteq audits'

LEMMA RecordedStays ==
  ASSUME IInv, NEW r \in Requests, InFlight(r), call[r].op # "delete", Recorded(r), Kept,
         call'[r] = call[r], current'[r] = current[r]
  PROVE  Recorded(r)'
<1>1. call[r].id \in Decisions
  BY CallFields DEF IInv, LocalTypes
<1>2. Item(r)' = Item(r)
  BY DEF Item
<1>3. QED
  BY <1>1, <1>2 DEF Recorded, Kept

LEMMA TraceStays ==
  ASSUME IInv, NEW q \in Requests, NEW r \in Requests, r # q, OthersWait(q), Kept,
         SameMarks(r), Trace(r)
  PROVE  Trace(r)'
<1>1. /\ pc'[r] = pc[r] /\ call'[r] = call[r] /\ current'[r] = current[r]
      /\ reply'[r] = reply[r]
  BY DEF OthersWait
<1>2. pc[r] = "audit" /\ call[r].op # "delete" => Recorded(r)'
  BY <1>1, RecordedStays DEF Trace, InFlight
<1>3. (\E a \in audits : a.request = r /\ a.action = "delete") =>
      (\E a \in audits' : a.request = r /\ a.action = "delete")
  BY DEF Kept
<1>4. QED
  BY <1>1, <1>2, <1>3 DEF Trace, SameMarks

LEMMA MarksOfQuiet ==
  ASSUME UNCHANGED <<revisions, audits>>
  PROVE  Kept /\ \A r \in Requests : SameMarks(r)
  BY DEF Kept, SameMarks, WroteRevision, WroteReview, Audited

(* One entry more.                                                         *)
LEMMA MarksOfEntry ==
  ASSUME NEW q \in Requests, NEW a, a.request = q, audits' = audits \cup {a}, revisions' = revisions
  PROVE  /\ Kept /\ Audited(q)'
         /\ WroteRevision(q)' <=> WroteRevision(q)
         /\ WroteReview(q)' <=> WroteReview(q)
         /\ \A r \in Requests : r # q => SameMarks(r)
  BY DEF Kept, SameMarks, WroteRevision, WroteReview, Audited

(* One revision more.                                                      *)
LEMMA MarksOfRevision ==
  ASSUME IInv, NEW q \in Requests, NEW d \in Decisions, NEW n, n \notin DOMAIN revisions[d],
         NEW rev, rev.request = q,
         revisions' = [revisions EXCEPT ![d] = Insert(@, n, rev)], audits' = audits
  PROVE  /\ Kept
         /\ n \in DOMAIN revisions'[d] /\ revisions'[d][n] = rev
         /\ ~WroteRevision(q) => (WroteReview(q)' <=> rev.status \in AllPriorityLevel)
         /\ Audited(q)' <=> Audited(q)
         /\ \A r \in Requests : r # q => SameMarks(r)
<1>1. /\ DOMAIN revisions' = Decisions
      /\ \A e \in Decisions : e # d => revisions'[e] = revisions[e]
      /\ DOMAIN revisions'[d] = DOMAIN revisions[d] \cup {n}
      /\ revisions'[d][n] = rev
      /\ \A v \in DOMAIN revisions[d] : revisions'[d][v] = revisions[d][v]
  BY DEF IInv, TableTypes, Insert
<1>2. Kept
  BY <1>1 DEF Kept
<1>3. \A e \in Decisions : \A v \in DOMAIN revisions'[e] :
        \/ v \in DOMAIN revisions[e] /\ revisions'[e][v] = revisions[e][v]
        \/ e = d /\ v = n
  BY <1>1
<1>4. \A r \in Requests : r # q => SameMarks(r)
  <2> SUFFICES ASSUME NEW r \in Requests, r # q PROVE SameMarks(r)
    OBVIOUS
  <2>1. \A e \in Decisions : \A v :
          (v \in DOMAIN revisions'[e] /\ revisions'[e][v].request = r) <=>
          (v \in DOMAIN revisions[e] /\ revisions[e][v].request = r)
    BY <1>1, <1>3
  <2>2. \A e \in Decisions : \A v \in DOMAIN revisions'[e] : revisions'[e][v].request = r =>
          revisions'[e][v] = revisions[e][v]
    BY <1>1, <1>3
  <2>3. QED
    BY <2>1, <2>2 DEF SameMarks, WroteRevision, WroteReview, Audited
<1>5. ~WroteRevision(q) => (WroteReview(q)' <=> rev.status \in AllPriorityLevel)
  BY <1>1, <1>3 DEF WroteRevision, WroteReview
<1>6. QED
  BY <1>1, <1>2, <1>4, <1>5 DEF Audited

(* A deleted row is never live again.                                      *)
DeletedStay ==
  \A d \in Decisions : row[d].state = "deleted" => row'[d].state = "deleted"

LEMMA RemovalsStay ==
  ASSUME IInv, Removals, NEW q \in Requests, OthersWait(q), DeletedStay,
         pc'[q] # "audit" \/ call'[q].op # "delete",
         \A a \in audits' : a \in audits \/
           (a.action = "delete" => Removing(q) /\ a.id = call[q].id)
  PROVE  Removals'
<1> SUFFICES ASSUME NEW r \in Requests, Removing(r)'
             PROVE  /\ row'[call'[r].id].state = "deleted"
                    /\ \A a \in audits' : a.action = "delete" => a.id # call'[r].id
                    /\ \A s \in Requests : Removing(s)' /\ call'[s].id = call'[r].id => s = r
  BY DEF Removals
<1>1. r # q /\ Removing(r) /\ call'[r] = call[r]
  BY DEF OthersWait, Removing
<1>2. call[r].id \in Decisions
  BY <1>1, CallFields DEF IInv, LocalTypes, Removing, InFlight
<1>3. row'[call'[r].id].state = "deleted"
  BY <1>1, <1>2 DEF Removals, DeletedStay
<1>4. \A a \in audits' : a.action = "delete" => a.id # call'[r].id
  BY <1>1 DEF Removals
<1>5. \A s \in Requests : Removing(s)' => s # q /\ Removing(s) /\ call'[s] = call[s]
  BY DEF OthersWait, Removing
<1>6. QED
  BY <1>1, <1>3, <1>4, <1>5 DEF Removals

(* The entries that are there stay true.                                   *)
LEMMA TrueStays ==
  ASSUME IInv, AuditsAreTrue, Kept, DeletedStay, audits' = audits
  PROVE  AuditsAreTrue'
<1>1. \A a \in audits : a.id \in Decisions
  BY DEF IInv, TableTypes, AuditEntries
<1>2. QED
  BY <1>1 DEF AuditsAreTrue, Kept, DeletedStay

(* So is the entry of a handler that comes to write it.                    *)
LEMMA TrueEntry ==
  ASSUME IInv, TraceInv, NEW q \in Requests, pc[q] = "audit",
         audits' = audits \cup {AuditEntry(q)}, UNCHANGED <<row, revisions>>
  PROVE  AuditsAreTrue'
<1>1. PICK e : e = AuditEntry(q)
  OBVIOUS
<1>2. /\ e.request = q /\ e.actor = call[q].user /\ e.action = call[q].op /\ e.id = call[q].id
      /\ e.action # "delete" => e.after = Item(q).status
  BY <1>1 DEF AuditEntry
<1>3. ASSUME e.action # "delete"
      PROVE  \E v \in DOMAIN revisions[e.id] :
               /\ revisions[e.id][v].request = e.request
               /\ revisions[e.id][v].actor = e.actor
               /\ revisions[e.id][v].status = e.after
  BY <1>2, <1>3 DEF TraceInv, Trace, Recorded
<1>4. ASSUME e.action = "delete"
      PROVE  /\ row[e.id].state = "deleted"
             /\ \A b \in audits : b.action = "delete" => b.id # e.id
  BY <1>2, <1>4 DEF TraceInv, Removals, Removing
<1>5. audits' = audits \cup {e} /\ row' = row /\ revisions' = revisions /\ AuditsAreTrue
  BY <1>1 DEF TraceInv
<1>6. QED
  BY <1>3, <1>4, <1>5 DEF AuditsAreTrue

LEMMA OtherTraces ==
  ASSUME IInv, TraceInv, NEW q \in Requests, OthersWait(q), Kept,
         \A r \in Requests : r # q => SameMarks(r), Trace(q)'
  PROVE  \A r \in Requests : Trace(r)'
<1> SUFFICES ASSUME NEW r \in Requests PROVE Trace(r)'
  OBVIOUS
<1>1. CASE r = q
  BY <1>1
<1>2. CASE r # q
  BY <1>2, TraceStays DEF TraceInv
<1>3. QED
  BY <1>1, <1>2

(* A step that leaves the tables alone.                                    *)
LEMMA QuietTrace ==
  ASSUME IInv, TraceInv, NEW q \in Requests, OthersWait(q), UNCHANGED tables,
         pc'[q] # "audit", Trace(q)'
  PROVE  TraceInv'
<1>1. UNCHANGED <<row, revisions, audits>>
  BY DEF tables
<1>2. Kept /\ DeletedStay /\ \A r \in Requests : SameMarks(r)
  BY <1>1, MarksOfQuiet DEF DeletedStay
<1>3. \A r \in Requests : Trace(r)'
  BY <1>2, OtherTraces
<1>4. Removals' 
  BY <1>1, <1>2, RemovalsStay DEF TraceInv
<1>5. AuditsAreTrue'
  BY <1>1, <1>2, TrueStays DEF TraceInv
<1>6. QED
  BY <1>3, <1>4, <1>5 DEF TraceInv

LEMMA AnswerTrace ==
  ASSUME IInv, TraceInv, NEW q \in Requests, NEW code, Answer(q, code), UNCHANGED tables,
         \/ pc[q] \in {"new", "write"} /\ code # "ok"
         \/ pc[q] = "reread" /\ code \notin {"conflict", "forbidden", "rule"}
  PROVE  TraceInv'
<1>1. pc'[q] = "done" /\ reply'[q] = code /\ OthersWait(q)
  BY AnswerLocal DEF IInv
<1>2. UNCHANGED <<revisions, audits>>
  BY DEF tables
<1>3. SameMarks(q)
  BY <1>2, MarksOfQuiet
<1>4. Trace(q)
  BY DEF TraceInv
<1>5. Trace(q)'
  BY <1>1, <1>3, <1>4 DEF Trace, SameMarks
<1>6. QED
  BY <1>1, <1>5, QuietTrace

(* Arrivals, refusals, failures and final reads.                           *)
LEMMA HandleTrace ==
  ASSUME IInv, TraceInv, NEW q \in Requests, NEW c, NEW item, NEW verdict, verdict # "ok",
         Handle(q, c, item, verdict)
  PROVE  TraceInv'
<1>1. CASE verdict # "pass"
  <2>1. pc[q] = "new" /\ Answer(q, verdict) /\ UNCHANGED tables
    BY <1>1 DEF Handle, Check
  <2>2. QED
    BY <2>1, AnswerTrace
<1>2. CASE verdict = "pass"
  <2>1. /\ pc[q] = "new"
        /\ pc' = [pc EXCEPT ![q] = "write"]
        /\ call' = [call EXCEPT ![q] = c]
        /\ current' = [current EXCEPT ![q] = item]
        /\ reply' = reply
        /\ UNCHANGED tables
    BY <1>2, Zenon DEF Handle, Check, Answer
  <2>2. OthersWait(q) /\ pc'[q] = "write" /\ reply'[q] = reply[q]
    BY <2>1 DEF IInv, LocalTypes, OthersWait
  <2>3. SameMarks(q)
    BY <2>1, MarksOfQuiet DEF tables
  <2>4. Trace(q)
    BY DEF TraceInv
  <2>5. Trace(q)'
    BY <2>1, <2>2, <2>3, <2>4 DEF Trace, SameMarks
  <2>6. QED
    BY <2>1, <2>2, <2>5, QuietTrace
<1>3. QED
  BY <1>1, <1>2

LEMMA ArriveTrace ==
  ASSUME IInv, TraceInv, NEW q \in Requests, Arrive(q)
  PROVE  TraceInv'
<1>1. \A c : CreateVerdict(c) # "ok"
  BY DEF CreateVerdict
<1>2. \A c, item : UpdateVerdict(c, item) # "ok" /\ TransitionVerdict(c, item) # "ok"
                     /\ DeleteVerdict(c, item) # "ok"
  BY DEF UpdateVerdict, TransitionVerdict, DeleteVerdict
<1>3. CASE Create(q)
  BY <1>1, <1>3, HandleTrace DEF Create
<1>4. CASE Update(q)
  BY <1>2, <1>4, HandleTrace DEF Update
<1>5. CASE Transition(q)
  BY <1>2, <1>5, HandleTrace DEF Transition
<1>6. CASE Delete(q)
  BY <1>2, <1>6, HandleTrace DEF Delete
<1>7. QED
  BY <1>3, <1>4, <1>5, <1>6 DEF Arrive

LEMMA WriteRefusedTrace ==
  ASSUME IInv, TraceInv, NEW q \in Requests, WriteRefused(q)
  PROVE  TraceInv'
<1>1. \E code : Answer(q, code) /\ code # "ok"
  BY DEF WriteRefused
<1>2. pc[q] = "write" /\ UNCHANGED tables
  BY DEF WriteRefused
<1>3. QED
  BY <1>1, <1>2, AnswerTrace

LEMMA DatabaseErrorTrace ==
  ASSUME IInv, TraceInv, NEW q \in Requests, DatabaseError(q)
  PROVE  TraceInv'
  BY AnswerTrace DEF DatabaseError, StatementFails

LEMMA RereadTrace ==
  ASSUME IInv, TraceInv, NEW q \in Requests, Reread(q)
  PROVE  TraceInv'
<1>1. \E code : Answer(q, code) /\ code \in {"ok", "not_found"}
  BY DEF Reread
<1>2. pc[q] = "reread" /\ UNCHANGED tables
  BY DEF Reread
<1>3. QED
  BY <1>1, <1>2, AnswerTrace

LEMMA CrashTrace ==
  ASSUME IInv, TraceInv, Crash
  PROVE  TraceInv'
<1>1. UNCHANGED <<row, revisions, audits>>
  BY DEF Crash, tables
<1>2. Kept /\ DeletedStay /\ \A r \in Requests : SameMarks(r)
  BY <1>1, MarksOfQuiet DEF DeletedStay
<1>3. ASSUME NEW r \in Requests
      PROVE  /\ InFlight(r) => pc'[r] = "done" /\ reply'[r] = "cut"
             /\ ~InFlight(r) => pc'[r] = pc[r] /\ reply'[r] = reply[r]
             /\ pc'[r] \in {"new", "done"}
  BY DEF Crash, ProcessDies, IInv, LocalTypes, InFlight
<1>4. ASSUME NEW r \in Requests PROVE Trace(r)'
  <2>1. Trace(r) /\ SameMarks(r)
    BY <1>2 DEF TraceInv
  <2>2. (\E a \in audits : a.request = r /\ a.action = "delete")
          = (\E a \in audits' : a.request = r /\ a.action = "delete")
    BY <1>1
  <2>3. CASE InFlight(r)
    BY <1>3, <2>3 DEF Trace
  <2>4. CASE ~InFlight(r)
    BY <1>3, <2>1, <2>2, <2>4 DEF Trace, SameMarks
  <2>5. QED
    BY <2>3, <2>4
<1>5. Removals'
  BY <1>3 DEF Removals, Removing
<1>6. AuditsAreTrue'
  BY <1>1, <1>2, TrueStays DEF TraceInv
<1>7. QED
  BY <1>4, <1>5, <1>6 DEF TraceInv

(* The two transactions that record a revision.                            *)
LEMMA RevisionTrace ==
  ASSUME IInv, TraceInv, NEW q \in Requests, pc[q] = "write", NEW acked \in BOOLEAN,
         Committed(q, "audit", acked), audits' = audits, DeletedStay,
         call[q].id \in Decisions, call[q].op # "delete",
         NEW n, n \notin DOMAIN revisions[call[q].id],
         NEW rev, rev.request = q, rev.actor = call[q].user, rev.status = Item(q).status,
         revisions' = [revisions EXCEPT ![call[q].id] = Insert(@, n, rev)],
         rev.status \in AllPriorityLevel => call[q].op = "transition"
  PROVE  TraceInv'
<1>2. /\ Kept
      /\ n \in DOMAIN revisions'[call[q].id] /\ revisions'[call[q].id][n] = rev
      /\ ~WroteRevision(q) => (WroteReview(q)' <=> rev.status \in AllPriorityLevel)
      /\ Audited(q)' <=> Audited(q)
      /\ \A r \in Requests : r # q => SameMarks(r)
  BY MarksOfRevision
<1>3. ~WroteRevision(q) /\ ~Audited(q) /\ reply[q] = "none"
  BY DEF TraceInv, Trace
<1>4. \/ /\ pc'[q] = "audit" /\ call'[q] = call[q] /\ current'[q] = current[q]
         /\ reply'[q] = reply[q]
      \/ pc'[q] = "done" /\ reply'[q] = "error"
  BY GotoLocal, AnswerLocal DEF IInv, Committed
<1>5. OthersWait(q)
  BY GotoLocal, AnswerLocal DEF IInv, Committed
<1>6. Trace(q)'
  <2>1. CASE pc'[q] = "done" /\ reply'[q] = "error"
    BY <2>1 DEF Trace
  <2>2. CASE /\ pc'[q] = "audit" /\ call'[q] = call[q] /\ current'[q] = current[q]
             /\ reply'[q] = reply[q]
    <3>1. Item(q)' = Item(q)
      BY <2>2 DEF Item
    <3>2. Recorded(q)'
      BY <1>2, <2>2, <3>1 DEF Recorded
    <3>3. QED
      BY <1>2, <1>3, <2>2, <3>2 DEF Trace
  <2>3. QED
    BY <1>4, <2>1, <2>2
<1>7. \A r \in Requests : Trace(r)'
  BY <1>2, <1>5, <1>6, OtherTraces
<1>8. Removals'
  BY <1>4, <1>5, RemovalsStay DEF TraceInv
<1>9. AuditsAreTrue'
  BY <1>2, TrueStays DEF TraceInv
<1>10. QED
  BY <1>7, <1>8, <1>9 DEF TraceInv

LEMMA CreateTrace ==
  ASSUME IInv, TraceInv, NEW q \in Requests, NEW acked \in BOOLEAN, CreateWithRevision(q, acked)
  PROVE  TraceInv'
<1> DEFINE d == call[q].id
           rev == newPriorityRevision(Item(q), call[q].user, q)
<1>1. /\ d \in Decisions /\ row[d] = NoRow /\ rev.status = Initial /\ audits' = audits
      /\ row' = [row EXCEPT ![d] = Item(q)]
      /\ revisions' = [revisions EXCEPT ![d] = Insert(@, Item(q).version, rev)]
  BY CreateEffect
<1>2. pc[q] = "write" /\ call[q].op = "create" /\ Committed(q, "audit", acked)
  BY DEF CreateWithRevision
<1>0. rev.request = q /\ rev.actor = call[q].user /\ rev.status = Item(q).status
  BY DEF newPriorityRevision
<1> HIDE DEF d, rev
<1>3. Item(q).version \notin DOMAIN revisions[d]
  <2>1. DOMAIN revisions[d] = 1 .. 0
    BY <1>1, NoRowType DEF IInv, LedgerMatchesRow
  <2>2. QED
    BY <2>1
<1>4. row[d].state = "absent"
  BY <1>1 DEF NoRow
<1>5. DeletedStay
  BY <1>1, <1>4 DEF DeletedStay, IInv, TableTypes
<1>6. rev.status \notin AllPriorityLevel
  BY <1>1, StatusValues
<1>7. QED
  BY <1>0, <1>1, <1>2, <1>3, <1>5, <1>6, RevisionTrace DEF d

LEMMA UpdateTrace ==
  ASSUME IInv, TraceInv, NEW q \in Requests, NEW acked \in BOOLEAN, UpdateWithRevision(q, acked)
  PROVE  TraceInv'
<1> DEFINE d == call[q].id
           new == Stored(row[d], Item(q))
           rev == newPriorityRevision(Item(q), call[q].user, q)
<1>1. /\ d \in Decisions /\ audits' = audits
      /\ call[q].op \in {"update", "transition"}
      /\ row[d].state = "live"
      /\ new.status = IF call[q].op = "transition" THEN call[q].target ELSE Initial
      /\ rev.status = new.status
      /\ row' = [row EXCEPT ![d] = new]
  BY UpdateEffect
<1>2. /\ pc[q] = "write" /\ Committed(q, "audit", acked)
      /\ Item(q).version \notin DOMAIN revisions[d]
      /\ revisions' = [revisions EXCEPT ![d] = Insert(@, Item(q).version, rev)]
  BY DEF UpdateWithRevision, UpdateAccepted, AddRevision
<1>0. rev.request = q /\ rev.actor = call[q].user /\ rev.status = Item(q).status
  BY DEF newPriorityRevision
<1> HIDE DEF d, new, rev
<1>3. DeletedStay
  BY <1>1 DEF DeletedStay, IInv, TableTypes
<1>4. rev.status \in AllPriorityLevel => call[q].op = "transition"
  BY <1>1, StatusValues
<1>5. QED
  BY <1>0, <1>1, <1>2, <1>3, <1>4, RevisionTrace DEF d

LEMMA SoftDeleteTrace ==
  ASSUME IInv, TraceInv, NEW q \in Requests, NEW acked \in BOOLEAN, SoftDelete(q, acked)
  PROVE  TraceInv'
<1> DEFINE d == call[q].id
<1>1. /\ d \in Decisions /\ row[d].state = "live"
      /\ row' = [row EXCEPT ![d] = SoftDeleted(row[d])]
      /\ SoftDeleted(row[d]).state = "deleted"
  BY DeleteEffect
<1>2. /\ pc[q] = "write" /\ call[q].op = "delete" /\ Committed(q, "audit", acked)
      /\ UNCHANGED <<revisions, audits>>
  BY DEF SoftDelete
<1>3. /\ row'[d].state = "deleted"
      /\ DeletedStay
  BY <1>1 DEF DeletedStay, IInv, TableTypes
<1>4. Kept /\ \A r \in Requests : SameMarks(r)
  BY <1>2, MarksOfQuiet
<1>5. \/ pc'[q] = "audit" /\ call'[q] = call[q] /\ reply'[q] = reply[q]
      \/ pc'[q] = "done" /\ reply'[q] = "error"
  BY <1>2, GotoLocal, AnswerLocal DEF IInv, Committed
<1>6. OthersWait(q)
  BY <1>2, GotoLocal, AnswerLocal DEF IInv, Committed
<1>7. Trace(q)'
  <2>1. Trace(q)
    BY DEF TraceInv
  <2>2. QED
    BY <1>2, <1>4, <1>5, <2>1 DEF Trace, SameMarks, WroteReview, WroteRevision
<1>8. \A r \in Requests : Trace(r)'
  BY <1>4, <1>6, <1>7, OtherTraces
<1> HIDE DEF d
<1>9. Removals'
  <2>1. ASSUME NEW r \in Requests, Removing(r)', r # q
        PROVE  Removing(r) /\ call'[r] = call[r] /\ call[r].id # d /\ call[r].id \in Decisions
    <3>1. Removing(r) /\ call'[r] = call[r]
      BY <1>6, <2>1 DEF OthersWait, Removing
    <3>2. row[call[r].id].state = "deleted"
      BY <3>1 DEF TraceInv, Removals
    <3>3. call[r].id \in Decisions
      BY <3>1, CallFields DEF IInv, LocalTypes, Removing, InFlight
    <3>4. QED
      BY <1>1, <3>1, <3>2, <3>3
  <2>2. \A a \in audits : a.action = "delete" => a.id # d
    BY <1>1 DEF TraceInv, AuditsAreTrue
  <2>3. ASSUME NEW r \in Requests, Removing(r)'
        PROVE  /\ row'[call'[r].id].state = "deleted"
               /\ \A a \in audits' : a.action = "delete" => a.id # call'[r].id
               /\ \A s \in Requests : Removing(s)' /\ call'[s].id = call'[r].id => s = r
    <3>1. CASE r = q
      <4>1. call'[r].id = d
        BY <1>5, <2>3, <3>1 DEF Removing, d
      <4>2. QED
        BY <1>2, <1>3, <2>1, <2>2, <3>1, <4>1
    <3>2. CASE r # q
      <4>1. Removing(r) /\ call'[r] = call[r] /\ call[r].id # d /\ call[r].id \in Decisions
        BY <2>1, <2>3, <3>2
      <4>2. call'[q].id = d \/ ~Removing(q)'
        BY <1>5 DEF Removing, d
      <4>3. \A s \in Requests : Removing(s)' /\ call'[s].id = call'[r].id => s = r
        BY <2>1, <4>1, <4>2 DEF TraceInv, Removals
      <4>4. QED
        BY <1>2, <1>3, <4>1, <4>3 DEF TraceInv, Removals, DeletedStay
    <3>3. QED
      BY <3>1, <3>2
  <2>4. QED
    BY <2>3 DEF Removals
<1>10. AuditsAreTrue'
  BY <1>2, <1>3, <1>4, TrueStays DEF TraceInv
<1>11. QED
  BY <1>8, <1>9, <1>10 DEF TraceInv

(* The step that writes the entry, or fails to.                            *)
LEMMA AuditTrace ==
  ASSUME IInv, TraceInv, NEW q \in Requests, AppendAudit(q) \/ AuditFails(q)
  PROVE  TraceInv'
<1> DEFINE e == AuditEntry(q)
<1>1. /\ pc[q] = "audit" /\ UNCHANGED <<row, revisions>>
      /\ audits' = audits \/ audits' = audits \cup {e}
  BY DEF AppendAudit, AuditFails
<1>2. e.request = q /\ e.action = call[q].op /\ e.id = call[q].id
  BY DEF AuditEntry
<1>3. /\ WroteRevision(q) \/ call[q].op = "delete"
      /\ reply[q] = "none"
      /\ WroteReview(q) => call[q].op = "transition"
  <2>1. Trace(q)
    BY DEF TraceInv
  <2>2. call[q].id \in Decisions
    BY <1>1, CallFields DEF IInv, LocalTypes, InFlight
  <2>3. QED
    BY <1>1, <2>1, <2>2 DEF Trace, Recorded, WroteRevision
<1>4. \/ Answer(q, "error")
      \/ call[q].op = "delete" /\ audits' = audits \cup {e} /\ Answer(q, "ok")
      \/ call[q].op # "delete" /\ audits' = audits \cup {e} /\ Goto(q, "reread")
      \/ call[q].op \in {"create", "update"} /\ Goto(q, "reread")
  BY DEF AppendAudit, AuditFails
<1>5. OthersWait(q) /\ pc'[q] # "audit"
  BY <1>4, GotoLocal, AnswerLocal DEF IInv
<1> HIDE DEF e
<1>6. /\ Kept
      /\ audits' = audits \cup {e} => Audited(q)'
      /\ WroteRevision(q)' <=> WroteRevision(q)
      /\ WroteReview(q)' <=> WroteReview(q)
      /\ \A r \in Requests : r # q => SameMarks(r)
  <2>1. CASE audits' = audits \cup {e}
    BY <1>1, <1>2, <2>1, MarksOfEntry
  <2>2. CASE audits' = audits /\ audits' # audits \cup {e}
    BY <1>1, <2>2, MarksOfQuiet DEF SameMarks
  <2>3. QED
    BY <1>1, <2>1, <2>2
<1>7. Trace(q)'
  <2>1. CASE Answer(q, "error")
    <3>1. pc'[q] = "done" /\ reply'[q] = "error"
      BY <2>1, AnswerLocal DEF IInv
    <3>2. QED
      BY <3>1 DEF Trace
  <2>2. CASE call[q].op = "delete" /\ audits' = audits \cup {e} /\ Answer(q, "ok")
    <3>1. pc'[q] = "done" /\ reply'[q] = "ok"
      BY <2>2, AnswerLocal DEF IInv
    <3>2. \E a \in audits' : a.request = q /\ a.action = "delete"
      BY <1>2, <2>2
    <3>3. QED
      BY <1>6, <2>2, <3>1, <3>2 DEF Trace
  <2>3. CASE /\ Goto(q, "reread")
             /\ \/ call[q].op # "delete" /\ audits' = audits \cup {e}
                \/ call[q].op \in {"create", "update"}
    <3>1. pc'[q] = "reread" /\ reply'[q] = "none"
      BY <1>3, <2>3, GotoLocal DEF IInv
    <3>2. WroteRevision(q)' /\ (WroteReview(q)' => Audited(q)')
      BY <1>3, <1>6, <2>3
    <3>3. QED
      BY <3>1, <3>2 DEF Trace
  <2>4. QED
    BY <1>4, <2>1, <2>2, <2>3
<1>8. \A r \in Requests : Trace(r)'
  BY <1>5, <1>6, <1>7, OtherTraces
<1>9. DeletedStay
  BY <1>1 DEF DeletedStay
<1>10. Removals'
  <2>1. \A a \in audits' : a \in audits \/
           (a.action = "delete" => Removing(q) /\ a.id = call[q].id)
    BY <1>1, <1>2 DEF Removing
  <2>2. QED
    BY <1>5, <1>9, <2>1, RemovalsStay DEF TraceInv
<1>11. AuditsAreTrue'
  BY <1>1, <1>6, <1>9, TrueStays, TrueEntry DEF TraceInv, e
<1>12. QED
  BY <1>8, <1>10, <1>11 DEF TraceInv

LEMMA NextTrace ==
  ASSUME IInv, TraceInv, [Next]_vars
  PROVE  TraceInv'
<1>1. CASE Next
  <2>1. ASSUME NEW q \in Requests, Arrive(q) PROVE TraceInv'
    BY <2>1, ArriveTrace
  <2>2. ASSUME NEW q \in Requests, Write(q) PROVE TraceInv'
    BY <2>2, CreateTrace, UpdateTrace, SoftDeleteTrace, WriteRefusedTrace DEF Write
  <2>3. ASSUME NEW q \in Requests, Finish(q) PROVE TraceInv'
    BY <2>3, AuditTrace, RereadTrace DEF Finish
  <2>4. ASSUME NEW q \in Requests, DatabaseError(q) PROVE TraceInv'
    BY <2>4, DatabaseErrorTrace
  <2>5. CASE Crash
    BY <2>5, CrashTrace
  <2>6. QED
    BY <1>1, <2>1, <2>2, <2>3, <2>4, <2>5 DEF Next
<1>2. CASE UNCHANGED vars
  <2>1. UNCHANGED <<row, revisions, audits, pc, call, current, reply>>
    BY <1>2 DEF vars
  <2>2. \A r \in Requests : SameMarks(r)
    BY <2>1, MarksOfQuiet
  <2>3. \A r \in Requests : Recorded(r)' <=> Recorded(r)
    BY <2>1 DEF Recorded, Item
  <2>4. \A r \in Requests : Trace(r)'
    BY <2>1, <2>2, <2>3 DEF TraceInv, Trace, SameMarks
  <2>5. Removals' /\ AuditsAreTrue'
    BY <2>1 DEF TraceInv, Removals, Removing, AuditsAreTrue
  <2>6. QED
    BY <2>4, <2>5 DEF TraceInv
<1>3. QED
  BY <1>1, <1>2

LEMMA InitTrace ==
  ASSUME Init
  PROVE  TraceInv
<1>1. /\ audits = {}
      /\ \A r \in Requests : pc[r] = "new" /\ reply[r] = "none"
  BY DEF Init, NoneArrived
<1>2. \A d \in Decisions : \A v \in DOMAIN revisions[d] : revisions[d][v].request = SeedRequest
  <2> SUFFICES ASSUME NEW d \in Decisions, NEW v \in DOMAIN revisions[d]
               PROVE  revisions[d][v].request = SeedRequest
    OBVIOUS
  <2>1. \A status, e, actor : SeedRevision(status, e, actor).request = SeedRequest
    BY DEF SeedRevision
  <2>2. CASE revisions[d] = [w \in {} |-> NoRow]
    BY <2>2
  <2>3. CASE \E e \in Evidence :
               revisions[d] = [w \in {1} |-> SeedRevision(Initial, e, SeedPreparer)]
    BY <2>1, <2>3
  <2>4. CASE \E e \in Evidence, level \in {"observe", "restrict"} :
               revisions[d] = [w \in {1, 2} |->
                 IF w = 1 THEN SeedRevision(Initial, e, SeedPreparer)
                 ELSE SeedRevision(level, e, SeedReviewer)]
    BY <2>1, <2>4
  <2>5. QED
    BY <2>2, <2>3, <2>4, InitSeeds
<1>3. \A r \in Requests : ~WroteRevision(r) /\ ~Audited(r)
  BY <1>1, <1>2, InputsAssumption DEF WroteRevision, Audited
<1>4. \A r \in Requests : Trace(r)
  BY <1>1, <1>3 DEF Trace
<1>5. Removals /\ AuditsAreTrue
  BY <1>1 DEF Removals, Removing, AuditsAreTrue
<1>6. QED
  BY <1>4, <1>5 DEF TraceInv

LEMMA TraceInvariance == Spec => []TraceInv
<1>1. Init => TraceInv
  BY InitTrace
<1>2. IInv /\ TraceInv /\ [Next]_vars => TraceInv'
  BY NextTrace
<1>3. QED
  BY <1>1, <1>2, Invariance, PTL DEF Spec

(* A refusal means that the request left no trace, a success that its      *)
(* effect is committed and, for a review or a deletion, in the audit log,  *)
(* for any requests in any interleaving, with failures and without.        *)
THEOREM HonestAnswers == Spec => []AnswersAreHonest
<1>1. TraceInv => AnswersAreHonest
  BY DEF TraceInv, Trace, AnswersAreHonest
<1>2. QED
  BY <1>1, TraceInvariance, PTL

(* No entry of the audit log is invented: each names a committed revision  *)
(* of its request, or the one deletion of its decision.                    *)
THEOREM TrueAudits == Spec => []AuditsAreTrue
<1>1. TraceInv => AuditsAreTrue
  BY DEF TraceInv
<1>2. QED
  BY <1>1, TraceInvariance, PTL
=============================================================================
