------------------------ MODULE DecisionLedgerProofs ------------------------
(***************************************************************************)
(* When clients only send versions they were shown, the handlers of        *)
(* PriorityDecisions implement DecisionLedger.  The argument is that a     *)
(* conditional update can then only succeed on the row the handler read:   *)
(* the version it names is not above the one read, the row's version never *)
(* falls, and it rises with every change of the row's content.             *)
(***************************************************************************)
EXTENDS PriorityDecisionsProofs, SequenceTheorems

(* A handler about to update, and the row it read.                         *)
Shown(r) ==
  pc[r] = "write" /\ call[r].op \in {"update", "transition"} =>
    /\ call[r].expected <= current[r].version
    /\ current[r].version <= row[call[r].id].version
    /\ Live(row[call[r].id]) /\ row[call[r].id].version = current[r].version =>
         row[call[r].id] = current[r]

EchoInv == IInv /\ ReviewedEvidence /\ \A r \in Requests : Shown(r)

-----------------------------------------------------------------------------
(* The steps, seen from one row and from one handler. *)

(* A row's version never falls, and a live row of the same version is the  *)
(* same row.                                                               *)
LEMMA VersionsRise ==
  ASSUME IInv, [Next]_vars, NEW d \in Decisions, row[d].state # "absent"
  PROVE  /\ row'[d].version >= row[d].version
         /\ Live(row'[d]) /\ row'[d].version = row[d].version => row'[d] = row[d]
<1>1. row[d] \in StoredRows /\ row[d].version \in Nat
  BY StoredRow DEF IInv, TableTypes, StoredRows
<1>2. CASE UNCHANGED <<row, revisions>>
  BY <1>1, <1>2
<1>3. ASSUME NEW q \in Requests, NEW acked \in BOOLEAN, CreateWithRevision(q, acked)
      PROVE  row'[d] = row[d]
  BY <1>3, CreateEffect DEF NoRow, IInv, TableTypes
<1>4. ASSUME NEW q \in Requests, NEW acked \in BOOLEAN, UpdateWithRevision(q, acked)
      PROVE  row'[d] = row[d] \/ row'[d].version = row[d].version + 1
  BY <1>4, UpdateEffect DEF IInv, TableTypes
<1>5. ASSUME NEW q \in Requests, NEW acked \in BOOLEAN, SoftDelete(q, acked)
      PROVE  row'[d] = row[d] \/ (row'[d].version = row[d].version /\ row'[d].state = "deleted")
  BY <1>5, DeleteEffect DEF IInv, TableTypes
<1>6. QED
  BY <1>1, <1>2, <1>3, <1>4, <1>5, TableSteps DEF TableStep, Live

(* A handler at its write was there before, or has just made its checks.   *)
LEMMA WriterSteps ==
  ASSUME IInv, [Next]_vars, NEW r \in Requests, pc'[r] = "write"
  PROVE  \/ pc[r] = "write" /\ call'[r] = call[r] /\ current'[r] = current[r]
         \/ /\ row' = row
            /\ call'[r].op \in {"update", "transition"} =>
                 /\ MaySend(call'[r])
                 /\ current'[r] = row[call'[r].id]
                 /\ Live(current'[r])
<1>1. CASE UNCHANGED vars
  BY <1>1 DEF vars
<1>2. CASE Crash
  BY <1>2 DEF Crash, ProcessDies, InFlight, IInv, LocalTypes
<1>3. ASSUME NEW q \in Requests, q # r,
             Arrive(q) \/ Write(q) \/ Finish(q) \/ DatabaseError(q)
      PROVE  pc'[r] = pc[r] /\ call'[r] = call[r] /\ current'[r] = current[r]
  <2>1. pc \in [Requests -> {"new", "write", "audit", "reread", "done"}] /\ DOMAIN call = Requests
        /\ current \in [Requests -> Rows \cup {NoItem}]
    BY DEF IInv, LocalTypes
  <2>2. CASE \E code : Answer(q, code)
    BY <1>3, <2>1, <2>2 DEF Answer
  <2>3. CASE \E step : Goto(q, step)
    BY <1>3, <2>1, <2>3 DEF Goto
  <2>4. CASE \E c, item, verdict : Handle(q, c, item, verdict)
    BY <1>3, <2>1, <2>4 DEF Handle, Check, Answer
  <2>5. CASE Arrive(q)
    BY <2>4, <2>5 DEF Arrive, Create, Update, Transition, Delete
  <2>6. CASE Write(q)
    BY <2>2, <2>3, <2>6 DEF Write, CreateWithRevision, UpdateWithRevision, SoftDelete, WriteRefused, Committed
  <2>7. CASE Finish(q)
    BY <2>2, <2>3, <2>7 DEF Finish, AppendAudit, AuditFails, Reread
  <2>8. CASE DatabaseError(q)
    BY <2>2, <2>8 DEF DatabaseError, StatementFails
  <2>9. QED
    BY <1>3, <2>5, <2>6, <2>7, <2>8
<1>4. CASE Write(r) \/ Finish(r) \/ DatabaseError(r)
  <2>1. \/ \E code : Answer(r, code)
        \/ \E step \in {"audit", "reread"} : Goto(r, step)
    BY <1>4 DEF Write, CreateWithRevision, UpdateWithRevision, SoftDelete, WriteRefused, Committed,
                Finish, AppendAudit, AuditFails, Reread, DatabaseError, StatementFails
  <2>2. pc'[r] # "write"
    BY <2>1 DEF Answer, Goto, IInv, LocalTypes
  <2>3. QED
    BY <2>2
<1>5. CASE Arrive(r)
  <2>1. ASSUME NEW c, NEW item, NEW verdict, Handle(r, c, item, verdict)
        PROVE  verdict = "pass" /\ call'[r] = c /\ current'[r] = item /\ row' = row
    BY <2>1 DEF Handle, Check, Answer, tables, IInv, LocalTypes
  <2>2. CASE Create(r)
    <3>1. PICK c \in CreateCalls : Handle(r, c, NoItem, CreateVerdict(c))
      BY <2>2 DEF Create
    <3>2. QED
      BY <2>1, <3>1 DEF CreateCalls
  <2>3. CASE Update(r)
    <3>1. PICK c \in UpdateCalls : MaySend(c) /\ Handle(r, c, row[c.id], UpdateVerdict(c, row[c.id]))
      BY <2>3 DEF Update
    <3>2. UpdateVerdict(c, row[c.id]) = "pass" /\ call'[r] = c /\ current'[r] = row[c.id] /\ row' = row
      BY <2>1, <3>1
    <3>3. Live(row[c.id])
      BY <3>2 DEF UpdateVerdict
    <3>4. QED
      BY <3>1, <3>2, <3>3
  <2>4. CASE Transition(r)
    <3>1. PICK c \in TransitionCalls :
            MaySend(c) /\ Handle(r, c, row[c.id], TransitionVerdict(c, row[c.id]))
      BY <2>4 DEF Transition
    <3>2. TransitionVerdict(c, row[c.id]) = "pass" /\ call'[r] = c /\ current'[r] = row[c.id] /\ row' = row
      BY <2>1, <3>1
    <3>3. Live(row[c.id])
      BY <3>2 DEF TransitionVerdict
    <3>4. QED
      BY <3>1, <3>2, <3>3
  <2>5. CASE Delete(r)
    <3>1. PICK c \in DeleteCalls : Handle(r, c, row[c.id], DeleteVerdict(c, row[c.id]))
      BY <2>5 DEF Delete
    <3>2. QED
      BY <2>1, <3>1 DEF DeleteCalls
  <2>6. QED
    BY <1>5, <2>2, <2>3, <2>4, <2>5 DEF Arrive
<1>6. QED
  BY <1>1, <1>2, <1>3, <1>4, <1>5 DEF Next

-----------------------------------------------------------------------------
(* The invariant of echoing clients. *)

LEMMA ShownStep ==
  ASSUME EchoClients, EchoInv, [Next]_vars, NEW r \in Requests
  PROVE  Shown(r)'
<1> SUFFICES ASSUME pc'[r] = "write", call'[r].op \in {"update", "transition"}
             PROVE  LET d == call'[r].id IN
                    /\ call'[r].expected <= current'[r].version
                    /\ current'[r].version <= row'[d].version
                    /\ Live(row'[d]) /\ row'[d].version = current'[r].version => row'[d] = current'[r]
  BY DEF Shown, Live
<1> DEFINE d == call'[r].id
<1>1. CASE pc[r] = "write" /\ call'[r] = call[r] /\ current'[r] = current[r]
  <2>1. InFlight(r) /\ d \in Decisions /\ call[r].expected \in Nat
    BY <1>1, CallFields DEF InFlight, EchoInv, IInv, LocalTypes
  <2>2. row[d].state # "absent"
    BY <1>1, <2>1 DEF EchoInv, IInv, HandlersChecked
  <2>3. /\ row'[d].version >= row[d].version
        /\ Live(row'[d]) /\ row'[d].version = row[d].version => row'[d] = row[d]
    BY <2>1, <2>2, VersionsRise DEF EchoInv
  <2>4. /\ call[r].expected <= current[r].version
        /\ current[r].version <= row[d].version
        /\ Live(row[d]) /\ row[d].version = current[r].version => row[d] = current[r]
    BY <1>1 DEF EchoInv, Shown
  <2>5. row[d].version \in Nat /\ current[r].version \in Nat /\ row'[d].version \in Nat
    <3>1. IInv /\ IInv'
      BY NextIInv DEF EchoInv
    <3>2. row[d] \in Rows /\ current[r] \in Rows /\ row'[d] \in Rows
      <4>1. Live(current[r]) /\ current[r] \in Rows \cup {NoItem}
        BY <1>1, <2>1, <3>1 DEF IInv, HandlersChecked, LocalTypes
      <4>2. QED
        BY <2>1, <3>1, <4>1, StoredRow DEF IInv, TableTypes, Live, Rows
    <3>3. \A item \in Rows : item.version \in Nat
      BY NoRowType DEF Rows, StoredRows
    <3>4. QED
      BY <3>2, <3>3
  <2>6. QED
    BY <1>1, <2>3, <2>4, <2>5
<1>2. CASE row' = row /\ MaySend(call'[r]) /\ current'[r] = row[d] /\ Live(current'[r])
  <2>1. IInv'
    BY NextIInv DEF EchoInv
  <2>2. d \in Decisions
    BY <2>1, CallFields DEF IInv, LocalTypes, InFlight
  <2>3. row[d] \in StoredRows
    BY <1>2, <2>2, StoredRow DEF EchoInv, IInv, TableTypes, Live
  <2>4. QED
    BY <1>2, <2>3 DEF MaySend, StoredRows
<1>3. QED
  BY <1>1, <1>2, WriterSteps DEF EchoInv

(* A conditional update that succeeds finds the row the handler read.      *)
LEMMA AcceptedAsRead ==
  ASSUME EchoInv, NEW q \in Requests, pc[q] = "write",
         call[q].op \in {"update", "transition"}, UpdateAccepted(q)
  PROVE  row[call[q].id] = current[q] /\ row[call[q].id].status = Initial
<1> DEFINE d == call[q].id
<1>1. Live(row[d]) /\ row[d].version = call[q].expected
  BY DEF UpdateAccepted, Matches
<1>2. d \in Decisions /\ InFlight(q)
  BY CallFields DEF EchoInv, IInv, LocalTypes, InFlight
<1>3. row[d].version \in Nat /\ current[q].version \in Nat
  <2>1. row[d] \in Rows /\ current[q] \in Rows
    <3>1. Live(current[q]) /\ current[q] \in Rows \cup {NoItem}
      BY <1>2 DEF EchoInv, IInv, HandlersChecked, LocalTypes
    <3>2. QED
      BY <1>2, <3>1, StoredRow DEF EchoInv, IInv, TableTypes, Live, Rows
  <2>2. QED
    BY <2>1, NoRowType DEF Rows, StoredRows
<1>4. row[d].version = current[q].version
  BY <1>1, <1>3 DEF EchoInv, Shown
<1>5. row[d] = current[q]
  BY <1>1, <1>4 DEF EchoInv, Shown
<1>6. current[q].status = Initial
  BY <1>2 DEF EchoInv, IInv, HandlersChecked
<1>7. QED
  BY <1>5, <1>6

LEMMA NoLevelWhileDraft ==
  ASSUME IInv, ReviewedEvidence, NEW d \in Decisions, row[d].state # "absent",
         row[d].status = Initial, NEW v \in DOMAIN revisions[d]
  PROVE  revisions[d][v].status \notin AllPriorityLevel
<1>1. LastRevision(d).status = Initial
  BY DEF IInv, LedgerMatchesRow
<1>2. QED
  BY <1>1, StatusValues DEF ReviewedEvidence, LastRevision

LEMMA ReviewedEvidenceStep ==
  ASSUME EchoInv, [Next]_vars
  PROVE  ReviewedEvidence'
<1>1. CASE UNCHANGED <<row, revisions>>
  BY <1>1 DEF EchoInv, ReviewedEvidence
<1>2. ASSUME NEW q \in Requests, NEW acked \in BOOLEAN, CreateWithRevision(q, acked)
      PROVE  ReviewedEvidence'
  <2> DEFINE d == call[q].id
             rev == newPriorityRevision(Item(q), call[q].user, q)
  <2>1. /\ d \in Decisions /\ row[d] = NoRow /\ Item(q).version = 1 /\ rev.status = Initial
        /\ row' = [row EXCEPT ![d] = Item(q)]
        /\ revisions' = [revisions EXCEPT ![d] = Insert(@, Item(q).version, rev)]
    BY <1>2, CreateEffect DEF EchoInv
  <2> HIDE DEF d, rev
  <2>2. DOMAIN revisions[d] = {}
    <3>1. DOMAIN revisions[d] = 1 .. 0
      BY <2>1, NoRowType DEF EchoInv, IInv, LedgerMatchesRow
    <3>2. QED
      BY <3>1
  <2>3. revisions'[d] = Insert(revisions[d], 1, rev)
    BY <2>1 DEF EchoInv, IInv, TableTypes
  <2>4. DOMAIN revisions'[d] = {1} /\ revisions'[d][1] = rev
    BY <2>2, <2>3 DEF Insert
  <2>5. \A e \in Decisions : e # d => row'[e] = row[e] /\ revisions'[e] = revisions[e]
    BY <2>1 DEF EchoInv, IInv, TableTypes
  <2>6. QED
    BY <2>1, <2>4, <2>5, StatusValues DEF EchoInv, ReviewedEvidence
<1>3. ASSUME NEW q \in Requests, NEW acked \in BOOLEAN, UpdateWithRevision(q, acked)
      PROVE  ReviewedEvidence'
  <2> DEFINE d == call[q].id
             new == Stored(row[d], Item(q))
             rev == newPriorityRevision(Item(q), call[q].user, q)
  <2>1. /\ d \in Decisions
        /\ row[d].state = "live"
        /\ row[d].version \in Nat \ {0}
        /\ new.version = row[d].version + 1
        /\ new.status = IF call[q].op = "transition" THEN call[q].target ELSE Initial
        /\ new.evidence = IF call[q].op = "transition" THEN current[q].evidence ELSE call[q].evidence
        /\ rev.status = new.status /\ rev.evidence = new.evidence
        /\ row' = [row EXCEPT ![d] = new]
        /\ revisions' = [revisions EXCEPT ![d] = Insert(@, new.version, rev)]
    BY <1>3, UpdateEffect DEF EchoInv, StoredRows
  <2>2. row[d] = current[q] /\ row[d].status = Initial
    BY <1>3, AcceptedAsRead DEF UpdateWithRevision
  <2> HIDE DEF d, new, rev
  <2>3. \A v \in DOMAIN revisions[d] : revisions[d][v].status \notin AllPriorityLevel
    BY <2>1, <2>2, NoLevelWhileDraft DEF EchoInv
  <2>4. /\ DOMAIN revisions[d] = 1 .. row[d].version
        /\ revisions[d][row[d].version].evidence = row[d].evidence
    BY <2>1 DEF EchoInv, IInv, LedgerMatchesRow, LastRevision
  <2>5. revisions'[d] = Insert(revisions[d], new.version, rev)
    BY <2>1 DEF EchoInv, IInv, TableTypes
  <2>6. /\ DOMAIN revisions'[d] = DOMAIN revisions[d] \cup {new.version}
        /\ revisions'[d][new.version] = rev
        /\ \A v \in DOMAIN revisions[d] : v # new.version => revisions'[d][v] = revisions[d][v]
    BY <2>5 DEF Insert
  <2>7. \A e \in Decisions : e # d => row'[e] = row[e] /\ revisions'[e] = revisions[e]
    BY <2>1 DEF EchoInv, IInv, TableTypes
  <2>8. row'[d] = new
    BY <2>1 DEF EchoInv, IInv, TableTypes
  <2>9. rev.status \in AllPriorityLevel => rev.evidence = revisions'[d][new.version - 1].evidence
    <3>1. new.version - 1 = row[d].version /\ row[d].version # new.version
      BY <2>1
    <3>2. row[d].version \in DOMAIN revisions[d]
      BY <2>1, <2>4
    <3>3. rev.status \in AllPriorityLevel => rev.evidence = current[q].evidence
      BY <2>1, StatusValues
    <3>4. QED
      BY <2>2, <2>4, <2>6, <3>1, <3>2, <3>3
  <2>10. ASSUME NEW v \in DOMAIN revisions'[d], revisions'[d][v].status \in AllPriorityLevel
         PROVE  v = new.version
    BY <2>3, <2>6, <2>10
  <2>11. new.version > 1
    BY <2>1
  <2>12. QED
    BY <2>6, <2>7, <2>8, <2>9, <2>10, <2>11 DEF EchoInv, ReviewedEvidence
<1>4. ASSUME NEW q \in Requests, NEW acked \in BOOLEAN, SoftDelete(q, acked)
      PROVE  ReviewedEvidence'
  <2>1. revisions' = revisions /\ \A e \in Decisions : row'[e].version = row[e].version
    BY <1>4, DeleteEffect DEF EchoInv, IInv, TableTypes
  <2>2. QED
    BY <2>1 DEF EchoInv, ReviewedEvidence
<1>5. QED
  BY <1>1, <1>2, <1>3, <1>4, TableSteps DEF TableStep

LEMMA EchoInit == Init => EchoInv
<1> SUFFICES ASSUME Init PROVE EchoInv
  OBVIOUS
<1>1. IInv
  BY InitIInv
<1>2. \A r \in Requests : Shown(r)
  BY DEF Init, NoneArrived, Shown
<1>3. ASSUME NEW d \in Decisions, NEW v \in DOMAIN revisions[d],
             revisions[d][v].status \in AllPriorityLevel
      PROVE  v = row[d].version /\ v > 1 /\ revisions[d][v].evidence = revisions[d][v - 1].evidence
  <2>1. CASE revisions[d] = [w \in {} |-> NoRow]
    BY <1>3, <2>1
  <2>2. CASE \E e \in Evidence : revisions[d] = [w \in {1} |-> SeedRevision(Initial, e, SeedPreparer)]
    BY <1>3, <2>2, StatusValues DEF SeedRevision
  <2>3. ASSUME NEW e \in Evidence, NEW level \in {"observe", "restrict"},
               row[d] = NewRow(level, 2, e, SeedPreparer),
               revisions[d] = [w \in {1, 2} |->
                 IF w = 1 THEN SeedRevision(Initial, e, SeedPreparer)
                 ELSE SeedRevision(level, e, SeedReviewer)]
        PROVE  v = row[d].version /\ v > 1 /\ revisions[d][v].evidence = revisions[d][v - 1].evidence
    <3>1. row[d].version = 2
      BY <2>3 DEF NewRow
    <3>2. revisions[d][1].status = Initial /\ revisions[d][1].evidence = e /\ revisions[d][2].evidence = e
      BY <2>3 DEF SeedRevision
    <3>3. v = 2
      BY <1>3, <2>3, <3>2, StatusValues
    <3>4. QED
      BY <3>1, <3>2, <3>3
  <2>4. QED
    BY <2>1, <2>2, <2>3, InitSeeds
<1>4. QED
  BY <1>1, <1>2, <1>3 DEF EchoInv, ReviewedEvidence

LEMMA EchoInvariance ==
  ASSUME EchoClients
  PROVE  Spec => []EchoInv
<1>1. Init => EchoInv
  BY EchoInit
<1>2. EchoInv /\ [Next]_vars => EchoInv'
  BY NextIInv, ShownStep, ReviewedEvidenceStep DEF EchoInv
<1>3. QED
  BY <1>1, <1>2, PTL DEF Spec

(* The conditional update never succeeds on a row other than the one the   *)
(* handler checked, though the code compares the row's version only with   *)
(* the client's: no update is lost and no stale row is written back.       *)
THEOREM NoStaleWrite ==
  ASSUME EchoClients
  PROVE  Spec => []CommitsWhatWasChecked
<1>1. EchoInv => CommitsWhatWasChecked
  BY AcceptedAsRead DEF CommitsWhatWasChecked, EchoInv
<1>2. QED
  BY <1>1, EchoInvariance, PTL

(* A level is given by the last revision only, on the evidence the         *)
(* preparer left.                                                          *)
THEOREM LevelsRestOnDraft ==
  ASSUME EchoClients
  PROVE  Spec => []ReviewedEvidence
<1>1. EchoInv => ReviewedEvidence
  BY DEF EchoInv
<1>2. QED
  BY <1>1, EchoInvariance, PTL

(* The content of a final decision never changes again.                    *)
THEOREM FinalDecisionsFrozen ==
  ASSUME EchoClients
  PROVE  Spec => FinalContentFrozen
<1>1. ASSUME EchoInv, [Next]_vars, NEW d \in Decisions, row[d].status \in AllPriorityLevel
      PROVE  /\ row'[d].status = row[d].status
             /\ row'[d].evidence = row[d].evidence
             /\ row'[d].version = row[d].version
  <2>1. CASE UNCHANGED <<row, revisions>>
    BY <2>1
  <2>2. ASSUME NEW q \in Requests, NEW acked \in BOOLEAN, CreateWithRevision(q, acked)
        PROVE  row'[d] = row[d]
    <3>1. row[call[q].id] = NoRow /\ row' = [row EXCEPT ![call[q].id] = Item(q)]
      BY <1>1, <2>2, CreateEffect DEF EchoInv
    <3>2. d # call[q].id
      BY <1>1, <3>1, StatusValues DEF NoRow
    <3>3. QED
      BY <1>1, <3>1, <3>2 DEF EchoInv, IInv, TableTypes
  <2>3. ASSUME NEW q \in Requests, NEW acked \in BOOLEAN, UpdateWithRevision(q, acked)
        PROVE  row'[d] = row[d]
    <3>1. row[call[q].id].status = Initial
      BY <1>1, <2>3, AcceptedAsRead DEF UpdateWithRevision
    <3>2. d # call[q].id
      BY <1>1, <3>1, StatusValues
    <3>3. row' = [row EXCEPT ![call[q].id] = Stored(row[call[q].id], Item(q))]
      BY <1>1, <2>3, UpdateEffect DEF EchoInv
    <3>4. QED
      BY <1>1, <3>2, <3>3 DEF EchoInv, IInv, TableTypes
  <2>4. ASSUME NEW q \in Requests, NEW acked \in BOOLEAN, SoftDelete(q, acked)
        PROVE  /\ row'[d].status = row[d].status
               /\ row'[d].evidence = row[d].evidence
               /\ row'[d].version = row[d].version
    BY <1>1, <2>4, DeleteEffect DEF EchoInv, IInv, TableTypes
  <2>5. QED
    BY <1>1, <2>1, <2>2, <2>3, <2>4, TableSteps DEF TableStep
<1>2. EchoInv /\ [Next]_vars =>
        [\A d \in Decisions : row[d].status \in AllPriorityLevel =>
           /\ row'[d].status = row[d].status
           /\ row'[d].evidence = row[d].evidence
           /\ row'[d].version = row[d].version]_vars
  BY <1>1
<1>3. QED
  BY <1>2, EchoInvariance, PTL DEF Spec, FinalContentFrozen

-----------------------------------------------------------------------------
(* The refinement: revisions read as a chain. *)

Entries == [status : Statuses, evidence : Evidence, actor : Users]

EntryOf(revision) ==
  [status |-> revision.status, evidence |-> revision.evidence, actor |-> revision.actor]

ChainShape ==
  \A d \in Decisions :
    /\ Chain[d] \in Seq(Entries)
    /\ Len(Chain[d]) = row[d].version
    /\ \A v \in 1 .. row[d].version : Chain[d][v] = EntryOf(revisions[d][v])

LEMMA ChainHasShape == IInv => ChainShape
<1> SUFFICES ASSUME IInv, NEW d \in Decisions
             PROVE  /\ Chain[d] \in Seq(Entries)
                    /\ Len(Chain[d]) = row[d].version
                    /\ \A v \in 1 .. row[d].version : Chain[d][v] = EntryOf(revisions[d][v])
  BY DEF ChainShape
<1>1. row[d].version \in Nat /\ DOMAIN revisions[d] = 1 .. row[d].version
  <2>1. row[d] \in Rows
    BY DEF IInv, TableTypes
  <2>2. QED
    BY <2>1, NoRowType DEF Rows, StoredRows, IInv, LedgerMatchesRow
<1>2. Chain[d] = [v \in 1 .. row[d].version |-> EntryOf(revisions[d][v])]
  BY <1>1 DEF Chain, EntryOf
<1>3. \A v \in 1 .. row[d].version : EntryOf(revisions[d][v]) \in Entries
  <2>1. revisions[d] \in [1 .. row[d].version -> Revisions]
    BY <1>1 DEF IInv, TableTypes
  <2>2. \A x \in Revisions : EntryOf(x) \in Entries
    BY DEF Revisions, EntryOf, Entries
  <2>3. QED
    BY <2>1, <2>2
<1>4. Chain[d] \in [1 .. row[d].version -> Entries]
  BY <1>2, <1>3
<1>5. Chain[d] \in Seq(Entries) /\ Len(Chain[d]) = row[d].version
  BY <1>1, <1>4
<1>6. QED
  BY <1>2, <1>5

(* A step that adds a revision to d appends its entry to d's chain.        *)
LEMMA ChainGrows ==
  ASSUME ChainShape, ChainShape', NEW d \in Decisions, NEW rev,
         EntryOf(rev) \in Entries,
         row'[d].version = row[d].version + 1,
         row[d].version \in Nat,
         revisions'[d][row[d].version + 1] = rev,
         \A v \in 1 .. row[d].version : revisions'[d][v] = revisions[d][v],
         \A e \in Decisions : e # d => revisions'[e] = revisions[e]
  PROVE  Chain' = [Chain EXCEPT ![d] = Append(@, EntryOf(rev))]
<1> DEFINE n == row[d].version
           old == Chain[d]
           new == Chain'[d]
<1>1. /\ old \in Seq(Entries) /\ Len(old) = n
      /\ new \in Seq(Entries) /\ Len(new) = n + 1
      /\ \A v \in 1 .. n : old[v] = EntryOf(revisions[d][v])
      /\ \A v \in 1 .. n + 1 : new[v] = EntryOf(revisions'[d][v])
  BY DEF ChainShape
<1>2. /\ Append(old, EntryOf(rev)) \in Seq(Entries)
      /\ Len(Append(old, EntryOf(rev))) = n + 1
      /\ \A v \in 1 .. n : Append(old, EntryOf(rev))[v] = old[v]
      /\ Append(old, EntryOf(rev))[n + 1] = EntryOf(rev)
  BY <1>1, AppendProperties
<1>3. \A v \in 1 .. n + 1 : new[v] = Append(old, EntryOf(rev))[v]
  <2>1. \A v \in 1 .. n + 1 : v \in 1 .. n \/ v = n + 1
    OBVIOUS
  <2>2. QED
    BY <1>1, <1>2, <2>1
<1> HIDE DEF n, old, new
<1>4. new = Append(old, EntryOf(rev))
  BY <1>1, <1>2, <1>3, SeqEqual
<1>5. \A e \in Decisions : e # d => Chain'[e] = Chain[e]
  BY DEF Chain
<1>6. /\ Chain = [e \in Decisions |-> Chain[e]]
      /\ Chain' = [e \in Decisions |-> Chain'[e]]
  BY DEF Chain
<1>7. QED
  BY <1>4, <1>5, <1>6 DEF old, new

(* What a chain says of its decision.                                      *)
LEMMA ChainSays ==
  ASSUME IInv, ChainShape, NEW d \in Decisions, row[d].state # "absent"
  PROVE  /\ Chain[d] # <<>>
         /\ Ledger!Latest(d) = EntryOf(LastRevision(d))
         /\ Ledger!Latest(d).status = row[d].status
         /\ Ledger!Latest(d).evidence = row[d].evidence
         /\ Ledger!Preparer(d) = row[d].preparedBy
<1>1. row[d].version \in Nat \ {0}
  BY StoredRow DEF IInv, TableTypes, StoredRows
<1>2. Chain[d] \in Seq(Entries) /\ Len(Chain[d]) = row[d].version
  BY DEF ChainShape
<1>3. Chain[d] # <<>>
  BY <1>1, <1>2, EmptySeq
<1>4. /\ Chain[d][row[d].version] = EntryOf(LastRevision(d))
      /\ Chain[d][1] = EntryOf(revisions[d][1])
  BY <1>1 DEF ChainShape, LastRevision
<1>5. Ledger!Latest(d) = EntryOf(LastRevision(d))
  BY <1>2, <1>4 DEF Ledger!Latest
<1>6. /\ LastRevision(d).status = row[d].status
      /\ LastRevision(d).evidence = row[d].evidence
      /\ revisions[d][1].actor = row[d].preparedBy
  BY DEF IInv, LedgerMatchesRow
<1>7. QED
  BY <1>3, <1>4, <1>5, <1>6 DEF EntryOf, Ledger!Preparer

LEMMA NoChainYet ==
  ASSUME IInv, ChainShape, NEW d \in Decisions, row[d] = NoRow
  PROVE  Chain[d] = <<>>
<1>1. Chain[d] \in Seq(Entries) /\ Len(Chain[d]) = 0
  BY NoRowType DEF ChainShape
<1>2. QED
  BY <1>1, EmptySeq

LEMMA LedgerCreate ==
  ASSUME EchoInv, ChainShape, ChainShape',
         NEW q \in Requests, NEW acked \in BOOLEAN, CreateWithRevision(q, acked)
  PROVE  Ledger!LedgerNext
<1> DEFINE d == call[q].id
           rev == newPriorityRevision(Item(q), call[q].user, q)
<1>1. /\ d \in Decisions /\ call[q].user \in Users
      /\ row[d] = NoRow
      /\ Item(q) \in StoredRows /\ Item(q).version = 1 /\ Item(q).state = "live"
      /\ rev \in Revisions
      /\ rev.status = Initial /\ rev.evidence = Item(q).evidence /\ rev.actor = call[q].user
      /\ row' = [row EXCEPT ![d] = Item(q)]
      /\ revisions' = [revisions EXCEPT ![d] = Insert(@, Item(q).version, rev)]
  BY CreateEffect DEF EchoInv
<1>2. Item(q).evidence \in Evidence
  BY <1>1 DEF StoredRows
<1> HIDE DEF d, rev
<1>3. row[d].version = 0 /\ row[d].state = "absent"
  BY <1>1 DEF NoRow
<1>4. /\ row'[d] = Item(q)
      /\ revisions'[d] = Insert(revisions[d], 1, rev)
      /\ \A e \in Decisions : e # d => row'[e] = row[e] /\ revisions'[e] = revisions[e]
  BY <1>1 DEF EchoInv, IInv, TableTypes
<1>5. revisions'[d][1] = rev
  BY <1>4 DEF Insert
<1>6. EntryOf(rev) \in Entries
  BY <1>1 DEF EntryOf, Entries, Revisions
<1>7. /\ row'[d].version = row[d].version + 1
      /\ revisions'[d][row[d].version + 1] = rev
      /\ \A v \in 1 .. row[d].version : revisions'[d][v] = revisions[d][v]
      /\ row[d].version \in Nat
  BY <1>1, <1>3, <1>4, <1>5
<1>8. Chain' = [Chain EXCEPT ![d] = Append(@, EntryOf(rev))]
  BY <1>1, <1>4, <1>6, <1>7, ChainGrows
<1>9. Chain[d] = <<>>
  BY <1>1, NoChainYet DEF EchoInv
<1>10. Chain' = [Chain EXCEPT ![d] = <<EntryOf(rev)>>]
  <2>1. Append(<<>>, EntryOf(rev)) = <<EntryOf(rev)>>
    OBVIOUS
  <2>2. [Chain EXCEPT ![d] = Append(@, EntryOf(rev))] = [Chain EXCEPT ![d] = Append(Chain[d], EntryOf(rev))]
    OBVIOUS
  <2>3. QED
    BY <1>8, <1>9, <2>1, <2>2
<1>11. EntryOf(rev) = Ledger!Entry(Ledger!PriorityDecisionInitialStatus, Item(q).evidence, call[q].user)
  BY <1>1 DEF EntryOf, Ledger!Entry, Ledger!PriorityDecisionInitialStatus, Initial,
              PriorityDecisionInitialStatus
<1>12. Withdrawn' = Withdrawn
  BY <1>1, <1>3, <1>4 DEF Withdrawn
<1>13. Ledger!Draft(d, call[q].user, Item(q).evidence)
  BY <1>9, <1>10, <1>11, <1>12 DEF Ledger!Draft
<1>14. QED
  BY <1>1, <1>2, <1>13 DEF Ledger!LedgerNext

LEMMA LedgerUpdate ==
  ASSUME EchoInv, ChainShape, ChainShape',
         NEW q \in Requests, NEW acked \in BOOLEAN, UpdateWithRevision(q, acked)
  PROVE  Ledger!LedgerNext
<1> DEFINE d == call[q].id
           u == call[q].user
           new == Stored(row[d], Item(q))
           rev == newPriorityRevision(Item(q), call[q].user, q)
<1>1. /\ d \in Decisions /\ u \in Users
      /\ call[q].op \in {"update", "transition"}
      /\ row[d] \in StoredRows /\ row[d].state = "live"
      /\ new.state = "live"
      /\ new.version = row[d].version + 1
      /\ new.status = IF call[q].op = "transition" THEN call[q].target ELSE Initial
      /\ new.evidence = IF call[q].op = "transition" THEN current[q].evidence ELSE call[q].evidence
      /\ rev \in Revisions
      /\ rev.status = new.status /\ rev.evidence = new.evidence /\ rev.actor = u
      /\ row' = [row EXCEPT ![d] = new]
      /\ revisions' = [revisions EXCEPT ![d] = Insert(@, new.version, rev)]
  BY UpdateEffect DEF EchoInv
<1>2. row[d] = current[q] /\ row[d].status = Initial
  BY AcceptedAsRead DEF UpdateWithRevision
<1>3. /\ InFlight(q)
      /\ call[q].op = "update" => u = row[d].preparedBy \/ Role[u] = "admin"
      /\ call[q].op = "transition" =>
           /\ call[q].target \in AllPriorityLevel
           /\ u # row[d].preparedBy
           /\ Role[u] \in {"reviewer", "admin"}
  BY <1>2 DEF UpdateWithRevision, InFlight, EchoInv, IInv, HandlersChecked, Independent, OwnsDraft
<1>4. rev.evidence \in Evidence
  BY <1>1 DEF Revisions
<1> HIDE DEF d, u, new, rev
<1>5. /\ row'[d] = new
      /\ revisions'[d] = Insert(revisions[d], new.version, rev)
      /\ \A e \in Decisions : e # d => row'[e] = row[e] /\ revisions'[e] = revisions[e]
  BY <1>1 DEF EchoInv, IInv, TableTypes
<1>6. row[d].version \in Nat /\ DOMAIN revisions[d] = 1 .. row[d].version
  BY <1>1 DEF StoredRows, EchoInv, IInv, LedgerMatchesRow
<1>7. /\ revisions'[d][row[d].version + 1] = rev
      /\ \A v \in 1 .. row[d].version : revisions'[d][v] = revisions[d][v]
  BY <1>1, <1>5, <1>6 DEF Insert
<1>8. EntryOf(rev) \in Entries
  BY <1>1 DEF EntryOf, Entries, Revisions
<1>9. Chain' = [Chain EXCEPT ![d] = Append(@, EntryOf(rev))]
  BY <1>1, <1>5, <1>6, <1>7, <1>8, ChainGrows
<1>10. Withdrawn' = Withdrawn
  BY <1>1, <1>5 DEF Withdrawn
<1>11. /\ Chain[d] # <<>>
       /\ Ledger!Latest(d).status = Initial
       /\ Ledger!Latest(d).evidence = row[d].evidence
       /\ Ledger!Preparer(d) = row[d].preparedBy
  BY <1>1, <1>2, ChainSays DEF EchoInv
<1>12. Ledger!Open(d)
  BY <1>1, <1>11 DEF Ledger!Open, Withdrawn, Initial, PriorityDecisionInitialStatus,
                     Ledger!PriorityDecisionInitialStatus
<1>13. CASE call[q].op = "update"
  <2>1. EntryOf(rev) = Ledger!Entry(Ledger!PriorityDecisionInitialStatus, rev.evidence, u)
    BY <1>1, <1>13 DEF EntryOf, Ledger!Entry, Ledger!PriorityDecisionInitialStatus, Initial,
                       PriorityDecisionInitialStatus
  <2>2. Ledger!Amend(d, u, rev.evidence)
    BY <1>3, <1>9, <1>10, <1>11, <1>12, <1>13, <2>1 DEF Ledger!Amend
  <2>3. QED
    BY <1>1, <1>4, <2>2 DEF Ledger!LedgerNext
<1>14. CASE call[q].op = "transition"
  <2>1. EntryOf(rev) = Ledger!Entry(call[q].target, Ledger!Latest(d).evidence, u)
    BY <1>1, <1>2, <1>11, <1>14 DEF EntryOf, Ledger!Entry
  <2>2. call[q].target \in Ledger!AllPriorityLevel
    BY <1>3, <1>14 DEF AllPriorityLevel, Ledger!AllPriorityLevel
  <2>3. Ledger!Finalize(d, u, call[q].target)
    BY <1>3, <1>9, <1>10, <1>11, <1>12, <1>14, <2>1 DEF Ledger!Finalize
  <2>4. QED
    BY <1>1, <2>2, <2>3 DEF Ledger!LedgerNext
<1>15. QED
  BY <1>1, <1>13, <1>14

LEMMA LedgerDelete ==
  ASSUME EchoInv, ChainShape,
         NEW q \in Requests, NEW acked \in BOOLEAN, SoftDelete(q, acked)
  PROVE  Ledger!LedgerNext
<1> DEFINE d == call[q].id
<1>1. /\ d \in Decisions
      /\ row[d].state = "live"
      /\ row' = [row EXCEPT ![d] = SoftDeleted(row[d])]
      /\ SoftDeleted(row[d]).state = "deleted"
      /\ revisions' = revisions
  BY DeleteEffect DEF EchoInv
<1> HIDE DEF d
<1>2. row'[d].state = "deleted" /\ \A e \in Decisions : e # d => row'[e] = row[e]
  BY <1>1 DEF EchoInv, IInv, TableTypes
<1>3. Withdrawn' = Withdrawn \cup {d} /\ d \notin Withdrawn
  BY <1>1, <1>2 DEF Withdrawn
<1>4. Chain' = Chain
  BY <1>1 DEF Chain
<1>5. Chain[d] # <<>>
  BY <1>1, ChainSays DEF EchoInv
<1>6. Ledger!Withdraw(d)
  BY <1>3, <1>4, <1>5 DEF Ledger!Withdraw
<1>7. QED
  BY <1>1, <1>6 DEF Ledger!LedgerNext

LEMMA LedgerStep ==
  ASSUME EchoInv, ChainShape, ChainShape', [Next]_vars
  PROVE  [Ledger!LedgerNext]_(Ledger!ledgerVars)
<1>1. CASE UNCHANGED <<row, revisions>>
  <2>1. Chain' = Chain /\ Withdrawn' = Withdrawn
    BY <1>1 DEF Chain, Withdrawn
  <2>2. QED
    BY <2>1 DEF Ledger!ledgerVars
<1>2. QED
  BY <1>1, TableSteps, LedgerCreate, LedgerUpdate, LedgerDelete DEF TableStep

LEMMA LedgerInitial == Init => Ledger!LedgerInit
<1> SUFFICES ASSUME Init PROVE Ledger!LedgerInit
  OBVIOUS
<1>1. ASSUME NEW d \in Decisions
      PROVE  Chain[d] \in Ledger!SeededChains /\ row[d].state # "deleted"
  <2>1. Chain[d] = [v \in DOMAIN revisions[d] |-> EntryOf(revisions[d][v])]
    BY <1>1 DEF Chain, EntryOf
  <2>2. CASE row[d] = NoRow /\ revisions[d] = [v \in {} |-> NoRow]
    <3>1. Chain[d] = <<>>
      BY <1>1, <2>2, InitIInv, ChainHasShape, NoChainYet
    <3>2. QED
      BY <2>2, <3>1 DEF Ledger!SeededChains, NoRow
  <2>3. ASSUME NEW e \in Evidence,
               row[d] = NewRow(Initial, 1, e, SeedPreparer),
               revisions[d] = [v \in {1} |-> SeedRevision(Initial, e, SeedPreparer)]
        PROVE  Chain[d] \in Ledger!SeededChains /\ row[d].state # "deleted"
    <3>1. EntryOf(SeedRevision(Initial, e, SeedPreparer))
            = Ledger!Entry(Ledger!PriorityDecisionInitialStatus, e, SeedPreparer)
      BY DEF EntryOf, SeedRevision, Ledger!Entry, Initial, PriorityDecisionInitialStatus,
             Ledger!PriorityDecisionInitialStatus
    <3>2. Chain[d] = Ledger!Opened(e)
      BY <2>1, <2>3, <3>1 DEF Ledger!Opened
    <3>3. QED
      BY <2>3, <3>2 DEF Ledger!SeededChains, NewRow
  <2>4. ASSUME NEW e \in Evidence, NEW level \in {"observe", "restrict"},
               row[d] = NewRow(level, 2, e, SeedPreparer),
               revisions[d] = [v \in {1, 2} |->
                 IF v = 1 THEN SeedRevision(Initial, e, SeedPreparer)
                 ELSE SeedRevision(level, e, SeedReviewer)]
        PROVE  Chain[d] \in Ledger!SeededChains /\ row[d].state # "deleted"
    <3>1. /\ EntryOf(SeedRevision(Initial, e, SeedPreparer))
               = Ledger!Entry(Ledger!PriorityDecisionInitialStatus, e, SeedPreparer)
          /\ EntryOf(SeedRevision(level, e, SeedReviewer)) = Ledger!Entry(level, e, SeedReviewer)
      BY DEF EntryOf, SeedRevision, Ledger!Entry, Initial, PriorityDecisionInitialStatus,
             Ledger!PriorityDecisionInitialStatus
    <3>2. Chain[d] = [v \in {1, 2} |->
            IF v = 1 THEN Ledger!Entry(Ledger!PriorityDecisionInitialStatus, e, SeedPreparer)
            ELSE Ledger!Entry(level, e, SeedReviewer)]
      BY <2>1, <2>4, <3>1
    <3>3. Chain[d] = Append(Ledger!Opened(e), Ledger!Entry(level, e, SeedReviewer))
      <4> DEFINE a == Ledger!Entry(Ledger!PriorityDecisionInitialStatus, e, SeedPreparer)
                 b == Ledger!Entry(level, e, SeedReviewer)
      <4> HIDE DEF a, b
      <4>1. [v \in {1, 2} |-> IF v = 1 THEN a ELSE b] = Append(<<a>>, b)
        <5>1. /\ <<a>> \in Seq({a, b}) /\ Len(<<a>>) = 1 /\ <<a>>[1] = a
          OBVIOUS
        <5>2. /\ Append(<<a>>, b) \in Seq({a, b})
              /\ Len(Append(<<a>>, b)) = 2
              /\ Append(<<a>>, b)[1] = a
              /\ Append(<<a>>, b)[2] = b
          BY <5>1, AppendProperties
        <5>3. 1 .. 2 = {1, 2}
          OBVIOUS
        <5>4. [v \in {1, 2} |-> IF v = 1 THEN a ELSE b] \in [1 .. 2 -> {a, b}]
          BY <5>3
        <5>5. /\ [v \in {1, 2} |-> IF v = 1 THEN a ELSE b] \in Seq({a, b})
              /\ Len([v \in {1, 2} |-> IF v = 1 THEN a ELSE b]) = 2
          BY <5>4
        <5>6. QED
          BY <5>2, <5>3, <5>5, SeqEqual
      <4>2. QED
        BY <3>2, <4>1 DEF a, b, Ledger!Opened
    <3>4. level \in Ledger!AllPriorityLevel
      BY DEF Ledger!AllPriorityLevel
    <3>5. QED
      BY <2>4, <3>3, <3>4 DEF Ledger!SeededChains, NewRow
  <2>5. QED
    BY <2>2, <2>3, <2>4, InitSeeds
<1>2. Chain \in [Decisions -> Ledger!SeededChains]
  BY <1>1 DEF Chain
<1>3. Withdrawn = {}
  BY <1>1 DEF Withdrawn
<1>4. QED
  BY <1>2, <1>3 DEF Ledger!LedgerInit

(* The handlers implement the ledger: whatever the interleaving, the       *)
(* races, the lost acknowledgements and the crashes, an observer of the    *)
(* tables sees drafts amended by their preparer or an administrator, one   *)
(* independent review, withdrawals, and nothing else.                      *)
THEOREM ImplementsLedger ==
  ASSUME EchoClients
  PROVE  Spec => LedgerSpec
<1>1. Init => Ledger!LedgerInit
  BY LedgerInitial
<1>2. EchoInv /\ ChainShape /\ ChainShape' /\ [Next]_vars => [Ledger!LedgerNext]_(Ledger!ledgerVars)
  BY LedgerStep
<1>3. EchoInv => ChainShape
  BY ChainHasShape DEF EchoInv
<1>4. QED
  BY <1>1, <1>2, <1>3, EchoInvariance, PTL DEF Spec, LedgerSpec, Ledger!LedgerSpec
=============================================================================
