------------------------- MODULE AtomicRecordsProofs ------------------------
(***************************************************************************)
(* When clients only send versions they were shown, the handlers of        *)
(* DomainRecords implement AtomicRecords: the version a request names is   *)
(* not above the one its handler read, the row's is not below it, so a     *)
(* conditional update that succeeds finds the version the handler read,    *)
(* and with it the content (HandlersChecked).  For the same reason the     *)
(* audit entry of a change names the status the row had, and the entries   *)
(* account for where every record is.                                      *)
(***************************************************************************)
EXTENDS DomainRecordsProofs, FiniteSetTheorems

(* A handler of an echoing client, about to update.                        *)
Shown ==
  \A r \in Requests :
    pc[r] = "write" /\ call[r].op \in {"update", "transition"} =>
      call[r].expected <= current[r].version

EchoInv == IInv /\ Shown

-----------------------------------------------------------------------------
(* A handler at its write was there before, or has just made its checks.   *)

LEMMA WriterSteps ==
  ASSUME IInv, [Next]_vars, NEW r \in Requests, pc'[r] = "write"
  PROVE  \/ pc[r] = "write" /\ call'[r] = call[r] /\ current'[r] = current[r]
         \/ call'[r].op \in {"update", "transition"} =>
              /\ MaySend(call'[r])
              /\ current'[r] = row[call'[r].id]
              /\ Live(current'[r])
<1>1. CASE UNCHANGED vars
  BY <1>1 DEF vars
<1>2. CASE Crash
  BY <1>2 DEF Crash, ProcessDies, InFlight, IInv, LocalTypes
<1>3. ASSUME NEW q \in Requests, q # r,
             Arrive(q) \/ Write(q) \/ Finish(q) \/ DatabaseError(q)
      PROVE  pc'[r] = pc[r] /\ call'[r] = call[r] /\ current'[r] = current[r]
  <2>1. /\ pc \in [Requests -> {"new", "write", "audit", "reread", "done"}]
        /\ DOMAIN call = Requests
        /\ current \in [Requests -> Rows \cup {NoItem}]
    BY DEF IInv, LocalTypes
  <2>2. CASE \E code : Answer(q, code)
    BY <1>3, <2>1, <2>2 DEF Answer
  <2>3. CASE \E step : Goto(q, step)
    BY <1>3, <2>1, <2>3 DEF Goto
  <2>4. CASE \E c, item, verdict : Handle(q, c, item, verdict)
    BY <1>3, <2>1, <2>4 DEF Handle, Check, Answer
  <2>5. CASE Arrive(q)
    BY <2>4, <2>5 DEF Arrive, Create, Update, Transition, Delete
  <2>6. CASE Write(q)
    BY <2>2, <2>3, <2>6 DEF Write, InsertRow, UpdateRow, DeleteRow, WriteRefused, Committed
  <2>7. CASE Finish(q)
    BY <2>2, <2>3, <2>7 DEF Finish, AppendAudit, AuditFails, AfterAudit, Reread
  <2>8. CASE DatabaseError(q)
    BY <2>2, <2>8 DEF DatabaseError, StatementFails
  <2>9. QED
    BY <1>3, <2>5, <2>6, <2>7, <2>8
<1>4. CASE Write(r) \/ Finish(r) \/ DatabaseError(r)
  <2>1. \/ \E code : Answer(r, code)
        \/ \E step \in {"audit", "reread"} : Goto(r, step)
    BY <1>4 DEF Write, InsertRow, UpdateRow, DeleteRow, WriteRefused, Committed,
                Finish, AppendAudit, AuditFails, AfterAudit, Reread, DatabaseError, StatementFails
  <2>2. pc'[r] # "write"
    BY <2>1 DEF Answer, Goto, IInv, LocalTypes
  <2>3. QED
    BY <2>2
<1>5. CASE Arrive(r)
  <2>1. ASSUME NEW c, NEW item, NEW verdict, Handle(r, c, item, verdict)
        PROVE  verdict = "pass" /\ call'[r] = c /\ current'[r] = item
    BY <2>1 DEF Handle, Check, Answer, IInv, LocalTypes
  <2>2. CASE Create(r)
    <3>1. PICK c \in CreateCalls : Handle(r, c, NoItem, CreateVerdict(c))
      BY <2>2 DEF Create
    <3>2. QED
      BY <2>1, <3>1 DEF CreateCalls
  <2>3. CASE Update(r)
    <3>1. PICK c \in UpdateCalls : MaySend(c) /\ Handle(r, c, row[c.id], UpdateVerdict(c, row[c.id]))
      BY <2>3 DEF Update
    <3>2. UpdateVerdict(c, row[c.id]) = "pass" /\ call'[r] = c /\ current'[r] = row[c.id]
      BY <2>1, <3>1
    <3>3. Live(row[c.id])
      BY <3>2 DEF UpdateVerdict
    <3>4. QED
      BY <3>1, <3>2, <3>3
  <2>4. CASE Transition(r)
    <3>1. PICK c \in TransitionCalls :
            MaySend(c) /\ Handle(r, c, row[c.id], TransitionVerdict(c, row[c.id]))
      BY <2>4 DEF Transition
    <3>2. TransitionVerdict(c, row[c.id]) = "pass" /\ call'[r] = c /\ current'[r] = row[c.id]
      BY <2>1, <3>1
    <3>3. Live(row[c.id])
      BY <3>2 DEF TransitionVerdict
    <3>4. QED
      BY <3>1, <3>2, <3>3
  <2>5. CASE Delete(r)
    <3>1. PICK c \in DeleteCalls : Handle(r, c, row[c.id], DeleteVerdict(c, row[c.id]))
      BY <2>5 DEF Delete
    <3>2. QED
      BY <2>1, <3>1 DEF DeleteCalls
  <2>6. QED
    BY <1>5, <2>2, <2>3, <2>4, <2>5 DEF Arrive
<1>6. QED
  BY <1>1, <1>2, <1>3, <1>4, <1>5 DEF Next

LEMMA NextEchoInv ==
  ASSUME EchoClients, EchoInv, [Next]_vars
  PROVE  EchoInv'
<1>1. ASSUME NEW r \in Requests, pc'[r] = "write", call'[r].op \in {"update", "transition"}
      PROVE  call'[r].expected <= current'[r].version
  <2>1. CASE pc[r] = "write" /\ call'[r] = call[r] /\ current'[r] = current[r]
    BY <1>1, <2>1 DEF EchoInv, Shown
  <2>2. CASE MaySend(call'[r]) /\ current'[r] = row[call'[r].id] /\ Live(current'[r])
    BY <2>2 DEF MaySend
  <2>3. QED
    BY <1>1, <2>1, <2>2, WriterSteps DEF EchoInv
<1>2. IInv'
  BY NextIInv DEF EchoInv
<1>3. QED
  BY <1>1, <1>2 DEF EchoInv, Shown

LEMMA EchoInvariance ==
  ASSUME EchoClients
  PROVE  Spec => []EchoInv
<1>1. Init => EchoInv
  <2>1. Init => Shown
    BY DEF Init, NoneArrived, Shown
  <2>2. QED
    BY <2>1, InitIInv DEF EchoInv
<1>2. EchoInv /\ [Next]_vars => EchoInv'
  BY NextEchoInv
<1>3. QED
  BY <1>1, <1>2, PTL DEF Spec

(* A conditional update that succeeds finds the row the handler read.      *)
LEMMA AcceptedAsRead ==
  ASSUME EchoInv, NEW q \in Requests, NEW acked \in BOOLEAN, UpdateRow(q, acked)
  PROVE  row[call[q].id] = current[q]
<1> DEFINE d == call[q].id
<1>1. /\ InFlight(q)
      /\ call[q].op \in {"update", "transition"}
      /\ call[q].expected <= current[q].version
  BY DEF UpdateRow, InFlight, EchoInv, Shown
<1>2. /\ current[q].version <= row[d].version
      /\ Live(row[d]) /\ row[d].version = current[q].version => row[d] = current[q]
  BY <1>1 DEF EchoInv, IInv, HandlersChecked
<1>3. Live(row[d]) /\ row[d].version = call[q].expected
  BY DEF UpdateRow, Matches
<1>4. d \in Records /\ current[q].version \in Nat
  BY <1>1, Locals DEF EchoInv, StoredRows
<1>5. row[d].version \in Nat
  BY <1>4, RowVersion DEF EchoInv, IInv, TableTypes
<1>6. row[d].version = current[q].version
  BY <1>1, <1>2, <1>3, <1>4, <1>5
<1>7. QED
  BY <1>2, <1>3, <1>6

-----------------------------------------------------------------------------
(* Every step of the handlers is a step of the abstract records. *)

LEMMA SameTables ==
  /\ Atomic!RecordTransitions = RecordTransitions
  /\ Atomic!RecordInitialStatus = RecordInitialStatus
  /\ Atomic!Kinds = Kinds
  /\ \A graph, from, to : Atomic!CanTransition(graph, from, to) <=> CanTransition(graph, from, to)
  BY DEF Atomic!RecordTransitions, Atomic!BridgeAssetTransitions, Atomic!InspectionRoundTransitions,
         Atomic!DefectFindingTransitions, Atomic!RecordInitialStatus, Atomic!Kinds,
         Atomic!CanTransition, RecordTransitions, BridgeAssetTransitions,
         InspectionRoundTransitions, DefectFindingTransitions, RecordInitialStatus, Kinds,
         CanTransition

LEMMA CellKnown ==
  ASSUME NEW item \in StoredRows
  PROVE  /\ CellOf(item) = Atomic!Record(item.status, item.fields, item.version)
         /\ CellOf(item) # Atomic!None
         /\ CellOf(item).status = item.status
         /\ CellOf(item).fields = item.fields
         /\ CellOf(item).version = item.version
<1>1. item.state # "absent" /\ item.version # 0
  BY DEF StoredRows
<1>2. QED
  BY <1>1 DEF CellOf, Atomic!Record, Atomic!None

(* A write of one row is a write of one cell.                              *)
LEMMA CellWrite ==
  ASSUME IInv, NEW d \in Records, NEW new, row' = [row EXCEPT ![d] = new]
  PROVE  /\ Cell' = [Cell EXCEPT ![d] = CellOf(new)]
         /\ Cell[d] = CellOf(row[d])
         /\ Removed' = IF new.state = "deleted" THEN Removed \cup {d} ELSE Removed \ {d}
<1>1. row'[d] = new /\ \A e \in Records : e # d => row'[e] = row[e]
  BY DEF IInv, TableTypes
<1>2. Cell' = [e \in Records |-> CellOf(row'[e])]
  BY DEF Cell, CellOf
<1>3. Cell' = [Cell EXCEPT ![d] = CellOf(new)]
  <2>1. Cell = [e \in Records |-> CellOf(row[e])]
    BY DEF Cell
  <2>2. \A e \in Records : CellOf(row'[e]) = IF e = d THEN CellOf(new) ELSE CellOf(row[e])
    BY <1>1
  <2>3. QED
    BY <1>2, <2>1, <2>2
<1>4. Removed' = IF new.state = "deleted" THEN Removed \cup {d} ELSE Removed \ {d}
  <2>1. Removed' = {e \in Records : row'[e].state = "deleted"}
    BY DEF Removed
  <2>2. CASE new.state = "deleted"
    BY <1>1, <2>1, <2>2 DEF Removed
  <2>3. CASE new.state # "deleted"
    BY <1>1, <2>1, <2>3 DEF Removed
  <2>4. QED
    BY <2>2, <2>3
<1>5. QED
  BY <1>3, <1>4 DEF Cell

LEMMA AtomicInsert ==
  ASSUME EchoInv, NEW q \in Requests, NEW acked \in BOOLEAN, InsertRow(q, acked)
  PROVE  Atomic!RecordsNext
<1> DEFINE d == call[q].id
           new == Item(q)
<1>1. /\ d \in Records /\ row[d] = NoRow
      /\ new \in StoredRows /\ new.state = "live"
      /\ new.status = RecordInitialStatus[kind]
      /\ new.fields \in Fields /\ new.version = 1
      /\ row' = [row EXCEPT ![d] = new] /\ kind' = kind
  BY InsertEffect DEF EchoInv
<1> HIDE DEF d, new
<1>2. /\ Cell' = [Cell EXCEPT ![d] = CellOf(new)]
      /\ Cell[d] = CellOf(NoRow)
      /\ Removed' = Removed
  <2>1. d \notin Removed
    BY <1>1 DEF Removed, NoRow
  <2>2. Removed \ {d} = Removed
    BY <2>1
  <2>3. IInv /\ new.state # "deleted"
    BY <1>1 DEF EchoInv
  <2>4. /\ Cell' = [Cell EXCEPT ![d] = CellOf(new)]
        /\ Cell[d] = CellOf(row[d])
        /\ Removed' = Removed \ {d}
    BY <1>1, <2>3, CellWrite
  <2>5. QED
    BY <1>1, <2>2, <2>4
<1>3. CellOf(NoRow) = Atomic!None
  BY DEF CellOf, NoRow, Atomic!None
<1>4. CellOf(new) = Atomic!Record(Atomic!RecordInitialStatus[kind], new.fields, 1)
  BY <1>1, CellKnown, SameTables
<1>5. Atomic!Insert(d, new.fields)
  BY <1>1, <1>2, <1>3, <1>4 DEF Atomic!Insert
<1>6. QED
  BY <1>1, <1>5 DEF Atomic!RecordsNext

LEMMA AtomicUpdate ==
  ASSUME EchoInv, NEW q \in Requests, NEW acked \in BOOLEAN, UpdateRow(q, acked)
  PROVE  Atomic!RecordsNext
<1> DEFINE d == call[q].id
           old == row[d]
           new == Stored(row[d], Item(q))
<1>1. /\ d \in Records
      /\ old \in StoredRows /\ old.state = "live"
      /\ new \in StoredRows /\ new.state = "live"
      /\ new.version = old.version + 1
      /\ new.status = IF call[q].op = "transition" THEN call[q].target ELSE current[q].status
      /\ new.fields = IF call[q].op = "transition" THEN current[q].fields ELSE call[q].fields
      /\ row' = [row EXCEPT ![d] = new] /\ kind' = kind
  BY UpdateEffect DEF EchoInv
<1>2. old = current[q]
  BY AcceptedAsRead
<1>3. InFlight(q) /\ call[q].op \in {"update", "transition"}
  BY DEF UpdateRow, InFlight
<1>4. call[q].op = "transition" => CanTransition(RecordTransitions[kind], old.status, call[q].target)
  BY <1>2, <1>3 DEF EchoInv, IInv, HandlersChecked
<1> HIDE DEF d, old, new
<1>5. /\ Cell' = [Cell EXCEPT ![d] = CellOf(new)]
      /\ Cell[d] = CellOf(old)
      /\ Removed' = Removed /\ d \notin Removed
  BY <1>1, CellWrite DEF EchoInv, Removed, old
<1>6. /\ Cell[d] # Atomic!None
      /\ Cell[d].status = old.status /\ Cell[d].fields = old.fields
      /\ Cell[d].version = old.version
      /\ CellOf(new) = Atomic!Record(new.status, new.fields, old.version + 1)
  BY <1>1, <1>5, CellKnown
<1>7. Atomic!InUse(d)
  BY <1>5, <1>6 DEF Atomic!InUse
<1>8. CASE call[q].op = "update"
  <2>1. new.fields \in Fields
    BY <1>1 DEF StoredRows
  <2>2. CellOf(new) = Atomic!Record(Cell[d].status, new.fields, Cell[d].version + 1)
    BY <1>1, <1>2, <1>6, <1>8
  <2>3. Atomic!Edit(d, new.fields)
    BY <1>1, <1>5, <1>7, <2>2 DEF Atomic!Edit, Cell
  <2>4. QED
    BY <1>1, <2>1, <2>3 DEF Atomic!RecordsNext
<1>9. CASE call[q].op = "transition"
  <2>1. call[q].target \in DOMAIN Atomic!RecordTransitions[kind]
    BY <1>4, <1>9, EdgesStay, SameTables DEF EchoInv, IInv, TableTypes
  <2>2. CellOf(new) = Atomic!Record(call[q].target, Cell[d].fields, Cell[d].version + 1)
    BY <1>1, <1>2, <1>6, <1>9
  <2>3. Atomic!CanTransition(Atomic!RecordTransitions[kind], Cell[d].status, call[q].target)
    BY <1>4, <1>6, <1>9, SameTables
  <2>4. Atomic!Move(d, call[q].target)
    BY <1>1, <1>5, <1>7, <2>2, <2>3 DEF Atomic!Move, Cell
  <2>5. QED
    BY <1>1, <2>1, <2>4 DEF Atomic!RecordsNext
<1>10. QED
  BY <1>3, <1>8, <1>9

LEMMA AtomicDelete ==
  ASSUME EchoInv, NEW q \in Requests, NEW acked \in BOOLEAN, DeleteRow(q, acked)
  PROVE  Atomic!RecordsNext
<1> DEFINE d == call[q].id
           old == row[d]
           new == SoftDeleted(row[d])
<1>1. /\ d \in Records
      /\ old \in StoredRows /\ old.state = "live"
      /\ new \in StoredRows /\ new.state = "deleted"
      /\ new.version = old.version /\ new.status = old.status /\ new.fields = old.fields
      /\ row' = [row EXCEPT ![d] = new] /\ kind' = kind
  BY DeleteEffect DEF EchoInv
<1> HIDE DEF old, new, d
<1>2. /\ Cell' = [Cell EXCEPT ![d] = CellOf(new)]
      /\ Cell[d] = CellOf(old)
      /\ Removed' = Removed \cup {d} /\ d \notin Removed
  BY <1>1, CellWrite DEF EchoInv, Removed, old
<1>3. CellOf(new) = CellOf(old) /\ CellOf(old) # Atomic!None
  BY <1>1, CellKnown
<1>4. Cell' = Cell
  BY <1>2, <1>3 DEF Cell
<1>5. Atomic!Remove(d)
  BY <1>1, <1>2, <1>3, <1>4 DEF Atomic!Remove, Atomic!InUse
<1>6. QED
  BY <1>1, <1>5 DEF Atomic!RecordsNext

(* The steps that are not writes leave the table alone.                    *)
LEMMA AtomicStep ==
  ASSUME EchoInv, [Next]_vars
  PROVE  [Atomic!RecordsNext]_(Atomic!recordVars)
<1>1. CASE UNCHANGED <<kind, row>>
  <2>1. Cell' = Cell /\ Removed' = Removed
    BY <1>1 DEF Cell, CellOf, Removed
  <2>2. QED
    BY <1>1, <2>1 DEF Atomic!recordVars
<1>2. CASE UNCHANGED vars
  BY <1>1, <1>2 DEF vars
<1>3. CASE Crash
  BY <1>1, <1>3 DEF Crash, tables
<1>4. ASSUME NEW q \in Requests, Arrive(q) \/ Finish(q) \/ DatabaseError(q) \/ WriteRefused(q)
      PROVE  UNCHANGED <<kind, row>>
  BY <1>4 DEF Arrive, Create, Update, Transition, Delete, Handle, Finish, AppendAudit,
              AuditFails, Reread, DatabaseError, WriteRefused, tables
<1>5. ASSUME NEW q \in Requests, Write(q)
      PROVE  UNCHANGED <<kind, row>> \/ Atomic!RecordsNext
  BY <1>4, <1>5, AtomicInsert, AtomicUpdate, AtomicDelete DEF Write
<1>6. QED
  BY <1>1, <1>2, <1>3, <1>4, <1>5 DEF Next

LEMMA AtomicInitial == Init => Atomic!RecordsInit
<1> SUFFICES ASSUME Init PROVE Atomic!RecordsInit
  OBVIOUS
<1>1. kind \in Kinds /\ row \in [Records -> Seeds(kind)]
  BY DEF Init
<1>2. ASSUME NEW d \in Records
      PROVE  /\ row[d].state # "deleted"
             /\ CellOf(row[d]) \in {Atomic!None} \cup
                  {Atomic!Record(s, f, 1) : s \in DOMAIN Atomic!RecordTransitions[kind], f \in Fields}
  <2>1. row[d] \in Seeds(kind)
    BY <1>1, <1>2
  <2>2. CASE row[d] = NoRow
    BY <2>2 DEF CellOf, NoRow, Atomic!None
  <2>3. ASSUME NEW s \in SeedStatuses[kind], NEW f \in Fields, row[d] = NewRow(s, f)
        PROVE  /\ row[d].state # "deleted"
               /\ CellOf(row[d]) = Atomic!Record(s, f, 1)
               /\ s \in DOMAIN Atomic!RecordTransitions[kind]
    BY <1>1, <2>3, FirstStatuses, SameTables DEF NewRow, CellOf, Atomic!Record
  <2>4. QED
    BY <2>1, <2>2, <2>3 DEF Seeds
<1>3. Removed = {}
  BY <1>2 DEF Removed
<1>4. QED
  BY <1>1, <1>2, <1>3, SameTables DEF Atomic!RecordsInit, Cell

(* Whatever the interleaving of the handlers, an observer of the table     *)
(* sees records inserted, edited, moved along the edges of their graph and *)
(* removed, one at a time and each on its present value.                   *)
THEOREM ImplementsAtomicRecords ==
  ASSUME EchoClients
  PROVE  Spec => RecordsSpec
<1>1. EchoInv /\ [Next]_vars => [Atomic!RecordsNext]_(Atomic!recordVars)
  BY AtomicStep
<1>2. QED
  BY <1>1, AtomicInitial, EchoInvariance, PTL DEF Spec, RecordsSpec, Atomic!RecordsSpec

-----------------------------------------------------------------------------
(* The trail of entries.  A handler writes its row first and its entry     *)
(* later, so what is kept in step with the rows is the entries written     *)
(* together with those their handlers are about to write.                  *)

Owed == {AuditEntry(r) : r \in {q \in Requests : pc[q] = "audit"}}

Trail == audits \cup Owed

(* Where a walk may start: in a status, or in none before a creation.      *)
Nowhere == ""
Ends == Statuses \cup {Nowhere}

(* Entries of a set that say a record came to a status, or left it.        *)
To(T, d, s) == {a \in T : a.id = d /\ a.action # "delete" /\ a.after = s}
From(T, d, s) == {a \in T : a.id = d /\ a.action # "delete" /\ a.before = s}

Balanced(T, d, start, end) ==
  \A s \in Ends :
    Cardinality(To(T, d, s)) + At(s, start) = Cardinality(From(T, d, s)) + At(s, end)

Leads(T, d, end) == \E start \in Ends : Balanced(T, d, start, end)

Unfailed == \A r \in Requests : reply[r] \notin {"error", "cut"}

Unanswered == \A r \in Requests : pc[r] # "done" => reply[r] = "none"

(* An entry is that of a handler that is past writing it.                  *)
Filed == \A a \in audits : pc[a.request] \in {"reread", "done"}

(* The entries, written and owed, lead to where every record is.           *)
Accounted ==
  /\ IsFiniteSet(Trail)
  /\ \A d \in Records :
       IF row[d].state = "absent" THEN \A a \in Trail : a.id # d
       ELSE Leads(Trail, d, row[d].status)

TrailInv == EchoInv /\ Unanswered /\ Filed /\ (Unfailed => Accounted)

-----------------------------------------------------------------------------
(* Counting entries. *)

LEMMA EndsAre ==
  ASSUME kind \in Kinds
  PROVE  /\ Nowhere \notin Statuses /\ Nowhere \in Ends
         /\ \A s \in Statuses : s \in Ends
<1>1. CASE kind = "bridge"
  BY <1>1 DEF Statuses, Nowhere, Ends, RecordTransitions, BridgeAssetTransitions
<1>2. CASE kind = "inspection"
  BY <1>2 DEF Statuses, Nowhere, Ends, RecordTransitions, InspectionRoundTransitions
<1>3. CASE kind = "defect"
  BY <1>3 DEF Statuses, Nowhere, Ends, RecordTransitions, DefectFindingTransitions
<1>4. QED
  BY <1>1, <1>2, <1>3 DEF Kinds

LEMMA NotDeleted == Nowhere # "deleted"
  BY DEF Nowhere

LEMMA Counts ==
  ASSUME NEW T, IsFiniteSet(T), NEW d, NEW s
  PROVE  /\ IsFiniteSet(To(T, d, s)) /\ Cardinality(To(T, d, s)) \in Nat
         /\ IsFiniteSet(From(T, d, s)) /\ Cardinality(From(T, d, s)) \in Nat
<1>1. To(T, d, s) \in SUBSET T /\ From(T, d, s) \in SUBSET T
  BY DEF To, From
<1>2. IsFiniteSet(To(T, d, s)) /\ IsFiniteSet(From(T, d, s))
  BY <1>1, FS_Subset
<1>3. QED
  BY <1>2, FS_CardinalityType

(* One more entry counts where it says it counts.                          *)
LEMMA OneMore ==
  ASSUME NEW T, IsFiniteSet(T), NEW e, e \notin T, NEW d, NEW s
  PROVE  /\ Cardinality(To(T \cup {e}, d, s)) =
              IF e.id = d /\ e.action # "delete" /\ e.after = s
              THEN Cardinality(To(T, d, s)) + 1 ELSE Cardinality(To(T, d, s))
         /\ Cardinality(From(T \cup {e}, d, s)) =
              IF e.id = d /\ e.action # "delete" /\ e.before = s
              THEN Cardinality(From(T, d, s)) + 1 ELSE Cardinality(From(T, d, s))
<1>1. e \notin To(T, d, s) /\ e \notin From(T, d, s)
  BY DEF To, From
<1>2. /\ Cardinality(To(T, d, s) \cup {e}) = Cardinality(To(T, d, s)) + 1
      /\ Cardinality(From(T, d, s) \cup {e}) = Cardinality(From(T, d, s)) + 1
  BY <1>1, Counts, FS_AddElement
<1>3. To(T \cup {e}, d, s) =
        IF e.id = d /\ e.action # "delete" /\ e.after = s THEN To(T, d, s) \cup {e} ELSE To(T, d, s)
  BY DEF To
<1>4. From(T \cup {e}, d, s) =
        IF e.id = d /\ e.action # "delete" /\ e.before = s THEN From(T, d, s) \cup {e} ELSE From(T, d, s)
  BY DEF From
<1>5. QED
  BY <1>2, <1>3, <1>4

LEMMA AtType ==
  ASSUME NEW s, NEW status
  PROVE  /\ At(s, status) \in Nat
         /\ s = status => At(s, status) = 1
         /\ s # status => At(s, status) = 0
  BY DEF At

(* The balance of a status, as the numbers of an entry's ends change it.   *)
LEMMA Balance ==
  ASSUME NEW T, IsFiniteSet(T), NEW e, e \notin T, e.action # "delete", NEW s
  PROVE  /\ Cardinality(To(T \cup {e}, e.id, s)) =
              Cardinality(To(T, e.id, s)) + At(s, e.after)
         /\ Cardinality(From(T \cup {e}, e.id, s)) =
              Cardinality(From(T, e.id, s)) + At(s, e.before)
         /\ Cardinality(To(T, e.id, s)) \in Nat
         /\ Cardinality(From(T, e.id, s)) \in Nat
<1>1. /\ Cardinality(To(T, e.id, s)) \in Nat /\ Cardinality(From(T, e.id, s)) \in Nat
  BY Counts
<1>2. Cardinality(To(T \cup {e}, e.id, s)) = Cardinality(To(T, e.id, s)) + At(s, e.after)
  <2>1. CASE e.after = s
    BY <1>1, <2>1, OneMore, AtType
  <2>2. CASE e.after # s
    BY <1>1, <2>2, OneMore, AtType
  <2>3. QED
    BY <2>1, <2>2
<1>3. Cardinality(From(T \cup {e}, e.id, s)) = Cardinality(From(T, e.id, s)) + At(s, e.before)
  <2>1. Cardinality(From(T \cup {e}, e.id, s)) =
          IF e.before = s THEN Cardinality(From(T, e.id, s)) + 1 ELSE Cardinality(From(T, e.id, s))
    BY OneMore
  <2>2. CASE e.before = s
    BY <1>1, <2>1, <2>2, AtType
  <2>3. CASE e.before # s
    BY <1>1, <2>1, <2>3, AtType
  <2>4. QED
    BY <2>2, <2>3
<1>4. QED
  BY <1>1, <1>2, <1>3

(* An entry that leaves where the walk ended takes it on to where it came. *)
LEMMA WalkGoesOn ==
  ASSUME NEW T, IsFiniteSet(T), NEW e, e \notin T, NEW end, Leads(T, e.id, end),
         e.action # "delete", e.before = end
  PROVE  Leads(T \cup {e}, e.id, e.after)
<1>1. PICK start \in Ends : Balanced(T, e.id, start, end)
  BY DEF Leads
<1>2. ASSUME NEW s \in Ends
      PROVE  Cardinality(To(T \cup {e}, e.id, s)) + At(s, start) =
               Cardinality(From(T \cup {e}, e.id, s)) + At(s, e.after)
  <2> DEFINE into == Cardinality(To(T, e.id, s))
             outof == Cardinality(From(T, e.id, s))
             more == Cardinality(To(T \cup {e}, e.id, s))
             moreout == Cardinality(From(T \cup {e}, e.id, s))
             b == At(s, start)
             c == At(s, end)
             a == At(s, e.after)
  <2>1. into + b = outof + c
    BY <1>1 DEF Balanced
  <2>2. into \in Nat /\ outof \in Nat /\ more = into + a /\ moreout = outof + c
    BY Balance
  <2>3. a \in Nat /\ b \in Nat /\ c \in Nat
    BY AtType
  <2> HIDE DEF into, outof, more, moreout, a, b, c
  <2>4. more + b = moreout + a
    BY <2>1, <2>2, <2>3
  <2>5. QED
    BY <2>4 DEF more, moreout, a, b
<1>3. Balanced(T \cup {e}, e.id, start, e.after)
  BY <1>2 DEF Balanced
<1>4. QED
  BY <1>3 DEF Leads

(* An entry about another record, or of a deletion, changes no walk.       *)
LEMMA WalkStays ==
  ASSUME NEW T, NEW e, NEW d, e.id # d \/ e.action = "delete", NEW end, Leads(T, d, end)
  PROVE  Leads(T \cup {e}, d, end) /\ Leads(T \ {e}, d, end)
<1>1. ASSUME NEW s
      PROVE  /\ To(T \cup {e}, d, s) = To(T, d, s) /\ From(T \cup {e}, d, s) = From(T, d, s)
             /\ To(T \ {e}, d, s) = To(T, d, s) /\ From(T \ {e}, d, s) = From(T, d, s)
  BY DEF To, From
<1>2. PICK start \in Ends : Balanced(T, d, start, end)
  BY DEF Leads
<1>3. Balanced(T \cup {e}, d, start, end) /\ Balanced(T \ {e}, d, start, end)
  BY <1>1, <1>2 DEF Balanced
<1>4. QED
  BY <1>3 DEF Leads

(* A record without entries leads from nothing to where it is created.     *)
LEMMA WalkBegins ==
  ASSUME NEW T, IsFiniteSet(T), NEW e, \A a \in T : a.id # e.id,
         e.action # "delete", e.before = Nowhere, Nowhere \in Ends
  PROVE  Leads(T \cup {e}, e.id, e.after)
<1>1. e \notin T
  OBVIOUS
<1>2. Leads(T, e.id, Nowhere)
  <2>1. ASSUME NEW s
        PROVE  Cardinality(To(T, e.id, s)) = Cardinality(From(T, e.id, s))
    <3>1. To(T, e.id, s) = {} /\ From(T, e.id, s) = {}
      BY DEF To, From
    <3>2. QED
      BY <3>1
  <2>2. Balanced(T, e.id, Nowhere, Nowhere)
    BY <2>1 DEF Balanced
  <2>3. QED
    BY <2>2 DEF Leads
<1>3. QED
  BY <1>1, <1>2, WalkGoesOn

(* Without an entry, the walk goes on without its step.                    *)
LEMMA Without ==
  ASSUME NEW T, IsFiniteSet(T), NEW e, e \notin T, e.action # "delete", NEW start, NEW end,
         NEW s \in Ends, Balanced(T \cup {e}, e.id, start, end)
  PROVE  /\ Cardinality(To(T, e.id, s)) + At(s, e.after) + At(s, start) =
              Cardinality(From(T, e.id, s)) + At(s, e.before) + At(s, end)
         /\ Cardinality(To(T, e.id, s)) \in Nat
         /\ Cardinality(From(T, e.id, s)) \in Nat
<1>1. Cardinality(To(T \cup {e}, e.id, s)) + At(s, start) =
        Cardinality(From(T \cup {e}, e.id, s)) + At(s, end)
  BY DEF Balanced
<1>2. QED
  BY <1>1, Balance

(* Without the entry of a creation the walk begins where that one led.     *)
LEMMA CreationForgotten ==
  ASSUME kind \in Kinds, NEW T, IsFiniteSet(T), NEW e, e \notin T,
         NEW end \in Statuses, Leads(T \cup {e}, e.id, end),
         e.action # "delete", e.before = Nowhere, e.after \in Statuses,
         \A a \in T : a.after # Nowhere
  PROVE  Leads(T, e.id, end)
<1>1. PICK start \in Ends : Balanced(T \cup {e}, e.id, start, end)
  BY DEF Leads
<1>2. Nowhere \notin Statuses /\ Nowhere \in Ends /\ e.after \in Ends
  BY EndsAre
<1>3. ASSUME NEW s \in Ends
      PROVE  /\ Cardinality(To(T, e.id, s)) + At(s, e.after) + At(s, start) =
                  Cardinality(From(T, e.id, s)) + At(s, e.before) + At(s, end)
             /\ Cardinality(To(T, e.id, s)) \in Nat
             /\ Cardinality(From(T, e.id, s)) \in Nat
  BY <1>1, Without
<1>4. start = Nowhere
  <2> DEFINE outof == Cardinality(From(T, e.id, Nowhere))
             b == At(Nowhere, start)
  <2>1. To(T, e.id, Nowhere) = {}
    BY DEF To
  <2>2. Cardinality(To(T, e.id, Nowhere)) = 0
    BY <2>1, FS_EmptySet
  <2>3. /\ Cardinality(To(T, e.id, Nowhere)) + At(Nowhere, e.after) + b =
             outof + At(Nowhere, e.before) + At(Nowhere, end)
        /\ outof \in Nat
    BY <1>2, <1>3
  <2>4. At(Nowhere, e.after) = 0 /\ At(Nowhere, e.before) = 1 /\ At(Nowhere, end) = 0 /\ b \in Nat
    BY <1>2, AtType
  <2> HIDE DEF outof, b
  <2>5. 0 + 0 + b = outof + 1 + 0
    BY <2>2, <2>3, <2>4
  <2>6. b # 0
    BY <2>3, <2>4, <2>5
  <2>7. QED
    BY <2>6, AtType DEF b
<1>5. ASSUME NEW s \in Ends
      PROVE  Cardinality(To(T, e.id, s)) + At(s, e.after) =
               Cardinality(From(T, e.id, s)) + At(s, end)
  <2> DEFINE into == Cardinality(To(T, e.id, s))
             outof == Cardinality(From(T, e.id, s))
             a == At(s, e.after)
             b == At(s, Nowhere)
             c == At(s, end)
  <2>1. into + a + b = outof + b + c /\ into \in Nat /\ outof \in Nat
    BY <1>3, <1>4
  <2>2. a \in Nat /\ b \in Nat /\ c \in Nat
    BY AtType
  <2> HIDE DEF into, outof, a, b, c
  <2>3. into + a = outof + c
    BY <2>1, <2>2
  <2>4. QED
    BY <2>3 DEF into, outof, a, c
<1>6. Balanced(T, e.id, e.after, end)
  BY <1>5 DEF Balanced
<1>7. QED
  BY <1>2, <1>6 DEF Leads

(* The entry of an edit leaves and enters one status: it is not missed.    *)
LEMMA EditForgotten ==
  ASSUME NEW T, IsFiniteSet(T), NEW e, e \notin T, NEW end, Leads(T \cup {e}, e.id, end),
         e.action # "delete"
  PROVE  e.before = e.after => Leads(T, e.id, end)
<1>1. PICK start \in Ends : Balanced(T \cup {e}, e.id, start, end)
  BY DEF Leads
<1>2. ASSUME NEW s \in Ends
      PROVE  /\ Cardinality(To(T, e.id, s)) + At(s, e.after) + At(s, start) =
                  Cardinality(From(T, e.id, s)) + At(s, e.before) + At(s, end)
             /\ Cardinality(To(T, e.id, s)) \in Nat
             /\ Cardinality(From(T, e.id, s)) \in Nat
  BY <1>1, Without
<1>3. ASSUME NEW s \in Ends, e.before = e.after
      PROVE  Cardinality(To(T, e.id, s)) + At(s, start) =
               Cardinality(From(T, e.id, s)) + At(s, end)
  <2> DEFINE into == Cardinality(To(T, e.id, s))
             outof == Cardinality(From(T, e.id, s))
             a == At(s, e.after)
             b == At(s, start)
             c == At(s, end)
  <2>1. into + a + b = outof + a + c /\ into \in Nat /\ outof \in Nat
    BY <1>2, <1>3
  <2>2. a \in Nat /\ b \in Nat /\ c \in Nat
    BY AtType
  <2> HIDE DEF into, outof, a, b, c
  <2>3. into + b = outof + c
    BY <2>1, <2>2
  <2>4. QED
    BY <2>3 DEF into, outof, b, c
<1>4. e.before = e.after => Balanced(T, e.id, start, end)
  BY <1>3 DEF Balanced
<1>5. QED
  BY <1>4 DEF Leads

-----------------------------------------------------------------------------
(* What a step of one handler leaves of the others' entries. *)

Alone(q) ==
  \A r \in Requests : r # q =>
    pc'[r] = pc[r] /\ call'[r] = call[r] /\ current'[r] = current[r] /\ reply'[r] = reply[r]

Takes(q) == Arrive(q) \/ Write(q) \/ Finish(q) \/ DatabaseError(q)

LEMMA AnswerAlone ==
  ASSUME IInv, NEW q \in Requests, NEW code, Answer(q, code)
  PROVE  Alone(q) /\ pc'[q] = "done" /\ reply'[q] = code
  BY DEF Answer, Alone, IInv, LocalTypes

LEMMA GotoAlone ==
  ASSUME IInv, NEW q \in Requests, NEW step, Goto(q, step)
  PROVE  /\ Alone(q) /\ pc'[q] = step
         /\ call'[q] = call[q] /\ current'[q] = current[q] /\ reply'[q] = reply[q]
  BY DEF Goto, Alone, IInv, LocalTypes

LEMMA HandleAlone ==
  ASSUME IInv, NEW q \in Requests, NEW c, NEW item, NEW verdict, Handle(q, c, item, verdict)
  PROVE  /\ Alone(q) /\ pc[q] = "new" /\ UNCHANGED tables
         /\ \/ pc'[q] = "write" /\ reply'[q] = reply[q]
            \/ pc'[q] = "done"
<1>1. CASE verdict # "pass"
  BY <1>1, AnswerAlone DEF Handle, Check
<1>2. CASE verdict = "pass"
  <2>1. /\ pc' = [pc EXCEPT ![q] = "write"]
        /\ call' = [call EXCEPT ![q] = c]
        /\ current' = [current EXCEPT ![q] = item]
        /\ reply' = reply
        /\ pc[q] = "new" /\ UNCHANGED tables
    BY <1>2, Zenon DEF Handle, Check
  <2>2. QED
    BY <2>1 DEF Alone, IInv, LocalTypes
<1>3. QED
  BY <1>1, <1>2

(* The steps that write neither a row nor an entry.                        *)
Quiet(q) ==
  /\ Alone(q)
  /\ pc[q] \in {"new", "write", "reread"}
  /\ \/ pc[q] = "new" /\ pc'[q] = "write" /\ reply'[q] = reply[q]
     \/ pc'[q] = "done"
  /\ UNCHANGED tables

LEMMA QuietSteps ==
  ASSUME IInv, NEW q \in Requests,
         Arrive(q) \/ WriteRefused(q) \/ Reread(q) \/ DatabaseError(q)
  PROVE  Quiet(q)
<1>1. CASE Arrive(q)
  BY <1>1, HandleAlone DEF Arrive, Create, Update, Transition, Delete, Quiet
<1>2. CASE WriteRefused(q)
  BY <1>2, AnswerAlone DEF WriteRefused, Quiet
<1>3. CASE Reread(q)
  BY <1>3, AnswerAlone DEF Reread, Quiet
<1>4. CASE DatabaseError(q)
  BY <1>4, AnswerAlone DEF DatabaseError, StatementFails, Quiet
<1>5. QED
  BY <1>1, <1>2, <1>3, <1>4

(* The steps that commit a row; the entry is owed unless the               *)
(* acknowledgement was lost.                                               *)
Wrote(q) ==
  /\ Alone(q)
  /\ pc[q] = "write"
  /\ \/ /\ pc'[q] = "audit" /\ call'[q] = call[q] /\ current'[q] = current[q]
        /\ reply'[q] = reply[q]
     \/ pc'[q] = "done" /\ reply'[q] = "error"
  /\ kind' = kind
  /\ audits' = audits

LEMMA WroteSteps ==
  ASSUME IInv, NEW q \in Requests, NEW acked \in BOOLEAN,
         InsertRow(q, acked) \/ UpdateRow(q, acked) \/ DeleteRow(q, acked)
  PROVE  Wrote(q)
<1>1. Committed(q, "audit", acked) /\ pc[q] = "write" /\ kind' = kind /\ audits' = audits
  BY DEF InsertRow, UpdateRow, DeleteRow
<1>2. CASE Goto(q, "audit")
  BY <1>1, <1>2, GotoAlone DEF Wrote
<1>3. CASE Answer(q, "error")
  BY <1>1, <1>3, AnswerAlone DEF Wrote
<1>4. QED
  BY <1>1, <1>2, <1>3 DEF Committed

(* The step at the audit log: its entry is written, or dropped for good.   *)
Audited(q) ==
  /\ Alone(q)
  /\ pc[q] = "audit"
  /\ \/ pc'[q] = "reread" /\ reply'[q] = reply[q]
     \/ pc'[q] = "done"
  /\ kind' = kind /\ row' = row
  /\ \/ audits' = audits \cup {AuditEntry(q)}
     \/ audits' = audits /\ (call[q].op \in {"create", "update"} \/ reply'[q] = "error")

LEMMA AuditSteps ==
  ASSUME IInv, NEW q \in Requests, AppendAudit(q) \/ AuditFails(q)
  PROVE  Audited(q)
<1>1. ASSUME AfterAudit(q)
      PROVE  Alone(q) /\ ((pc'[q] = "reread" /\ reply'[q] = reply[q]) \/ pc'[q] = "done")
  BY <1>1, AnswerAlone, GotoAlone DEF AfterAudit
<1>2. CASE AppendAudit(q)
  BY <1>1, <1>2 DEF AppendAudit, Audited
<1>3. CASE AuditFails(q)
  <2>1. /\ pc[q] = "audit" /\ kind' = kind /\ row' = row
        /\ audits' = audits \/ audits' = audits \cup {AuditEntry(q)}
        /\ \/ call[q].op \in {"create", "update"} /\ AfterAudit(q)
           \/ Answer(q, "error")
    BY <1>3 DEF AuditFails
  <2>2. CASE call[q].op \in {"create", "update"} /\ AfterAudit(q)
    BY <1>1, <2>1, <2>2 DEF Audited
  <2>3. CASE Answer(q, "error")
    BY <2>1, <2>3, AnswerAlone DEF Audited
  <2>4. QED
    BY <2>1, <2>2, <2>3
<1>4. QED
  BY <1>2, <1>3

LEMMA EveryStep ==
  ASSUME IInv, NEW q \in Requests, Takes(q)
  PROVE  \/ Quiet(q)
         \/ Audited(q)
         \/ Wrote(q) /\ \E acked \in BOOLEAN :
              InsertRow(q, acked) \/ UpdateRow(q, acked) \/ DeleteRow(q, acked)
  BY QuietSteps, WroteSteps, AuditSteps DEF Takes, Write, Finish

-----------------------------------------------------------------------------
(* What becomes of the entries, written and owed. *)

LEMMA EntryFields ==
  ASSUME IInv, NEW q \in Requests, InFlight(q)
  PROVE  LET e == AuditEntry(q) IN
         /\ e \in AuditEntries
         /\ e.request = q /\ e.id = call[q].id /\ e.action = call[q].op
         /\ e.before = IF call[q].op = "create" THEN Nowhere ELSE current[q].status
         /\ e.after = CASE call[q].op = "create" -> RecordInitialStatus[kind]
                        [] call[q].op = "update" -> current[q].status
                        [] call[q].op = "transition" -> call[q].target
                        [] call[q].op = "delete" -> "deleted"
         /\ call[q].op # "delete" => e.after \in Statuses
<1>1. AuditEntry(q) =
        [request |-> q, actor |-> call[q].user, action |-> call[q].op, id |-> call[q].id,
         before |-> IF call[q].op = "create" THEN Nowhere ELSE current[q].status,
         after |-> IF call[q].op = "delete" THEN "deleted" ELSE Item(q).status]
  BY Zenon DEF AuditEntry, Nowhere
<1>2. AuditEntry(q) \in AuditEntries
  BY AuditEntryType
<1>3. call[q].op \in {"create", "update", "transition", "delete"}
  BY Locals, CallFields
<1>4. call[q].op # "delete" =>
        /\ Item(q).status = CASE call[q].op = "create" -> RecordInitialStatus[kind]
                              [] call[q].op = "update" -> current[q].status
                              [] call[q].op = "transition" -> call[q].target
        /\ Item(q).status \in Statuses
  BY ItemType DEF StoredRows
<1>5. QED
  BY <1>1, <1>2, <1>3, <1>4

LEMMA TrailType ==
  ASSUME IInv
  PROVE  Trail \subseteq AuditEntries
<1>1. ASSUME NEW r \in Requests, pc[r] = "audit"
      PROVE  AuditEntry(r) \in AuditEntries
  BY <1>1, AuditEntryType DEF InFlight
<1>2. QED
  BY <1>1 DEF Trail, Owed, IInv, TableTypes

OwedByOthers(q) == {AuditEntry(r) : r \in {p \in Requests \ {q} : pc[p] = "audit"}}

LEMMA Owing ==
  ASSUME NEW q \in Requests
  PROVE  Owed = IF pc[q] = "audit" THEN OwedByOthers(q) \cup {AuditEntry(q)} ELSE OwedByOthers(q)
  BY DEF Owed, OwedByOthers

LEMMA EntryKept ==
  ASSUME NEW r, call'[r] = call[r], current'[r] = current[r], kind' = kind
  PROVE  AuditEntry(r)' = AuditEntry(r)
<1>1. Item(r)' = Item(r)
  BY Zenon DEF Item
<1>2. QED
  BY <1>1, Zenon DEF AuditEntry

LEMMA OthersOwe ==
  ASSUME NEW q \in Requests, Alone(q), kind' = kind
  PROVE  /\ OwedByOthers(q)' = OwedByOthers(q)
         /\ Owed' = IF pc'[q] = "audit" THEN OwedByOthers(q) \cup {AuditEntry(q)'}
                    ELSE OwedByOthers(q)
<1>1. {p \in Requests \ {q} : pc'[p] = "audit"} = {p \in Requests \ {q} : pc[p] = "audit"}
  BY DEF Alone
<1>2. \A r \in Requests \ {q} : AuditEntry(r)' = AuditEntry(r)
  BY EntryKept DEF Alone
<1>3. OwedByOthers(q)' = OwedByOthers(q)
  BY <1>1, <1>2 DEF OwedByOthers
<1>4. Owed' = IF pc'[q] = "audit" THEN OwedByOthers(q)' \cup {AuditEntry(q)'}
              ELSE OwedByOthers(q)'
  BY DEF Owed, OwedByOthers
<1>5. QED
  BY <1>3, <1>4

(* Entries carry their request, so nobody else's is that of a handler, and *)
(* its own is written when it is past writing it.                          *)
LEMMA OwnEntry ==
  ASSUME IInv, Filed, NEW q \in Requests, pc[q] \in {"write", "audit"}
  PROVE  AuditEntry(q) \notin audits \cup OwedByOthers(q)
<1>1. AuditEntry(q).request = q
  BY EntryFields DEF InFlight
<1>2. AuditEntry(q) \notin audits
  BY <1>1 DEF Filed
<1>3. ASSUME NEW r \in Requests \ {q}, pc[r] = "audit"
      PROVE  AuditEntry(r) # AuditEntry(q)
  BY <1>1, <1>3, EntryFields DEF InFlight
<1>4. QED
  BY <1>2, <1>3 DEF OwedByOthers

LEMMA TrailQuiet ==
  ASSUME NEW q \in Requests, Quiet(q)
  PROVE  Trail' = Trail
<1>1. audits' = audits /\ kind' = kind /\ Alone(q) /\ pc[q] # "audit" /\ pc'[q] # "audit"
  BY DEF Quiet, tables
<1>2. QED
  BY <1>1, Owing, OthersOwe DEF Trail

LEMMA TrailAudited ==
  ASSUME IInv, Filed, NEW q \in Requests, Audited(q)
  PROVE  \/ Trail' = Trail
         \/ /\ call[q].op \in {"create", "update"} \/ reply'[q] = "error"
            /\ Trail = Trail' \cup {AuditEntry(q)}
            /\ AuditEntry(q) \notin Trail'
<1>1. Owed = OwedByOthers(q) \cup {AuditEntry(q)} /\ Owed' = OwedByOthers(q)
  BY Owing, OthersOwe DEF Audited
<1>2. CASE audits' = audits \cup {AuditEntry(q)}
  BY <1>1, <1>2 DEF Trail
<1>3. CASE audits' = audits /\ (call[q].op \in {"create", "update"} \/ reply'[q] = "error")
  <2>1. AuditEntry(q) \notin audits \cup OwedByOthers(q)
    BY OwnEntry DEF Audited
  <2>2. QED
    BY <1>1, <1>3, <2>1 DEF Trail
<1>4. QED
  BY <1>2, <1>3 DEF Audited

LEMMA TrailWrote ==
  ASSUME IInv, Filed, NEW q \in Requests, Wrote(q), pc'[q] = "audit"
  PROVE  Trail' = Trail \cup {AuditEntry(q)} /\ AuditEntry(q) \notin Trail
<1>1. /\ kind' = kind /\ audits' = audits /\ Alone(q) /\ pc[q] = "write"
      /\ call'[q] = call[q] /\ current'[q] = current[q]
  BY DEF Wrote
<1>2. Owed = OwedByOthers(q) /\ Owed' = OwedByOthers(q) \cup {AuditEntry(q)'}
  BY <1>1, Owing, OthersOwe
<1>3. AuditEntry(q)' = AuditEntry(q)
  BY <1>1, EntryKept
<1>4. AuditEntry(q) \notin audits \cup OwedByOthers(q)
  BY <1>1, OwnEntry
<1>5. QED
  BY <1>1, <1>2, <1>3, <1>4 DEF Trail

-----------------------------------------------------------------------------
(* Every step keeps the accounts. *)

LEMMA AccountedNext ==
  ASSUME kind' = kind, IsFiniteSet(Trail'),
         \A d \in Records :
           IF row'[d].state = "absent" THEN \A a \in Trail' : a.id # d
           ELSE Leads(Trail', d, row'[d].status)
  PROVE  Accounted'
<1>1. Statuses' = Statuses /\ Ends' = Ends
  BY DEF Statuses, Ends
<1>2. ASSUME NEW d \in Records, Leads(Trail', d, row'[d].status)
      PROVE  Leads(Trail, d, row[d].status)'
  BY <1>1, <1>2 DEF Leads, Balanced, To, From, At
<1>3. QED
  BY <1>2 DEF Accounted

(* A row, as its entries see it: absent or in a status of its aggregate.   *)
LEMMA RowStatus ==
  ASSUME IInv, NEW d \in Records, row[d].state # "absent"
  PROVE  row[d].status \in Statuses
BY StoredRow DEF IInv, TableTypes, StoredRows

LEMMA AccountedAudited ==
  ASSUME IInv, Filed, Accounted, NEW q \in Requests, Audited(q), reply'[q] # "error"
  PROVE  Accounted'
<1> DEFINE e == AuditEntry(q)
<1>1. kind' = kind /\ row' = row /\ InFlight(q)
  BY DEF Audited, InFlight
<1>2. CASE Trail' = Trail
  <2>1. \A d \in Records :
          IF row'[d].state = "absent" THEN \A a \in Trail' : a.id # d
          ELSE Leads(Trail', d, row'[d].status)
    BY <1>1, <1>2 DEF Accounted
  <2>2. IsFiniteSet(Trail')
    BY <1>2 DEF Accounted
  <2>3. QED
    BY <1>1, <2>1, <2>2, AccountedNext
<1>3. CASE /\ call[q].op \in {"create", "update"}
           /\ Trail = Trail' \cup {e}
           /\ e \notin Trail'
  <2>1. PICK T : T = Trail'
    OBVIOUS
  <2>2. Trail = T \cup {e} /\ e \notin T /\ T = Trail \ {e}
    BY <1>3, <2>1
  <2>3. IsFiniteSet(T)
    BY <2>2, FS_RemoveElement DEF Accounted
  <2>4. \A a \in T : a.after # Nowhere
    <3>1. \A a \in T : a.after \in Statuses \cup {"deleted"}
      BY <2>2, TrailType DEF AuditEntries
    <3>2. Nowhere \notin Statuses
      BY EndsAre DEF IInv, TableTypes
    <3>3. QED
      BY <3>1, <3>2, NotDeleted
  <2>5. /\ e.action # "delete" /\ e.after \in Statuses
        /\ call[q].op = "create" => e.before = Nowhere
        /\ call[q].op = "update" => e.before = e.after
    BY <1>1, <1>3, EntryFields
  <2>6. ASSUME NEW d \in Records, row[d].state # "absent"
        PROVE  Leads(T, d, row[d].status)
    <3>1. Leads(Trail, d, row[d].status)
      BY <2>6 DEF Accounted
    <3>2. row[d].status \in Statuses
      BY <2>6, RowStatus
    <3> HIDE DEF e
    <3>3. CASE d # e.id
      BY <2>2, <3>1, <3>3, WalkStays
    <3>4. CASE d = e.id /\ call[q].op = "create"
      <4>1. Leads(T \cup {e}, e.id, row[d].status) /\ kind \in Kinds /\ e.before = Nowhere
        BY <2>2, <2>5, <3>1, <3>4 DEF IInv, TableTypes
      <4>2. Leads(T, e.id, row[d].status)
        BY <2>2, <2>3, <2>4, <2>5, <3>2, <4>1, CreationForgotten
      <4>3. QED
        BY <3>4, <4>2
    <3>5. CASE d = e.id /\ call[q].op = "update"
      <4>1. Leads(T \cup {e}, e.id, row[d].status) /\ e.before = e.after
        BY <2>2, <2>5, <3>1, <3>5
      <4>2. Leads(T, e.id, row[d].status)
        BY <2>2, <2>3, <2>5, <4>1, EditForgotten
      <4>3. QED
        BY <3>5, <4>2
    <3>6. QED
      BY <1>3, <3>3, <3>4, <3>5
  <2>7. ASSUME NEW d \in Records, row[d].state = "absent"
        PROVE  \A a \in T : a.id # d
    BY <2>2, <2>7 DEF Accounted
  <2>8. QED
    BY <1>1, <2>1, <2>3, <2>6, <2>7, AccountedNext
<1>4. QED
  BY <1>2, <1>3, TrailAudited

(* A row written together with the entry its handler now owes.             *)
LEMMA AccountedWrote ==
  ASSUME IInv, Accounted, NEW e, e \notin Trail,
         NEW d \in Records, NEW new, new.state # "absent",
         row' = [row EXCEPT ![d] = new], kind' = kind, Trail' = Trail \cup {e},
         e.id = d,
         \/ /\ row[d].state = "absent"
            /\ e.action # "delete" /\ e.before = Nowhere /\ e.after = new.status
         \/ /\ row[d].state # "absent"
            /\ e.action # "delete" /\ e.before = row[d].status /\ e.after = new.status
         \/ /\ row[d].state # "absent"
            /\ e.action = "delete" /\ new.status = row[d].status
  PROVE  Accounted'
<1>1. PICK T : T = Trail
  OBVIOUS
<1>2. /\ IsFiniteSet(T) /\ e \notin T /\ Trail' = T \cup {e}
      /\ \A c \in Records : IF row[c].state = "absent" THEN \A a \in T : a.id # c
                            ELSE Leads(T, c, row[c].status)
  BY <1>1 DEF Accounted
<1>3. row'[d] = new /\ \A c \in Records : c # d => row'[c] = row[c]
  BY DEF IInv, TableTypes
<1>4. IsFiniteSet(T \cup {e})
  BY <1>2, FS_AddElement
<1>5. Nowhere \in Ends
  BY EndsAre DEF IInv, TableTypes
<1>6. Leads(T \cup {e}, d, new.status)
  <2>1. CASE row[d].state = "absent"
    BY <1>2, <1>5, <2>1, WalkBegins
  <2>2. CASE row[d].state # "absent" /\ e.action # "delete"
    BY <1>2, <2>2, WalkGoesOn
  <2>3. CASE row[d].state # "absent" /\ e.action = "delete"
    BY <1>2, <2>3, WalkStays
  <2>4. QED
    BY <2>1, <2>2, <2>3
<1>7. ASSUME NEW c \in Records
      PROVE  IF row'[c].state = "absent" THEN \A a \in Trail' : a.id # c
             ELSE Leads(Trail', c, row'[c].status)
  <2>1. CASE c = d
    BY <1>2, <1>3, <1>6, <2>1
  <2>2. CASE c # d
    <3>1. row'[c] = row[c] /\ e.id # c
      BY <1>3, <2>2
    <3>2. CASE row[c].state = "absent"
      BY <1>2, <3>1, <3>2
    <3>3. CASE row[c].state # "absent"
      BY <1>2, <3>1, <3>3, WalkStays
    <3>4. QED
      BY <3>1, <3>2, <3>3
  <2>3. QED
    BY <2>1, <2>2
<1>8. QED
  BY <1>2, <1>4, <1>7, AccountedNext

LEMMA AccountedInsert ==
  ASSUME EchoInv, Filed, Accounted, NEW q \in Requests, Wrote(q), pc'[q] = "audit",
         NEW acked \in BOOLEAN, InsertRow(q, acked)
  PROVE  Accounted'
<1> DEFINE e == AuditEntry(q)
           d == call[q].id
<1>1. InFlight(q) /\ call[q].op = "create" /\ kind' = kind /\ IInv
  BY DEF InsertRow, InFlight, Wrote, EchoInv
<1>2. /\ d \in Records /\ row[d].state = "absent"
      /\ Item(q).state # "absent" /\ Item(q).status = RecordInitialStatus[kind]
      /\ row' = [row EXCEPT ![d] = Item(q)]
  BY <1>1, InsertEffect, NoRowType
<1>3. e.id = d /\ e.action # "delete" /\ e.before = Nowhere /\ e.after = Item(q).status
  BY <1>1, <1>2, EntryFields
<1>4. Trail' = Trail \cup {e} /\ e \notin Trail
  BY <1>1, TrailWrote
<1> HIDE DEF e, d
<1>5. QED
  BY <1>1, <1>2, <1>3, <1>4, AccountedWrote

(* The entry of an edit or a move names the status the handler read, which *)
(* is the one the row still has when the update matches (AcceptedAsRead).  *)
LEMMA AccountedUpdate ==
  ASSUME EchoInv, Filed, Accounted, NEW q \in Requests, Wrote(q), pc'[q] = "audit",
         NEW acked \in BOOLEAN, UpdateRow(q, acked)
  PROVE  Accounted'
<1> DEFINE e == AuditEntry(q)
           d == call[q].id
           new == Stored(row[d], Item(q))
<1>1. InFlight(q) /\ call[q].op \in {"update", "transition"} /\ kind' = kind /\ IInv
  BY DEF UpdateRow, InFlight, Wrote, EchoInv
<1>2. /\ d \in Records /\ row[d].state # "absent"
      /\ new.state # "absent"
      /\ new.status = IF call[q].op = "transition" THEN call[q].target ELSE current[q].status
      /\ row' = [row EXCEPT ![d] = new]
  BY <1>1, UpdateEffect
<1>3. row[d] = current[q]
  BY AcceptedAsRead
<1>4. /\ e.id = d /\ e.action # "delete" /\ e.before = current[q].status
      /\ e.after = IF call[q].op = "transition" THEN call[q].target ELSE current[q].status
  BY <1>1, EntryFields
<1>5. Trail' = Trail \cup {e} /\ e \notin Trail
  BY <1>1, TrailWrote
<1> HIDE DEF e, d, new
<1>6. e.before = row[d].status /\ e.after = new.status
  BY <1>2, <1>3, <1>4
<1>7. QED
  BY <1>1, <1>2, <1>4, <1>5, <1>6, AccountedWrote

LEMMA AccountedDelete ==
  ASSUME EchoInv, Filed, Accounted, NEW q \in Requests, Wrote(q), pc'[q] = "audit",
         NEW acked \in BOOLEAN, DeleteRow(q, acked)
  PROVE  Accounted'
<1> DEFINE e == AuditEntry(q)
           d == call[q].id
           new == SoftDeleted(row[d])
<1>1. InFlight(q) /\ call[q].op = "delete" /\ kind' = kind /\ IInv
  BY DEF DeleteRow, InFlight, Wrote, EchoInv
<1>2. /\ d \in Records /\ row[d].state # "absent"
      /\ new.state # "absent" /\ new.status = row[d].status
      /\ row' = [row EXCEPT ![d] = new]
  BY <1>1, DeleteEffect
<1>3. e.id = d /\ e.action = "delete"
  BY <1>1, EntryFields
<1>4. Trail' = Trail \cup {e} /\ e \notin Trail
  BY <1>1, TrailWrote
<1> HIDE DEF e, d, new
<1>5. QED
  BY <1>1, <1>2, <1>3, <1>4, AccountedWrote

(* An answer once given stands, so no failure is ever forgotten.           *)
LEMMA FiledNext ==
  ASSUME IInv, Unanswered, Filed, NEW q \in Requests, Takes(q)
  PROVE  Unanswered' /\ Filed' /\ (Unfailed' => Unfailed)
<1>1. PICK kept \in SUBSET {AuditEntry(q)} :
        /\ Alone(q)
        /\ pc[q] # "done"
        /\ pc'[q] = "done" \/ reply'[q] = reply[q]
        /\ audits' = audits \cup kept
        /\ pc[q] = "reread" => pc'[q] = "done"
        /\ kept # {} => pc[q] = "audit" /\ pc'[q] \in {"reread", "done"}
  <2>1. CASE Quiet(q)
    <3>1. audits' = audits \cup {}
      BY <2>1 DEF Quiet, tables
    <3>2. WITNESS {} \in SUBSET {AuditEntry(q)}
    <3>3. QED
      BY <2>1, <3>1 DEF Quiet
  <2>2. CASE Audited(q)
    <3>1. CASE audits' = audits
      <4>1. WITNESS {} \in SUBSET {AuditEntry(q)}
      <4>2. QED
        BY <2>2, <3>1 DEF Audited
    <3>2. CASE audits' = audits \cup {AuditEntry(q)}
      <4>1. WITNESS {AuditEntry(q)} \in SUBSET {AuditEntry(q)}
      <4>2. QED
        BY <2>2, <3>2 DEF Audited
    <3>3. QED
      BY <2>2, <3>1, <3>2 DEF Audited
  <2>3. CASE Wrote(q)
    <3>1. audits' = audits \cup {}
      BY <2>3 DEF Wrote
    <3>2. WITNESS {} \in SUBSET {AuditEntry(q)}
    <3>3. QED
      BY <2>3, <3>1 DEF Wrote
  <2>4. QED
    BY <2>1, <2>2, <2>3, EveryStep
<1>2. Unanswered' /\ (Unfailed' => Unfailed)
  BY <1>1 DEF Unanswered, Unfailed, Alone
<1>3. \A a \in kept : a.request = q
  BY <1>1, EntryFields DEF InFlight
<1>4. \A a \in audits : a.request \in Requests
  BY DEF IInv, TableTypes, AuditEntries
<1>5. Filed'
  BY <1>1, <1>3, <1>4 DEF Filed, Alone
<1>6. QED
  BY <1>2, <1>5

LEMMA AccountedStep ==
  ASSUME EchoInv, Filed, Accounted, NEW q \in Requests, Takes(q), Unfailed'
  PROVE  Accounted'
<1>1. IInv /\ reply'[q] # "error"
  BY DEF EchoInv, Unfailed
<1>2. CASE Quiet(q)
  <2>1. Trail' = Trail /\ row' = row /\ kind' = kind
    BY <1>2, TrailQuiet DEF Quiet, tables
  <2>2. QED
    BY <2>1, AccountedNext DEF Accounted
<1>3. CASE Audited(q)
  BY <1>1, <1>3, AccountedAudited
<1>4. ASSUME Wrote(q), NEW acked \in BOOLEAN,
             InsertRow(q, acked) \/ UpdateRow(q, acked) \/ DeleteRow(q, acked)
      PROVE  Accounted'
  <2>1. pc'[q] = "audit"
    BY <1>1, <1>4 DEF Wrote
  <2>2. QED
    BY <1>4, <2>1, AccountedInsert, AccountedUpdate, AccountedDelete
<1>5. QED
  BY <1>1, <1>2, <1>3, <1>4, EveryStep

LEMMA InitTrail == Init => TrailInv
<1> SUFFICES ASSUME Init PROVE TrailInv
  OBVIOUS
<1>1. Trail = {}
  BY DEF Init, NoneArrived, Trail, Owed
<1>2. Unanswered /\ Filed /\ IInv /\ Shown
  BY InitIInv DEF Init, NoneArrived, Unanswered, Filed, Shown
<1>3. Accounted
  <2>1. IsFiniteSet({})
    BY FS_EmptySet
  <2>2. ASSUME NEW d \in Records, row[d].state # "absent"
        PROVE  Leads({}, d, row[d].status)
    <3>1. Balanced({}, d, row[d].status, row[d].status)
      <4>1. ASSUME NEW s
            PROVE  To({}, d, s) = From({}, d, s)
        BY DEF To, From
      <4>2. QED
        BY <4>1 DEF Balanced
    <3>2. row[d].status \in Ends
      BY <1>2, <2>2, RowStatus, EndsAre DEF IInv, TableTypes
    <3>3. QED
      BY <3>1, <3>2 DEF Leads
  <2>3. QED
    BY <1>1, <2>1, <2>2 DEF Accounted
<1>4. QED
  BY <1>2, <1>3 DEF TrailInv, EchoInv

LEMMA NextTrail ==
  ASSUME EchoClients, TrailInv, [Next]_vars
  PROVE  TrailInv'
<1>1. EchoInv'
  BY NextEchoInv DEF TrailInv
<1>2. CASE UNCHANGED vars
  <2>1. /\ pc' = pc /\ reply' = reply /\ audits' = audits /\ row' = row /\ kind' = kind
        /\ call' = call /\ current' = current
    BY <1>2 DEF vars
  <2>2. Trail' = Trail
    <3>1. \A r \in Requests : AuditEntry(r)' = AuditEntry(r)
      BY <2>1, EntryKept
    <3>2. QED
      BY <2>1, <3>1 DEF Trail, Owed
  <2>3. Unanswered' /\ Filed' /\ (Unfailed' => Unfailed)
    BY <2>1 DEF TrailInv, Unanswered, Filed, Unfailed
  <2>4. Accounted => Accounted'
    BY <2>1, <2>2, AccountedNext DEF Accounted
  <2>5. QED
    BY <1>1, <2>3, <2>4 DEF TrailInv
<1>3. CASE Crash
  <2>1. ~Unfailed'
    BY <1>3 DEF Crash, ProcessDies, Unfailed
  <2>2. Unanswered' /\ Filed'
    <3>1. /\ audits' = audits
          /\ \A r \in Requests : pc'[r] = IF InFlight(r) THEN "done" ELSE pc[r]
          /\ \A r \in Requests : reply'[r] = IF InFlight(r) THEN "cut" ELSE reply[r]
      BY <1>3 DEF Crash, ProcessDies, tables
    <3>2. \A a \in audits : a.request \in Requests
      BY DEF TrailInv, EchoInv, IInv, TableTypes, AuditEntries
    <3>3. QED
      BY <3>1, <3>2 DEF TrailInv, Unanswered, Filed
  <2>3. QED
    BY <1>1, <2>1, <2>2 DEF TrailInv
<1>4. ASSUME NEW q \in Requests, Takes(q)
      PROVE  TrailInv'
  <2>1. Unanswered' /\ Filed' /\ (Unfailed' => Unfailed)
    BY <1>4, FiledNext DEF TrailInv, EchoInv
  <2>2. Unfailed' => Accounted'
    BY <1>4, <2>1, AccountedStep DEF TrailInv
  <2>3. QED
    BY <1>1, <2>1, <2>2 DEF TrailInv
<1>5. QED
  BY <1>2, <1>3, <1>4 DEF Next, Takes

(* While nobody is at work nothing is owed: the entries are the trail.     *)
LEMMA SettledTrail ==
  ASSUME TrailInv
  PROVE  TrailReachesStatus
<1> SUFFICES ASSUME Settled PROVE
      \A d \in Records : row[d].state # "absent" =>
        \E start \in Statuses \cup {""} :
          \A s \in Statuses \cup {""} :
            Cardinality(Arrivals(d, s)) + At(s, start) =
              Cardinality(Departures(d, s)) + At(s, row[d].status)
  BY DEF TrailReachesStatus
<1>1. Unfailed /\ \A r \in Requests : pc[r] # "audit"
  BY DEF Settled, Unfailed, InFlight
<1>2. Trail = audits
  BY <1>1 DEF Trail, Owed
<1>3. ASSUME NEW d, NEW s
      PROVE  Arrivals(d, s) = To(audits, d, s) /\ Departures(d, s) = From(audits, d, s)
  BY DEF Arrivals, Departures, To, From
<1>4. Ends = Statuses \cup {""}
  BY DEF Ends, Nowhere
<1>5. ASSUME NEW d \in Records, row[d].state # "absent"
      PROVE  \E start \in Ends : \A s \in Ends :
               Cardinality(Arrivals(d, s)) + At(s, start) =
                 Cardinality(Departures(d, s)) + At(s, row[d].status)
  <2>1. Leads(audits, d, row[d].status)
    BY <1>1, <1>2, <1>5 DEF TrailInv, Accounted
  <2>2. QED
    BY <1>3, <2>1 DEF Leads, Balanced
<1>6. QED
  BY <1>4, <1>5

(* When clients echo versions, the audit log accounts for where every      *)
(* record is: its entries lead from the status it was seeded in, or from   *)
(* nothing, to the status its row shows, in whatever order they were       *)
(* written and whichever of creations and edits were lost                  *)
(* (TrailReachesStatus).                                                   *)
THEOREM TrailIsComplete ==
  ASSUME EchoClients
  PROVE  Spec => []TrailReachesStatus
<1>1. TrailInv /\ [Next]_vars => TrailInv'
  BY NextTrail
<1>2. TrailInv => TrailReachesStatus
  BY SettledTrail
<1>3. QED
  BY <1>1, <1>2, InitTrail, PTL DEF Spec
=============================================================================
