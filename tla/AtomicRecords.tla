---------------------------- MODULE AtomicRecords ---------------------------
(***************************************************************************)
(* What the optimistic lock promises of bridge assets, inspection rounds   *)
(* and defect findings: each record behaves as if every request took       *)
(* effect in one step, on the record as it is at that moment.  An edit     *)
(* leaves the status alone, a move follows an edge of the status graph     *)
(* from the present status and leaves the fields alone, each of them takes *)
(* the record to its next version, and a removed record stays as it was.   *)
(***************************************************************************)
EXTENDS Naturals, StatusGraphs

CONSTANTS
  Records,   \* the records of one aggregate, named by their code
  Fields     \* the business fields a record may hold

VARIABLES
  kind,      \* the aggregate, which gives the status graph; it never changes
  cell,      \* [Records -> record]
  removed    \* the records taken out of use

recordVars == <<kind, cell, removed>>

None == [status |-> "none", fields |-> "none", version |-> 0]

Record(status, fields, version) ==
  [status |-> status, fields |-> fields, version |-> version]

RecordsInit ==
  /\ kind \in Kinds
  /\ cell \in [Records ->
       {None} \cup {Record(s, f, 1) : s \in DOMAIN RecordTransitions[kind], f \in Fields}]
  /\ removed = {}

InUse(d) == d \notin removed /\ cell[d] # None

Insert(d, f) ==
  /\ cell[d] = None
  /\ cell' = [cell EXCEPT ![d] = Record(RecordInitialStatus[kind], f, 1)]
  /\ UNCHANGED <<kind, removed>>

Edit(d, f) ==
  /\ InUse(d)
  /\ cell' = [cell EXCEPT ![d] = Record(@.status, f, @.version + 1)]
  /\ UNCHANGED <<kind, removed>>

Move(d, to) ==
  /\ InUse(d)
  /\ CanTransition(RecordTransitions[kind], cell[d].status, to)
  /\ cell' = [cell EXCEPT ![d] = Record(to, @.fields, @.version + 1)]
  /\ UNCHANGED <<kind, removed>>

Remove(d) ==
  /\ InUse(d)
  /\ removed' = removed \cup {d}
  /\ UNCHANGED <<kind, cell>>

RecordsNext ==
  \E d \in Records :
    \/ \E f \in Fields : Insert(d, f) \/ Edit(d, f)
    \/ \E to \in DOMAIN RecordTransitions[kind] : Move(d, to)
    \/ Remove(d)

RecordsSpec == RecordsInit /\ [][RecordsNext]_recordVars
=============================================================================
