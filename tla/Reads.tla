-------------------------------- MODULE Reads --------------------------------
(***************************************************************************)
(* What an answer put together from several statements says, while others  *)
(* write: the pages of a listing (backend/internal/repository/base.go),    *)
(* decisions with their revisions (repository/priority_decision.go), the   *)
(* audit log and its summary (repository/security.go).                     *)
(*                                                                         *)
(* No read runs in a transaction, so each statement sees the tables of a   *)
(* moment of its own.  One client reads, as the function pages of          *)
(* hooks/usePagination.ts has it: page by page, until the total it was     *)
(* told last is reached.  The others write through the modules that model  *)
(* the writers; here a write is one step, with a time taken before it, so  *)
(* that rows need not get their times in the order of the writes, and one  *)
(* that is written with a version its writer predicted may get a time from *)
(* before it had that version.                                             *)
(***************************************************************************)
EXTENDS Integers, FiniteSets, SequencesExt

CONSTANTS
  Actors, Actions, EntityTypes,  \* what an audit entry names
  DefaultSize, MaxSize,          \* 20 and 100
  Asked,                         \* the page sizes the client may ask for
  FirstRows,                     \* how many rows there are in the beginning, by kind
  LastId, LastTime, LastVersion  \* bounds on the rows, the times and the versions

Kinds == {"record", "decision", "audit", "summary"}

Domain == {"record", "decision"}

ASSUME ReadsAssumption ==
  /\ Actors # {} /\ EntityTypes # {} /\ "transition" \in Actions
  /\ MaxSize \in Nat /\ DefaultSize \in 1 .. MaxSize
  /\ Asked \subseteq Nat \ {0}
  /\ FirstRows \in [Kinds -> Nat]
  /\ LastId \in Nat /\ LastTime \in Nat /\ LastVersion \in Nat \ {0}

VARIABLES
  rows,       \* the table read: a sequence of rows by id
  reader,     \* the question: its kind, and for a listing its page, the size the
              \* client asked for and the one the server applies
  at,         \* the statements done of the plan for the page
  answer,     \* what they returned
  seen,       \* the ids of the pages before
  unchanged,  \* the ids selected since the question was asked, and not written
  slipped,    \* how many rows have since left the selection, or sunk in it
  entered     \* how many it has gained between the last count and its page

vars == <<rows, reader, at, answer, seen, unchanged, slipped, entered>>

Times == 0 .. LastTime

(* An id of a listing is selected while its row is not deleted and matches *)
(* the search and the status asked for.                                    *)
Selected(table) == {i \in DOMAIN table : table[i].live /\ table[i].matches}

-----------------------------------------------------------------------------
(* The writers. *)

(* What a write does to the account the reader's client could keep.        *)
Noticed(i) ==
  LET before == Selected(rows)
      after  == Selected(rows')
      sunk   == {j \in before \cap after : rows'[j].stamp < rows[j].stamp}
  IN /\ unchanged' = unchanged \ {i}
     /\ slipped' = slipped + Cardinality((before \ after) \cup sunk)
     /\ entered' = entered + IF at = 1 THEN Cardinality(after \ before) ELSE 0
     /\ UNCHANGED <<reader, at, answer, seen>>

NewRow(stamp, matches) ==
  [stamp |-> stamp, live |-> TRUE, matches |-> matches, version |-> 1, revisions |-> {1}]

NewEntry(stamp, actor, action, entity) ==
  [stamp |-> stamp, live |-> TRUE, matches |-> TRUE,
   actor |-> actor, action |-> action, entity |-> entity]

(* Only a summary asks what an entry says. *)
Rows(kind) ==
  CASE kind \in Domain -> {NewRow(s, m) : s \in Times, m \in BOOLEAN}
    [] kind = "audit" ->
         {NewEntry(s, CHOOSE a \in Actors : TRUE, "transition", CHOOSE e \in EntityTypes : TRUE)
            : s \in Times}
    [] kind = "summary" ->
         {NewEntry(s, a, c, e) : s \in Times, a \in Actors, c \in Actions, e \in EntityTypes}

(* An insert gets the next id. *)
Insert ==
  /\ Len(rows) < LastId
  /\ \E new \in Rows(reader.kind) : rows' = Append(rows, new)
  /\ Noticed(Len(rows'))

Rewritten(row, stamp, matches) ==
  [stamp |-> stamp, live |-> row.live, matches |-> matches, version |-> row.version + 1,
   revisions |-> row.revisions \cup {row.version + 1}]

(* An update or a transition, with the revision of a decision in its       *)
(* transaction.  The writer took its time when it had read some version of *)
(* the row and before it wrote: earlier than the row it replaces, if the   *)
(* version it was given was one to come.                                   *)
Write(i) ==
  /\ reader.kind \in Domain
  /\ rows[i].live
  /\ rows[i].version < LastVersion
  /\ \E stamp \in Times, matches \in BOOLEAN :
       rows' = [rows EXCEPT ![i] = Rewritten(@, stamp, matches)]
  /\ Noticed(i)

Delete(i) ==
  /\ reader.kind \in Domain
  /\ rows[i].live
  /\ rows' = [rows EXCEPT ![i].live = FALSE]
  /\ Noticed(i)

-----------------------------------------------------------------------------
(* The statements.  Each is given the page's size and what is known.  A    *)
(* size over the largest is not cut to it: bindPageSize has put the default*)
(* in its place before.                                                    *)

bindPageSize(size) == IF size < 1 \/ size > MaxSize THEN DefaultSize ELSE size

normalizePageSize(size) ==
  IF size < 1 THEN DefaultSize ELSE IF size > MaxSize THEN MaxSize ELSE size

(* Mutation: the oldest first. *)
BeforeOldestFirst(i, j) ==
  \/ rows[i].stamp < rows[j].stamp
  \/ rows[i].stamp = rows[j].stamp /\ (reader.kind = "audit" \/ i < j)

(* ORDER BY updated_at DESC, id DESC; of the audit log by created_at DESC  *)
(* alone, so that entries of one time come in any order.                   *)
Before(i, j) ==
  \/ rows[i].stamp > rows[j].stamp
  \/ rows[i].stamp = rows[j].stamp /\ (reader.kind = "audit" \/ i > j)

Orders == {s \in SetToSeqs(Selected(rows)) :
             \A m \in DOMAIN s, n \in DOMAIN s : m < n => Before(s[m], s[n])}

(* Mutation: the offset is one too low. *)
PageOfOverlapping(s) ==
  {s[n] : n \in DOMAIN s \cap ((reader.page - 1) * reader.size .. reader.page * reader.size)}

(* OFFSET and LIMIT. *)
PageOf(s) ==
  {s[n] : n \in DOMAIN s \cap ((reader.page - 1) * reader.size + 1 .. reader.page * reader.size)}

(* The entries the summary is about.                                       *)
Window == {i \in DOMAIN rows : rows[i].stamp >= reader.since}

GroupBy(field, values) == [v \in values |-> Cardinality({i \in Window : rows[i][field] = v})]

Returned(statement) ==
  CASE statement = "count" -> {Cardinality(Selected(rows))}
    [] statement = "find" -> {[i \in PageOf(s) |-> rows[i]] : s \in Orders}
    [] statement = "revisions" -> {[i \in DOMAIN rows |-> rows[i].revisions]}
    [] statement = "total" -> {Cardinality(Window)}
    [] statement = "transitions" ->
         {Cardinality({i \in Window : rows[i].action = "transition"})}
    [] statement = "actors" -> {Cardinality({rows[i].actor : i \in Window})}
    [] statement = "actions" -> {GroupBy("action", Actions)}
    [] statement = "entities" -> {GroupBy("entity", EntityTypes)}

(* Mutation: the revisions are loaded before the rows. *)
PlanRevisionsFirst(kind) ==
  CASE kind \in {"record", "audit"} -> <<"count", "find">>
    [] kind = "decision" -> <<"count", "revisions", "find">>
    [] kind = "summary" -> <<"total", "transitions", "actors", "actions", "entities">>

(* Mutation: the groups are counted first. *)
PlanGroupsFirst(kind) ==
  CASE kind \in {"record", "audit"} -> <<"count", "find">>
    [] kind = "decision" -> <<"count", "find", "revisions">>
    [] kind = "summary" -> <<"actions", "entities", "actors", "transitions", "total">>

(* The order of the statements. *)
Plan(kind) ==
  CASE kind \in {"record", "audit"} -> <<"count", "find">>
    [] kind = "decision" -> <<"count", "find", "revisions">>
    [] kind = "summary" -> <<"total", "transitions", "actors", "actions", "entities">>

Answered == at = Len(Plan(reader.kind))

(* The next statement of the plan. *)
Query ==
  /\ ~Answered
  /\ LET statement == Plan(reader.kind)[at + 1]
     IN \E result \in Returned(statement) :
          answer' = [s \in DOMAIN answer \cup {statement} |->
                       IF s = statement THEN result ELSE answer[s]]
  /\ at' = at + 1
  /\ UNCHANGED <<rows, reader, seen, unchanged, slipped, entered>>

Listing == reader.kind # "summary"

(* The last page is the one that reaches the total of its own answer, by   *)
(* the size the client asked for, whatever the server applied.             *)
Over == Answered /\ (Listing => reader.page * reader.asked >= answer["count"])

TurnPage ==
  /\ Answered /\ ~Over
  /\ seen' = seen \cup DOMAIN answer["find"]
  /\ reader' = [reader EXCEPT !.page = @ + 1]
  /\ at' = 0
  /\ answer' = <<>>
  /\ entered' = 0
  /\ UNCHANGED <<rows, unchanged, slipped>>

-----------------------------------------------------------------------------

Readers ==
  {[kind |-> k, page |-> 1, asked |-> size, size |-> normalizePageSize(bindPageSize(size))]
     : k \in Kinds \ {"summary"}, size \in Asked}
    \cup [kind : {"summary"}, since : Times]

(* The question is asked. *)
Init ==
  /\ reader \in Readers
  /\ rows \in [1 .. FirstRows[reader.kind] -> Rows(reader.kind)]
  /\ at = 0
  /\ answer = <<>>
  /\ seen = {}
  /\ unchanged = Selected(rows)
  /\ slipped = 0
  /\ entered = 0

Next ==
  \/ /\ ~Over
     /\ Insert \/ (\E i \in DOMAIN rows : Write(i) \/ Delete(i))
  \/ Query
  \/ TurnPage

Spec == Init /\ [][Next]_vars

-----------------------------------------------------------------------------

Row ==
  [stamp : Times, live : BOOLEAN, matches : BOOLEAN, version : 1 .. LastVersion,
   revisions : SUBSET (1 .. LastVersion)]
  \cup [stamp : Times, live : {TRUE}, matches : {TRUE},
        actor : Actors, action : Actions, entity : EntityTypes]

(* Every variable has its type; a page holds no more rows than the client  *)
(* asked for, and never more than MaxSize, whatever was asked.             *)
TypeOK ==
  /\ rows \in Seq(Row)
  /\ reader.kind \in Kinds
  /\ at \in 0 .. Len(Plan(reader.kind))
  /\ DOMAIN answer = {Plan(reader.kind)[n] : n \in 1 .. at}
  /\ "find" \in DOMAIN answer =>
       /\ Cardinality(DOMAIN answer["find"]) <= reader.size
       /\ reader.size <= reader.asked
  /\ Listing => reader.size \in 1 .. MaxSize
  /\ seen \subseteq DOMAIN rows
  /\ unchanged \subseteq Selected(rows)
  /\ slipped \in Nat
  /\ entered \in Nat

(* Entries that share their time with no other. *)
Alone == {i \in DOMAIN rows : \A j \in DOMAIN rows : j # i => rows[j].stamp # rows[i].stamp}

Missed ==
  (IF reader.kind = "audit" THEN unchanged \cap Alone ELSE unchanged)
    \ (seen \cup DOMAIN answer["find"])

(* Reading all pages of a size the server applies shows every row that was *)
(* there all the time, as long as no other leaves the selection or sinks   *)
(* in it: writing rows to the top of the list while it is read pushes rows *)
(* down, where they are still to come, and never up, where they are        *)
(* skipped.  Each row that is deleted, or written so that it no longer     *)
(* matches, or with a time before its last, may hide one other, and so may *)
(* each that comes in between the last count and its page.  In the audit   *)
(* log entries of one time may be hidden even if nobody writes.            *)
PagesMissOnlyWhatSlipped ==
  Over /\ Listing /\ reader.size = reader.asked => Cardinality(Missed) <= slipped + entered

(* A decision is answered with the revision that led to the version shown, *)
(* though the two are read at different moments; later revisions may       *)
(* follow it.                                                              *)
RevisionsReachVersion ==
  Over /\ reader.kind = "decision" =>
    \A i \in DOMAIN answer["find"] :
      /\ i \in DOMAIN answer["revisions"]
      /\ 1 .. answer["find"][i].version \subseteq answer["revisions"][i]

(* The sum of the numbers of f, with the groups they count side by side.   *)
Sum(f) == Cardinality(UNION {{v} \X (1 .. f[v]) : v \in DOMAIN f})

(* The numbers of a summary are of five moments, each later than the one   *)
(* before, so the groups account for everything counted before them.       *)
SummaryAddsUp ==
  Over /\ ~Listing =>
    /\ answer["transitions"] <= answer["actions"]["transition"]
    /\ answer["total"] <= Sum(answer["actions"])
    /\ answer["actors"] <= Sum(answer["actions"])
    /\ Sum(answer["actions"]) <= Sum(answer["entities"])
=============================================================================
