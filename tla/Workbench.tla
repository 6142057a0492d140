----------------------------- MODULE Workbench ------------------------------
(***************************************************************************)
(* A page of the frontend and its store, in a tab of a browser, over a     *)
(* record that others change (frontend/src/stores/factory.ts,              *)
(* components/EntityPage.vue, utils/format.ts).                            *)
(*                                                                         *)
(* The functions of the store are asynchronous: a click runs until the     *)
(* first await, and an answer runs the rest, in the order the answers      *)
(* arrive.  Nothing keeps two of them apart, and they share the items      *)
(* shown, one loading flag and one error.  The dialog keeps the item it    *)
(* was opened for, which need not be the one shown when it is confirmed.   *)
(*                                                                         *)
(* The server is the one the other modules establish for clients that send *)
(* versions they were shown: each request takes effect in one step, later  *)
(* than the check of its token.                                            *)
(***************************************************************************)
EXTENDS Sessions, StatusGraphs

CONSTANTS
  Tasks,       \* the clicks that reach the server, in the order of their numbers
  Faults,      \* the network may lose a request or its answer
  LastVersion  \* bound on the versions others write

ASSUME WorkbenchAssumption ==
  /\ Tasks \subseteq Nat
  /\ Faults \in BOOLEAN
  /\ LastVersion \in Nat

VARIABLES
  path,     \* the kind of record the page shows; it never changes
  row,      \* the record in its table
  items,    \* the record as the store has it, or Nothing
  pending,  \* the dialog: an item and a target, or Closed
  loading,  \* the store's flag
  error,    \* the store shows an error
  task      \* [Tasks -> how far the function of the click is]

vars == <<path, row, items, pending, loading, error, task, sessions>>

Graphs == [k \in Kinds \cup {"decision"} |->
  IF k = "decision" THEN PriorityDecisionTransitions ELSE RecordTransitions[k]]

Statuses == UNION {DOMAIN Graphs[k] : k \in DOMAIN Graphs}

Nothing == [status |-> "", version |-> 0, preparedBy |-> ""]

Closed == [item |-> Nothing, status |-> ""]

-----------------------------------------------------------------------------
(* The server. *)

(* Mutation: the update's condition does not name the version. *)
MoveVerdictAnyVersion(token, arrived, expected, target) ==
  IF ~Authentic(token, arrived) THEN "unauthorized"
  ELSE IF ~RequireMinimumRole(token.role, "operator") THEN "forbidden"
  ELSE IF row = Nothing THEN "not_found"
  ELSE IF path = "decision" /\ ~RequireRoles(token.role, {"reviewer", "admin"}) THEN "forbidden"
  ELSE IF path = "decision" /\ token.user = row.preparedBy THEN "rule"
  ELSE IF CanTransition(Graphs[path], row.status, target) THEN "ok" ELSE "rule"

(* The checks of a transition, from the token's when the request arrived   *)
(* to the condition of its update.                                         *)
MoveVerdict(token, arrived, expected, target) ==
  IF ~Authentic(token, arrived) THEN "unauthorized"
  ELSE IF ~RequireMinimumRole(token.role, "operator") THEN "forbidden"
  ELSE IF row = Nothing THEN "not_found"
  ELSE IF path = "decision" /\ ~RequireRoles(token.role, {"reviewer", "admin"}) THEN "forbidden"
  ELSE IF path = "decision" /\ token.user = row.preparedBy THEN "rule"
  ELSE IF ~CanTransition(Graphs[path], row.status, target) THEN "rule"
  ELSE IF row.version # expected THEN "conflict"
  ELSE "ok"

MayCreate(token, arrived) ==
  Authentic(token, arrived) /\ RequireMinimumRole(token.role, "operator")

Moved(item, target) ==
  [status |-> target, version |-> item.version + 1, preparedBy |-> item.preparedBy]

(* What clients other than this tab do to the record: edit it, a decision  *)
(* only while it is a draft; move it; delete it, a decision that was a     *)
(* draft when they looked.                                                 *)
OthersWrite ==
  /\ row # Nothing
  /\ row.version < LastVersion
  /\ \/ /\ path = "decision" => row.status = PriorityDecisionInitialStatus
        /\ row' = [row EXCEPT !.version = @ + 1]
     \/ row' \in {Moved(row, target) : target \in Graphs[path][row.status]}
     \/ row' = Nothing
  /\ UNCHANGED <<path, items, pending, loading, error, task, sessions>>

-----------------------------------------------------------------------------
(* The page. *)

allowedTargets ==
  [ bridge     |-> [ active |-> {"restricted", "closed"},
                     restricted |-> {"closed", "retired", "active"},
                     closed |-> {"retired", "restricted"},
                     retired |-> {"closed"} ],
    inspection |-> [ planned |-> {"running", "review"},
                     running |-> {"review", "completed", "planned"},
                     review |-> {"completed", "running"},
                     completed |-> {"review"} ],
    defect     |-> [ new |-> {"verified", "monitoring"},
                     verified |-> {"monitoring", "mitigated", "new"},
                     monitoring |-> {"mitigated", "closed", "verified"},
                     mitigated |-> {"closed", "monitoring"},
                     closed |-> {"mitigated"} ],
    decision   |-> [ draft |-> {"observe", "restrict", "urgent"},
                     observe |-> {}, restrict |-> {}, urgent |-> {} ] ]

(* Mutation: decisions are moved by whoever writes, as the others are. *)
targetsForWriters(item) ==
  IF item # Nothing /\ CanAtLeast("operator") THEN allowedTargets[path][item.status] ELSE {}

(* The buttons in the row of an item. *)
targetsFor(item) ==
  IF /\ item # Nothing
     /\ IF path = "decision" THEN CanAtLeast("reviewer") /\ item.preparedBy # session.user
        ELSE CanAtLeast("operator")
  THEN allowedTargets[path][item.status] ELSE {}

Choose ==
  /\ \E target \in targetsFor(items) : pending' = [item |-> items, status |-> target]
  /\ UNCHANGED <<path, row, items, loading, error, task, sessions>>

Cancel ==
  /\ pending # Closed
  /\ pending' = Closed
  /\ UNCHANGED <<path, row, items, loading, error, task, sessions>>

(* The stages of a function of the store: a POST is under way, lost to the *)
(* browser or answered, then the list is; load is the second half alone.   *)
(* "from" is the version in the dialog of a move, 0 if there is none.      *)
New == [at |-> "new"]

Posted(kind, dialog, expected) ==
  [at |-> "posted", kind |-> kind, dialog |-> dialog, expected |-> expected,
   token |-> stored, sent |-> clock, mounted |-> TRUE]

Answered(from, ok, mounted) == [at |-> "answered", from |-> from, ok |-> ok, mounted |-> mounted]

Listing(from, token, mounted) ==
  [at |-> "listing", from |-> from, token |-> token, sent |-> clock, mounted |-> mounted]

Listed(from, ok, found, mounted) ==
  [at |-> "listed", from |-> from, ok |-> ok, found |-> found, mounted |-> mounted]

(* The version the record was moved from is kept for the properties.       *)
Done(from) == [at |-> "done", from |-> from]

(* The flag is set, the error is cleared and a request is sent, with the   *)
(* token that is stored by then.                                           *)
Start(t, stage) ==
  /\ task[t] = New
  /\ task' = [task EXCEPT ![t] = stage]
  /\ loading' = TRUE
  /\ error' = FALSE

(* Search and reset. *)
Load(t) ==
  /\ session # NoToken
  /\ Start(t, Listing(0, stored, TRUE))
  /\ UNCHANGED <<path, row, items, pending, sessions>>

(* Mutation: the store looks the item up again, by its id. *)
ConfirmCurrent(t) ==
  /\ pending # Closed
  /\ Start(t, Posted("move", pending, items.version))
  /\ UNCHANGED <<path, row, items, pending, sessions>>

(* Mutation: the version is counted on before the answer. *)
ConfirmAhead(t) ==
  /\ pending # Closed
  /\ Start(t, Posted("move", pending, pending.item.version))
  /\ pending' = [pending EXCEPT !.item.version = @ + 1]
  /\ UNCHANGED <<path, row, items, sessions>>

(* The dialog stays open until a move succeeds, and may be confirmed again *)
(* meanwhile.                                                              *)
Confirm(t) ==
  /\ pending # Closed
  /\ Start(t, Posted("move", pending, pending.item.version))
  /\ UNCHANGED <<path, row, items, pending, sessions>>

CreateDemo(t) ==
  /\ CanAtLeast("operator")
  /\ Start(t, Posted("create", Closed, 0))
  /\ UNCHANGED <<path, row, items, pending, sessions>>

-----------------------------------------------------------------------------
(* The server takes a request, also one the browser has given up.  It      *)
(* arrived, and its token was checked, at some time since it was sent.     *)

Answer(t, ok) ==
  LET from == task[t].dialog.item.version
  IN task' = [task EXCEPT ![t] =
       IF @.at = "lost" THEN Done(IF ok THEN from ELSE 0) ELSE Answered(from, ok, @.mounted)]

ArrivalTimes(t) == task[t].sent .. clock

Sent(t, kind) == task[t].at \in {"posted", "lost"} /\ task[t].kind = kind

Move(t) ==
  /\ Sent(t, "move")
  /\ \E arrived \in ArrivalTimes(t) :
       LET ok == MoveVerdict(task[t].token, arrived, task[t].expected, task[t].dialog.status) = "ok"
       IN /\ Answer(t, ok)
          /\ row' = IF ok THEN Moved(row, task[t].dialog.status) ELSE row
  /\ UNCHANGED <<path, items, pending, loading, error, sessions>>

(* The record created is another one.                                      *)
Create(t) ==
  /\ Sent(t, "create")
  /\ \E arrived \in ArrivalTimes(t) : Answer(t, MayCreate(task[t].token, arrived))
  /\ UNCHANGED <<path, row, items, pending, loading, error, sessions>>

List(t) ==
  /\ task[t].at = "listing"
  /\ \E arrived \in ArrivalTimes(t) :
       LET ok == Authentic(task[t].token, arrived)
       IN task' = [task EXCEPT ![t] = Listed(@.from, ok, IF ok THEN row ELSE Nothing, @.mounted)]
  /\ UNCHANGED <<path, row, items, pending, loading, error, sessions>>

-----------------------------------------------------------------------------
(* Answers arrive. *)

(* Mutation: only a success resets the flag. *)
FailsSpinning == error' = TRUE /\ UNCHANGED loading

(* catch and finally. *)
Fails == error' = TRUE /\ loading' = FALSE

(* confirmTransition goes on with true, and closes whatever dialog is      *)
(* open; if its page is gone, it finds none.                               *)
Returns(t) == pending' = IF task[t].from > 0 /\ task[t].mounted THEN Closed ELSE pending

(* Mutation: the list is not awaited, so the dialog closes before it. *)
AcceptedUnawaited(t) ==
  /\ task[t].at = "answered"
  /\ task[t].ok
  /\ task' = [task EXCEPT ![t] = Listing(@.from, stored, @.mounted)]
  /\ loading' = TRUE
  /\ error' = FALSE
  /\ Returns(t)
  /\ UNCHANGED <<path, row, items, sessions>>

(* The POST succeeded: load runs before the function returns. *)
Accepted(t) ==
  /\ task[t].at = "answered"
  /\ task[t].ok
  /\ task' = [task EXCEPT ![t] = Listing(@.from, stored, @.mounted)]
  /\ loading' = TRUE
  /\ error' = FALSE
  /\ UNCHANGED <<path, row, items, pending, sessions>>

Refused(t) ==
  /\ task[t].at = "answered"
  /\ ~task[t].ok
  /\ task' = [task EXCEPT ![t] = Done(0)]
  /\ Fails
  /\ UNCHANGED <<path, row, items, pending, sessions>>

(* load swallows its error: what waits for it goes on as after a success.  *)
ListArrives(t) ==
  /\ task[t].at = "listed"
  /\ \/ task[t].ok /\ items' = task[t].found /\ loading' = FALSE /\ UNCHANGED error
     \/ ~task[t].ok /\ Fails /\ UNCHANGED items
  /\ task' = [task EXCEPT ![t] = Done(@.from)]
  /\ Returns(t)
  /\ UNCHANGED <<path, row, sessions>>

(* fetch rejects.  Nobody knows whether a POST is still under way.         *)
NetworkFails(t) ==
  /\ Faults
  /\ \/ /\ task[t].at = "posted"
        /\ task' = [task EXCEPT ![t].at = "lost"]
        /\ UNCHANGED pending
     \/ /\ task[t].at = "answered"
        /\ task' = [task EXCEPT ![t] = Done(IF @.ok THEN @.from ELSE 0)]
        /\ UNCHANGED pending
     \/ /\ task[t].at \in {"listing", "listed"}
        /\ task' = [task EXCEPT ![t] = Done(@.from)]
        /\ Returns(t)
  /\ Fails
  /\ UNCHANGED <<path, row, items, sessions>>

-----------------------------------------------------------------------------
(* Logging in opens the page, which loads.  Logging out leaves it, and the *)
(* functions that wait for an answer go on without it; for a moment the    *)
(* page is there anew, outside the shell, and loads without a token.       *)

SignIn(t) ==
  /\ \E u \in Users : Login(u)
  /\ Start(t, Listing(0, stored', TRUE))
  /\ UNCHANGED <<path, row, items, pending>>

(* Mutation: the page stays mounted. *)
SignOutInPlace(t) ==
  /\ Logout
  /\ UNCHANGED <<path, row, items, pending, loading, error, task>>

Unmount(stage) ==
  IF stage.at \in {"new", "done"} THEN stage ELSE [stage EXCEPT !.mounted = FALSE]

SignOut(t) ==
  /\ Logout
  /\ task[t] = New
  /\ task' = [u \in Tasks |-> IF u = t THEN Listing(0, stored', FALSE) ELSE Unmount(task[u])]
  /\ pending' = Closed
  /\ loading' = TRUE
  /\ error' = FALSE
  /\ UNCHANGED <<path, row, items>>

Outside ==
  /\ Elsewhere \/ Tick \/ \E u \in Users : ChangeAccount(u)
  /\ UNCHANGED <<path, row, items, pending, loading, error, task>>

-----------------------------------------------------------------------------

InitialStatus(k) ==
  IF k = "decision" THEN PriorityDecisionInitialStatus ELSE RecordInitialStatus[k]

(* The page has been loaded. *)
Init ==
  /\ SessionsInit
  /\ path \in DOMAIN Graphs
  /\ \E u \in {v \in Users : RequireMinimumRole(Hired[v], "operator")} :
       row = [status |-> InitialStatus(path), version |-> 1, preparedBy |-> u]
  /\ items = row
  /\ pending = Closed
  /\ loading = FALSE
  /\ error = FALSE
  /\ task = [t \in Tasks |-> New]

Click(t) == Load(t) \/ Confirm(t) \/ CreateDemo(t) \/ SignIn(t) \/ SignOut(t)

Serve(t) == Move(t) \/ Create(t) \/ List(t)

Arrives(t) == Accepted(t) \/ Refused(t) \/ ListArrives(t) \/ NetworkFails(t)

Next ==
  \/ \E t \in Tasks : Click(t) \/ Serve(t) \/ Arrives(t)
  \/ Choose \/ Cancel
  \/ Outside
  \/ OthersWrite

Spec == Init /\ [][Next]_vars

-----------------------------------------------------------------------------

Items == [status : Statuses, version : Nat \ {0}, preparedBy : Users] \cup {Nothing}

Dialogs == {Closed} \cup [item : Items \ {Nothing}, status : Statuses]

TaskStates ==
  {New} \cup [at : {"done"}, from : Nat]
    \cup [at : {"posted", "lost"}, kind : {"move", "create"}, dialog : Dialogs,
          expected : Nat, token : Tokens \cup {NoToken}, sent : Nat, mounted : BOOLEAN]
    \cup [at : {"answered"}, from : Nat, ok : BOOLEAN, mounted : BOOLEAN]
    \cup [at : {"listing"}, from : Nat, token : Tokens \cup {NoToken}, sent : Nat, mounted : BOOLEAN]
    \cup [at : {"listed"}, from : Nat, ok : BOOLEAN, found : Items, mounted : BOOLEAN]

UnderWay(t) == task[t].at \notin {"new", "lost", "done"}

(* Every variable has its type, and a dialog is open only on the page of a *)
(* tab that is logged in.                                                  *)
TypeOK ==
  /\ SessionsTypeOK
  /\ path \in DOMAIN Graphs
  /\ row \in Items
  /\ items \in Items
  /\ pending \in Dialogs
  /\ pending # Closed => session # NoToken
  /\ loading \in BOOLEAN
  /\ error \in BOOLEAN
  /\ task \in [Tasks -> TaskStates]

(* A version the page names was shown before it was sent, whichever        *)
(* answers came late: what the other modules ask of clients that echo.     *)
EchoesShown ==
  \A t \in Tasks : Sent(t, "move") /\ row # Nothing => task[t].expected <= row.version

(* The dialog says "status -> target", and a confirmed move does that or   *)
(* nothing: whoever wrote since, and whatever the page loaded behind the   *)
(* dialog, the record leaves the very status the user saw.                 *)
Handled(t) == Sent(t, "move") /\ task'[t].at \in {"answered", "done"}

MovesAsShown ==
  [][\A t \in Tasks : Handled(t) /\ row' # row =>
       /\ row.status = task[t].dialog.item.status
       /\ row'.status = task[t].dialog.status]_vars

(* Confirming twice, or again after an error that hid a success, moves the *)
(* record once: no two clicks move it from the same version, not even when *)
(* others have brought it back to the same status.                         *)
MovedFrom(t) ==
  IF task[t].at \in {"new", "posted", "lost"} \/ (task[t].at = "answered" /\ ~task[t].ok) THEN 0
  ELSE task[t].from

MovedOnce ==
  \A t, u \in Tasks : t # u /\ MovedFrom(t) > 0 => MovedFrom(t) # MovedFrom(u)

(* "Backend routes and frontend guards, navigation and buttons agree"      *)
(* (README): while the record is as shown, the page offers exactly the     *)
(* moves the server would accept from the user the tab shows.              *)
ButtonsMatchRoutes ==
  /\ row # Nothing
  /\ items.version = row.version
  /\ Authentic(session, clock)
  => targetsFor(items) = {s \in Statuses : MoveVerdict(session, clock, row.version, s) = "ok"}

(* The end of a confirmed move closes whatever dialog is open, which need  *)
(* not be the one that was confirmed.  Whichever it is, the user then sees *)
(* what the move did: the list is of a later version than the one that was *)
(* moved, or the record is gone, or the page says that the load failed.    *)
MoveEndsOnNews ==
  [][\A t \in Tasks :
       UnderWay(t) /\ task'[t].at # task[t].at /\ pending # pending' /\ ~error' =>
         items' = Nothing \/ items'.version > task[t].from]_vars

(* A token outlives a demotion or a deactivation of its user, and a change *)
(* may be made long after its token was checked.  But the click for it was *)
(* made less than a token's lifetime after the user lost the authority, or *)
(* less than that and the time between the server's look at the user and   *)
(* its signature.                                                          *)
AuthorityIsRecent ==
  [][\A t \in Tasks : Handled(t) /\ row' # row => Current(task[t].token, task[t].sent)]_vars

(* The page does not keep spinning when nothing is under way; the flag may *)
(* be off while something is, for the first answer resets it.              *)
SpinnerStops == loading => \E t \in Tasks : UnderWay(t)
=============================================================================
