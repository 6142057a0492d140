---------------------------- MODULE MCWorkbench -----------------------------
(* Workbench on small instances. *)
EXTENDS Workbench

MCHired == [viewer |-> "viewer", operator |-> "operator", reviewer |-> "reviewer"]
MCUsers == DOMAIN MCHired

SecondClick == \E t \in Tasks : t > 1 /\ task[t] # New
LoggedOut == task[0] # New

(* Clicks differ by name only.  Number 0 is for logging out, once, before  *)
(* the second click.                                                       *)
InOrder ==
  \A t \in Tasks : task[t] = New /\ task'[t] # New =>
    IF t = 0 THEN session # NoToken /\ session' = NoToken /\ ~SecondClick
    ELSE /\ session = NoToken \/ session' # NoToken
         /\ \A u \in Tasks \ {0} : u < t => task[u] # New

Undisturbed ==
  /\ clock = 0
  /\ stored = session
  /\ \A u \in Users : account[u].active /\ account[u].role = Hired[u]

(* What happens to the session is explored for the decisions, where most   *)
(* depends on who is who, and which others edit once: one user's account   *)
(* changes, another tab acts once, the viewer does not log in again, and   *)
(* logging out and the second click come only if no account changed, no    *)
(* other tab acted and no time went by.  Of the other kinds, whose pages   *)
(* differ in their graphs only, one has a second click.                    *)
Bounds ==
  /\ path # "decision" => UNCHANGED sessions
  /\ path = "decision" /\ task' = task /\ row' \notin {row, Nothing} => row.version = 1
  /\ \A u \in Users : u # "reviewer" => account'[u] = account[u]
  /\ stored' # stored => stored'.user # "viewer"
  /\ stored' # stored /\ session' = session => stored = session
  /\ SecondClick' \/ LoggedOut' => path \in {"bridge", "decision"} /\ Undisturbed'
=============================================================================
