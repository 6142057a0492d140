------------------------------ MODULE Sessions ------------------------------
(***************************************************************************)
(* Logging in, and what a login is good for                                *)
(* (backend/internal/service/security.go, middleware/auth.go;              *)
(* frontend/src/hooks/useAuth.ts, api/client.ts).                          *)
(*                                                                         *)
(* The server keeps no sessions: a login is a signed token, which says who *)
(* its user is and what role the user had when the server looked, which is *)
(* before it compares the password and takes the time.  The tabs of one    *)
(* browser share a token in localStorage, which every request reads when it *)
(* is sent; what a tab shows and offers follows a variable of its own, set *)
(* when that tab logs in or out.                                           *)
(***************************************************************************)
EXTENDS Naturals, Roles

CONSTANTS
  Users,    \* the usernames
  Hired,    \* [Users -> AllRoles], their roles in the beginning
  TTL,      \* TokenTTL
  LastTime  \* bound on the clock

ASSUME SessionsAssumption ==
  /\ Hired \in [Users -> AllRoles]
  /\ TTL \in Nat \ {0}
  /\ LastTime \in Nat

VARIABLES
  clock,    \* the time
  account,  \* the users table: [Users -> role, active and the last change]
  stored,   \* localStorage: a token, or none
  session   \* the token in the variable of the tab, or none

sessions == <<clock, account, stored, session>>

NoToken == [user |-> "", role |-> "", read |-> 0, issued |-> 0]

Tokens == [user : Users, role : AllRoles, read : 0 .. LastTime, issued : 0 .. LastTime]

(* Mutation: a token is good for ever. *)
AuthenticForEver(token, time) == token # NoToken

(* The signature holds, and exp lies ahead of the time.                    *)
Authentic(token, time) == token # NoToken /\ time < token.issued + TTL

CanAtLeast(minimum) ==
  session # NoToken /\ RequireMinimumRole(session.role, minimum)

(* The roles of u with which the server may have found it active then: of  *)
(* two things done at one time, either may have come first.                *)
FoundAt(u, then) ==
  LET a == account[u]
  IN {role \in {Hired[u]} : then <= a.changed}
       \cup {role \in {a.role} : a.active /\ then >= a.changed}

(* The server looks for an active user of that name, compares the password *)
(* and signs what it found.                                                *)
Signed(u) == {k \in Tokens :
  /\ k.user = u
  /\ k.issued = clock
  /\ k.read <= clock
  /\ k.role \in FoundAt(u, k.read)}

(* The form is shown to a tab without a session.  Time between the token   *)
(* and its arrival is time before the token: nothing in the tab tells.     *)
Login(u) ==
  /\ session = NoToken
  /\ stored' \in Signed(u)
  /\ session' = stored'
  /\ UNCHANGED <<clock, account>>

Logout ==
  /\ session # NoToken
  /\ stored' = NoToken
  /\ session' = NoToken
  /\ UNCHANGED <<clock, account>>

(* Another tab logs in or out.  This one does not notice.                  *)
Elsewhere ==
  /\ stored' \in {NoToken} \cup UNION {Signed(u) : u \in Users}
  /\ UNCHANGED <<clock, account, session>>

(* No route changes a user; who runs the database may, each of them once.  *)
ChangeAccount(u) ==
  /\ account[u].active
  /\ account[u].role = Hired[u]
  /\ \/ account' = [account EXCEPT ![u].active = FALSE, ![u].changed = clock]
     \/ /\ account[u].role # "viewer"
        /\ account' = [account EXCEPT ![u].role = "viewer", ![u].changed = clock]
  /\ UNCHANGED <<clock, stored, session>>

Tick ==
  /\ clock < LastTime
  /\ clock' = clock + 1
  /\ UNCHANGED <<account, stored, session>>

SessionsInit ==
  /\ clock = 0
  /\ account = [u \in Users |-> [role |-> Hired[u], active |-> TRUE, changed |-> 0]]
  /\ stored \in {[user |-> u, role |-> Hired[u], read |-> 0, issued |-> 0] : u \in Users}
  /\ session = stored

SessionsTypeOK ==
  /\ clock \in 0 .. LastTime
  /\ account \in [Users -> [role : AllRoles, active : BOOLEAN, changed : 0 .. LastTime]]
  /\ stored \in Tokens \cup {NoToken}
  /\ session \in Tokens \cup {NoToken}

(* The authority a token gives is the user's, or was until less than a     *)
(* token's lifetime, and the time its login took, before the request.      *)
Current(token, sent) ==
  LET a == account[token.user]
  IN \/ a.active /\ a.role = token.role
     \/ sent < a.changed + TTL + (token.issued - token.read)
=============================================================================
