-------------------------------- MODULE Roles -------------------------------
(***************************************************************************)
(* The four roles and the route guards built from them                     *)
(* (backend/internal/middleware/auth.go).  A role is the one the signed    *)
(* token carries; a request whose role a guard refuses reaches no service. *)
(***************************************************************************)
EXTENDS Naturals

roleRank == [viewer |-> 1, operator |-> 2, reviewer |-> 3, admin |-> 4]

AllRoles == DOMAIN roleRank

(* POST, PUT and the transition route of every aggregate. *)
RequireMinimumRole(role, minimum) == roleRank[role] >= roleRank[minimum]

(* DELETE: a list of roles, which every aggregate's route gives as {admin}. *)
RequireRoles(role, allowed) == role \in allowed
=============================================================================
