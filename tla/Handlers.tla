------------------------------ MODULE Handlers ------------------------------
(***************************************************************************)
(* The life of a mutating request, common to the four aggregates: route    *)
(* guard, read and checks, write, audit entry, final read, answer          *)
(* (backend/internal/middleware/auth.go, handler and service).             *)
(*                                                                         *)
(* A handler runs in its own goroutine and holds no lock; handlers of      *)
(* different requests interleave between their statements.  The modules of *)
(* the aggregates say what each step does to the tables.                   *)
(***************************************************************************)
EXTENDS Naturals, Roles, Store

CONSTANTS
  Users,     \* the usernames tokens are signed for
  Role,      \* [Users -> AllRoles], the role in the token
  Requests,  \* the HTTP requests that may arrive, each once
  Faults     \* the database may fail and the process may die

ASSUME HandlersAssumption ==
  /\ Role \in [Users -> AllRoles]
  /\ Faults \in BOOLEAN

VARIABLES
  pc,       \* [Requests -> the step its handler takes next]
  call,     \* [Requests -> actor, operation and input]
  current,  \* [Requests -> the row the handler read before its checks]
  reply     \* [Requests -> the answer sent]

handlers == <<pc, call, current, reply>>

NoCall == [op |-> "none"]

NoItem == [state |-> "absent"]

Replies == {"none", "ok", "not_found", "conflict", "forbidden", "rule", "error", "cut"}

InFlight(r) == pc[r] \in {"write", "audit", "reread"}

MayWrite(user) == RequireMinimumRole(Role[user], "operator")

MayDelete(user) == RequireRoles(Role[user], {"admin"})

NoneArrived ==
  /\ pc = [r \in Requests |-> "new"]
  /\ call = [r \in Requests |-> NoCall]
  /\ current = [r \in Requests |-> NoItem]
  /\ reply = [r \in Requests |-> "none"]

(* The answer is sent and the handler's locals are gone. *)
Answer(r, code) ==
  /\ pc' = [pc EXCEPT ![r] = "done"]
  /\ reply' = [reply EXCEPT ![r] = code]
  /\ call' = [call EXCEPT ![r] = NoCall]
  /\ current' = [current EXCEPT ![r] = NoItem]

Goto(r, step) ==
  /\ pc' = [pc EXCEPT ![r] = step]
  /\ UNCHANGED <<call, current, reply>>

(* Route guard, read and checks.  Nothing is written yet, so the read is   *)
(* one step with the checks that follow it.                                *)
Check(r, c, item, verdict) ==
  /\ pc[r] = "new"
  /\ \/ /\ verdict = "pass"
        /\ pc' = [pc EXCEPT ![r] = "write"]
        /\ call' = [call EXCEPT ![r] = c]
        /\ current' = [current EXCEPT ![r] = item]
        /\ UNCHANGED reply
     \/ /\ verdict # "pass"
        /\ Answer(r, verdict)

(* The commit is durable; its acknowledgement may still be lost, and then  *)
(* the handler sees an error.                                              *)
Committed(r, next, acked) ==
  \/ /\ acked
     /\ Goto(r, next)
  \/ /\ ~acked
     /\ Faults
     /\ Answer(r, "error")

(* A read fails, or a write fails and is rolled back; a client that hangs  *)
(* up cancels the request's context, with the same effect.                 *)
StatementFails(r) ==
  /\ Faults
  /\ pc[r] \in {"new", "write", "reread"}
  /\ Answer(r, "error")

(* The process dies with every handler in it. *)
ProcessDies ==
  /\ Faults
  /\ \E r \in Requests : InFlight(r)
  /\ pc' = [r \in Requests |-> IF InFlight(r) THEN "done" ELSE pc[r]]
  /\ reply' = [r \in Requests |-> IF InFlight(r) THEN "cut" ELSE reply[r]]
  /\ call' = [r \in Requests |-> NoCall]
  /\ current' = [r \in Requests |-> NoItem]
=============================================================================
