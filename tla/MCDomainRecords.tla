--------------------------- MODULE MCDomainRecords --------------------------
(* DomainRecords on small instances. *)
EXTENDS DomainRecords, TLC

CONSTANTS Complete, NoCategory, NoOwner   \* model values

(* The category is only blanks in an input the service accepts, the owner  *)
(* in one it refuses.                                                      *)
MCInputs == {Complete, NoCategory, NoOwner}
MCBlankIn == [f \in MCInputs |-> CASE f = Complete -> {}
                                  [] f = NoCategory -> {"category"}
                                  [] f = NoOwner -> {"owner"}]

(* The actor of a call is only looked at by the route guards, so one user  *)
(* who passes all of them and one who passes none are enough.              *)
MCRole == [admin |-> "admin", viewer |-> "viewer"]
MCUsers == DOMAIN MCRole

(* Requests differ only by name, so it is enough to let them arrive in the *)
(* order of their numbers.  A request that its checks refuse, or that      *)
(* fails before it writes, leaves every table and handler alone, so it is  *)
(* enough to let the last one be refused.                                  *)
ArrivalOrder ==
  \A r \in Requests : pc[r] = "new" /\ pc'[r] # "new" =>
    /\ \A q \in Requests : q < r => pc[q] # "new"
    /\ pc'[r] = "done" => \A q \in Requests : q <= r

(* Failures are explored with one request fewer: a failure answers a       *)
(* handler only while some request has not arrived, and the last request   *)
(* arrives only if none has been answered with an error and no audit entry *)
(* of an answered one is missing.                                          *)
LastHasArrived == \A r \in Requests : pc[r] # "new"

Failed(r) ==
  /\ pc[r] \in {"reread", "done"}
  /\ \/ reply[r] \in {"error", "cut"}
     \/ reply[r] \in {"none", "ok"} /\ \A a \in audits : a.request # r

FewerWhenFailing ==
  \A r \in Requests : LastHasArrived' /\ Failed(r)' =>
    \/ WriteRefused(r)
    \/ pc[r] = "new"
    \/ LastHasArrived /\ Failed(r)

(* The three aggregates differ in their graphs only: the last request      *)
(* arrives for one of them.                                                *)
BridgesOnly == LastHasArrived' => kind = "bridge"

(* No definition tells one accepted input from another. *)
FieldsSymmetry == Permutations(Fields)
=============================================================================
