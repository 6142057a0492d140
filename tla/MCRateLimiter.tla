--------------------------- MODULE MCRateLimiter ----------------------------
(* RateLimiter on small instances. *)
EXTENDS RateLimiter, TLC

(* Requests and keys are compared for equality only and differ by name, so *)
(* it is enough to let requests arrive, and keys appear, in the order of   *)
(* their numbers.                                                          *)
ArrivalOrder ==
  \A r \in Requests : request[r].at = "new" /\ request'[r].at # "new" =>
    /\ \A q \in Requests : q < r => request[q].at # "new"
    /\ \A k \in Keys : k < request'[r].key =>
         \E q \in Requests : request[q].at # "new" /\ request[q].key = k

(* Processes are compared for equality only, too. *)
ProcessSymmetry == Permutations(Processes)
=============================================================================
