---------------------------- MODULE RateLimiter -----------------------------
(***************************************************************************)
(* The rate limiter: one counter per key and minute in redis, shared by    *)
(* all processes, and a map of counters in each process for the requests   *)
(* that redis does not count (backend/internal/middleware/ratelimit.go).   *)
(*                                                                         *)
(* A request reads the clock, and then asks redis; the minute may end in   *)
(* between.  The local map is read, cleaned and written under a mutex,     *)
(* together with a reading of the clock.                                   *)
(***************************************************************************)
EXTENDS Naturals, FiniteSets

CONSTANTS
  Requests,    \* requests, each let in or refused once
  Keys,        \* client address and route
  Processes,   \* processes of the server; a restarted one is another
  Limit,       \* REQUEST_LIMIT, requests per key and minute
  Threshold,   \* size of the map from which it is cleaned (512)
  Faults,      \* redis may fail, or is not configured
  LastMinute   \* bound on the clock

ASSUME LimiterAssumption ==
  /\ IsFiniteSet(Requests)
  /\ "redis" \notin Processes
  /\ Limit \in Nat \ {0}
  /\ Threshold \in Nat \ {0}
  /\ Faults \in BOOLEAN
  /\ LastMinute \in Nat

Minutes == 0 .. LastMinute

VARIABLES
  now,      \* the minute the clock shows
  remote,   \* redis: [Keys \X Minutes -> counter], 0 when there is no such key
  touched,  \* redis: the minute of the last EXPIRE of that key
  local,    \* [Processes -> function from some keys to buckets]
  request   \* [Requests -> how far it is, and what was decided]

vars == <<now, remote, touched, local, request>>

Fresh == [at |-> "new"]

(* What redis, or a process, let through of a key in a minute.             *)
Admitted(backend, k, m) ==
  {r \in Requests : /\ request[r].at = "done"
                    /\ request[r].backend = backend
                    /\ request[r].key = k
                    /\ request[r].minute = m
                    /\ request[r].verdict = "admitted"}

Verdict(count) == IF count <= Limit THEN "admitted" ELSE "refused"

Decide(r, backend, minute, count) ==
  request' = [request EXCEPT ![r] =
    [at |-> "done", key |-> @.key, asked |-> @.minute, backend |-> backend,
     minute |-> minute, verdict |-> Verdict(count)]]

(* Reads the clock for the name of the key in redis.                       *)
Arrive(r) ==
  /\ request[r].at = "new"
  /\ \E k \in Keys, p \in Processes :
       request' = [request EXCEPT ![r] =
         [at |-> "redis", key |-> k, process |-> p, minute |-> now]]
  /\ UNCHANGED <<now, remote, touched, local>>

Slot(r) == <<request[r].key, request[r].minute>>

(* MULTI, INCR, EXPIRE 2 minutes, EXEC.                                    *)
Increment(r) ==
  /\ remote' = [remote EXCEPT ![Slot(r)] = @ + 1]
  /\ touched' = [touched EXCEPT ![Slot(r)] = now]

CountInRedis(r) ==
  /\ request[r].at = "redis"
  /\ Increment(r)
  /\ Decide(r, "redis", request[r].minute, remote'[Slot(r)])
  /\ UNCHANGED <<now, local>>

(* An error, at once if redis is not configured, or with or without effect *)
(* if it does not answer: the process counts for itself.                   *)
RedisFails(r) ==
  /\ Faults
  /\ request[r].at = "redis"
  /\ request' = [request EXCEPT ![r].at = "local"]
  /\ Increment(r) \/ UNCHANGED <<remote, touched>>
  /\ UNCHANGED <<now, local>>

(* Mutation: one entry more before the map is cleaned.                     *)
CleanedLate(buckets) ==
  IF Cardinality(DOMAIN buckets) <= Threshold THEN buckets
  ELSE [k \in {q \in DOMAIN buckets : buckets[q].minute >= now} |-> buckets[k]]

(* cleanupLocal: from the threshold on, entries of earlier minutes go.     *)
Cleaned(buckets) ==
  IF Cardinality(DOMAIN buckets) < Threshold THEN buckets
  ELSE [k \in {q \in DOMAIN buckets : buckets[q].minute >= now} |-> buckets[k]]

(* Mutation: the clock is read before the mutex is taken.                  *)
CountedEarly(buckets, r) ==
  LET k == request[r].key
      m == request[r].minute
      count == IF k \in DOMAIN buckets /\ buckets[k].minute = m
                 THEN buckets[k].count + 1 ELSE 1
  IN [q \in DOMAIN buckets \cup {k} |->
        IF q = k THEN [minute |-> m, count |-> count] ELSE buckets[q]]

(* Mutation: the bucket of an earlier minute is counted on.                *)
CountedOn(buckets, r) ==
  LET k == request[r].key
      count == IF k \in DOMAIN buckets THEN buckets[k].count + 1 ELSE 1
  IN [q \in DOMAIN buckets \cup {k} |->
        IF q = k THEN [minute |-> now, count |-> count] ELSE buckets[q]]

(* Mutation: a new bucket is stored before it is counted in.               *)
CountedFromZero(buckets, r) ==
  LET k == request[r].key
      count == IF k \in DOMAIN buckets /\ buckets[k].minute = now
                 THEN buckets[k].count + 1 ELSE 0
  IN [q \in DOMAIN buckets \cup {k} |->
        IF q = k THEN [minute |-> now, count |-> count] ELSE buckets[q]]

(* The bucket of the key, started anew in another minute.                  *)
Counted(buckets, r) ==
  LET k == request[r].key
      count == IF k \in DOMAIN buckets /\ buckets[k].minute = now
                 THEN buckets[k].count + 1 ELSE 1
  IN [q \in DOMAIN buckets \cup {k} |->
        IF q = k THEN [minute |-> now, count |-> count] ELSE buckets[q]]

(* incrementLocal, whole: it holds the mutex.                              *)
CountLocally(r) ==
  LET p == request[r].process
      k == request[r].key
  IN /\ request[r].at = "local"
     /\ local' = [local EXCEPT ![p] = Counted(Cleaned(@), r)]
     /\ Decide(r, p, local'[p][k].minute, local'[p][k].count)
     /\ UNCHANGED <<now, remote, touched>>

(* Two minutes after the last increment: in the minute after the next at   *)
(* the earliest.                                                           *)
Expire(k, m) ==
  /\ remote[<<k, m>>] > 0
  /\ touched[<<k, m>>] + 2 <= now
  /\ remote' = [remote EXCEPT ![<<k, m>>] = 0]
  /\ UNCHANGED <<now, touched, local, request>>

(* A call to redis returns, or fails, in less than a minute (the client's  *)
(* timeouts are of seconds).                                               *)
Tick ==
  /\ now < LastMinute
  /\ \A r \in Requests : request[r].at = "redis" => request[r].minute = now
  /\ now' = now + 1
  /\ UNCHANGED <<remote, touched, local, request>>

Init ==
  /\ now = 0
  /\ remote = [slot \in Keys \X Minutes |-> 0]
  /\ touched = [slot \in Keys \X Minutes |-> 0]
  /\ local = [p \in Processes |-> [k \in {} |-> [minute |-> 0, count |-> 0]]]
  /\ request = [r \in Requests |-> Fresh]

Next ==
  \/ \E r \in Requests : Arrive(r) \/ CountInRedis(r) \/ RedisFails(r) \/ CountLocally(r)
  \/ \E k \in Keys, m \in Minutes : Expire(k, m)
  \/ Tick

Spec == Init /\ [][Next]_vars

-----------------------------------------------------------------------------

Buckets == [minute : Minutes, count : Nat \ {0}]

RequestStates ==
  {Fresh}
    \cup [at : {"redis", "local"}, key : Keys, process : Processes, minute : Minutes]
    \cup [at : {"done"}, key : Keys, asked : Minutes, backend : {"redis"} \cup Processes,
          minute : Minutes, verdict : {"admitted", "refused"}]

(* Every variable has its type; no bucket is of a minute to come.          *)
TypeOK ==
  /\ now \in Minutes
  /\ remote \in [Keys \X Minutes -> Nat]
  /\ touched \in [Keys \X Minutes -> Minutes]
  /\ DOMAIN local = Processes
  /\ \A p \in Processes :
       /\ DOMAIN local[p] \subseteq Keys
       /\ \A k \in DOMAIN local[p] : local[p][k] \in Buckets /\ local[p][k].minute <= now
  /\ request \in [Requests -> RequestStates]

(* Redis lets no more than Limit requests of a key through in a minute,    *)
(* and neither does any one process: however requests race, whenever a     *)
(* minute ends under them, whatever expires or is cleaned away.  What a    *)
(* failing redis can add is therefore Limit for each process.              *)
LimitHolds ==
  \A backend \in {"redis"} \cup Processes : \A k \in Keys : \A m \in Minutes :
    Cardinality(Admitted(backend, k, m)) <= Limit

(* Nobody is refused before the limit is used up: a process that refuses   *)
(* let Limit requests through in that minute; redis refuses when Limit     *)
(* others asked it in that minute, answered or not.                        *)
RefusalsAreDue ==
  \A r \in Requests : request[r].at = "done" /\ request[r].verdict = "refused" =>
    LET k == request[r].key
        m == request[r].minute
    IN IF request[r].backend = "redis"
         THEN Cardinality({q \in Requests \ {r} :
                /\ request[q].at \in {"local", "done"}
                /\ request[q].key = k
                /\ (IF request[q].at = "done" THEN request[q].asked ELSE request[q].minute) = m})
              >= Limit
         ELSE Cardinality(Admitted(request[r].backend, k, m)) = Limit

(* What the map keeps of the past is bounded, though it is only looked at  *)
(* when a request is counted, and never by a timer: fewer entries than     *)
(* Threshold are older than the newest.  Entries of one minute are not     *)
(* bounded by anything but the number of keys.                             *)
StaleEntriesBounded ==
  \A p \in Processes :
    Cardinality({k \in DOMAIN local[p] :
      \E q \in DOMAIN local[p] : local[p][k].minute < local[p][q].minute}) < Threshold
=============================================================================
