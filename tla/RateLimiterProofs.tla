-------------------------- MODULE RateLimiterProofs -------------------------
(***************************************************************************)
(* The rate limiter, for any limit, threshold, keys and processes and any  *)
(* finite number of requests: each counter bounds what was let through on  *)
(* its account for as long as anybody may still count in it.               *)
(***************************************************************************)
EXTENDS RateLimiter, FiniteSetTheorems, TLAPS

Spent(backend, k, m) == Cardinality(Admitted(backend, k, m))

BucketCount(p, k, m) ==
  IF k \in DOMAIN local[p] /\ local[p][k].minute = m THEN local[p][k].count ELSE 0

(* A request asks redis in its own minute or the next.                     *)
Asking(r) ==
  request[r].at = "redis" =>
    request[r].minute <= now /\ now <= request[r].minute + 1

(* A counter in redis is not touched before its minute, and counts what    *)
(* was admitted until nobody asks for it any more.                         *)
RemoteCounts(k, m) ==
  /\ remote[<<k, m>>] > 0 => touched[<<k, m>>] >= m
  /\ Spent("redis", k, m) <= Limit
  /\ m + 1 >= now => Spent("redis", k, m) <= remote[<<k, m>>]

(* So does a bucket, until its minute is over.                             *)
LocalCounts(p, k, m) ==
  /\ Spent(p, k, m) <= Limit
  /\ m >= now => Spent(p, k, m) <= BucketCount(p, k, m)

IInv ==
  /\ TypeOK
  /\ \A r \in Requests : Asking(r)
  /\ \A k \in Keys, m \in Minutes : RemoteCounts(k, m)
  /\ \A p \in Processes, k \in Keys, m \in Minutes : LocalCounts(p, k, m)

-----------------------------------------------------------------------------
(* Counting. *)

LEMMA LimitNatural == Limit \in Nat \ {0} /\ Threshold \in Nat \ {0} /\ LastMinute \in Nat
BY LimiterAssumption

LEMMA AdmittedFinite ==
  ASSUME NEW b, NEW k, NEW m
  PROVE  IsFiniteSet(Admitted(b, k, m)) /\ Spent(b, k, m) \in Nat
<1>1. Admitted(b, k, m) \in SUBSET Requests
  BY DEF Admitted
<1>2. IsFiniteSet(Admitted(b, k, m))
  BY <1>1, FS_Subset, LimiterAssumption
<1> QED BY <1>2, FS_CardinalityType DEF Spent

(* A step that decides nothing spends nothing. *)
LEMMA NothingSpent ==
  ASSUME NEW b, NEW k, NEW m,
         \A r \in Requests :
           \/ request'[r] = request[r]
           \/ request[r].at # "done" /\ request'[r].at # "done"
  PROVE  Spent(b, k, m)' = Spent(b, k, m)
<1>1. Admitted(b, k, m)' = Admitted(b, k, m)
  BY DEF Admitted
<1> QED BY <1>1 DEF Spent

(* A decision is charged to one account, and to no other. *)
LEMMA DecisionSpends ==
  ASSUME TypeOK, NEW r \in Requests, request[r].at # "done",
         NEW backend, NEW minute, NEW count, Decide(r, backend, minute, count),
         NEW b, NEW k, NEW m
  PROVE  /\ b = backend /\ k = request[r].key /\ m = minute /\ count <= Limit =>
              Spent(b, k, m)' = Spent(b, k, m) + 1
         /\ ~(b = backend /\ k = request[r].key /\ m = minute /\ count <= Limit) =>
              Spent(b, k, m)' = Spent(b, k, m)
<1>1. /\ request'[r] = [at |-> "done", key |-> request[r].key, asked |-> request[r].minute,
                        backend |-> backend, minute |-> minute, verdict |-> Verdict(count)]
      /\ \A q \in Requests \ {r} : request'[q] = request[q]
  BY DEF TypeOK, Decide
<1>2. r \notin Admitted(b, k, m)
  BY DEF Admitted
<1>3. CASE b = backend /\ k = request[r].key /\ m = minute /\ count <= Limit
  <2>1. Admitted(b, k, m)' = Admitted(b, k, m) \cup {r}
    <3>1. r \in Admitted(b, k, m)'
      BY <1>1, <1>3 DEF Admitted, Verdict
    <3>2. \A q \in Requests \ {r} : q \in Admitted(b, k, m)' <=> q \in Admitted(b, k, m)
      BY <1>1 DEF Admitted
    <3>3. Admitted(b, k, m)' \subseteq Requests /\ Admitted(b, k, m) \subseteq Requests
      BY DEF Admitted
    <3> QED BY <3>1, <3>2, <3>3
  <2>2. PICK S : S = Admitted(b, k, m)
    OBVIOUS
  <2>3. Cardinality(S \cup {r}) = Cardinality(S) + 1
    BY <2>2, <1>2, FS_AddElement, AdmittedFinite
  <2> QED BY <2>1, <2>2, <2>3, <1>3 DEF Spent
<1>4. CASE ~(b = backend /\ k = request[r].key /\ m = minute /\ count <= Limit)
  <2>1. Admitted(b, k, m)' = Admitted(b, k, m)
    BY <1>1, <1>4 DEF Admitted, Verdict
  <2> QED BY <2>1, <1>4 DEF Spent
<1> QED BY <1>3, <1>4

-----------------------------------------------------------------------------
(* The map of a process. *)

LEMMA CleanedTyped ==
  ASSUME TypeOK, NEW p \in Processes
  PROVE  /\ DOMAIN Cleaned(local[p]) \subseteq DOMAIN local[p]
         /\ \A k \in DOMAIN Cleaned(local[p]) : Cleaned(local[p])[k] = local[p][k]
         /\ \A k \in DOMAIN local[p] :
              local[p][k].minute >= now => k \in DOMAIN Cleaned(local[p])
BY DEF Cleaned

(* What a local count leaves: the bucket of the key in this minute, one    *)
(* above what it was, and the buckets that cleaning spared.                *)
LEMMA CountedTyped ==
  ASSUME TypeOK, NEW r \in Requests, CountLocally(r), NEW p, p = request[r].process,
         NEW k, k = request[r].key
  PROVE  /\ p \in Processes /\ k \in Keys
         /\ \A q \in Processes \ {p} : local'[q] = local[q]
         /\ DOMAIN local' = Processes
         /\ DOMAIN local'[p] = DOMAIN Cleaned(local[p]) \cup {k}
         /\ local'[p][k] = [minute |-> now, count |-> BucketCount(p, k, now) + 1]
         /\ \A q \in DOMAIN Cleaned(local[p]) \ {k} : local'[p][q] = local[p][q]
<1>1. request[r].at = "local"
  BY DEF CountLocally
<1>2. request[r] \in [at : {"redis", "local"}, key : Keys, process : Processes, minute : Minutes]
  BY <1>1 DEF TypeOK, RequestStates, Fresh
<1>3. p \in Processes /\ k \in Keys
  BY <1>2
<1>4. local' = [local EXCEPT ![p] = Counted(Cleaned(local[p]), r)]
  BY DEF CountLocally
<1>5. local'[p] = Counted(Cleaned(local[p]), r)
  BY <1>3, <1>4 DEF TypeOK
<1>6. k \in DOMAIN Cleaned(local[p]) /\ Cleaned(local[p])[k].minute = now <=>
        k \in DOMAIN local[p] /\ local[p][k].minute = now
  <2>1. now \in Nat
    BY LimitNatural DEF TypeOK, Minutes
  <2> QED BY <2>1, <1>3, CleanedTyped
<1>7. Counted(Cleaned(local[p]), r)[k] = [minute |-> now, count |-> BucketCount(p, k, now) + 1]
  <2>1. CASE k \in DOMAIN local[p] /\ local[p][k].minute = now
    <3>1. Cleaned(local[p])[k] = local[p][k]
      BY <2>1, <1>3, <1>6, CleanedTyped
    <3> QED BY <2>1, <3>1, <1>6 DEF Counted, BucketCount
  <2>2. CASE ~(k \in DOMAIN local[p] /\ local[p][k].minute = now)
    BY <2>2, <1>6 DEF Counted, BucketCount
  <2> QED BY <2>1, <2>2
<1>8. \A q \in DOMAIN Cleaned(local[p]) \ {k} :
        Counted(Cleaned(local[p]), r)[q] = local[p][q]
  BY <1>3, CleanedTyped DEF Counted
<1>9. DOMAIN Counted(Cleaned(local[p]), r) = DOMAIN Cleaned(local[p]) \cup {k}
  BY DEF Counted
<1> QED BY <1>3, <1>4, <1>5, <1>7, <1>8, <1>9 DEF TypeOK

LEMMA BucketNatural ==
  ASSUME TypeOK, NEW p \in Processes, NEW k \in Keys, NEW m \in Minutes
  PROVE  BucketCount(p, k, m) \in Nat
BY DEF TypeOK, Buckets, BucketCount

-----------------------------------------------------------------------------
(* The steps. *)

LEMMA AskingTyped ==
  ASSUME TypeOK, NEW r \in Requests, request[r].at \in {"redis", "local"}
  PROVE  request[r] \in [at : {"redis", "local"}, key : Keys, process : Processes,
                         minute : Minutes]
BY DEF TypeOK, RequestStates, Fresh

LEMMA DecisionTyped ==
  ASSUME TypeOK, NEW r \in Requests, request[r].at \in {"redis", "local"},
         NEW b \in {"redis"} \cup Processes, NEW m \in Minutes, NEW count,
         Decide(r, b, m, count)
  PROVE  request' \in [Requests -> RequestStates]
<1>1. request[r].key \in Keys /\ request[r].minute \in Minutes
  BY AskingTyped
<1>2. Verdict(count) \in {"admitted", "refused"}
  BY DEF Verdict
<1>3. [at |-> "done", key |-> request[r].key, asked |-> request[r].minute,
       backend |-> b, minute |-> m, verdict |-> Verdict(count)] \in RequestStates
  BY <1>1, <1>2 DEF RequestStates
<1> QED BY <1>3 DEF TypeOK, Decide

LEMMA IncrementTyped ==
  ASSUME TypeOK, NEW r \in Requests, request[r].at = "redis", Increment(r)
  PROVE  /\ remote' \in [Keys \X Minutes -> Nat]
         /\ touched' \in [Keys \X Minutes -> Minutes]
         /\ Slot(r) \in Keys \X Minutes
         /\ remote'[Slot(r)] = remote[Slot(r)] + 1
         /\ touched'[Slot(r)] = now
         /\ \A slot \in Keys \X Minutes :
              slot # Slot(r) => remote'[slot] = remote[slot] /\ touched'[slot] = touched[slot]
<1>1. Slot(r) \in Keys \X Minutes
  BY AskingTyped DEF Slot
<1> QED BY <1>1 DEF TypeOK, Increment

LEMMA TypeStep ==
  ASSUME TypeOK, [Next]_vars
  PROVE  TypeOK'
<1>0. now \in Nat /\ now <= LastMinute
  BY LimitNatural DEF TypeOK, Minutes
<1>1. CASE UNCHANGED vars
  BY <1>1 DEF TypeOK, vars
<1>2. ASSUME NEW r \in Requests, Arrive(r)
      PROVE  TypeOK'
  <2> PICK k \in Keys, p \in Processes :
        request' = [request EXCEPT ![r] =
          [at |-> "redis", key |-> k, process |-> p, minute |-> now]]
    BY <1>2 DEF Arrive
  <2>1. [at |-> "redis", key |-> k, process |-> p, minute |-> now] \in RequestStates
    BY DEF TypeOK, RequestStates
  <2> QED BY <2>1, <1>2 DEF TypeOK, Arrive
<1>3. ASSUME NEW r \in Requests, CountInRedis(r)
      PROVE  TypeOK'
  <2>1. request' \in [Requests -> RequestStates]
    BY <1>3, AskingTyped, DecisionTyped DEF CountInRedis
  <2> QED BY <2>1, <1>3, IncrementTyped DEF CountInRedis, TypeOK
<1>4. ASSUME NEW r \in Requests, RedisFails(r)
      PROVE  TypeOK'
  <2>1. request' \in [Requests -> RequestStates]
    <3>1. request[r] \in [at : {"redis", "local"}, key : Keys, process : Processes,
                          minute : Minutes]
      BY <1>4, AskingTyped DEF RedisFails
    <3>2. [request[r] EXCEPT !.at = "local"] \in RequestStates
      BY <3>1 DEF RequestStates
    <3> QED BY <3>2, <1>4 DEF RedisFails, TypeOK
  <2>2. CASE Increment(r)
    BY <2>1, <2>2, <1>4, IncrementTyped DEF RedisFails, TypeOK
  <2>3. CASE UNCHANGED <<remote, touched>>
    BY <2>1, <2>3, <1>4 DEF RedisFails, TypeOK
  <2> QED BY <2>2, <2>3, <1>4 DEF RedisFails
<1>5. ASSUME NEW r \in Requests, CountLocally(r)
      PROVE  TypeOK'
  <2> DEFINE p == request[r].process
             k == request[r].key
  <2> HIDE DEF p, k
  <2>1. /\ p \in Processes /\ k \in Keys
        /\ \A q \in Processes \ {p} : local'[q] = local[q]
        /\ DOMAIN local' = Processes
        /\ DOMAIN local'[p] = DOMAIN Cleaned(local[p]) \cup {k}
        /\ local'[p][k] = [minute |-> now, count |-> BucketCount(p, k, now) + 1]
        /\ \A q \in DOMAIN Cleaned(local[p]) \ {k} : local'[p][q] = local[p][q]
    BY <1>5, CountedTyped DEF p, k
  <2>2. UNCHANGED <<now, remote, touched>>
    BY <1>5 DEF CountLocally
  <2>3. now \in Minutes /\ BucketCount(p, k, now) \in Nat
    BY <2>1, BucketNatural DEF TypeOK
  <2>4. local'[p][k] \in Buckets /\ local'[p][k].minute <= now
    BY <2>1, <2>3, <1>0 DEF Buckets
  <2>5. \A q \in DOMAIN local'[p] : local'[p][q] \in Buckets /\ local'[p][q].minute <= now
    BY <2>1, <2>4, CleanedTyped DEF TypeOK
  <2>6. DOMAIN local'[p] \subseteq Keys
    BY <2>1, CleanedTyped DEF TypeOK
  <2>7. \A q \in Processes :
          /\ DOMAIN local'[q] \subseteq Keys
          /\ \A j \in DOMAIN local'[q] : local'[q][j] \in Buckets /\ local'[q][j].minute <= now
    <3> SUFFICES ASSUME NEW q \in Processes
                 PROVE  /\ DOMAIN local'[q] \subseteq Keys
                        /\ \A j \in DOMAIN local'[q] :
                             local'[q][j] \in Buckets /\ local'[q][j].minute <= now
      OBVIOUS
    <3>1. CASE q = p
      BY <3>1, <2>5, <2>6
    <3>2. CASE q # p
      BY <3>2, <2>1 DEF TypeOK
    <3> QED BY <3>1, <3>2
  <2>8. request' \in [Requests -> RequestStates]
    <3>1. Decide(r, p, now, local'[p][k].count)
      <4>1. Decide(r, p, local'[p][k].minute, local'[p][k].count)
        BY <1>5 DEF CountLocally, p, k
      <4>2. local'[p][k].minute = now
        BY <2>1
      <4> QED BY <4>1, <4>2
    <3>2. request[r].at \in {"redis", "local"}
      BY <1>5 DEF CountLocally
    <3>3. PICK n : n = local'[p][k].count
      OBVIOUS
    <3>4. Decide(r, p, now, n) /\ p \in {"redis"} \cup Processes
      BY <3>1, <3>3, <2>1
    <3> QED BY <3>2, <3>4, <2>3, DecisionTyped
  <2> QED BY <2>1, <2>2, <2>7, <2>8 DEF TypeOK
<1>6. ASSUME NEW k \in Keys, NEW m \in Minutes, Expire(k, m)
      PROVE  TypeOK'
  BY <1>6 DEF TypeOK, Expire
<1>7. CASE Tick
  <2>1. now + 1 \in Minutes
    BY <1>7, <1>0, LimitNatural DEF Tick, Minutes
  <2>2. \A p \in Processes : \A k \in DOMAIN local[p] :
          local[p][k] \in Buckets /\ local[p][k].minute <= now + 1
    BY <1>0, LimitNatural DEF TypeOK, Buckets, Minutes
  <2> QED BY <1>7, <2>1, <2>2 DEF Tick, TypeOK
<1> QED
  BY <1>1, <1>2, <1>3, <1>4, <1>5, <1>6, <1>7 DEF Next

LEMMA AskingStep ==
  ASSUME IInv, [Next]_vars, NEW r \in Requests
  PROVE  Asking(r)'
<1>0. now \in Nat /\ request[r].at = "redis" => request[r].minute \in Nat
  BY LimitNatural, AskingTyped DEF IInv, TypeOK, Minutes
<1>1. CASE UNCHANGED <<now, request>>
  BY <1>1 DEF IInv, Asking
<1>2. ASSUME NEW q \in Requests, Arrive(q)
      PROVE  Asking(r)'
  BY <1>2, LimitNatural DEF Arrive, IInv, Asking, TypeOK, Minutes
<1>3. ASSUME NEW q \in Requests, CountInRedis(q) \/ RedisFails(q) \/ CountLocally(q)
      PROVE  Asking(r)'
  <2>1. UNCHANGED now /\ (request'[r] = request[r] \/ request'[r].at # "redis")
    <3>1. CASE RedisFails(q)
      <4>1. request'[q].at = "local"
        <5>1. request'[q] = [request[q] EXCEPT !.at = "local"] /\ request[q].at = "redis"
          BY <3>1 DEF RedisFails, IInv, TypeOK
        <5>2. request[q] \in [at : {"redis", "local"}, key : Keys, process : Processes,
                              minute : Minutes]
          BY <5>1, AskingTyped DEF IInv
        <5> QED BY <5>1, <5>2
      <4> QED BY <4>1, <3>1 DEF RedisFails, IInv, TypeOK
    <3>2. CASE CountInRedis(q) \/ CountLocally(q)
      <4>1. PICK b, n, count : Decide(q, b, n, count) /\ UNCHANGED now
        BY <3>2 DEF CountInRedis, CountLocally
      <4> QED BY <4>1 DEF Decide, IInv, TypeOK
    <3> QED BY <3>1, <3>2, <1>3
  <2> QED BY <2>1 DEF IInv, Asking
<1>4. CASE Tick
  <2>1. UNCHANGED request /\ now' = now + 1
    BY <1>4 DEF Tick
  <2>2. request[r].at = "redis" => request[r].minute = now
    BY <1>4 DEF Tick
  <2>3. now \in Nat
    BY LimitNatural DEF IInv, TypeOK, Minutes
  <2> QED BY <2>1, <2>2, <2>3 DEF Asking
<1>5. ASSUME NEW k \in Keys, NEW m \in Minutes, Expire(k, m)
      PROVE  UNCHANGED <<now, request>>
  BY <1>5 DEF Expire
<1> QED
  BY <1>1, <1>2, <1>3, <1>4, <1>5 DEF Next, vars

LEMMA RemoteStep ==
  ASSUME IInv, [Next]_vars, NEW k \in Keys, NEW m \in Minutes
  PROVE  RemoteCounts(k, m)'
<1> DEFINE slot == <<k, m>>
<1>0. /\ slot \in Keys \X Minutes
      /\ remote[slot] \in Nat /\ touched[slot] \in Nat /\ now \in Nat /\ m \in Nat
      /\ Spent("redis", k, m) \in Nat
      /\ Limit \in Nat
      /\ RemoteCounts(k, m)
  BY AdmittedFinite, LimitNatural DEF IInv, TypeOK, Minutes
<1>1. ASSUME Spent("redis", k, m)' = Spent("redis", k, m),
             UNCHANGED <<remote, touched>>,
             now' = now \/ now' = now + 1
      PROVE  RemoteCounts(k, m)'
  BY <1>0, <1>1 DEF RemoteCounts
<1>2. ASSUME NEW r \in Requests, Arrive(r)
      PROVE  RemoteCounts(k, m)'
  <2>1. Spent("redis", k, m)' = Spent("redis", k, m)
    BY <1>2, NothingSpent DEF Arrive, IInv, TypeOK
  <2> QED BY <2>1, <1>1, <1>2 DEF Arrive
<1>3. ASSUME NEW r \in Requests, request[r].at = "redis", Increment(r), UNCHANGED now,
             \/ Spent("redis", k, m)' = Spent("redis", k, m)
             \/ /\ slot = Slot(r) /\ remote'[slot] <= Limit
                /\ Spent("redis", k, m)' = Spent("redis", k, m) + 1
      PROVE  RemoteCounts(k, m)'
  <2>1. CASE slot = Slot(r)
    <3>1. remote'[slot] = remote[slot] + 1 /\ touched'[slot] = now
      BY <2>1, <1>3, IncrementTyped DEF IInv
    <3>2. m = request[r].minute
      BY <2>1 DEF Slot
    <3>3. m <= now /\ now <= m + 1
      BY <3>2, <1>3 DEF IInv, Asking
    <3> QED BY <3>1, <3>3, <1>0, <1>3 DEF RemoteCounts
  <2>2. CASE slot # Slot(r)
    <3>1. remote'[slot] = remote[slot] /\ touched'[slot] = touched[slot]
      BY <2>2, <1>0, <1>3, IncrementTyped DEF IInv
    <3> QED BY <3>1, <2>2, <1>0, <1>3 DEF RemoteCounts
  <2> QED BY <2>1, <2>2
<1>4. ASSUME NEW r \in Requests, CountInRedis(r)
      PROVE  RemoteCounts(k, m)'
  <2>1. /\ request[r].at = "redis" /\ Increment(r) /\ UNCHANGED now
        /\ Decide(r, "redis", request[r].minute, remote'[Slot(r)])
    BY <1>4 DEF CountInRedis
  <2>2. CASE k = request[r].key /\ m = request[r].minute /\ remote'[Slot(r)] <= Limit
    <3>1. slot = Slot(r)
      BY <2>2 DEF Slot
    <3>2. Spent("redis", k, m)' = Spent("redis", k, m) + 1
      BY <2>1, <2>2, DecisionSpends DEF IInv
    <3> QED BY <3>1, <3>2, <2>1, <2>2, <1>3
  <2>3. CASE ~(k = request[r].key /\ m = request[r].minute /\ remote'[Slot(r)] <= Limit)
    <3>1. Spent("redis", k, m)' = Spent("redis", k, m)
      BY <2>1, <2>3, DecisionSpends DEF IInv
    <3> QED BY <3>1, <2>1, <1>3
  <2> QED BY <2>2, <2>3
<1>5. ASSUME NEW r \in Requests, RedisFails(r)
      PROVE  RemoteCounts(k, m)'
  <2>1. Spent("redis", k, m)' = Spent("redis", k, m)
    <3>1. \A q \in Requests : q # r => request'[q] = request[q]
      BY <1>5 DEF RedisFails, IInv, TypeOK
    <3>2. request[r].at # "done" /\ request'[r].at # "done"
      <4>1. request'[r] = [request[r] EXCEPT !.at = "local"] /\ request[r].at = "redis"
        BY <1>5 DEF RedisFails, IInv, TypeOK
      <4>2. request[r] \in [at : {"redis", "local"}, key : Keys, process : Processes,
                            minute : Minutes]
        BY <4>1, AskingTyped DEF IInv
      <4> QED BY <4>1, <4>2
    <3> QED BY <3>1, <3>2, NothingSpent
  <2>2. CASE Increment(r)
    BY <2>1, <2>2, <1>3, <1>5 DEF RedisFails
  <2>3. CASE UNCHANGED <<remote, touched>>
    BY <2>1, <2>3, <1>1, <1>5 DEF RedisFails
  <2> QED BY <2>2, <2>3, <1>5 DEF RedisFails
<1>6. ASSUME NEW r \in Requests, CountLocally(r)
      PROVE  RemoteCounts(k, m)'
  <2> DEFINE p == request[r].process
  <2>1. request[r].at = "local" /\ UNCHANGED <<now, remote, touched>>
    BY <1>6 DEF CountLocally
  <2>2. p # "redis"
    BY <2>1, AskingTyped, LimiterAssumption DEF IInv
  <2>3. Decide(r, p, local'[p][request[r].key].minute, local'[p][request[r].key].count)
    BY <1>6 DEF CountLocally
  <2>4. Spent("redis", k, m)' = Spent("redis", k, m)
    BY <2>1, <2>2, <2>3, DecisionSpends DEF IInv
  <2> QED BY <2>1, <2>4, <1>1
<1>7. ASSUME NEW j \in Keys, NEW n \in Minutes, Expire(j, n)
      PROVE  RemoteCounts(k, m)'
  <2>1. Spent("redis", k, m)' = Spent("redis", k, m)
    BY <1>7, NothingSpent DEF Expire
  <2>2. CASE slot = <<j, n>>
    <3>1. remote'[slot] = 0 /\ UNCHANGED <<now, touched>>
      BY <2>2, <1>7, <1>0 DEF Expire, IInv, TypeOK
    <3>2. touched[slot] + 2 <= now /\ touched[slot] >= m
      BY <2>2, <1>7, <1>0 DEF Expire, RemoteCounts
    <3> QED BY <3>1, <3>2, <2>1, <1>0 DEF RemoteCounts
  <2>3. CASE slot # <<j, n>>
    BY <2>1, <2>3, <1>0, <1>7 DEF Expire, RemoteCounts, IInv, TypeOK
  <2> QED BY <2>2, <2>3
<1>8. CASE Tick
  <2>1. Spent("redis", k, m)' = Spent("redis", k, m)
    BY <1>8, NothingSpent DEF Tick
  <2> QED BY <2>1, <1>8, <1>1 DEF Tick
<1>9. CASE UNCHANGED vars
  <2>1. Spent("redis", k, m)' = Spent("redis", k, m)
    BY <1>9, NothingSpent DEF vars
  <2> QED BY <2>1, <1>9, <1>1 DEF vars
<1> QED
  BY <1>2, <1>4, <1>5, <1>6, <1>7, <1>8, <1>9 DEF Next

LEMMA LocalStep ==
  ASSUME IInv, [Next]_vars, NEW p \in Processes, NEW k \in Keys, NEW m \in Minutes
  PROVE  LocalCounts(p, k, m)'
<1>0. /\ now \in Nat /\ m \in Nat /\ Limit \in Nat
      /\ Spent(p, k, m) \in Nat /\ BucketCount(p, k, m) \in Nat
      /\ LocalCounts(p, k, m)
  BY AdmittedFinite, BucketNatural, LimitNatural DEF IInv, TypeOK, Minutes
<1>1. ASSUME Spent(p, k, m)' = Spent(p, k, m),
             m >= now' => BucketCount(p, k, m)' = BucketCount(p, k, m),
             now' = now \/ now' = now + 1
      PROVE  LocalCounts(p, k, m)'
  BY <1>0, <1>1 DEF LocalCounts
<1>2. ASSUME Spent(p, k, m)' = Spent(p, k, m), UNCHANGED local,
             now' = now \/ now' = now + 1
      PROVE  LocalCounts(p, k, m)'
  BY <1>1, <1>2 DEF BucketCount
<1>3. ASSUME NEW r \in Requests, Arrive(r)
      PROVE  LocalCounts(p, k, m)'
  <2>1. Spent(p, k, m)' = Spent(p, k, m)
    BY <1>3, NothingSpent DEF Arrive, IInv, TypeOK
  <2> QED BY <2>1, <1>2, <1>3 DEF Arrive
<1>4. ASSUME NEW r \in Requests, CountInRedis(r)
      PROVE  LocalCounts(p, k, m)'
  <2>1. Spent(p, k, m)' = Spent(p, k, m)
    BY <1>4, DecisionSpends, LimiterAssumption DEF CountInRedis, IInv
  <2> QED BY <2>1, <1>2, <1>4 DEF CountInRedis
<1>5. ASSUME NEW r \in Requests, RedisFails(r)
      PROVE  LocalCounts(p, k, m)'
  <2>1. Spent(p, k, m)' = Spent(p, k, m)
    <3>1. \A q \in Requests : q # r => request'[q] = request[q]
      BY <1>5 DEF RedisFails, IInv, TypeOK
    <3>2. request'[r] = [request[r] EXCEPT !.at = "local"] /\ request[r].at = "redis"
      BY <1>5 DEF RedisFails, IInv, TypeOK
    <3>3. request[r] \in [at : {"redis", "local"}, key : Keys, process : Processes,
                          minute : Minutes]
      BY <3>2, AskingTyped DEF IInv
    <3>4. request[r].at # "done" /\ request'[r].at # "done"
      BY <3>2, <3>3
    <3> QED BY <3>1, <3>4, NothingSpent
  <2> QED BY <2>1, <1>2, <1>5 DEF RedisFails
<1>6. ASSUME NEW r \in Requests, CountLocally(r)
      PROVE  LocalCounts(p, k, m)'
  <2> DEFINE pr == request[r].process
             kr == request[r].key
  <2> HIDE DEF pr, kr
  <2>1. /\ pr \in Processes /\ kr \in Keys
        /\ \A q \in Processes \ {pr} : local'[q] = local[q]
        /\ DOMAIN local' = Processes
        /\ DOMAIN local'[pr] = DOMAIN Cleaned(local[pr]) \cup {kr}
        /\ local'[pr][kr] = [minute |-> now, count |-> BucketCount(pr, kr, now) + 1]
        /\ \A q \in DOMAIN Cleaned(local[pr]) \ {kr} : local'[pr][q] = local[pr][q]
    BY <1>6, CountedTyped DEF IInv, pr, kr
  <2>2. /\ UNCHANGED now
        /\ request[r].at = "local"
        /\ Decide(r, pr, now, BucketCount(pr, kr, now) + 1)
    <3>1. /\ UNCHANGED now
          /\ request[r].at = "local"
          /\ Decide(r, pr, local'[pr][kr].minute, local'[pr][kr].count)
      BY <1>6 DEF CountLocally, pr, kr
    <3>2. /\ local'[pr][kr].minute = now
          /\ local'[pr][kr].count = BucketCount(pr, kr, now) + 1
      BY <2>1
    <3> QED BY <3>1, <3>2
  <2>3. CASE p = pr /\ k = kr /\ m = now
    <3>1. BucketCount(p, k, m)' = BucketCount(p, k, m) + 1
      <4>1. k \in DOMAIN local'[p] /\ local'[p][k].minute = m
        BY <2>1, <2>3
      <4>2. local'[p][k].count = BucketCount(p, k, m) + 1
        BY <2>1, <2>3
      <4> QED BY <4>1, <4>2 DEF BucketCount
    <3>2. BucketCount(p, k, m) + 1 <= Limit => Spent(p, k, m)' = Spent(p, k, m) + 1
      BY <2>2, <2>3, DecisionSpends DEF IInv, kr
    <3>3. ~(BucketCount(p, k, m) + 1 <= Limit) => Spent(p, k, m)' = Spent(p, k, m)
      BY <2>2, <2>3, DecisionSpends DEF IInv
    <3> QED BY <3>1, <3>2, <3>3, <2>2, <2>3, <1>0 DEF LocalCounts
  <2>4. CASE ~(p = pr /\ k = kr /\ m = now)
    <3>1. Spent(p, k, m)' = Spent(p, k, m)
      BY <2>2, <2>4, DecisionSpends DEF IInv, kr
    <3>2. m >= now' => BucketCount(p, k, m)' = BucketCount(p, k, m)
      <4> SUFFICES ASSUME m >= now PROVE BucketCount(p, k, m)' = BucketCount(p, k, m)
        BY <2>2
      <4>1. CASE p # pr
        BY <4>1, <2>1 DEF BucketCount
      <4>2. CASE p = pr /\ k = kr
        <5>1. m > now
          BY <4>2, <2>4, <1>0
        <5>2. BucketCount(p, k, m)' = 0
          BY <5>1, <4>2, <2>1, <1>0 DEF BucketCount
        <5>3. BucketCount(p, k, m) = 0
          BY <5>1, <1>0 DEF BucketCount, IInv, TypeOK
        <5> QED BY <5>2, <5>3
      <4>3. CASE p = pr /\ k # kr
        <5>1. k \in DOMAIN local'[p] <=> k \in DOMAIN Cleaned(local[p])
          BY <4>3, <2>1
        <5>2. k \in DOMAIN Cleaned(local[p]) => local'[p][k] = local[p][k] /\ k \in DOMAIN local[p]
          BY <4>3, <2>1, CleanedTyped DEF IInv
        <5>3. k \in DOMAIN local[p] /\ local[p][k].minute = m => k \in DOMAIN Cleaned(local[p])
          BY CleanedTyped DEF IInv
        <5> QED BY <5>1, <5>2, <5>3 DEF BucketCount
      <4> QED BY <4>1, <4>2, <4>3
    <3> QED BY <3>1, <3>2, <2>2, <1>1
  <2> QED BY <2>3, <2>4
<1>7. ASSUME NEW j \in Keys, NEW n \in Minutes, Expire(j, n)
      PROVE  LocalCounts(p, k, m)'
  <2>1. Spent(p, k, m)' = Spent(p, k, m)
    BY <1>7, NothingSpent DEF Expire
  <2> QED BY <2>1, <1>7, <1>2 DEF Expire
<1>8. CASE Tick
  <2>1. Spent(p, k, m)' = Spent(p, k, m)
    BY <1>8, NothingSpent DEF Tick
  <2> QED BY <2>1, <1>8, <1>2 DEF Tick
<1>9. CASE UNCHANGED vars
  <2>1. Spent(p, k, m)' = Spent(p, k, m)
    BY <1>9, NothingSpent DEF vars
  <2> QED BY <2>1, <1>9, <1>2 DEF vars
<1> QED
  BY <1>3, <1>4, <1>5, <1>6, <1>7, <1>8, <1>9 DEF Next

-----------------------------------------------------------------------------

LEMMA InitIInv == Init => IInv
<1> SUFFICES ASSUME Init PROVE IInv
  OBVIOUS
<1>0. 0 \in Minutes /\ Limit \in Nat
  BY LimitNatural DEF Minutes
<1>1. TypeOK
  BY <1>0 DEF Init, TypeOK, RequestStates, Fresh
<1>2. \A r \in Requests : Asking(r)
  BY DEF Init, Asking, Fresh
<1>3. \A b, k, m : Spent(b, k, m) = 0
  <2> SUFFICES ASSUME NEW b, NEW k, NEW m PROVE Spent(b, k, m) = 0
    OBVIOUS
  <2>1. Admitted(b, k, m) = {}
    BY DEF Init, Fresh, Admitted
  <2> QED BY <2>1, FS_EmptySet DEF Spent
<1>4. \A k \in Keys, m \in Minutes : RemoteCounts(k, m)
  BY <1>0, <1>3 DEF Init, RemoteCounts
<1>5. \A p \in Processes, k \in Keys, m \in Minutes : LocalCounts(p, k, m)
  BY <1>0, <1>1, <1>3, BucketNatural DEF LocalCounts
<1> QED BY <1>1, <1>2, <1>4, <1>5 DEF IInv

LEMMA Invariance == Spec => []IInv
<1>1. IInv /\ [Next]_vars => IInv'
  BY TypeStep, AskingStep, RemoteStep, LocalStep DEF IInv
<1> QED BY <1>1, InitIInv, PTL DEF Spec

(* Every variable of the limiter keeps its type; no bucket is of a minute  *)
(* to come.                                                                *)
THEOREM TypeCorrect == Spec => []TypeOK
<1>1. IInv => TypeOK
  BY DEF IInv
<1> QED BY <1>1, Invariance, PTL

(* No backend lets more than Limit requests of a key through in a minute,  *)
(* whatever the limit, however redis fails, expires and the map is cleaned.*)
THEOREM LimitKept == Spec => []LimitHolds
<1>1. IInv => LimitHolds
  BY DEF IInv, LimitHolds, RemoteCounts, LocalCounts, Spent
<1> QED BY <1>1, Invariance, PTL

-----------------------------------------------------------------------------
(* What the map keeps. *)

Stale(p) ==
  {k \in DOMAIN local[p] :
     \E q \in DOMAIN local[p] : local[p][k].minute < local[p][q].minute}

(* Keys may be infinite; a map never is. *)
MapBounded(p) ==
  IsFiniteSet(DOMAIN local[p]) /\ Cardinality(Stale(p)) < Threshold

MapsBounded == \A p \in Processes : MapBounded(p)

LEMMA MapStep ==
  ASSUME IInv, [Next]_vars, NEW p \in Processes, MapBounded(p)
  PROVE  MapBounded(p)'
<1>1. CASE local'[p] = local[p]
  BY <1>1 DEF MapBounded, Stale
<1>2. ASSUME NEW r \in Requests, CountLocally(r), p = request[r].process
      PROVE  MapBounded(p)'
  <2> DEFINE k == request[r].key
  <2>0. TypeOK /\ CountLocally(r) /\ k = request[r].key
    BY <1>2 DEF IInv
  <2> HIDE DEF k
  <2>a. /\ DOMAIN local'[p] = DOMAIN Cleaned(local[p]) \cup {k}
        /\ local'[p][k] = [minute |-> now, count |-> BucketCount(p, k, now) + 1]
        /\ \A q \in DOMAIN Cleaned(local[p]) \ {k} : local'[p][q] = local[p][q]
    BY <1>2, <2>0, CountedTyped
  <2>1. /\ DOMAIN local'[p] = DOMAIN Cleaned(local[p]) \cup {k}
        /\ local'[p][k].minute = now
        /\ \A q \in DOMAIN Cleaned(local[p]) \ {k} : local'[p][q] = local[p][q]
    BY <2>a
  <2>2. DOMAIN Cleaned(local[p]) \in SUBSET DOMAIN local[p]
    BY CleanedTyped DEF IInv
  <2>3. IsFiniteSet(DOMAIN local'[p])
    BY <2>1, <2>2, FS_Subset, FS_AddElement DEF MapBounded
  <2>4. now \in Nat /\ \A q \in DOMAIN local[p] : local[p][q].minute \in Nat /\ local[p][q].minute <= now
    BY LimitNatural DEF IInv, TypeOK, Buckets, Minutes
  <2>5. \A q \in DOMAIN local'[p] : local'[p][q].minute \in Nat /\ local'[p][q].minute <= now
    BY <2>1, <2>2, <2>4
  <2>6. k \notin Stale(p)'
    BY <2>1, <2>4, <2>5 DEF Stale
  <2>7. Stale(p)' \in SUBSET DOMAIN Cleaned(local[p])
    BY <2>1, <2>6 DEF Stale
  <2>8. CASE Cardinality(DOMAIN local[p]) < Threshold
    <3>1. Stale(p)' \in SUBSET DOMAIN local[p]
      BY <2>2, <2>7
    <3>2. Cardinality(Stale(p)') <= Cardinality(DOMAIN local[p])
      BY <3>1, FS_Subset DEF MapBounded
    <3>3. Cardinality(Stale(p)') \in Nat /\ Cardinality(DOMAIN local[p]) \in Nat
      BY <3>1, FS_Subset, FS_CardinalityType DEF MapBounded
    <3>4. Cardinality(Stale(p)') < Threshold
      BY <3>2, <3>3, <2>8, LimitNatural
    <3> QED BY <3>4, <2>3 DEF MapBounded
  <2>9. CASE ~(Cardinality(DOMAIN local[p]) < Threshold)
    <3>1. \A q \in DOMAIN Cleaned(local[p]) : local[p][q].minute = now
      BY <2>2, <2>4, <2>9 DEF Cleaned
    <3>2. \A q \in DOMAIN local'[p] : local'[p][q].minute = now
      BY <3>1, <2>1
    <3>3. Stale(p)' = {}
      BY <3>2, <2>4 DEF Stale
    <3>4. Cardinality(Stale(p)') = 0
      BY <3>3, FS_EmptySet
    <3>5. Cardinality(Stale(p)') < Threshold
      BY <3>4, LimitNatural
    <3> QED BY <3>5, <2>3 DEF MapBounded
  <2> QED BY <2>8, <2>9
<1>3. ASSUME NEW r \in Requests, CountLocally(r), p # request[r].process
      PROVE  local'[p] = local[p]
  <2> DEFINE pr == request[r].process
             kr == request[r].key
  <2>1. TypeOK /\ CountLocally(r) /\ pr = request[r].process /\ kr = request[r].key /\ p # pr
    BY <1>3 DEF IInv
  <2> HIDE DEF pr, kr
  <2>2. \A q \in Processes \ {pr} : local'[q] = local[q]
    BY <2>1, CountedTyped
  <2> QED BY <2>1, <2>2
<1>4. CASE UNCHANGED local
  BY <1>4, <1>1
<1>5. ASSUME NEW r \in Requests, Arrive(r) \/ CountInRedis(r) \/ RedisFails(r)
      PROVE  UNCHANGED local
  BY <1>5 DEF Arrive, CountInRedis, RedisFails
<1>6. ASSUME NEW j \in Keys, NEW n \in Minutes, Expire(j, n)
      PROVE  UNCHANGED local
  BY <1>6 DEF Expire
<1> QED
  BY <1>1, <1>2, <1>3, <1>4, <1>5, <1>6 DEF Next, Tick, vars

(* However many keys there are, the map of a process keeps fewer entries   *)
(* older than its newest than the threshold.                               *)
THEOREM MapForgets == Spec => []StaleEntriesBounded
<1>1. Init => MapsBounded
  <2> SUFFICES ASSUME Init, NEW p \in Processes PROVE MapBounded(p)
    BY DEF MapsBounded
  <2>1. DOMAIN local[p] = {} /\ Stale(p) = {}
    BY DEF Init, Stale
  <2> QED BY <2>1, FS_EmptySet, LimitNatural DEF MapBounded
<1>2. IInv /\ MapsBounded /\ [Next]_vars => MapsBounded'
  <2> SUFFICES ASSUME IInv, MapsBounded, [Next]_vars, NEW p \in Processes
               PROVE  MapBounded(p)'
    BY DEF MapsBounded
  <2>1. MapBounded(p)
    BY DEF MapsBounded
  <2> QED BY <2>1, MapStep
<1>3. MapsBounded => StaleEntriesBounded
  BY DEF MapsBounded, MapBounded, Stale, StaleEntriesBounded
<1> QED BY <1>1, <1>2, <1>3, Invariance, PTL DEF Spec

-----------------------------------------------------------------------------
(* Who was refused. *)

AskedAt(q) == IF request[q].at = "done" THEN request[q].asked ELSE request[q].minute

(* Those who asked redis for a key in a minute, and know how it answered.  *)
Askers(k, m) ==
  {q \in Requests : /\ request[q].at \in {"local", "done"}
                    /\ request[q].key = k
                    /\ AskedAt(q) = m}

(* A counter in redis is no higher than the number of those who asked.     *)
RemoteAsked(k, m) == remote[<<k, m>>] <= Cardinality(Askers(k, m))

(* What a bucket has counted was let through, up to the limit.             *)
BucketSpent(p, k, m) ==
  Spent(p, k, m) >= BucketCount(p, k, m) \/ Spent(p, k, m) >= Limit

Due(r) ==
  request[r].at = "done" /\ request[r].verdict = "refused" =>
    LET k == request[r].key
        m == request[r].minute
    IN IF request[r].backend = "redis"
         THEN Cardinality(Askers(k, m) \ {r}) >= Limit
         ELSE Spent(request[r].backend, k, m) >= Limit

DueInv ==
  /\ \A k \in Keys, m \in Minutes : RemoteAsked(k, m)
  /\ \A p \in Processes, k \in Keys, m \in Minutes : BucketSpent(p, k, m)
  /\ \A r \in Requests : Due(r)

LEMMA AskersFinite ==
  ASSUME NEW k, NEW m
  PROVE  IsFiniteSet(Askers(k, m)) /\ Cardinality(Askers(k, m)) \in Nat
<1>1. Askers(k, m) \in SUBSET Requests
  BY DEF Askers
<1> QED BY <1>1, FS_Subset, LimiterAssumption, FS_CardinalityType

(* A decision is final, and who asked has asked. *)
LEMMA RequestStep ==
  ASSUME IInv, [Next]_vars, NEW q \in Requests
  PROVE  /\ request[q].at = "done" => request'[q] = request[q]
         /\ request[q].at = "local" =>
              \/ request'[q] = request[q]
              \/ /\ request'[q].at = "done"
                 /\ request'[q].key = request[q].key
                 /\ request'[q].asked = request[q].minute
<1> USE DEF IInv, TypeOK
<1>1. ASSUME NEW r \in Requests, NEW b, NEW m, NEW count, Decide(r, b, m, count),
             request[r].at # "done"
      PROVE  /\ request[q].at = "done" => request'[q] = request[q]
             /\ request[q].at = "local" =>
                  \/ request'[q] = request[q]
                  \/ /\ request'[q].at = "done"
                     /\ request'[q].key = request[q].key
                     /\ request'[q].asked = request[q].minute
  BY <1>1 DEF Decide
<1>2. ASSUME NEW r \in Requests, Arrive(r)
      PROVE  request[q].at \in {"done", "local"} => request'[q] = request[q]
  BY <1>2 DEF Arrive
<1>3. ASSUME NEW r \in Requests, RedisFails(r)
      PROVE  request[q].at \in {"done", "local"} => request'[q] = request[q]
  BY <1>3 DEF RedisFails
<1>4. ASSUME NEW r \in Requests, CountInRedis(r) \/ CountLocally(r)
      PROVE  \E b, m, count : Decide(r, b, m, count) /\ request[r].at # "done"
  BY <1>4 DEF CountInRedis, CountLocally
<1>5. ASSUME UNCHANGED request
      PROVE  request'[q] = request[q]
  BY <1>5
<1>6. ASSUME NEW k \in Keys, NEW m \in Minutes, Expire(k, m)
      PROVE  UNCHANGED request
  BY <1>6 DEF Expire
<1> QED BY <1>1, <1>2, <1>3, <1>4, <1>5, <1>6 DEF Next, Tick, vars

LEMMA AskersGrow ==
  ASSUME IInv, [Next]_vars, NEW k, NEW m
  PROVE  /\ Askers(k, m) \subseteq Askers(k, m)'
         /\ Cardinality(Askers(k, m)') \in Nat
         /\ Cardinality(Askers(k, m)) <= Cardinality(Askers(k, m)')
<1>1. Askers(k, m) \subseteq Askers(k, m)'
  BY RequestStep DEF Askers, AskedAt
<1>2. Askers(k, m)' \in SUBSET Requests
  BY DEF Askers
<1>3. IsFiniteSet(Askers(k, m)')
  BY <1>2, FS_Subset, LimiterAssumption
<1> QED BY <1>1, <1>3, FS_Subset, FS_CardinalityType

LEMMA SpentGrows ==
  ASSUME IInv, [Next]_vars, NEW b, NEW k, NEW m
  PROVE  Spent(b, k, m)' \in Nat /\ Spent(b, k, m) <= Spent(b, k, m)'
<1>1. Admitted(b, k, m) \subseteq Admitted(b, k, m)'
  BY RequestStep DEF Admitted
<1>2. Admitted(b, k, m)' \in SUBSET Requests
  BY DEF Admitted
<1>3. IsFiniteSet(Admitted(b, k, m)')
  BY <1>2, FS_Subset, LimiterAssumption
<1> QED BY <1>1, <1>3, FS_Subset, FS_CardinalityType DEF Spent

LEMMA RemoteAskedStep ==
  ASSUME IInv, [Next]_vars, NEW k \in Keys, NEW m \in Minutes, RemoteAsked(k, m)
  PROVE  RemoteAsked(k, m)'
<1> DEFINE slot == <<k, m>>
<1>0. /\ slot \in Keys \X Minutes /\ remote[slot] \in Nat
      /\ Cardinality(Askers(k, m)) \in Nat /\ Cardinality(Askers(k, m)') \in Nat
      /\ Cardinality(Askers(k, m)) <= Cardinality(Askers(k, m)')
      /\ remote[slot] <= Cardinality(Askers(k, m))
  BY AskersGrow, AskersFinite DEF IInv, TypeOK, RemoteAsked
<1>1. ASSUME remote'[slot] \in Nat, remote'[slot] <= remote[slot]
      PROVE  RemoteAsked(k, m)'
  BY <1>0, <1>1 DEF RemoteAsked
<1>2. CASE UNCHANGED remote
  BY <1>0, <1>1, <1>2
<1>3. ASSUME NEW r \in Requests, request[r].at = "redis", Increment(r),
             request'[r].at \in {"local", "done"}, request'[r].key = request[r].key,
             AskedAt(r)' = request[r].minute
      PROVE  RemoteAsked(k, m)'
  <2>1. /\ remote'[Slot(r)] = remote[Slot(r)] + 1
        /\ \A s \in Keys \X Minutes : s # Slot(r) => remote'[s] = remote[s]
    BY <1>3, IncrementTyped DEF IInv
  <2>2. CASE slot # Slot(r)
    BY <2>1, <2>2, <1>0, <1>1
  <2>3. CASE slot = Slot(r)
    <3>1. request[r].key = k /\ request[r].minute = m
      BY <2>3 DEF Slot
    <3>2. r \in Askers(k, m)' /\ r \notin Askers(k, m)
      BY <1>3, <3>1 DEF Askers
    <3>3. Askers(k, m) \in SUBSET (Askers(k, m)' \ {r})
      BY <3>2, AskersGrow
    <3>4. IsFiniteSet(Askers(k, m)')
      <4>1. Askers(k, m)' \in SUBSET Requests
        BY DEF Askers
      <4> QED BY <4>1, FS_Subset, LimiterAssumption
    <3>5. /\ IsFiniteSet(Askers(k, m)' \ {r})
          /\ Cardinality(Askers(k, m)' \ {r}) = Cardinality(Askers(k, m)') - 1
      BY <3>2, <3>4, FS_RemoveElement
    <3>6. Cardinality(Askers(k, m)) <= Cardinality(Askers(k, m)') - 1
      BY <3>3, <3>5, FS_Subset
    <3> QED BY <3>6, <2>1, <2>3, <1>0 DEF RemoteAsked
  <2> QED BY <2>2, <2>3
<1>4. ASSUME NEW r \in Requests, CountInRedis(r)
      PROVE  RemoteAsked(k, m)'
  <2>1. /\ request[r].at = "redis" /\ Increment(r)
        /\ request'[r].at = "done" /\ request'[r].key = request[r].key
        /\ request'[r].asked = request[r].minute
    BY <1>4 DEF CountInRedis, Decide, IInv, TypeOK
  <2> QED BY <2>1, <1>3 DEF AskedAt
<1>5. ASSUME NEW r \in Requests, RedisFails(r)
      PROVE  RemoteAsked(k, m)'
  <2>1. request'[r] = [request[r] EXCEPT !.at = "local"] /\ request[r].at = "redis"
    BY <1>5 DEF RedisFails, IInv, TypeOK
  <2>2. request[r] \in [at : {"redis", "local"}, key : Keys, process : Processes,
                        minute : Minutes]
    BY <2>1, AskingTyped DEF IInv
  <2>3. /\ request'[r].at = "local" /\ request'[r].key = request[r].key
        /\ request'[r].minute = request[r].minute
    BY <2>1, <2>2
  <2> QED BY <2>1, <2>3, <1>2, <1>3, <1>5 DEF RedisFails, AskedAt
<1>6. ASSUME NEW j \in Keys, NEW n \in Minutes, Expire(j, n)
      PROVE  RemoteAsked(k, m)'
  <2>1. remote'[slot] = 0 \/ remote'[slot] = remote[slot]
    BY <1>6, <1>0 DEF Expire, IInv, TypeOK
  <2> QED BY <2>1, <1>0, <1>1
<1>7. ASSUME NEW r \in Requests, Arrive(r) \/ CountLocally(r)
      PROVE  UNCHANGED remote
  BY <1>7 DEF Arrive, CountLocally
<1> QED BY <1>2, <1>4, <1>5, <1>6, <1>7 DEF Next, Tick, vars

(* What a local count finds and leaves; kept apart from the names of the   *)
(* process and the key.                                                    *)
LEMMA LocalCount ==
  ASSUME IInv, NEW r \in Requests, CountLocally(r)
  PROVE  \E p \in Processes, k \in Keys :
           /\ p = request[r].process /\ k = request[r].key
           /\ \A q \in Processes \ {p} : local'[q] = local[q]
           /\ DOMAIN local'[p] = DOMAIN Cleaned(local[p]) \cup {k}
           /\ local'[p][k] = [minute |-> now, count |-> BucketCount(p, k, now) + 1]
           /\ \A q \in DOMAIN Cleaned(local[p]) \ {k} :
                q \in DOMAIN local[p] /\ local'[p][q] = local[p][q]
           /\ Decide(r, p, now, BucketCount(p, k, now) + 1)
<1> DEFINE p == request[r].process
           k == request[r].key
<1> HIDE DEF p, k
<1>1. /\ p \in Processes /\ k \in Keys
      /\ \A q \in Processes \ {p} : local'[q] = local[q]
      /\ DOMAIN local'[p] = DOMAIN Cleaned(local[p]) \cup {k}
      /\ local'[p][k] = [minute |-> now, count |-> BucketCount(p, k, now) + 1]
      /\ \A q \in DOMAIN Cleaned(local[p]) \ {k} : local'[p][q] = local[p][q]
  BY CountedTyped DEF IInv, p, k
<1>2. DOMAIN Cleaned(local[p]) \subseteq DOMAIN local[p]
  BY <1>1, CleanedTyped DEF IInv
<1>3. Decide(r, p, local'[p][k].minute, local'[p][k].count)
  BY DEF CountLocally, p, k
<1>4. local'[p][k].minute = now /\ local'[p][k].count = BucketCount(p, k, now) + 1
  BY <1>1
<1>5. Decide(r, p, now, BucketCount(p, k, now) + 1)
  BY <1>3, <1>4
<1> QED BY <1>1, <1>2, <1>5 DEF p, k

LEMMA BucketSpentStep ==
  ASSUME IInv, [Next]_vars, NEW p \in Processes, NEW k \in Keys, NEW m \in Minutes,
         BucketSpent(p, k, m)
  PROVE  BucketSpent(p, k, m)'
<1>0. /\ Limit \in Nat \ {0} /\ BucketCount(p, k, m) \in Nat
      /\ Spent(p, k, m) \in Nat /\ Spent(p, k, m)' \in Nat
      /\ Spent(p, k, m) <= Spent(p, k, m)'
      /\ Spent(p, k, m) >= BucketCount(p, k, m) \/ Spent(p, k, m) >= Limit
  BY LimitNatural, BucketNatural, AdmittedFinite, SpentGrows DEF IInv, BucketSpent
<1>1. ASSUME BucketCount(p, k, m)' \in {0, BucketCount(p, k, m)}
      PROVE  BucketSpent(p, k, m)'
  BY <1>0, <1>1 DEF BucketSpent
<1>2. CASE UNCHANGED local
  <2>1. BucketCount(p, k, m)' = BucketCount(p, k, m)
    BY <1>2 DEF BucketCount
  <2> QED BY <2>1, <1>1
<1>3. ASSUME NEW r \in Requests, CountLocally(r)
      PROVE  BucketSpent(p, k, m)'
  <2>1. PICK pr \in Processes, kr \in Keys :
           /\ pr = request[r].process /\ kr = request[r].key
           /\ \A q \in Processes \ {pr} : local'[q] = local[q]
           /\ DOMAIN local'[pr] = DOMAIN Cleaned(local[pr]) \cup {kr}
           /\ local'[pr][kr] = [minute |-> now, count |-> BucketCount(pr, kr, now) + 1]
           /\ \A q \in DOMAIN Cleaned(local[pr]) \ {kr} :
                q \in DOMAIN local[pr] /\ local'[pr][q] = local[pr][q]
           /\ Decide(r, pr, now, BucketCount(pr, kr, now) + 1)
    BY <1>3, LocalCount
  <2>2. CASE ~(p = pr /\ k = kr)
    <3>1. k \in DOMAIN local'[p] => k \in DOMAIN local[p] /\ local'[p][k] = local[p][k]
      BY <2>1, <2>2
    <3> QED BY <3>1, <1>1 DEF BucketCount
  <2>3. CASE p = pr /\ k = kr /\ m # now
    <3>1. local'[p][k].minute # m
      <4>1. local'[p][k] = [minute |-> now, count |-> BucketCount(p, k, now) + 1]
        BY <2>1, <2>3
      <4> QED BY <4>1, <2>3
    <3>2. BucketCount(p, k, m)' = 0
      BY <3>1 DEF BucketCount
    <3> QED BY <3>2, <1>1
  <2>4. CASE p = pr /\ k = kr /\ m = now
    <3>1. BucketCount(p, k, m)' = BucketCount(p, k, m) + 1
      <4>1. k \in DOMAIN local'[p] /\ local'[p][k] = [minute |-> m, count |-> BucketCount(p, k, m) + 1]
        BY <2>1, <2>4
      <4> QED BY <4>1 DEF BucketCount
    <3>2. BucketCount(p, k, m) + 1 <= Limit => Spent(p, k, m)' = Spent(p, k, m) + 1
      <4>1. request[r].at # "done" /\ request[r].key = k
        BY <1>3, <2>1, <2>4 DEF CountLocally
      <4>2. Decide(r, p, m, BucketCount(p, k, m) + 1)
        BY <2>1, <2>4
      <4> QED BY <4>1, <4>2, DecisionSpends DEF IInv
    <3> QED BY <3>1, <3>2, <1>0 DEF BucketSpent
  <2> QED BY <2>2, <2>3, <2>4
<1>4. ASSUME NEW r \in Requests, Arrive(r) \/ CountInRedis(r) \/ RedisFails(r)
      PROVE  UNCHANGED local
  BY <1>4 DEF Arrive, CountInRedis, RedisFails
<1>5. ASSUME NEW j \in Keys, NEW n \in Minutes, Expire(j, n)
      PROVE  UNCHANGED local
  BY <1>5 DEF Expire
<1> QED BY <1>2, <1>3, <1>4, <1>5 DEF Next, Tick, vars

(* A refusal stays due: what made it due only grows. *)
LEMMA DueStays ==
  ASSUME IInv, [Next]_vars, NEW r \in Requests, request[r].at = "done", Due(r)
  PROVE  Due(r)'
<1>1. request'[r] = request[r]
  BY RequestStep
<1> SUFFICES ASSUME request[r].verdict = "refused"
             PROVE  Due(r)'
  BY <1>1 DEF Due
<1>2. PICK b, k, m : b = request[r].backend /\ k = request[r].key /\ m = request[r].minute
  OBVIOUS
<1>3. b = request'[r].backend /\ k = request'[r].key /\ m = request'[r].minute
  BY <1>1, <1>2
<1>4. Limit \in Nat
  BY LimitNatural
<1>5. CASE b = "redis"
  <2>1. Cardinality(Askers(k, m) \ {r}) >= Limit
    BY <1>2, <1>5 DEF Due
  <2>2. Askers(k, m) \ {r} \in SUBSET (Askers(k, m)' \ {r})
    BY AskersGrow
  <2>3. IsFiniteSet(Askers(k, m)' \ {r})
    <3>1. Askers(k, m)' \ {r} \in SUBSET Requests
      BY DEF Askers
    <3> QED BY <3>1, FS_Subset, LimiterAssumption
  <2>4. Cardinality(Askers(k, m)' \ {r}) >= Limit
    BY <2>1, <2>2, <2>3, <1>4, FS_Subset, FS_CardinalityType
  <2> QED BY <2>4, <1>3, <1>5 DEF Due
<1>6. CASE b # "redis"
  <2>1. Spent(b, k, m) >= Limit
    BY <1>2, <1>6 DEF Due
  <2>2. Spent(b, k, m)' >= Limit
    BY <2>1, <1>4, SpentGrows, AdmittedFinite
  <2> QED BY <2>2, <1>3, <1>6 DEF Due
<1> QED BY <1>5, <1>6

LEMMA DueStep ==
  ASSUME IInv, DueInv, [Next]_vars, NEW r \in Requests
  PROVE  Due(r)'
<1>0. Limit \in Nat \ {0}
  BY LimitNatural
<1>1. CASE request[r].at = "done"
  BY <1>1, DueStays DEF DueInv
<1>2. CASE request'[r].at # "done"
  BY <1>2 DEF Due
<1>3. ASSUME CountInRedis(r)
      PROVE  Due(r)'
  <2>1. PICK k \in Keys, m \in Minutes : k = request[r].key /\ m = request[r].minute
    BY <1>3, AskingTyped DEF CountInRedis, IInv
  <2>2. request'[r] = [at |-> "done", key |-> k, asked |-> m, backend |-> "redis",
                       minute |-> m, verdict |-> Verdict(remote[<<k, m>>] + 1)]
    <3>1. remote'[Slot(r)] = remote[Slot(r)] + 1 /\ Slot(r) = <<k, m>>
      BY <1>3, <2>1, IncrementTyped DEF CountInRedis, IInv, Slot
    <3> QED BY <1>3, <2>1, <3>1 DEF CountInRedis, Decide, IInv, TypeOK
  <2> SUFFICES ASSUME request'[r].verdict = "refused"
               PROVE  Due(r)'
    BY DEF Due
  <2>3. remote[<<k, m>>] \in Nat /\ remote[<<k, m>>] + 1 > Limit
    BY <2>2, <1>0 DEF Verdict, IInv, TypeOK
  <2>4. remote[<<k, m>>] <= Cardinality(Askers(k, m))
    BY DEF DueInv, RemoteAsked
  <2>5. Askers(k, m) \in SUBSET (Askers(k, m)' \ {r})
    <3>1. r \notin Askers(k, m)
      BY <1>3 DEF Askers, CountInRedis
    <3> QED BY <3>1, AskersGrow
  <2>6. IsFiniteSet(Askers(k, m)' \ {r})
    <3>1. Askers(k, m)' \ {r} \in SUBSET Requests
      BY DEF Askers
    <3> QED BY <3>1, FS_Subset, LimiterAssumption
  <2>7. /\ Cardinality(Askers(k, m)' \ {r}) \in Nat /\ Cardinality(Askers(k, m)) \in Nat
        /\ Cardinality(Askers(k, m)) <= Cardinality(Askers(k, m)' \ {r})
    BY <2>5, <2>6, FS_Subset, FS_CardinalityType
  <2>8. Cardinality(Askers(k, m)' \ {r}) >= Limit
    BY <2>3, <2>4, <2>7, <1>0
  <2>9. request'[r].backend = "redis" /\ request'[r].key = k /\ request'[r].minute = m
    BY <2>2
  <2> QED BY <2>8, <2>9 DEF Due
<1>4. ASSUME CountLocally(r)
      PROVE  Due(r)'
  <2>1. PICK p \in Processes, k \in Keys :
           k = request[r].key /\ Decide(r, p, now, BucketCount(p, k, now) + 1)
    BY <1>4, LocalCount
  <2>2. PICK m \in Minutes : m = now
    BY DEF IInv, TypeOK
  <2>3. request'[r] = [at |-> "done", key |-> k, asked |-> request[r].minute, backend |-> p,
                       minute |-> m, verdict |-> Verdict(BucketCount(p, k, m) + 1)]
    BY <2>1, <2>2 DEF Decide, IInv, TypeOK
  <2> SUFFICES ASSUME request'[r].verdict = "refused"
               PROVE  Due(r)'
    BY DEF Due
  <2>4. BucketCount(p, k, m) \in Nat /\ BucketCount(p, k, m) + 1 > Limit
    BY <2>3, <1>0, BucketNatural DEF Verdict, IInv
  <2>5. Spent(p, k, m) >= Limit
    <3>1. Spent(p, k, m) >= BucketCount(p, k, m) \/ Spent(p, k, m) >= Limit
      BY DEF DueInv, BucketSpent
    <3>2. Spent(p, k, m) \in Nat
      BY AdmittedFinite
    <3> QED BY <3>1, <3>2, <2>4, <1>0
  <2>6. Spent(p, k, m)' >= Limit
    BY <2>5, <1>0, SpentGrows, AdmittedFinite
  <2>7. /\ request'[r].backend = p /\ request'[r].key = k /\ request'[r].minute = m
        /\ p # "redis"
    BY <2>3, LimiterAssumption
  <2> QED BY <2>6, <2>7 DEF Due
<1>5. ASSUME NEW q \in Requests, q # r,
             Arrive(q) \/ CountInRedis(q) \/ RedisFails(q) \/ CountLocally(q)
      PROVE  request'[r] = request[r]
  BY <1>5 DEF Arrive, CountInRedis, RedisFails, CountLocally, Decide, IInv, TypeOK
<1>6. ASSUME Arrive(r) \/ RedisFails(r)
      PROVE  request[r].at = "done" \/ request'[r].at # "done"
  <2>1. CASE Arrive(r)
    BY <2>1 DEF Arrive, IInv, TypeOK
  <2>2. CASE RedisFails(r)
    <3>1. request'[r] = [request[r] EXCEPT !.at = "local"] /\ request[r].at = "redis"
      BY <2>2 DEF RedisFails, IInv, TypeOK
    <3>2. request[r] \in [at : {"redis", "local"}, key : Keys, process : Processes,
                          minute : Minutes]
      BY <3>1, AskingTyped DEF IInv
    <3> QED BY <3>1, <3>2
  <2> QED BY <2>1, <2>2, <1>6
<1>7. ASSUME NEW j \in Keys, NEW n \in Minutes, Expire(j, n)
      PROVE  UNCHANGED request
  BY <1>7 DEF Expire
<1>8. CASE request'[r] = request[r]
  BY <1>1, <1>2, <1>8
<1> QED BY <1>1, <1>2, <1>3, <1>4, <1>5, <1>6, <1>7, <1>8 DEF Next, Tick, vars

LEMMA InitDue == Init => DueInv
<1> SUFFICES ASSUME Init PROVE DueInv
  OBVIOUS
<1>1. \A k \in Keys, m \in Minutes : RemoteAsked(k, m)
  <2> SUFFICES ASSUME NEW k \in Keys, NEW m \in Minutes PROVE RemoteAsked(k, m)
    OBVIOUS
  <2>1. remote[<<k, m>>] = 0
    BY DEF Init
  <2> QED BY <2>1, AskersFinite DEF RemoteAsked
<1>2. \A p \in Processes, k \in Keys, m \in Minutes : BucketSpent(p, k, m)
  <2> SUFFICES ASSUME NEW p \in Processes, NEW k \in Keys, NEW m \in Minutes
               PROVE  BucketSpent(p, k, m)
    OBVIOUS
  <2>1. BucketCount(p, k, m) = 0
    BY DEF Init, BucketCount
  <2> QED BY <2>1, AdmittedFinite DEF BucketSpent
<1>3. \A r \in Requests : Due(r)
  BY DEF Init, Fresh, Due
<1> QED BY <1>1, <1>2, <1>3 DEF DueInv

(* Nobody is refused early, whatever the limit, the number of requests and *)
(* what becomes of redis: a process that refuses has let Limit requests    *)
(* through in that minute; redis refuses when Limit others asked it.       *)
THEOREM RefusedWhenUsedUp == Spec => []RefusalsAreDue
<1>1. IInv /\ DueInv /\ [Next]_vars => DueInv'
  <2> SUFFICES ASSUME IInv, DueInv, [Next]_vars
               PROVE  DueInv'
    OBVIOUS
  <2>1. \A k \in Keys, m \in Minutes : RemoteAsked(k, m)'
    BY RemoteAskedStep DEF DueInv
  <2>2. \A p \in Processes, k \in Keys, m \in Minutes : BucketSpent(p, k, m)'
    BY BucketSpentStep DEF DueInv
  <2>3. \A r \in Requests : Due(r)'
    BY DueStep
  <2> QED BY <2>1, <2>2, <2>3 DEF DueInv
<1>2. IInv /\ DueInv => RefusalsAreDue
  <2> SUFFICES ASSUME IInv, DueInv, NEW r \in Requests,
                      request[r].at = "done", request[r].verdict = "refused"
               PROVE  IF request[r].backend = "redis"
                        THEN Cardinality({q \in Requests \ {r} :
                               /\ request[q].at \in {"local", "done"}
                               /\ request[q].key = request[r].key
                               /\ (IF request[q].at = "done" THEN request[q].asked
                                   ELSE request[q].minute) = request[r].minute}) >= Limit
                        ELSE Cardinality(Admitted(request[r].backend, request[r].key,
                                                  request[r].minute)) = Limit
    BY DEF RefusalsAreDue
  <2>1. PICK b, k, m : b = request[r].backend /\ k = request[r].key /\ m = request[r].minute
    OBVIOUS
  <2>2. IF b = "redis" THEN Cardinality(Askers(k, m) \ {r}) >= Limit ELSE Spent(b, k, m) >= Limit
    BY <2>1 DEF DueInv, Due
  <2>3. CASE b = "redis"
    <3>1. Askers(k, m) \ {r} =
            {q \in Requests \ {r} :
               /\ request[q].at \in {"local", "done"}
               /\ request[q].key = k
               /\ (IF request[q].at = "done" THEN request[q].asked ELSE request[q].minute) = m}
      BY DEF Askers, AskedAt
    <3> QED BY <3>1, <2>1, <2>2, <2>3
  <2>4. CASE b # "redis"
    <3>1. request[r] \in [at : {"done"}, key : Keys, asked : Minutes,
                          backend : {"redis"} \cup Processes,
                          minute : Minutes, verdict : {"admitted", "refused"}]
      BY DEF IInv, TypeOK, RequestStates, Fresh
    <3>2. b \in Processes /\ k \in Keys /\ m \in Minutes
      BY <3>1, <2>1, <2>4
    <3>3. Spent(b, k, m) <= Limit
      BY <3>2 DEF IInv, LocalCounts
    <3>4. Spent(b, k, m) = Limit
      BY <2>2, <2>4, <3>3, AdmittedFinite, LimitNatural
    <3> QED BY <3>4, <2>1, <2>4 DEF Spent
  <2> QED BY <2>3, <2>4
<1> QED BY <1>1, <1>2, InitDue, Invariance, PTL DEF Spec
=============================================================================
