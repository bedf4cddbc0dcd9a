-------------------------- MODULE RateLimitProofs --------------------------
(***************************************************************************)
(* Proofs about RateLimit, for every value of its constants.               *)
(***************************************************************************)
EXTENDS RateLimit, TLAPS

\* The level of each client's bucket as a client sees it: the refinement mapping.
Level == [k \in Clients |-> IF clients[k] = None THEN Burst ELSE tokens[clients[k].limiter]]

\* No two clients share a bucket.
BucketsDistinct ==
    \A k, l \in Clients :
        k # l /\ clients[k] # None /\ clients[l] # None => clients[k].limiter # clients[l].limiter

\* A request that is to charge a bucket holds the one its client is mapped to, since
\* at most MaxDelay and not since after the client was seen last.
HeldMapped ==
    \A r \in Requests :
        /\ verdict[r] = "pending" <=> lim[r] # None
        /\ lim[r] # None =>
              /\ clients[from[r]] # None
              /\ clients[from[r]].limiter = lim[r].bucket
              /\ lim[r].since <= clients[from[r]].lastSeen
              /\ now <= lim[r].since + MaxDelay

\* A mapped bucket is full, or has been filling since MaxDelay after its client was
\* seen last.
Filling ==
    \A k \in Clients : clients[k] # None =>
        \/ tokens[clients[k].limiter] = Burst
        \/ Rate * (now - clients[k].lastSeen - MaxDelay) <= tokens[clients[k].limiter]

\* The cleanup and the clock.
SweepInv ==
    /\ now <= sweepAt + MaxDelay
    /\ sweepAt - TTL <= now
    /\ cutoff # None => /\ sweepAt <= now
                        /\ sweepAt - TTL <= cutoff
                        /\ cutoff <= now - TTL
    /\ \A k \in Clients : clients[k] # None =>
          /\ sweepAt - 2 * TTL <= clients[k].lastSeen
          /\ clients[k].lastSeen <= now

\* What the watched client was granted and what it has left come out of its burst
\* and its rate.
GrantInv ==
    /\ start <= now => granted + Level[watched] <= Burst + Rate * (now - start)
    /\ now < start => granted = 0

LimiterInv == TypeOK /\ BucketsDistinct /\ HeldMapped /\ Filling /\ SweepInv
-----------------------------------------------------------------------------

\* What the provers need of a product with a factor that is a constant.
LEMMA ProductMonotone ==
    ASSUME NEW n \in Nat, NEW x \in Int, NEW y \in Int, x <= y
    PROVE  n * x <= n * y
BY SMT

LEMMA ProductSuccessor ==
    ASSUME NEW n \in Nat, NEW x \in Int
    PROVE  n * x \in Int /\ n * (x + 1) = n * x + n
BY SMT

\* The key of a request is a client (clientIPFunc).
LEMMA ClientNamed ==
    ASSUME NEW p \in Peers, NEW f \in Forwarded PROVE ClientIP(p, f) \in Clients
BY LimiterAssumption DEF ClientIP

\* Entries of the map and buckets held by requests are none of the other values.
LEMMA NotNone ==
    /\ \A b \in Buckets, t \in Times : [limiter |-> b, lastSeen |-> t] \in Client
    /\ \A b \in Buckets, t \in Times : [bucket |-> b, since |-> t] \in Limit
    /\ None \notin Client /\ None \notin Limit /\ None \notin Int
BY LimiterAssumption DEF Client, Limit

\* A step is one of these.
LEMMA Steps ==
    ASSUME [Next]_vars
    PROVE  \/ \E r \in Requests, k \in Clients, b \in Buckets : Lookup(r, k, b)
           \/ \E r \in Requests : Decide(r)
           \/ ReadCutoff \/ Evict \/ Tick \/ UNCHANGED vars
BY ClientNamed DEF Next

\* Every step keeps the types; the level of the charged bucket was not 0.
LEMMA TypeStep == ASSUME TypeOK, [Next]_vars PROVE TypeOK'
<1> USE LimiterAssumption, NotNone
<1>1. ASSUME NEW r \in Requests, NEW k \in Clients, NEW b \in Buckets, Lookup(r, k, b)
      PROVE  TypeOK'
  <2>1. clients' \in [Clients -> Client \cup {None}]
    BY <1>1 DEF TypeOK, Lookup, Seen
  <2>2. tokens' \in [Buckets -> 0..Burst]
    BY <1>1 DEF TypeOK, Lookup, Find
  <2>3. lim' \in [Requests -> Limit \cup {None}]
    BY <1>1 DEF TypeOK, Lookup
  <2>4. from' \in [Requests -> Clients] /\ verdict' \in [Requests -> {"idle", "pending", "pass", "limited"}]
    BY <1>1 DEF TypeOK, Lookup
  <2>5. QED BY <1>1, <2>1, <2>2, <2>3, <2>4 DEF TypeOK, Lookup, sweeper, history
<1>2. ASSUME NEW r \in Requests, Decide(r) PROVE TypeOK'
  <2>1. lim[r].bucket \in Buckets
    BY <1>2 DEF TypeOK, Decide, Limit
  <2>2. tokens' \in [Buckets -> 0..Burst]
    BY <1>2, <2>1 DEF TypeOK, Decide, Charge
  <2>3. lim' \in [Requests -> Limit \cup {None}]
    BY <1>2 DEF TypeOK, Decide
  <2>4. verdict' \in [Requests -> {"idle", "pending", "pass", "limited"}]
    BY <1>2 DEF TypeOK, Decide, Charge
  <2>5. granted' \in Nat
    BY <1>2 DEF TypeOK, Decide, Charge, Granted
  <2>6. QED BY <1>2, <2>2, <2>3, <2>4, <2>5 DEF TypeOK, Decide, sweeper
<1>3. CASE ReadCutoff
  BY <1>3 DEF TypeOK, ReadCutoff, Cutoff, callers, history, Times
<1>4. CASE Evict
  <2>1. clients' \in [Clients -> Client \cup {None}]
    BY <1>4 DEF TypeOK, Evict
  <2>2. QED BY <1>4, <2>1 DEF TypeOK, Evict, callers, history
<1>5. CASE Tick
  <2>1. tokens' \in [Buckets -> 0..Burst]
    BY <1>5 DEF TypeOK, Tick
  <2>2. now' \in Times
    BY <1>5 DEF TypeOK, Tick, Times
  <2>3. QED BY <1>5, <2>1, <2>2 DEF TypeOK, Tick, callers, sweeper, history
<1>6. CASE UNCHANGED vars
  BY <1>6 DEF TypeOK, vars, callers, sweeper, history
<1>7. QED BY <1>1, <1>2, <1>3, <1>4, <1>5, <1>6, Steps

-----------------------------------------------------------------------------

\* Entries of the map and what requests hold, taken apart.
EntryTypes ==
    /\ now \in Int /\ 0 <= now
    /\ \A k \in Clients : clients[k] # None =>
          /\ clients[k] \in Client
          /\ clients[k].limiter \in Buckets
          /\ clients[k].lastSeen \in Int
          /\ tokens[clients[k].limiter] \in 0..Burst
    /\ \A r \in Requests : lim[r] # None =>
          lim[r] \in Limit /\ lim[r].bucket \in Buckets /\ lim[r].since \in Int
    /\ sweepAt \in Int /\ (cutoff # None => cutoff \in Int)
    /\ Rate \in Nat /\ Burst \in Nat /\ TTL \in Nat /\ MaxDelay \in Nat

LEMMA Entries == ASSUME TypeOK PROVE EntryTypes
BY LimiterAssumption DEF TypeOK, Client, Limit, Times, EntryTypes

\* Allow finds the client's own bucket, or one that nobody else has; what any other
\* client sees is not touched, and this client sees no change either.
LookupResult(k, b) ==
    /\ clients'[k] # None /\ clients'[k].limiter = b /\ clients'[k].lastSeen = now
    /\ \A l \in Clients : l # k =>
          /\ clients'[l] = clients[l]
          /\ clients[l] # None => clients[l].limiter # b
    /\ \A c \in Buckets : c # b => tokens'[c] = tokens[c]
    /\ clients[k] = None => tokens'[b] = Burst
    /\ clients[k] # None => clients[k].limiter = b /\ tokens' = tokens

LEMMA LookupEffect ==
    ASSUME LimiterInv, NEW r \in Requests, NEW k \in Clients, NEW b \in Buckets,
           Lookup(r, k, b)
    PROVE  LookupResult(k, b)
<1> USE NotNone DEF LimiterInv
<1>1. clients' = [clients EXCEPT ![k] = [limiter |-> b, lastSeen |-> now]]
  BY DEF Lookup, Seen
<1>2. clients'[k] = [limiter |-> b, lastSeen |-> now] /\ clients'[k] # None
  BY <1>1 DEF TypeOK
<1>3. \A l \in Clients : l # k => clients'[l] = clients[l]
  BY <1>1 DEF TypeOK
<1>4. CASE clients[k] # None
  <2>1. clients[k].limiter = b /\ tokens' = tokens
    BY <1>4 DEF Lookup, Find
  <2>2. QED BY <1>2, <1>3, <1>4, <2>1 DEF BucketsDistinct, LookupResult
<1>5. CASE clients[k] = None
  <2>1. Unused(b) /\ tokens' = [tokens EXCEPT ![b] = Burst]
    BY <1>5 DEF Lookup, Find
  <2>2. QED BY <1>2, <1>3, <1>5, <2>1 DEF Unused, TypeOK, LookupResult
<1>6. QED BY <1>4, <1>5

LEMMA LookupInv ==
    ASSUME LimiterInv, NEW r \in Requests, NEW k \in Clients, NEW b \in Buckets,
           Lookup(r, k, b)
    PROVE  (BucketsDistinct /\ HeldMapped /\ Filling /\ SweepInv)'
<1>a. LookupResult(k, b)
  BY LookupEffect
<1>b. EntryTypes
  BY Entries DEF LimiterInv
<1> USE <1>a, <1>b DEF LimiterInv, LookupResult, EntryTypes
<1>1. now' = now /\ sweepAt' = sweepAt /\ cutoff' = cutoff
  BY DEF Lookup, sweeper
<1>2. BucketsDistinct'
  BY DEF BucketsDistinct, TypeOK
<1>3. HeldMapped'
  <2>1. /\ from' = [from EXCEPT ![r] = k]
        /\ lim' = [lim EXCEPT ![r] = [bucket |-> b, since |-> now]]
        /\ verdict' = [verdict EXCEPT ![r] = "pending"]
    BY DEF Lookup
  <2>2. /\ lim'[r] = [bucket |-> b, since |-> now] /\ lim'[r] # None
        /\ from'[r] = k /\ verdict'[r] = "pending"
    BY <2>1, NotNone DEF TypeOK
  <2>4. \A q \in Requests : q # r => from'[q] = from[q] /\ lim'[q] = lim[q] /\ verdict'[q] = verdict[q]
    BY <2>1 DEF TypeOK
  <2> SUFFICES ASSUME NEW q \in Requests
               PROVE  /\ verdict'[q] = "pending" <=> lim'[q] # None
                      /\ lim'[q] # None =>
                            /\ clients'[from'[q]] # None
                            /\ clients'[from'[q]].limiter = lim'[q].bucket
                            /\ lim'[q].since <= clients'[from'[q]].lastSeen
                            /\ now' <= lim'[q].since + MaxDelay
    BY DEF HeldMapped
  <2>5. CASE q = r
    BY <1>1, <2>2, <2>5
  <2>6. CASE q # r
    <3>1. from[q] \in Clients
      BY DEF TypeOK
    <3>2. CASE from[q] = k
      BY <1>1, <2>4, <2>6, <3>2 DEF HeldMapped, SweepInv
    <3>3. CASE from[q] # k
      BY <1>1, <2>4, <2>6, <3>1, <3>3 DEF HeldMapped
    <3>4. QED BY <3>2, <3>3
  <2>7. QED BY <2>5, <2>6
<1>4. Filling'
  <2> SUFFICES ASSUME NEW l \in Clients, clients'[l] # None
               PROVE  \/ tokens'[clients'[l].limiter] = Burst
                      \/ Rate * (now' - clients'[l].lastSeen - MaxDelay) <= tokens'[clients'[l].limiter]
    BY DEF Filling
  <2>1. CASE l # k
    BY <1>1, <2>1 DEF Filling
  <2>2. CASE l = k
    <3>2. CASE clients[k] = None
      BY <2>2, <3>2
    <3>3. CASE clients[k] # None
      <4>1. clients[k].lastSeen <= now /\ now \in Int /\ clients[k].lastSeen \in Int
        BY <3>3 DEF SweepInv
      <4>2. Rate * (now - now - MaxDelay) <= Rate * (now - clients[k].lastSeen - MaxDelay)
        BY <4>1, ProductMonotone
      <4>3. /\ Rate * (now - now - MaxDelay) \in Int
            /\ Rate * (now - clients[k].lastSeen - MaxDelay) \in Int
        BY <4>1, ProductSuccessor
      <4>4. tokens'[b] = tokens[clients[k].limiter]
        BY <3>3
      <4>5. QED BY <1>1, <2>2, <3>3, <4>2, <4>3, <4>4 DEF Filling
    <3>4. QED BY <3>2, <3>3
  <2>3. QED BY <2>1, <2>2
<1>5. SweepInv'
  <2>1. sweepAt - 2 * TTL <= now /\ now <= now
    BY DEF SweepInv, TypeOK
  <2>2. QED BY <1>1, <2>1 DEF SweepInv
<1>6. QED BY <1>2, <1>3, <1>4, <1>5

LEMMA LookupLevel ==
    ASSUME LimiterInv, NEW r \in Requests, NEW k \in Clients, NEW b \in Buckets,
           Lookup(r, k, b)
    PROVE  Level' = Level
<1>a. LookupResult(k, b)
  BY LookupEffect
<1>b. EntryTypes
  BY Entries DEF LimiterInv
<1> USE <1>a, <1>b DEF LimiterInv, LookupResult, EntryTypes
<1>1. \A l \in Clients : (IF clients'[l] = None THEN Burst ELSE tokens'[clients'[l].limiter])
                       = (IF clients[l] = None THEN Burst ELSE tokens[clients[l].limiter])
  <2> TAKE l \in Clients
  <2>1. CASE l = k
    BY <2>1
  <2>2. CASE l # k
    BY <2>2
  <2>3. QED BY <2>1, <2>2
<1>2. QED BY <1>1 DEF Level

-----------------------------------------------------------------------------
\* A charge takes from the bucket its own client is mapped to, or finds that empty.
DecideResult(k, b) ==
    /\ clients[k] # None /\ clients[k].limiter = b
    /\ now <= clients[k].lastSeen + MaxDelay
    /\ \A l \in Clients : l # k /\ clients[l] # None => clients[l].limiter # b
    /\ \A c \in Buckets : c # b => tokens'[c] = tokens[c]
    /\ tokens[b] \in 0..Burst /\ tokens'[b] \in 0..Burst

LEMMA DecideEffect ==
    ASSUME LimiterInv, NEW r \in Requests, Decide(r)
    PROVE  from[r] \in Clients /\ DecideResult(from[r], lim[r].bucket)
<1>1. EntryTypes
  BY Entries DEF LimiterInv
<1> USE <1>1 DEF LimiterInv, EntryTypes
<1>2. lim[r] # None /\ from[r] \in Clients /\ lim[r].bucket \in Buckets
  BY DEF Decide, TypeOK
<1>3. /\ clients[from[r]] # None /\ clients[from[r]].limiter = lim[r].bucket
      /\ now <= clients[from[r]].lastSeen + MaxDelay
  BY <1>2 DEF HeldMapped
<1>4. tokens \in [Buckets -> 0..Burst] /\ tokens' \in [Buckets -> 0..Burst]
  BY <1>2 DEF Decide, Charge, TypeOK
<1>5. \A c \in Buckets : c # lim[r].bucket => tokens'[c] = tokens[c]
  BY <1>2 DEF Decide, Charge, TypeOK
<1>6. QED BY <1>2, <1>3, <1>4, <1>5 DEF BucketsDistinct, DecideResult

LEMMA DecideInv ==
    ASSUME LimiterInv, NEW r \in Requests, Decide(r)
    PROVE  (BucketsDistinct /\ HeldMapped /\ Filling /\ SweepInv)'
<1>1. from[r] \in Clients /\ DecideResult(from[r], lim[r].bucket)
  BY DecideEffect
<1>2. EntryTypes
  BY Entries DEF LimiterInv
<1> USE <1>1, <1>2 DEF LimiterInv, DecideResult, EntryTypes
<1>3. /\ now' = now /\ clients' = clients /\ from' = from
      /\ sweepAt' = sweepAt /\ cutoff' = cutoff
  BY DEF Decide, sweeper
<1>4. BucketsDistinct' /\ SweepInv'
  BY <1>3 DEF BucketsDistinct, SweepInv
<1>5. HeldMapped'
  <2>1. lim'[r] = None /\ verdict'[r] # "pending"
    BY DEF Decide, Charge, TypeOK
  <2>2. \A q \in Requests : q # r => lim'[q] = lim[q] /\ verdict'[q] = verdict[q]
    BY DEF Decide, Charge, TypeOK
  <2>3. QED BY <1>3, <2>1, <2>2 DEF HeldMapped
<1>6. Filling'
  <2> SUFFICES ASSUME NEW l \in Clients, clients[l] # None
               PROVE  \/ tokens'[clients[l].limiter] = Burst
                      \/ Rate * (now - clients[l].lastSeen - MaxDelay) <= tokens'[clients[l].limiter]
    BY <1>3 DEF Filling
  <2>1. CASE l # from[r]
    BY <2>1 DEF Filling
  <2>2. CASE l = from[r]
    <3>1. now - clients[l].lastSeen - MaxDelay <= 0 /\ now - clients[l].lastSeen - MaxDelay \in Int
      BY <2>2
    <3>2. Rate * (now - clients[l].lastSeen - MaxDelay) <= Rate * 0
      BY <3>1, ProductMonotone
    <3>3. Rate * (now - clients[l].lastSeen - MaxDelay) \in Int
      BY <3>1, ProductSuccessor
    <3>4. QED BY <2>2, <3>2, <3>3
  <2>3. QED BY <2>1, <2>2
<1>7. QED BY <1>4, <1>5, <1>6

LEMMA DecideLevel ==
    ASSUME LimiterInv, NEW r \in Requests, Decide(r)
    PROVE  LET k == from[r] IN
           /\ verdict[r] = "pending"
           /\ Level \in [Clients -> 0..Burst] /\ k \in Clients
           /\ \/ /\ Level[k] > 0
                 /\ Level' = [Level EXCEPT ![k] = @ - 1]
                 /\ verdict' = [verdict EXCEPT ![r] = "pass"]
                 /\ Granted(k)
              \/ /\ Level[k] = 0 /\ Level' = Level
                 /\ verdict' = [verdict EXCEPT ![r] = "limited"]
                 /\ granted' = granted
<1>1. from[r] \in Clients /\ DecideResult(from[r], lim[r].bucket)
  BY DecideEffect
<1>2. EntryTypes
  BY Entries DEF LimiterInv
<1> USE <1>1, <1>2 DEF LimiterInv, DecideResult, EntryTypes
<1>3. clients' = clients /\ lim[r] # None /\ lim[r].bucket \in Buckets
  BY DEF Decide
<1>4. verdict[r] = "pending"
  BY <1>3 DEF HeldMapped
<1>5. Level \in [Clients -> 0..Burst] /\ Level[from[r]] = tokens[lim[r].bucket]
  BY DEF Level
<1>6. \A l \in Clients : l # from[r] =>
         (IF clients'[l] = None THEN Burst ELSE tokens'[clients'[l].limiter]) = Level[l]
  BY <1>3 DEF Level
<1>7. (IF clients'[from[r]] = None THEN Burst ELSE tokens'[clients'[from[r]].limiter])
      = tokens'[lim[r].bucket]
  BY <1>3
<1>8. CASE /\ tokens[lim[r].bucket] > 0
           /\ tokens' = [tokens EXCEPT ![lim[r].bucket] = @ - 1]
           /\ verdict' = [verdict EXCEPT ![r] = "pass"]
           /\ Granted(from[r])
  <2>1. tokens'[lim[r].bucket] = tokens[lim[r].bucket] - 1
    BY <1>3, <1>8 DEF TypeOK
  <2>2. Level' = [Level EXCEPT ![from[r]] = @ - 1]
    BY <1>5, <1>6, <1>7, <2>1 DEF Level
  <2>3. QED BY <1>4, <1>5, <1>8, <2>2
<1>9. CASE /\ tokens[lim[r].bucket] = 0
           /\ verdict' = [verdict EXCEPT ![r] = "limited"]
           /\ UNCHANGED <<tokens, granted>>
  <2>1. Level' = Level
    BY <1>3, <1>9 DEF Level
  <2>2. QED BY <1>4, <1>5, <1>9, <2>1
<1>10. QED BY <1>8, <1>9 DEF Decide, Charge

-----------------------------------------------------------------------------
LEMMA ReadCutoffInv ==
    ASSUME LimiterInv, ReadCutoff
    PROVE  (BucketsDistinct /\ HeldMapped /\ Filling /\ SweepInv)' /\ Level' = Level
<1>1. EntryTypes
  BY Entries DEF LimiterInv
<1>2. /\ now' = now /\ clients' = clients /\ tokens' = tokens /\ sweepAt' = sweepAt
      /\ from' = from /\ lim' = lim /\ verdict' = verdict
      /\ sweepAt <= now /\ cutoff' = now - TTL
  BY <1>1 DEF ReadCutoff, Cutoff, callers, EntryTypes
<1>3. (BucketsDistinct /\ HeldMapped /\ Filling)' /\ Level' = Level
  BY <1>2 DEF LimiterInv, BucketsDistinct, HeldMapped, Filling, Level
<1>4. SweepInv'
  BY <1>1, <1>2 DEF LimiterInv, SweepInv, EntryTypes
<1>5. QED BY <1>3, <1>4

\* An evicted bucket is full, and no request holds it: there was time enough since
\* its client was seen.
EvictResult(k) ==
    clients[k] # None /\ clients[k].lastSeen < cutoff =>
        /\ tokens[clients[k].limiter] = Burst
        /\ \A r \in Requests : lim[r] # None => from[r] # k

LEMMA EvictEffect ==
    ASSUME LimiterInv, Evict, NEW k \in Clients
    PROVE  EvictResult(k)
<1>1. EntryTypes
  BY Entries DEF LimiterInv
<1> USE <1>1 DEF LimiterInv, EntryTypes
<1> SUFFICES ASSUME clients[k] # None, clients[k].lastSeen < cutoff
             PROVE  /\ tokens[clients[k].limiter] = Burst
                    /\ \A r \in Requests : lim[r] # None => from[r] # k
  BY DEF EvictResult
<1>2. cutoff \in Int /\ cutoff <= now - TTL
  BY DEF Evict, SweepInv
<1>3. TTL - MaxDelay <= now - clients[k].lastSeen - MaxDelay
  BY <1>2
<1>4. Rate * (TTL - MaxDelay) <= Rate * (now - clients[k].lastSeen - MaxDelay)
  BY <1>3, ProductMonotone
<1>5. /\ Rate * (TTL - MaxDelay) \in Int
      /\ Rate * (now - clients[k].lastSeen - MaxDelay) \in Int
  BY ProductSuccessor
<1>6. tokens[clients[k].limiter] = Burst
  BY <1>4, <1>5, RefillAssumption DEF Filling
<1>7. ASSUME NEW r \in Requests, lim[r] # None, from[r] = k PROVE FALSE
  BY <1>2, <1>7, RefillAssumption DEF HeldMapped
<1>8. QED BY <1>6, <1>7

LEMMA EvictInv ==
    ASSUME LimiterInv, Evict
    PROVE  (BucketsDistinct /\ HeldMapped /\ Filling /\ SweepInv)' /\ Level' = Level
<1>1. EntryTypes
  BY Entries DEF LimiterInv
<1>2. \A k \in Clients : EvictResult(k)
  BY EvictEffect
<1> USE <1>1, <1>2 DEF LimiterInv, EntryTypes, EvictResult
<1>3. /\ now' = now /\ tokens' = tokens /\ from' = from /\ lim' = lim /\ verdict' = verdict
      /\ cutoff' = None /\ sweepAt' = sweepAt + TTL /\ cutoff # None
  BY DEF Evict, callers
<1>4. \A k \in Clients : clients'[k] = IF clients[k] # None /\ clients[k].lastSeen < cutoff
                                      THEN None ELSE clients[k]
  BY DEF Evict, Idle
<1>5. BucketsDistinct'
  BY <1>4 DEF BucketsDistinct
<1>6. HeldMapped'
  <2>1. \A r \in Requests : lim[r] # None => clients'[from[r]] = clients[from[r]]
    BY <1>4 DEF TypeOK
  <2>2. QED BY <1>3, <2>1 DEF HeldMapped
<1>7. Filling'
  BY <1>3, <1>4 DEF Filling
<1>8. SweepInv'
  BY <1>3, <1>4 DEF SweepInv
<1>9. Level' = Level
  BY <1>3, <1>4 DEF Level
<1>10. QED BY <1>5, <1>6, <1>7, <1>8, <1>9

LEMMA TickInv ==
    ASSUME LimiterInv, Tick
    PROVE  (BucketsDistinct /\ HeldMapped /\ Filling /\ SweepInv)'
<1>1. EntryTypes
  BY Entries DEF LimiterInv
<1> USE <1>1 DEF LimiterInv, EntryTypes
<1>2. /\ now' = now + 1 /\ now < sweepAt + MaxDelay
      /\ clients' = clients /\ from' = from /\ lim' = lim /\ verdict' = verdict
      /\ sweepAt' = sweepAt /\ cutoff' = cutoff
      /\ \A b \in Buckets : tokens'[b] = IF tokens[b] + Rate > Burst THEN Burst
                                         ELSE tokens[b] + Rate
      /\ \A r \in Requests : lim[r] # None => now < lim[r].since + MaxDelay
  BY DEF Tick, callers, sweeper
<1>3. BucketsDistinct' /\ SweepInv'
  BY <1>2 DEF BucketsDistinct, SweepInv
<1>4. HeldMapped'
  BY <1>2 DEF HeldMapped
<1>5. Filling'
  <2> SUFFICES ASSUME NEW k \in Clients, clients[k] # None
               PROVE  \/ tokens'[clients[k].limiter] = Burst
                      \/ Rate * (now + 1 - clients[k].lastSeen - MaxDelay) <= tokens'[clients[k].limiter]
    BY <1>2 DEF Filling
  <2>1. /\ now - clients[k].lastSeen - MaxDelay \in Int
        /\ now + 1 - clients[k].lastSeen - MaxDelay = (now - clients[k].lastSeen - MaxDelay) + 1
    OBVIOUS
  <2>2. /\ Rate * (now - clients[k].lastSeen - MaxDelay) \in Int
        /\ Rate * (now + 1 - clients[k].lastSeen - MaxDelay)
           = Rate * (now - clients[k].lastSeen - MaxDelay) + Rate
    BY <2>1, ProductSuccessor
  <2>3. QED BY <1>2, <2>2 DEF Filling
<1>6. QED BY <1>3, <1>4, <1>5

LEMMA TickLevel ==
    ASSUME LimiterInv, Tick
    PROVE  /\ Level \in [Clients -> 0..Burst]
           /\ Level' = [k \in Clients |-> IF Level[k] + Rate > Burst THEN Burst
                                         ELSE Level[k] + Rate]
<1>1. EntryTypes
  BY Entries DEF LimiterInv
<1> USE <1>1 DEF LimiterInv, EntryTypes
<1>2. /\ clients' = clients
      /\ \A b \in Buckets : tokens'[b] = IF tokens[b] + Rate > Burst THEN Burst
                                         ELSE tokens[b] + Rate
  BY DEF Tick
<1>3. Level \in [Clients -> 0..Burst]
  BY DEF Level
<1>4. \A k \in Clients :
         (IF clients'[k] = None THEN Burst ELSE tokens'[clients'[k].limiter])
         = IF Level[k] + Rate > Burst THEN Burst ELSE Level[k] + Rate
  BY <1>2 DEF Level
<1>5. Level' = [k \in Clients |-> IF Level[k] + Rate > Burst THEN Burst ELSE Level[k] + Rate]
  BY <1>4 DEF Level
<1>6. QED BY <1>3, <1>5

-----------------------------------------------------------------------------
LEMMA InvInit == ASSUME Init PROVE LimiterInv
<1> USE LimiterAssumption, NotNone, RefillAssumption DEF Init
<1>1. TypeOK
  BY DEF TypeOK, Times
<1>2. BucketsDistinct /\ HeldMapped /\ Filling
  BY DEF BucketsDistinct, HeldMapped, Filling
<1>3. SweepInv
  BY DEF SweepInv
<1>4. QED BY <1>1, <1>2, <1>3 DEF LimiterInv

LEMMA InvStep == ASSUME LimiterInv, [Next]_vars PROVE LimiterInv'
<1>1. TypeOK'
  BY TypeStep DEF LimiterInv
<1>2. CASE UNCHANGED vars
  BY <1>2 DEF LimiterInv, TypeOK, BucketsDistinct, HeldMapped, Filling, SweepInv,
              vars, callers, sweeper, history
<1>3. QED
  BY <1>1, <1>2, Steps, LookupInv, DecideInv, ReadCutoffInv, EvictInv, TickInv DEF LimiterInv

(***************************************************************************)
(* The limiter's state has its types whatever requests and the cleanup do: *)
(* a bucket never holds less than nothing or more than the burst (Limiter).*)
(***************************************************************************)
THEOREM LimiterTypeCorrect == Spec => []TypeOK
<1>1. Init => LimiterInv
  BY InvInit
<1>2. LimiterInv /\ [Next]_vars => LimiterInv'
  BY InvStep
<1>3. LimiterInv => TypeOK
  BY DEF LimiterInv
<1>4. QED BY <1>1, <1>2, <1>3, PTL DEF Spec

(***************************************************************************)
(* The cleanup keeps up: a bucket unused for three cleanup intervals is    *)
(* gone, because it goes after two and the delay of the goroutine, which   *)
(* is less than a third one (cleanupLoop).                                 *)
(***************************************************************************)
THEOREM IdleForgotten == Spec => []IdleEvicted
<1>1. Init => LimiterInv
  BY InvInit
<1>2. LimiterInv /\ [Next]_vars => LimiterInv'
  BY InvStep
<1>3. LimiterInv => IdleEvicted
  BY Entries, RefillAssumption, LimiterAssumption
  DEF LimiterInv, SweepInv, IdleEvicted, EntryTypes
<1>4. QED BY <1>1, <1>2, <1>3, PTL DEF Spec

LEMMA GrantStep == ASSUME LimiterInv, GrantInv, [Next]_vars PROVE GrantInv'
<1> USE DEF LimiterInv
<1>1. /\ now \in Int /\ start \in Int /\ granted \in Int /\ watched \in Clients
      /\ Rate \in Nat /\ Burst \in Nat /\ Rate * (now - start) \in Int
  BY Entries, ProductSuccessor, LimiterAssumption DEF EntryTypes, TypeOK, Times
<1>2. ASSUME Level' = Level, now' = now, UNCHANGED history PROVE GrantInv'
  BY <1>2 DEF GrantInv, history
<1>3. ASSUME NEW r \in Requests, NEW k \in Clients, NEW b \in Buckets, Lookup(r, k, b)
      PROVE  GrantInv'
  BY <1>2, <1>3, LookupLevel DEF Lookup
<1>4. ASSUME NEW r \in Requests, Decide(r) PROVE GrantInv'
  <2>1. /\ Level \in [Clients -> 0..Burst] /\ from[r] \in Clients
        /\ \/ /\ Level' = [Level EXCEPT ![from[r]] = @ - 1]
              /\ Granted(from[r])
           \/ Level' = Level /\ granted' = granted
    BY <1>4, DecideLevel
  <2>2. now' = now /\ start' = start /\ watched' = watched
    BY <1>4 DEF Decide
  <2>3. granted' + Level'[watched] <= granted + Level[watched]
    BY <1>1, <2>1 DEF Granted
  <2>4. granted' \in Int /\ Level'[watched] \in Int /\ Level[watched] \in Int
    BY <1>1, <2>1 DEF Granted
  <2>5. now < start => granted' = granted
    BY <1>1, <2>1 DEF Granted
  <2>6. QED BY <1>1, <2>2, <2>3, <2>4, <2>5 DEF GrantInv
<1>5. CASE ReadCutoff
  BY <1>2, <1>5, ReadCutoffInv DEF ReadCutoff
<1>6. CASE Evict
  BY <1>2, <1>6, EvictInv DEF Evict
<1>7. CASE Tick
  <2>1. /\ Level \in [Clients -> 0..Burst]
        /\ Level' = [k \in Clients |-> IF Level[k] + Rate > Burst THEN Burst
                                      ELSE Level[k] + Rate]
    BY <1>7, TickLevel
  <2>2. now' = now + 1 /\ start' = start /\ watched' = watched /\ granted' = granted
    BY <1>7 DEF Tick, history
  <2>3. /\ Level[watched] \in 0..Burst /\ Level'[watched] \in 0..Burst
        /\ Level'[watched] <= Level[watched] + Rate
    BY <1>1, <2>1
  <2>4. /\ Rate * (now - start + 1) = Rate * (now - start) + Rate
        /\ now + 1 - start = now - start + 1
    BY <1>1, ProductSuccessor
  <2>5. CASE start <= now
    BY <1>1, <2>2, <2>3, <2>4, <2>5 DEF GrantInv
  <2>6. CASE now < start
    <3>1. granted = 0
      BY <2>6 DEF GrantInv
    <3>2. start <= now + 1 => Rate * (now + 1 - start) = 0
      BY <1>1, <2>6
    <3>3. QED BY <1>1, <2>2, <2>3, <2>6, <3>1, <3>2 DEF GrantInv
  <2>7. QED BY <1>1, <2>5, <2>6
<1>8. CASE UNCHANGED vars
  <2>1. Level' = Level
    BY <1>8 DEF Level, vars
  <2>2. QED BY <1>2, <1>8, <2>1 DEF vars
<1>9. QED BY <1>3, <1>4, <1>5, <1>6, <1>7, <1>8, Steps

(***************************************************************************)
(* Over any stretch of time no client gets more through than its burst and *)
(* the tokens of that time, for any number of clients, requests in flight, *)
(* evictions and any rate, burst and ttl that let an empty bucket fill     *)
(* before it is thrown away (Allow, cleanupLoop).                          *)
(***************************************************************************)
THEOREM RateNeverExceeded == Spec => []RateBound
<1>1. Init => LimiterInv /\ GrantInv
  <2> SUFFICES ASSUME Init PROVE LimiterInv /\ GrantInv
    OBVIOUS
  <2>1. LimiterInv
    BY InvInit
  <2>2. /\ now = 0 /\ start \in Int /\ 0 <= start /\ granted = 0
        /\ Level[watched] = Burst /\ Burst \in Nat /\ Rate \in Nat
    BY LimiterAssumption DEF Init, Level, Times
  <2>3. start <= now => Rate * (now - start) = 0
    BY <2>2
  <2>4. QED BY <2>1, <2>2, <2>3 DEF GrantInv
<1>2. LimiterInv /\ GrantInv /\ [Next]_vars => LimiterInv' /\ GrantInv'
  BY InvStep, GrantStep
<1>3. LimiterInv /\ GrantInv => RateBound
  <2> SUFFICES ASSUME LimiterInv, GrantInv, start <= now
               PROVE  granted <= Burst + Rate * (now - start)
    BY DEF RateBound
  <2>1. /\ now \in Int /\ start \in Int /\ granted \in Int /\ watched \in Clients
        /\ Rate \in Nat /\ Burst \in Nat /\ Rate * (now - start) \in Int
    BY Entries, ProductSuccessor, LimiterAssumption DEF LimiterInv, EntryTypes, TypeOK, Times
  <2>2. Level[watched] \in 0..Burst
    BY Entries, <2>1 DEF LimiterInv, EntryTypes, Level
  <2>3. QED BY <2>1, <2>2 DEF GrantInv
<1>4. QED BY <1>1, <1>2, <1>3, PTL DEF Spec

(***************************************************************************)
(* The limiter implements a bucket per client that is never thrown away:   *)
(* looking up, evicting and recreating buckets are invisible, and a charge *)
(* decides as that bucket would (Limiter).                                 *)
(***************************************************************************)
THEOREM LimiterImplementsBuckets == Spec => LimiterRefined
<1>1. Init => LimiterInv
  BY InvInit
<1>2. LimiterInv /\ [Next]_vars => LimiterInv'
  BY InvStep
<1>3. Init => Ideal!BucketInit
  BY DEF Init, Ideal!BucketInit
<1>4. LimiterInv /\ [Next]_vars => [Ideal!BucketNext]_(Ideal!bucketVars)
  <2> SUFFICES ASSUME LimiterInv, [Next]_vars
               PROVE  Ideal!BucketNext \/ UNCHANGED <<Level, from, verdict>>
    BY DEF Ideal!bucketVars, Level
  <2>1. ASSUME NEW r \in Requests, NEW k \in Clients, NEW b \in Buckets, Lookup(r, k, b)
        PROVE  Ideal!Ask(r, k)
    <3>1. verdict[r] # "pending"
      BY <2>1 DEF LimiterInv, HeldMapped, Lookup
    <3>2. QED BY <2>1, <3>1, LookupLevel DEF Lookup, Level, Ideal!Ask
  <2>2. ASSUME NEW r \in Requests, Decide(r)
        PROVE  Ideal!Pass(r) \/ Ideal!Refuse(r)
    <3>1. from' = from
      BY <2>2 DEF Decide
    <3>2. QED BY <2>2, <3>1, DecideLevel DEF Level, Ideal!Pass, Ideal!Refuse
  <2>3. CASE ReadCutoff
    BY <2>3, ReadCutoffInv DEF ReadCutoff, callers
  <2>4. CASE Evict
    BY <2>4, EvictInv DEF Evict, callers
  <2>5. CASE Tick
    <3>1. Ideal!Refill
      BY <2>5, TickLevel DEF Tick, callers, Level, Ideal!Refill, Ideal!Refilled
    <3>2. QED BY <3>1 DEF Ideal!BucketNext
  <2>6. CASE UNCHANGED vars
    BY <2>6 DEF vars, callers, Level
  <2>7. QED BY <2>1, <2>2, <2>3, <2>4, <2>5, <2>6, Steps DEF Ideal!BucketNext
<1>5. QED BY <1>1, <1>2, <1>3, <1>4, PTL DEF Spec, LimiterRefined, Ideal!BucketSpec
=============================================================================
