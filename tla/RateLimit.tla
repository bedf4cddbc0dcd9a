----------------------------- MODULE RateLimit -----------------------------
(***************************************************************************)
(* internal/ratelimit: a token bucket per client, looked up under the      *)
(* limiter's lock and charged after it is released, while a background     *)
(* goroutine evicts the buckets of idle clients; and how the proxy names   *)
(* the client of a request (clientIPFunc in main).                         *)
(*                                                                         *)
(* Time is a count of ticks.  A goroutine may be delayed at any point, by  *)
(* at most MaxDelay between two points named below.                        *)
(***************************************************************************)
EXTENDS Integers, Sequences

CONSTANTS
    Clients,          \* client keys
    Peers,            \* hosts of TCP peers
    Forwarded,        \* values of the forwarded header, cut at the commas
    TrustForwarded,   \* rate_limit.trust_forwarded_header, with a header named
    Requests,         \* goroutines of Proxy.ServeHTTP
    Buckets,          \* rate.Limiter objects
    Rate, Burst,      \* tokens per tick, and the most a bucket holds
    TTL,              \* Limiter.ttl, also the period of the cleanup
    MaxDelay,         \* bound on the delay of a goroutine
    MaxTime,          \* bound on time
    None              \* no bucket, no cleanup under way

Times == 0..MaxTime

\* client, and the local variable lim of Allow with the time it was read.
Client == [limiter : Buckets, lastSeen : Times]
Limit == [bucket : Buckets, since : Times]

ASSUME LimiterAssumption ==
    /\ Peers \subseteq Clients
    /\ Forwarded \subseteq Seq(Clients)
    /\ TrustForwarded \in BOOLEAN
    /\ Rate \in Nat /\ Burst \in Nat /\ MaxTime \in Nat
    /\ TTL \in Nat /\ MaxDelay \in Nat
    /\ None \notin Client \cup Limit \cup Int

\* What eviction relies on: goroutines are not delayed for as long as the ttl, and
\* an empty bucket fills in what is left of it.
ASSUME RefillAssumption ==
    /\ MaxDelay < TTL
    /\ Rate * (TTL - MaxDelay) >= Burst

VARIABLES
    now,          \* time.Now
    clients,      \* Limiter.clients: each key's entry, or None
    tokens,       \* the level of each bucket
    from,         \* the key of each request
    lim,          \* the bucket a request was given under the lock, and when
    verdict,      \* "idle", "pending" (lock released, not charged), "pass" or "limited"
    sweepAt,      \* when the cleanup's ticker fires next
    cutoff,       \* the cleanup's cutoff, once it is read
    watched,      \* history: any client and any time, fixed for the behaviour, and
    start,        \*          how many requests of that client were let pass at that
    granted       \*          time or later

callers == <<from, lim, verdict>>
sweeper == <<sweepAt, cutoff>>
history == <<watched, start, granted>>
vars == <<now, clients, tokens, callers, sweeper, history>>

TypeOK ==
    /\ now \in Times
    /\ clients \in [Clients -> Client \cup {None}]
    /\ tokens \in [Buckets -> 0..Burst]
    /\ from \in [Requests -> Clients]
    /\ lim \in [Requests -> Limit \cup {None}]
    /\ verdict \in [Requests -> {"idle", "pending", "pass", "limited"}]
    /\ sweepAt \in Nat
    /\ cutoff \in Int \cup {None}
    /\ watched \in Clients /\ start \in Times /\ granted \in Nat

Init ==
    /\ now = 0
    /\ clients = [k \in Clients |-> None]
    /\ tokens = [b \in Buckets |-> Burst]
    /\ from \in [Requests -> Clients]
    /\ lim = [r \in Requests |-> None]
    /\ verdict = [r \in Requests |-> "idle"]
    /\ sweepAt = TTL /\ cutoff = None
    /\ watched \in Clients /\ start \in Times /\ granted = 0

-----------------------------------------------------------------------------
\* clientIPFunc: the first of the forwarded addresses if the header is trusted and
\* there, else the TCP peer.
ClientIP(peer, forwarded) ==
    IF TrustForwarded /\ forwarded # <<>> THEN Head(forwarded) ELSE peer

\* Nothing refers to the bucket; the garbage collector has it.
Unused(b) == /\ \A k \in Clients : clients[k] # None => clients[k].limiter # b
             /\ \A r \in Requests : lim[r] # None => lim[r].bucket # b

\* Mutant: the time of a request is noted only when its bucket is created.
SeenWhenCreated(k, b) ==
    clients' = [clients EXCEPT ![k] = IF @ = None THEN [limiter |-> b, lastSeen |-> now] ELSE @]

\* The entry of a key that is seen now.
Seen(k, b) == clients' = [clients EXCEPT ![k] = [limiter |-> b, lastSeen |-> now]]

\* The key's bucket, or a new one; rate.NewLimiter makes it full.
Find(k, b) ==
    \/ clients[k] # None /\ b = clients[k].limiter /\ UNCHANGED tokens
    \/ clients[k] = None /\ Unused(b) /\ tokens' = [tokens EXCEPT ![b] = Burst]

\* Allow up to its Unlock.
Lookup(r, k, b) ==
    /\ lim[r] = None
    /\ Find(k, b)
    /\ Seen(k, b)
    /\ from' = [from EXCEPT ![r] = k]
    /\ lim' = [lim EXCEPT ![r] = [bucket |-> b, since |-> now]]
    /\ verdict' = [verdict EXCEPT ![r] = "pending"]
    /\ UNCHANGED <<now, sweeper, history>>

Granted(k) == granted' = IF k = watched /\ start <= now THEN granted + 1 ELSE granted

\* Mutant: the bucket is charged without asking what it holds.
ChargeAlways(b, r) ==
    /\ tokens' = [tokens EXCEPT ![b] = @ - 1]
    /\ verdict' = [verdict EXCEPT ![r] = "pass"]
    /\ Granted(from[r])

\* rate.Limiter.Allow takes a token, or refuses (external).
Charge(b, r) ==
    \/ /\ tokens[b] > 0
       /\ tokens' = [tokens EXCEPT ![b] = @ - 1]
       /\ verdict' = [verdict EXCEPT ![r] = "pass"]
       /\ Granted(from[r])
    \/ /\ tokens[b] = 0
       /\ verdict' = [verdict EXCEPT ![r] = "limited"]
       /\ UNCHANGED <<tokens, granted>>

\* The last line of Allow, outside the lock, and what ServeHTTP makes of it.
Decide(r) ==
    /\ lim[r] # None
    /\ Charge(lim[r].bucket, r)
    /\ lim' = [lim EXCEPT ![r] = None]
    /\ UNCHANGED <<now, clients, from, sweeper, watched, start>>

-----------------------------------------------------------------------------
\* Mutant: the cutoff is a whole period too old.
CutoffLate == now - 2 * TTL

\* cleanupLoop: the cutoff is read before the lock is taken.
Cutoff == now - TTL

ReadCutoff ==
    /\ cutoff = None /\ now >= sweepAt
    /\ cutoff' = Cutoff
    /\ UNCHANGED <<now, clients, tokens, callers, sweepAt, history>>

\* Mutant: the comparison is the wrong way round.
RecentlySeen(c) == c.lastSeen > cutoff

Idle(c) == c.lastSeen < cutoff

\* The loop over the map, under the lock; the ticker keeps its period.
Evict ==
    /\ cutoff # None
    /\ clients' = [k \in Clients |-> IF clients[k] # None /\ Idle(clients[k])
                                    THEN None ELSE clients[k]]
    /\ cutoff' = None
    /\ sweepAt' = sweepAt + TTL
    /\ UNCHANGED <<now, tokens, callers, history>>

\* Time passes, and every bucket gains Rate tokens (rate.Limiter computes them
\* when it is asked next; external).
Tick ==
    /\ now < MaxTime
    /\ now < sweepAt + MaxDelay
    /\ \A r \in Requests : lim[r] # None => now < lim[r].since + MaxDelay
    /\ now' = now + 1
    /\ tokens' = [b \in Buckets |-> IF tokens[b] + Rate > Burst THEN Burst
                                    ELSE tokens[b] + Rate]
    /\ UNCHANGED <<clients, callers, sweeper, history>>

Next ==
    \/ \E r \in Requests :
          \/ \E p \in Peers, f \in Forwarded, b \in Buckets : Lookup(r, ClientIP(p, f), b)
          \/ Decide(r)
    \/ ReadCutoff \/ Evict \/ Tick

Spec == Init /\ [][Next]_vars

-----------------------------------------------------------------------------
(***************************************************************************)
(* Over any stretch of time that ends now, no client got more requests     *)
(* through than its burst and the tokens of that time, however requests    *)
(* overlap with each other and with the eviction of buckets (Allow,        *)
(* cleanupLoop).                                                           *)
(***************************************************************************)
RateBound ==
    start <= now => granted <= Burst + Rate * (now - start)

(***************************************************************************)
(* Memory stays bounded: a bucket that has been unused for three cleanup   *)
(* intervals is gone, although the cleanup runs once per interval, late,   *)
(* and with a cutoff it read earlier (the comment of New, cleanupLoop).    *)
(***************************************************************************)
IdleEvicted ==
    \A k \in Clients : clients[k] # None => now - clients[k].lastSeen < 3 * TTL

(***************************************************************************)
(* The other half of what the comment of New says: the bucket the cleanup  *)
(* is about to evict has been unused for about three cleanup intervals,    *)
(* surely for more than two.  (cleanupLoop evicts after one.)              *)
(***************************************************************************)
UnusedForThree ==
    cutoff # None =>
        \A k \in Clients : clients[k] # None /\ Idle(clients[k])
                               => now - clients[k].lastSeen > 2 * TTL

(***************************************************************************)
(* Creating, evicting and recreating buckets around unlocked charges       *)
(* cannot be told from one bucket per client that lives for ever: also no  *)
(* client is refused while its own bucket would have a token (Limiter).    *)
(***************************************************************************)
Ideal == INSTANCE TokenBucket WITH
    level <- [k \in Clients |-> IF clients[k] = None THEN Burst
                               ELSE tokens[clients[k].limiter]]

LimiterRefined == Ideal!BucketSpec
=============================================================================
