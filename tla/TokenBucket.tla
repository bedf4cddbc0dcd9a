---------------------------- MODULE TokenBucket ----------------------------
(***************************************************************************)
(* What per-client rate limiting promises: each client has one bucket that *)
(* is never thrown away, starts full, gains Rate tokens with every unit of *)
(* time up to Burst, and decides each of the client's requests, which      *)
(* passes for a token and is refused only when there is none.              *)
(***************************************************************************)
EXTENDS Naturals

CONSTANTS Clients, Requests, Rate, Burst

VARIABLES level,      \* tokens in each client's bucket
          from,       \* the client of each request
          verdict     \* what became of each request

bucketVars == <<level, from, verdict>>

Refilled(n) == IF n + Rate > Burst THEN Burst ELSE n + Rate

BucketInit ==
    /\ level = [k \in Clients |-> Burst]
    /\ from \in [Requests -> Clients]
    /\ verdict = [r \in Requests |-> "idle"]

Ask(r, k) ==
    /\ verdict[r] # "pending"
    /\ from' = [from EXCEPT ![r] = k]
    /\ verdict' = [verdict EXCEPT ![r] = "pending"]
    /\ UNCHANGED level

Pass(r) ==
    /\ verdict[r] = "pending" /\ level[from[r]] > 0
    /\ level' = [level EXCEPT ![from[r]] = @ - 1]
    /\ verdict' = [verdict EXCEPT ![r] = "pass"]
    /\ UNCHANGED from

Refuse(r) ==
    /\ verdict[r] = "pending" /\ level[from[r]] = 0
    /\ verdict' = [verdict EXCEPT ![r] = "limited"]
    /\ UNCHANGED <<level, from>>

Refill ==
    /\ level' = [k \in Clients |-> Refilled(level[k])]
    /\ UNCHANGED <<from, verdict>>

BucketNext ==
    \/ \E r \in Requests : (\E k \in Clients : Ask(r, k)) \/ Pass(r) \/ Refuse(r)
    \/ Refill

BucketSpec == BucketInit /\ [][BucketNext]_bucketVars
=============================================================================
