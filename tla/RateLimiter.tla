----------------------------- MODULE RateLimiter -----------------------------
(***************************************************************************)
(* One provider's token bucket (ratelimit.TokenBucket) and the requests    *)
(* that draw on it from several threads (clients.HttpClient.request):      *)
(* credit is worked out when somebody asks, a 429 empties the bucket and   *)
(* halves the rate for a while, a failed attempt asks again, and settings  *)
(* may change the limits at any moment.  A token is two units, so that     *)
(* half a rate is whole; time is counted in the rate's unit.               *)
(***************************************************************************)
EXTENDS Integers

CONSTANTS
    Scans, Quotes,      \* threads that call with low and with high priority
    Limits,             \* <<rate, burst>> an operator may have configured
    Reserve,            \* tokens only a high-priority caller may take, halved
    Cooling,            \* how long a penalty lasts
    Patience,           \* DEFAULT_ACQUIRE_TIMEOUT
    MaxRetries,         \* HttpClient.max_retries
    MaxTime, MaxLimits  \* bounds on the time and on changes of the limits

Cost == 2

ASSUME RateAssumption ==
    /\ Limits \subseteq (Nat \ {0}) \X (Nat \ {0})
    /\ \A l \in Limits : l[1] % 2 = 0 /\ l[2] >= Cost
    /\ {Reserve, Cooling, Patience, MaxRetries, MaxTime, MaxLimits} \subseteq Nat

Callers == Scans \union Quotes

VARIABLES
    limits,         \* _rate and _burst
    tokens,         \* _tokens
    updated,        \* _updated
    penaltyUntil,   \* _penalty_until
    now,
    request,        \* where a thread is in request
    attempt,        \* its attempts so far
    since,          \* when it began to wait in acquire
    changes,        \* counts changes of the limits, up to MaxLimits
    emptied,        \* history: when the bucket was last emptied
    granted,        \* history: units granted since
    topRate,        \* history: the largest rate since
    blocked         \* history: the last thing that kept each caller waiting

bucketVars == <<limits, tokens, updated, penaltyUntil>>
rateHistory == <<emptied, granted, topRate, blocked>>
rateVars == <<bucketVars, now, request, attempt, since, changes, rateHistory>>

RateTypeOK ==
    /\ limits \in Limits
    /\ tokens \in Nat /\ updated \in Nat /\ penaltyUntil \in Nat /\ now \in 0 .. MaxTime
    /\ request \in [Callers -> {"idle", "acquire", "sent"}]
    /\ attempt \in [Callers -> 0 .. MaxRetries]
    /\ since \in [Callers -> Nat]
    /\ changes \in 0 .. MaxLimits
    /\ emptied \in Nat /\ granted \in Nat /\ topRate \in Nat
    /\ blocked \in [Callers -> Nat]

RateInit ==
    /\ limits \in Limits
    /\ tokens = 0 /\ updated = 0 /\ penaltyUntil = 0 /\ now = 0
    /\ request = [c \in Callers |-> "idle"]
    /\ attempt = [c \in Callers |-> 0]
    /\ since = [c \in Callers |-> 0]
    /\ changes = 0
    /\ emptied = 0 /\ granted = 0 /\ topRate = limits[1]
    /\ blocked = [c \in Callers |-> 0]

Least(a, b) == IF a <= b THEN a ELSE b
Most(a, b) == IF a >= b THEN a ELSE b

\* effective_rate, with the factor penalise is always called with.
EffectiveRate == IF now < penaltyUntil THEN limits[1] \div 2 ELSE limits[1]

\* _refill: what has accrued since somebody last asked, at the rate of now.
Refilled == Least(limits[2], tokens + (now - updated) * EffectiveRate)

\* A bug for the mutants: no lane is reserved.
NoFloor(c) == 0

RateFloor(c) == IF c \in Quotes THEN 0 ELSE Least(Reserve, limits[2])

\* A bug for the mutants: what the call takes is not counted.
AnyLeft(c) == Refilled >= RateFloor(c)

Grantable(c) == Refilled - Cost >= RateFloor(c)

----------------------------------------------------------------------------
(* HttpClient.request, one attempt after another *)

Ask(c) ==
    /\ request[c] = "idle"
    /\ request' = [request EXCEPT ![c] = "acquire"]
    /\ attempt' = [attempt EXCEPT ![c] = 0]
    /\ since' = [since EXCEPT ![c] = now]
    /\ blocked' = [blocked EXCEPT ![c] = now]
    /\ UNCHANGED <<bucketVars, now, changes, emptied, granted, topRate>>

\* acquire finds enough.
Acquire(c) ==
    /\ request[c] = "acquire"
    /\ Grantable(c)
    /\ tokens' = Refilled - Cost
    /\ updated' = now
    /\ request' = [request EXCEPT ![c] = "sent"]
    /\ granted' = granted + Cost
    /\ blocked' = [d \in Callers |-> IF c \in Quotes THEN now ELSE blocked[d]]
    /\ UNCHANGED <<limits, penaltyUntil, now, attempt, since, changes, emptied, topRate>>

\* acquire does not, and its time is up: RateLimited.
AcquireTimesOut(c) ==
    /\ request[c] = "acquire"
    /\ ~Grantable(c)
    /\ now - since[c] >= Patience
    /\ tokens' = Refilled
    /\ updated' = now
    /\ request' = [request EXCEPT ![c] = "idle"]
    /\ UNCHANGED <<limits, penaltyUntil, now, attempt, since, changes, rateHistory>>

\* An answer, or an error that is not worth another attempt.
Finish(c) ==
    /\ request[c] = "sent"
    /\ request' = [request EXCEPT ![c] = "idle"]
    /\ UNCHANGED <<bucketVars, now, attempt, since, changes, rateHistory>>

\* A bug for the mutants: the refill clock runs on, and gives the credit back.
TokensOnly == tokens' = 0 /\ UNCHANGED updated

Emptying == tokens' = 0 /\ updated' = now

Again(c) ==
    IF attempt[c] < MaxRetries
    THEN /\ request' = [request EXCEPT ![c] = "acquire"]
         /\ attempt' = [attempt EXCEPT ![c] = @ + 1]
         /\ since' = [since EXCEPT ![c] = now]
    ELSE /\ request' = [request EXCEPT ![c] = "idle"]
         /\ UNCHANGED <<attempt, since>>

\* HTTP 429: penalise, then the next attempt.
TooMany(c) ==
    /\ request[c] = "sent"
    /\ Emptying
    /\ penaltyUntil' = now + Cooling
    /\ Again(c)
    /\ emptied' = now /\ granted' = 0 /\ topRate' = limits[1]
    /\ blocked' = [d \in Callers |-> now]
    /\ UNCHANGED <<limits, now, changes>>

\* A timeout or a server error: the next attempt.
Transient(c) ==
    /\ request[c] = "sent"
    /\ Again(c)
    /\ blocked' = [blocked EXCEPT ![c] = now]
    /\ UNCHANGED <<bucketVars, now, changes, emptied, granted, topRate>>

----------------------------------------------------------------------------

\* configure, when the worker applies new settings: nothing is refilled first.
Configure(l) ==
    /\ changes < MaxLimits
    /\ l # limits
    /\ changes' = changes + 1
    /\ limits' = l
    /\ tokens' = Least(tokens, l[2])
    /\ topRate' = Most(topRate, l[1])
    /\ blocked' = [d \in Callers |-> now]
    /\ UNCHANGED <<updated, penaltyUntil, now, request, attempt, since, emptied, granted>>

\* stats refills as an acquisition does.
Stats ==
    /\ updated < now
    /\ tokens' = Refilled
    /\ updated' = now
    /\ UNCHANGED <<limits, penaltyUntil, now, request, attempt, since, changes, rateHistory>>

\* Time passes; a waiting thread wakes as soon as it can be served.
Tick ==
    /\ now < MaxTime
    /\ \A c \in Callers : request[c] = "acquire" => ~Grantable(c) /\ now - since[c] < Patience
    /\ now' = now + 1
    /\ UNCHANGED <<bucketVars, request, attempt, since, changes, rateHistory>>

RateNext ==
    \/ \E c \in Callers :
         \/ Ask(c) \/ Acquire(c) \/ AcquireTimesOut(c) \/ Finish(c)
         \/ TooMany(c) \/ Transient(c)
    \/ \E l \in Limits : Configure(l)
    \/ Stats
    \/ Tick

RateSpec == RateInit /\ [][RateNext]_rateVars

----------------------------------------------------------------------------

\* Since the bucket was last emptied, at the start or by a 429, the provider
\* has been asked no more often than the largest rate of that time allows, and
\* while the penalty lasts no more than half as often, however many threads
\* ask, give up, retry, read the statistics or have the limits changed.
BudgetHonoured ==
    /\ granted <= (now - emptied) * topRate
    /\ emptied > 0 /\ now < penaltyUntil => 2 * granted <= (now - emptied) * topRate

\* The time the bucket takes to earn one call at the slowest it may refill.
Earned(rate) == (2 * Cost + rate - 1) \div rate

\* A quote waits for nothing but the rate itself: the time since it asked, or
\* since the last 429, change of limits or quote served before it, is never
\* longer than one call takes to earn, whatever the scans draw.
QuoteNotBehindScans ==
    Reserve >= Cost =>
        \A c \in Quotes : request[c] = "acquire" => now - blocked[c] <= Earned(limits[1])
=============================================================================
