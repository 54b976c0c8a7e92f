------------------------------ MODULE Gateway ------------------------------
(***************************************************************************)
(* api-gateway: the sliding-window limiter (rate_limiter.py), the token    *)
(* check (auth.py) and the reverse proxy (proxy.py), for the requests of   *)
(* one subject: POST /token signs tokens for the one configured user.      *)
(*                                                                         *)
(* Requests are handled concurrently.  Every call to Redis is a step, and  *)
(* so is every tick of the clock, which Redis shares: an entry's time to   *)
(* live may run out between two calls of a check.  Times are in units of   *)
(* the window; a check is over Delay after it began.                       *)
(***************************************************************************)
EXTENDS Integers, FiniteSets, FiniteSetsExt

CONSTANTS
    Request,    \* requests
    Limit,      \* rate_limit_per_minute
    Window,     \* rate_limit_window_seconds
    Delay,      \* bound: the time a check takes at most
    MaxTime,    \* bound
    MaxFaults   \* bound: failed calls to Redis

ASSUME GatewayAssumption ==
    /\ IsFiniteSet(Request)
    /\ Limit \in Nat \ {0} /\ Window \in Nat \ {0} /\ Delay \in 0 .. Window - 1
    /\ MaxTime \in Nat /\ MaxFaults \in Nat

VARIABLES
    now,
    key,        \* the sorted set rate:{subject}: members with their score
    expiry,     \* when Redis drops it, 0: never
    pc,         \* what the handler of the request is about to do
    start,      \* now_ms of its check
    status,     \* its answer, 0: none yet
    retry,      \* its Retry-After
    admitted,   \* requests the limiter let through
    executed,   \* how often a service behind the gateway ran the request
    expired,    \* members dropped with the key although still in their window
    faults

vars == <<now, key, expiry, pc, start, status, retry, admitted, executed, expired, faults>>

Member  == [id : Request, score : 0 .. MaxTime]
Checking == {"prune", "add", "count", "expire", "oldest"}
Refusal == {401, 404, 429, 500}

TypeOK ==
    /\ now \in 0 .. MaxTime
    /\ key \subseteq Member
    /\ expiry \in 0 .. MaxTime + Window
    /\ key = {} => expiry = 0
    /\ pc \in [Request -> Checking \cup {"idle", "forward", "done"}]
    /\ start \in [Request -> 0 .. MaxTime]
    /\ \A r \in Request : (pc[r] = "done") <=> (status[r] # 0)
    /\ status \in [Request -> Refusal \cup {0, 200, 502, 504}]
    /\ retry \in [Request -> 0 .. Window + Delay]
    /\ admitted \subseteq Request
    /\ executed \in [Request -> {0, 1}]
    /\ expired \subseteq Request
    /\ faults \in 0 .. MaxFaults

Init ==
    /\ now = 0 /\ key = {} /\ expiry = 0
    /\ pc = [r \in Request |-> "idle"]
    /\ start = [r \in Request |-> 0]
    /\ status = [r \in Request |-> 0]
    /\ retry = [r \in Request |-> 0]
    /\ admitted = {} /\ expired = {} /\ faults = 0
    /\ executed = [r \in Request |-> 0]

Goto(r, step)  == pc' = [pc EXCEPT ![r] = step]
Answer(r, code) == Goto(r, "done") /\ status' = [status EXCEPT ![r] = code]
limiterVars == <<key, expiry, expired>>
answerVars  == <<status, retry, admitted, executed>>

-----------------------------------------------------------------------------
(* Time and Redis                                                           *)

InWindow(m, t) == m.score > t - Window

Tick ==
    /\ now < MaxTime
    /\ \A r \in Request : pc[r] \in Checking => now - start[r] < Delay
    /\ now' = now + 1
    /\ IF key # {} /\ expiry # 0 /\ expiry <= now + 1
       THEN /\ key' = {} /\ expiry' = 0
            /\ expired' = expired \cup {m.id : m \in {k \in key : InWindow(k, now + 1)}}
       ELSE UNCHANGED limiterVars
    /\ UNCHANGED <<pc, start, answerVars, faults>>

\* check() catches nothing: the framework answers 500, and the member stays.
RedisFails(r) ==
    /\ pc[r] \in Checking
    /\ faults < MaxFaults /\ faults' = faults + 1
    /\ Answer(r, 500)
    /\ UNCHANGED <<now, limiterVars, start, retry, admitted, executed>>

-----------------------------------------------------------------------------
(* A request                                                                *)

\* verify_token, before anything is counted.
Arrive(r) ==
    /\ pc[r] = "idle"
    /\ \/ Goto(r, "prune") /\ start' = [start EXCEPT ![r] = now] /\ UNCHANGED status
       \/ Answer(r, 401) /\ UNCHANGED start
    /\ UNCHANGED <<now, limiterVars, retry, admitted, executed, faults>>

\* Mutant: the start of the window is in seconds, the scores are not.
Prune_Nothing(r) ==
    /\ pc[r] = "prune"
    /\ Goto(r, "add")
    /\ UNCHANGED <<now, key, expiry, start, answerVars, expired, faults>>

\* ZREMRANGEBYSCORE: Redis drops a set that becomes empty, and its expiry.
Prune(r) ==
    /\ pc[r] = "prune"
    /\ key' = {m \in key : InWindow(m, start[r])}
    /\ expiry' = IF key' = {} THEN 0 ELSE expiry
    /\ Goto(r, "add")
    /\ UNCHANGED <<now, start, answerVars, expired, faults>>

Add(r) ==
    /\ pc[r] = "add"
    /\ key' = key \cup {[id |-> r, score |-> start[r]]}
    /\ Goto(r, "count")
    /\ UNCHANGED <<now, expiry, start, answerVars, expired, faults>>

\* Mutant: the request does not count itself.
Count_Others(r) ==
    /\ pc[r] = "count"
    /\ admitted' = IF Cardinality(key) - 1 <= Limit THEN admitted \cup {r} ELSE admitted
    /\ Goto(r, "expire")
    /\ UNCHANGED <<now, limiterVars, start, status, retry, executed, faults>>

\* ZCARD; the comparison itself follows the EXPIRE call and reads nothing.
Count(r) ==
    /\ pc[r] = "count"
    /\ admitted' = IF Cardinality(key) <= Limit THEN admitted \cup {r} ELSE admitted
    /\ Goto(r, "expire")
    /\ UNCHANGED <<now, limiterVars, start, status, retry, executed, faults>>

\* EXPIRE does nothing to a key that is gone.
Expire(r) ==
    /\ pc[r] = "expire"
    /\ expiry' = IF key = {} THEN 0 ELSE now + Window
    /\ Goto(r, IF r \in admitted THEN "forward" ELSE "oldest")
    /\ UNCHANGED <<now, key, start, answerVars, expired, faults>>

\* ZRANGE 0 0, and the answer 429.  An empty set counts as one that begins now.
Oldest(r) ==
    LET first == Min({m.score : m \in key} \cup (IF key = {} THEN {start[r] - Window} ELSE {}))
        wait  == first + Window - start[r]
    IN /\ pc[r] = "oldest"
       /\ retry' = [retry EXCEPT ![r] = IF wait < 1 THEN 1 ELSE wait]
       /\ Answer(r, 429)
       /\ UNCHANGED <<now, limiterVars, start, admitted, executed, faults>>

\* An unknown service has used up quota.  A timeout and a broken connection say
\* nothing of whether the service ran the request.
Forward(r) ==
    /\ pc[r] = "forward"
    /\ \/ Answer(r, 404) /\ UNCHANGED executed
       \/ Answer(r, 200) /\ executed' = [executed EXCEPT ![r] = @ + 1]
       \/ \E code \in {502, 504}, ran \in {0, 1} :
            Answer(r, code) /\ executed' = [executed EXCEPT ![r] = @ + ran]
    /\ UNCHANGED <<now, limiterVars, start, retry, admitted, faults>>

-----------------------------------------------------------------------------

Check(r)  == Prune(r) \/ Add(r) \/ Count(r) \/ Expire(r) \/ Oldest(r)
Next == Tick \/ \E r \in Request : Arrive(r) \/ Check(r) \/ Forward(r) \/ RedisFails(r)

Spec == Init /\ [][Next]_vars

-----------------------------------------------------------------------------

\* Requests of one burst cannot slip in together: of those that began within a
\* window, less the time a check takes, Limit are let through, and as many more
\* as Redis forgot when the key ran out under a check.
LimitPerWindow ==
    \A t \in 0 .. MaxTime :
        Cardinality({r \in admitted : start[r] \in t .. t + Window - Delay - 1})
            <= Limit + Cardinality(expired)

\* A request is refused only when the subject itself made Limit others less than
\* a window before it, or meanwhile: what is older, or forgotten, never counts.
RefusedForRecentRequests ==
    \A r \in Request : status[r] = 429 =>
        Cardinality({q \in Request \ {r} : pc[q] # "idle" /\ start[q] > start[r] - Window
                                           /\ status[q] # 401}) >= Limit

\* Refused ones included: the limiter counts those too, so that a client that
\* waits Retry-After may be refused again; it never waits more than a window.
RetryAfterIsBounded ==
    \A r \in Request : status[r] = 429 =>
        retry[r] \in 1 .. (IF r \in expired THEN Window + Delay ELSE Window)

\* What was refused did not run behind the gateway, whichever check refused it,
\* and what was answered for did; the gateway itself repeats nothing.
RefusedDidNotRun ==
    \A r \in Request :
        /\ status[r] \in Refusal => executed[r] = 0
        /\ status[r] = 200 => executed[r] = 1
        /\ executed[r] = 1 => r \in admitted

\* All three: a refusal is deserved, says when to come back, and is one.
RefusalsHold == RefusedForRecentRequests /\ RetryAfterIsBounded /\ RefusedDidNotRun
=============================================================================
