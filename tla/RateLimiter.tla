----------------------------- MODULE RateLimiter ------------------------------
(* The rate limit of the backend's routes (backend/app/core/rate_limiter.py):
   a counter in Redis for each client and calendar minute.  Requests of one
   client run in parallel; Redis may not answer, and the request goes on.    *)
EXTENDS Naturals, FiniteSets

CONSTANTS Limit,          \* requests_per_minute
          Minute,         \* time units of a window
          Slack,          \* what a key lives longer than a window: 5 seconds
          Calls,          \* requests of the client, each used once
          MaxTime         \* bound

ASSUME LimitAssumption ==
    /\ Limit \in Nat \ {0} /\ Minute \in Nat \ {0} /\ Slack \in Nat /\ MaxTime \in Nat
    /\ IsFiniteSet(Calls)

VARIABLES
    now,         \* the time
    counter,     \* the value of each window's key; 0 where there is none
    expiry,      \* when the key expires, 0 where that is not set
    call         \* each request: where it is, its window and the count it got

limiterVars == <<now, counter, expiry, call>>

Windows  == 0 .. MaxTime         \* by their first moment
Window(t) == t - (t % Minute)
Lifetime == Minute + Slack
States   == {"new", "count", "expire", "decide", "admitted", "refused", "unlimited"}
NewCall  == [pc |-> "new", window |-> 0, count |-> 0, late |-> FALSE]

\* current_window is computed.
Arrive(c) ==
    /\ call[c].pc = "new"
    /\ call' = [call EXCEPT ![c] = [pc |-> "count", window |-> Window(now), count |-> 0, late |-> FALSE]]
    /\ UNCHANGED <<now, counter, expiry>>

\* INCR.  History: a request that takes so long that the key may have expired
\* since its window began is late.
Count(c) ==
    LET w == call[c].window
    IN  /\ call[c].pc = "count"
        /\ counter' = [counter EXCEPT ![w] = @ + 1]
        /\ call' = [call EXCEPT ![c] = [pc |-> IF counter[w] = 0 THEN "expire" ELSE "decide", window |-> w,
                                        count |-> counter[w] + 1, late |-> now >= w + Lifetime]]
        /\ UNCHANGED <<now, expiry>>

Expiry == now + Lifetime

\* EXPIRE, by the request that made the key; nothing happens to a key that is gone.
Expire(c) ==
    LET w == call[c].window
    IN  /\ call[c].pc = "expire"
        /\ expiry' = [expiry EXCEPT ![w] = IF counter[w] = 0 THEN @ ELSE Expiry]
        /\ call' = [call EXCEPT ![c].pc = "decide"]
        /\ UNCHANGED <<now, counter>>

\* Mutant: the limit is exceeded by one
WithinMore(count) == count <= Limit + 1

Within(count) == count <= Limit

Decide(c) ==
    /\ call[c].pc = "decide"
    /\ call' = [call EXCEPT ![c].pc = IF Within(call[c].count) THEN "admitted" ELSE "refused"]
    /\ UNCHANGED <<now, counter, expiry>>

\* RedisError at either command, applied or not: the request goes on unlimited.
Unanswered(c) ==
    /\ call[c].pc \in {"count", "expire"}
    /\ \/ UNCHANGED counter
       \/ call[c].pc = "count" /\ counter' = [counter EXCEPT ![call[c].window] = @ + 1]
    /\ call' = [call EXCEPT ![c].pc = "unlimited"]
    /\ UNCHANGED <<now, expiry>>

Expired(w) == expiry[w] # 0 /\ expiry[w] <= now + 1

Tick ==
    /\ now < MaxTime /\ now' = now + 1
    /\ counter' = [w \in Windows |-> IF Expired(w) THEN 0 ELSE counter[w]]
    /\ expiry'  = [w \in Windows |-> IF Expired(w) THEN 0 ELSE expiry[w]]
    /\ UNCHANGED call

LimiterInit ==
    /\ now = 0 /\ counter = [w \in Windows |-> 0] /\ expiry = [w \in Windows |-> 0]
    /\ call = [c \in Calls |-> NewCall]

LimiterNext ==
    Tick \/ \E c \in Calls : Arrive(c) \/ Count(c) \/ Expire(c) \/ Decide(c) \/ Unanswered(c)

LimiterSpec == LimiterInit /\ [][LimiterNext]_limiterVars

-----------------------------------------------------------------------------

LimiterTypeOK ==
    /\ now \in 0 .. MaxTime
    /\ counter \in [Windows -> Nat] /\ expiry \in [Windows -> Nat]
    /\ call \in [Calls -> [pc : States, window : Windows, count : Nat, late : BOOLEAN]]

\* Of the requests that were counted in a window before its key could have
\* expired, no more than the limit are let through, however they interleave,
\* and whether or not EXPIRE was reached.
LetThrough(w) == {c \in Calls : call[c].pc = "admitted" /\ call[c].window = w /\ ~call[c].late}
WindowKept == \A w \in Windows : Cardinality(LetThrough(w)) <= Limit

\* A stale EXPIRE, or a failed one, never ends a key within its window: a count
\* that a request got is the request's own.
CountsDiffer ==
    \A c, d \in Calls :
        (/\ c # d /\ call[c].window = call[d].window /\ ~call[c].late /\ ~call[d].late
         /\ call[c].count # 0 /\ call[d].count # 0)
        => call[c].count # call[d].count
=============================================================================
