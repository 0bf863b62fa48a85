---------------------------- MODULE RateLimiter -----------------------------
(***************************************************************************)
(* The sliding window in Redis that the rate limiter keeps for one client  *)
(* and endpoint (shared/infra/rate_limiter.py, shared/dependencies.py).    *)
(*                                                                         *)
(* A server reads its clock and sends a script to Redis, which runs it     *)
(* atomically and later: clocks may differ, and scripts may run in another *)
(* order than their stamps.  When Redis does not answer, the request is    *)
(* let through.                                                            *)
(*                                                                         *)
(* Abstractions.  Time is in ticks of Redis' clock.  The members of the    *)
(* sorted set are the requests; two members are taken to be different (in  *)
(* the code, the time and 32 random bits).                                 *)
(***************************************************************************)
EXTENDS Desk

CONSTANTS
    Servers, Skew,   \* the servers, and how far the clock of each is ahead
    MaxDelay,        \* bound: the ticks a script waits for Redis
    Window,          \* window_ms
    KeyPad,          \* the 10 seconds a key outlives its window
    Limit,           \* max_requests
    LastTick         \* bound: the run ends here

ASSUME RateLimiterAssumption ==
    /\ Skew \in [Servers -> Nat]
    /\ MaxDelay \in Nat /\ Window \in Nat \ {0} /\ KeyPad \in Nat
    /\ Limit \in Nat /\ LastTick \in Nat
    /\ None \notin [at : Nat, allowed : BOOLEAN]

\* Of finitely many clocks two are furthest apart.
ASSUME SkewAssumption ==
    \E d \in {Skew[s] - Skew[t] : s, t \in Servers} :
        \A s, t \in Servers : Skew[s] - Skew[t] <= d

VARIABLES
    tick,       \* the time
    entries,    \* the sorted set: request and score
    keyEnds,    \* when its key expires
    answers     \* when each request was answered by Redis, and how

limiterVars == <<tick, entries, keyEnds, answers>>

RateLimiterInit ==
    /\ tick = 0 /\ entries = {} /\ keyEnds = 0
    /\ answers = [r \in Requests |-> None]

\* check_limit up to the call of the script.
SendCheck(r, server) ==
    /\ Start(r, "checking", [now |-> tick + Skew[server], sent |-> tick])
    /\ UNCHANGED limiterVars

\* Mutant: an entry is dropped one tick early.
KeptTooShort(stamp) == {e \in entries : e.score > stamp - Window + 1}

\* ZREMRANGEBYSCORE.
Kept(stamp) == {e \in entries : e.score > stamp - Window}

Answer(r, allowed) ==
    /\ End(r, "checking", IF allowed THEN "done" ELSE "failed")
    /\ answers' = [answers EXCEPT ![r] = [at |-> tick, allowed |-> allowed]]
    /\ keyEnds' = tick + Window + KeyPad
    /\ UNCHANGED tick

Allow(r) ==
    /\ pc[r] = "checking"
    /\ Cardinality(Kept(held[r].now)) < Limit
    /\ entries' = Kept(held[r].now) \cup {[request |-> r, score |-> held[r].now]}
    /\ Answer(r, TRUE)

\* RateLimitExceededError.
Deny(r) ==
    /\ pc[r] = "checking"
    /\ Cardinality(Kept(held[r].now)) >= Limit
    /\ entries' = Kept(held[r].now)
    /\ Answer(r, FALSE)

\* RedisError: allowed, and not counted.
LetThrough(r) == End(r, "checking", "done") /\ UNCHANGED limiterVars

\* Redis' clock moves on, and its key may expire.
Pass ==
    /\ tick < LastTick
    /\ \A r \in Requests : pc[r] = "checking" => tick < held[r].sent + MaxDelay
    /\ tick' = tick + 1
    /\ entries' = IF keyEnds <= tick' THEN {} ELSE entries
    /\ UNCHANGED <<keyEnds, answers>>
    /\ UNCHANGED deskVars

RateLimiterNext ==
    \/ Pass
    \/ \E r \in Requests :
        \/ \E server \in Servers : SendCheck(r, server)
        \/ Allow(r)
        \/ Deny(r)
        \/ LetThrough(r)

RateLimiterSpec == DeskInit /\ RateLimiterInit /\ [][RateLimiterNext]_<<deskVars, limiterVars>>

-----------------------------------------------------------------------------
\* How much a stamp says about when a script ran.
Slack == MaxDelay +
         CHOOSE d \in {Skew[s] - Skew[t] : s, t \in Servers} :
            \A s, t \in Servers : Skew[s] - Skew[t] <= d

AllowedIn(from, to) ==
    {q \in Requests : answers[q] # None /\ answers[q].allowed /\ answers[q].at \in from..to}

\* Whatever the clocks and the order of the scripts: Redis allows no more than
\* Limit requests in any stretch of time as long as the window less the slack, and
\* denies one only after Limit were allowed within the window and the slack.
\* (SLIDING_WINDOW_LUA_SCRIPT, its boundary and the expiry of its key.)
WindowHolds ==
    \A r \in Requests :
        answers[r] # None =>
            LET at == answers[r].at
            IN  /\ answers[r].allowed =>
                      Cardinality(AllowedIn(at - (Window - Slack) + 1, at)) <= Limit
                /\ ~answers[r].allowed =>
                      Cardinality(AllowedIn(at - (Window + Slack) + 1, at)) >= Limit
=============================================================================
