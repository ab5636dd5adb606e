----------------------------- MODULE RateLimiter -----------------------------
(***************************************************************************)
(* RateLimitGuard: requests of one caller, counted in Redis per window of  *)
(* time.  The guard reads the clock, increments the window's counter, and  *)
(* sets its time to live if it was the first.  Without Redis it lets       *)
(* everybody through.                                                      *)
(*                                                                         *)
(* Counters go by the key type of a preset, not by the preset.  The guard  *)
(* runs before the ones that identify users, so a route without a preset,  *)
(* whose key type is 'user', is not limited at all, and left out here.     *)
(***************************************************************************)
EXTENDS Naturals, FiniteSets

CONSTANTS
    Limits,         \* the limit of each preset
    Asking,         \* requests that may be in the guard at the same time
    LastWindow,     \* bound: windows are 0 .. LastWindow
    MaxAsks,        \* bound: requests per behaviour
    MaxRedisFaults  \* bound: number of faults

Presets == {"AUTH", "AUTH_STRICT", "USAGE", "INVOICE"}
Windows == 0 .. LastWindow

ASSUME RateAssumption ==
    /\ Limits \in [Presets -> Nat]
    /\ LastWindow \in Nat /\ MaxAsks \in Nat /\ MaxRedisFaults \in Nat
    /\ IsFiniteSet(Asking)

VARIABLES
    window,     \* the current window of time
    counter,    \* Redis: the count of each key, 0 if there is none
    ttl,        \* Redis: keys with a time to live
    ask,        \* local state of each request
    asks,       \* history: number of requests so far
    passed,     \* history: requests let through, by preset and window
    failed,     \* history: windows in which Redis failed
    revived,    \* history: windows whose key was counted on after it expired
    redisFaults \* history: number of faults so far

rateVars == <<window, counter, ttl, ask, asks, passed, failed, revived, redisFaults>>

-----------------------------------------------------------------------------

KeyType == [AUTH |-> "ip", AUTH_STRICT |-> "ip", USAGE |-> "tenant", INVOICE |-> "tenant"]

\* redisKey: the caller is always the same.
RedisKeys == {"ip", "tenant"} \X Windows
RedisKey(a) == <<KeyType[a.preset], a.window>>

NotAsking == [step |-> "idle", preset |-> "AUTH", window |-> 0, current |-> 0]

RateTypeOK ==
    /\ window \in Windows
    /\ counter \in [RedisKeys -> Nat]
    /\ ttl \subseteq RedisKeys
    /\ ask \in [Asking -> [step : {"idle", "incr", "expire", "decide"}, preset : Presets,
                           window : Windows, current : Nat]]
    /\ asks \in 0 .. MaxAsks
    /\ passed \in [Presets \X Windows -> Nat]
    /\ failed \subseteq Windows /\ revived \subseteq Windows
    /\ redisFaults \in 0 .. MaxRedisFaults

RateInit ==
    /\ window = 0
    /\ counter = [k \in RedisKeys |-> 0]
    /\ ttl = {}
    /\ ask = [r \in Asking |-> NotAsking]
    /\ asks = 0
    /\ passed = [x \in Presets \X Windows |-> 0]
    /\ failed = {} /\ revived = {}
    /\ redisFaults = 0

WindowPasses ==
    /\ window < LastWindow
    /\ window' = window + 1
    /\ UNCHANGED <<counter, ttl, ask, asks, passed, failed, revived, redisFaults>>

\* A key lives for a second longer than a window from its first request on.
CounterExpires(k) ==
    /\ k \in ttl
    /\ k[2] < window
    /\ counter' = [counter EXCEPT ![k] = 0]
    /\ ttl' = ttl \ {k}
    /\ UNCHANGED <<window, ask, asks, passed, failed, revived, redisFaults>>

\* The preset of the route, and the window by the clock.
Ask(r, preset) ==
    /\ ask[r] = NotAsking
    /\ asks < MaxAsks
    /\ asks' = asks + 1
    /\ ask' = [ask EXCEPT ![r] = [step |-> "incr", preset |-> preset, window |-> window,
                                  current |-> 0]]
    /\ UNCHANGED <<window, counter, ttl, passed, failed, revived, redisFaults>>

Count(r) ==
    LET k == RedisKey(ask[r])
    IN  /\ counter' = [counter EXCEPT ![k] = @ + 1]
        /\ revived' = IF ask[r].window < window /\ counter[k] = 0
                      THEN revived \union {ask[r].window} ELSE revived

\* INCRBY; the first request goes on to EXPIRE.
Incr(r) ==
    /\ ask[r].step = "incr"
    /\ Count(r)
    /\ LET current == counter[RedisKey(ask[r])] + 1
       IN  ask' = [ask EXCEPT ![r].current = current,
                              ![r].step = IF current = 1 THEN "expire" ELSE "decide"]
    /\ UNCHANGED <<window, ttl, asks, passed, failed, redisFaults>>

SetExpiry(r) ==
    /\ ask[r].step = "expire"
    /\ ttl' = ttl \union {RedisKey(ask[r])}
    /\ ask' = [ask EXCEPT ![r].step = "decide"]
    /\ UNCHANGED <<window, counter, asks, passed, failed, revived, redisFaults>>

Answer(r) == ask' = [ask EXCEPT ![r] = NotAsking]
Pass(r) == passed' = [passed EXCEPT ![<<ask[r].preset, ask[r].window>>] = @ + 1]

\* Mutant: the count before this request is compared.
ExceededBefore(a) == a.current - 1 > Limits[a.preset]

Exceeded(a) == a.current > Limits[a.preset]

\* 429, or the request goes on.
Decide(r) ==
    /\ ask[r].step = "decide"
    /\ IF Exceeded(ask[r]) THEN UNCHANGED passed ELSE Pass(r)
    /\ Answer(r)
    /\ UNCHANGED <<window, counter, ttl, asks, failed, revived, redisFaults>>

\* Redis fails, with or without effect: fail open.
RedisFails(r) ==
    /\ ask[r].step \in {"incr", "expire"}
    /\ redisFaults < MaxRedisFaults
    /\ redisFaults' = redisFaults + 1
    /\ failed' = failed \union {ask[r].window}
    /\ \/ UNCHANGED <<counter, ttl, revived>>
       \/ ask[r].step = "incr" /\ Count(r) /\ UNCHANGED ttl
       \/ /\ ask[r].step = "expire"
          /\ ttl' = ttl \union {RedisKey(ask[r])}
          /\ UNCHANGED <<counter, revived>>
    /\ Pass(r)
    /\ Answer(r)
    /\ UNCHANGED <<window, asks>>

RateNext ==
    \/ WindowPasses
    \/ \E k \in RedisKeys : CounterExpires(k)
    \/ \E r \in Asking :
        \/ \E preset \in Presets : Ask(r, preset)
        \/ Incr(r) \/ SetExpiry(r) \/ Decide(r) \/ RedisFails(r)

RateSpec == RateInit /\ [][RateNext]_rateVars

-----------------------------------------------------------------------------
(* Properties *)

\* However requests overlap, and those of another preset share their counter: in one
\* window no more of a preset are let through than its limit, unless Redis failed, or a
\* request was held up between the clock and the counter until the counter had expired.
RateBounded ==
    \A preset \in Presets, w \in Windows :
        w \notin failed \union revived => passed[<<preset, w>>] <= Limits[preset]

=============================================================================
