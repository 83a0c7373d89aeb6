---------------------------- MODULE RateLimiter ----------------------------
(***************************************************************************)
(* codebot/adaptive_rate_limiter.py: all bots, each a process of its own,  *)
(* share what they have learned of each model's limit in one file, under   *)
(* one file lock.  A bot takes a slot before each call (acquire_slot,      *)
(* which sleeps with the lock held), counts the call once more             *)
(* (record_request), and tells how it ended.  Times are milliseconds.      *)
(* Bots are killed at any step, which frees the lock; the file may not be  *)
(* readable, or not be written, which nobody is told.                      *)
(***************************************************************************)
EXTENDS Integers

CONSTANTS
  Callers, Models,
  Configured,   \* 60 s by the requests a minute a model may be called by configuration
  RetryAfter,   \* the times a server tells to retry after; 0 for none
  Pace          \* bound: the step in which time passes while nobody sleeps

ASSUME RateAssumption ==
  /\ Configured \in [Models -> Nat \ {0}] /\ RetryAfter \subseteq Nat
  /\ Pace \in Nat \ {0}

Lesser(a, b) == IF a < b THEN a ELSE b
Greater(a, b) == IF a < b THEN b ELSE a

Ceiling == 3000
LongAgo(m) == 4 * Greater(Ceiling, Configured[m])   \* longer than any delay

VARIABLES
  rates,       \* the file: min_interval, consecutive_rate_limits and the time since
               \* last_request of each model
  rateLock,    \* who holds rate_limits.lock
  calls,       \* where each bot is with its call, how long it has to sleep, and whether
               \* it could read the file for that
  sinceSlot,   \* history: the time since the last slot of each model
  unrecorded   \* history: the models something of which was not read or written since

rateVars == <<rates, rateLock, calls, sinceSlot, unrecorded>>

NoCaller == [none |-> TRUE]
Owner(c) == [none |-> FALSE, caller |-> c]
NoCall(m) == [at |-> "none", model |-> m, left |-> 0, read |-> TRUE]

Unknown(m) == [interval |-> Configured[m], limits |-> 0, since |-> LongAgo(m)]

RateInit ==
  /\ rates = [m \in Models |-> Unknown(m)]
  /\ rateLock = NoCaller /\ calls \in [Callers -> {NoCall(m) : m \in Models}]
  /\ sinceSlot = [m \in Models |-> LongAgo(m)] /\ unrecorded = {}

-----------------------------------------------------------------------------
(* ModelRateState *)

\* _get_state: never faster than configured.
Rate(m) == [rates[m] EXCEPT !.interval = Greater(@, Configured[m])]

\* effective_interval
Effective(r) == r.interval * (IF r.limits = 0 THEN 1 ELSE IF r.limits = 1 THEN 2 ELSE 4)

Requested(r) == [r EXCEPT !.since = 0]

Limited(r, after) ==
  [r EXCEPT !.limits = Lesser(@ + 1, 3),   \* bound: more than three count as three
            !.interval = IF after > 0 THEN Greater(@, Lesser(after, Ceiling))
                         ELSE Lesser((@ * 12) \div 10, Ceiling)]

Succeeded(r) ==
  [r EXCEPT !.limits = Greater(0, @ - 1),
            !.interval = IF r.limits = 1 THEN Greater(500, (@ * 8) \div 10) ELSE @]

-----------------------------------------------------------------------------
(* The file and its lock *)

\* Mutant: the delay is worked out without the lock, as can_spawn_now does.
LockIgnored == TRUE
LockFree == rateLock = NoCaller

\* The file is read again for the other models, which may fail, and replaced, which may fail;
\* unread are the models whose last slot the file does not tell any more.
WriteRates(m, r, unread) ==
  \/ rates' = [rates EXCEPT ![m] = r] /\ unrecorded' = unread
  \/ rates' = [n \in Models |-> IF n = m THEN r ELSE Unknown(n)]
     /\ unrecorded' = unread \cup (Models \ {m})
  \/ UNCHANGED rates /\ unrecorded' = unrecorded \cup {m}

\* _update_state: what is not readable is begun anew.
Update(m, kept, anew) ==
  WriteRates(m, kept, unrecorded) \/ WriteRates(m, anew, unrecorded \cup {m})

Step(c, where) == calls' = [calls EXCEPT ![c].at = where]

-----------------------------------------------------------------------------
\* acquire_slot: the lock, the delay, and the sleep.
TakeLock(c, m) ==
  /\ calls[c].at = "none" /\ LockFree
  /\ rateLock' = Owner(c)
  /\ \E read \in BOOLEAN :
       /\ calls' = [calls EXCEPT ![c] =
            [at |-> "sleeping", model |-> m, read |-> read,
             left |-> IF read THEN Greater(0, Effective(Rate(m)) - rates[m].since) ELSE 0]]
       /\ unrecorded' = IF read THEN unrecorded ELSE unrecorded \cup {m}
  /\ UNCHANGED <<rates, sinceSlot>>

\* ... and the slot is recorded.
Slot(c) ==
  LET m == calls[c].model IN
  /\ calls[c].at = "sleeping" /\ calls[c].left = 0
  /\ WriteRates(m, Requested(IF calls[c].read THEN Rate(m) ELSE Unknown(m)), unrecorded \ {m})
  /\ sinceSlot' = [sinceSlot EXCEPT ![m] = 0]
  /\ rateLock' = NoCaller /\ Step(c, "slot")

\* The lock cannot be opened: _wait_for_rate_limit lets the call pass without a slot.
NoSlot(c, m) ==
  /\ calls[c].at = "none"
  /\ calls' = [calls EXCEPT ![c] = [NoCall(m) EXCEPT !.at = "slot"]]
  /\ UNCHANGED <<rates, rateLock, sinceSlot, unrecorded>>

CountCall(c) ==
  LET m == calls[c].model IN
  /\ calls[c].at = "slot" /\ LockFree
  /\ Update(m, Requested(Rate(m)), Requested(Unknown(m))) /\ Step(c, "calling")
  /\ UNCHANGED <<rateLock, sinceSlot>>

CallSucceeds(c) ==
  LET m == calls[c].model IN
  /\ calls[c].at = "calling" /\ LockFree
  /\ Update(m, Succeeded(Rate(m)), Succeeded(Unknown(m))) /\ Step(c, "none")
  /\ UNCHANGED <<rateLock, sinceSlot>>

\* 429: the bot tries again, or gives its place up.
CallIsLimited(c, after) ==
  LET m == calls[c].model IN
  /\ calls[c].at = "calling" /\ LockFree
  /\ Update(m, Limited(Rate(m), after), Limited(Unknown(m), after)) /\ Step(c, "none")
  /\ UNCHANGED <<rateLock, sinceSlot>>

\* Another error, or the bot is killed and the next one begins.
CallEnds(c) ==
  /\ calls[c].at # "none" /\ calls' = [calls EXCEPT ![c] = NoCall(@.model)]
  /\ rateLock' = IF rateLock = Owner(c) THEN NoCaller ELSE rateLock
  /\ UNCHANGED <<rates, sinceSlot, unrecorded>>

Later(t, d, m) == Lesser(t + d, LongAgo(m))

\* Time passes: what a sleeper has to wait, or a step if nobody sleeps.
TimePasses ==
  \E d \in IF rateLock = NoCaller THEN {Pace} ELSE {calls[rateLock.caller].left} :
    /\ d > 0
    /\ rates' = [m \in Models |-> [rates[m] EXCEPT !.since = Later(@, d, m)]]
    /\ sinceSlot' = [m \in Models |-> Later(sinceSlot[m], d, m)]
    /\ calls' = [c \in Callers |-> [calls[c] EXCEPT !.left = Greater(0, @ - d)]]
    /\ UNCHANGED <<rateLock, unrecorded>>

RateNext ==
  \/ \E c \in Callers :
       \/ (\E m \in Models : TakeLock(c, m) \/ NoSlot(c, m)) \/ Slot(c) \/ CountCall(c) \/ CallSucceeds(c)
       \/ (\E after \in RetryAfter : CallIsLimited(c, after)) \/ CallEnds(c)
  \/ TimePasses

RateSpec == RateInit /\ [][RateNext]_rateVars

-----------------------------------------------------------------------------
RateTypeOK ==
  /\ rates \in [Models -> [interval : Nat, limits : 0..3, since : Nat]]
  /\ rateLock \in {NoCaller} \cup {Owner(c) : c \in Callers}
  /\ calls \in [Callers -> [at : {"none", "sleeping", "slot", "calling"}, model : Models,
                            left : Nat, read : BOOLEAN]]
  /\ sinceSlot \in [Models -> Nat] /\ unrecorded \subseteq Models

\* "429 on model X delays ALL bots on model X" (adaptive_rate_limiter.py:21): whichever bots
\* take them, two slots of a model are as far apart as it is configured, and twice as far when
\* a limit was met and not yet followed by successes, unless the file could not be read or
\* written in between.
SlotsAreSpaced ==
  [][\A c \in Callers :
       LET m == calls[c].model IN
       calls'[c].at = "slot" /\ calls[c].at = "sleeping" /\ m \notin unrecorded =>
         sinceSlot[m] >= Configured[m] * (IF rates[m].limits > 0 THEN 2 ELSE 1)]_rateVars
=============================================================================
