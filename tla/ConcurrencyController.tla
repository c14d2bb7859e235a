----------------------- MODULE ConcurrencyController -----------------------
(***************************************************************************)
(* The adaptive concurrency controller of one provider key                 *)
(* (dynamic-workflow/src/engine/concurrency.ts): a pure AIMD state machine *)
(* that never reads a clock.  Its state is one record, and each signal of  *)
(* the class is an operator from the record to the record, so that the     *)
(* governor, which sends it several signals in one synchronous step, can   *)
(* compose them.                                                           *)
(*                                                                         *)
(* The code keeps absolute times (lastRequestAt, cooldownUntil) and is     *)
(* handed `now`.  Every comparison it makes is between one of them and     *)
(* now, so the record keeps the differences instead: `idle` is the time    *)
(* since the last admission (it stops counting at IdleResetMs, the only    *)
(* value it is compared with) and `cooldown` is the time left (0 once it   *)
(* has run out, which is not the same as having none).                     *)
(***************************************************************************)
EXTENDS Integers

CONSTANTS
    Ceiling,        \* initial and largest cap (derived from the CPU count)
    IncreaseAfter,  \* CONCURRENCY_INCREASE_AFTER_SUCCESSES
    IdleResetMs     \* CONCURRENCY_IDLE_RESET_MS, in ticks

ASSUME CeilingAssumption == Ceiling \in Nat \ {0}
ASSUME IncreaseAssumption == IncreaseAfter \in Nat \ {0}
ASSUME IdleResetAssumption == IdleResetMs \in Nat \ {0}

CONCURRENCY_FLOOR == 1
CONCURRENCY_INCREASE_STEP == 1

\* `undefined` in the optional fields: levels start at 1 and times at 0.
NoLevel == 0
NoTime == -1

Larger(m, n) == IF m > n THEN m ELSE n
Smaller(m, n) == IF m < n THEN m ELSE n

Controller ==
    [cap : 1..Ceiling, epoch : Nat, inFlight : Nat, waiters : Nat,
     streak : 0..IncreaseAfter, cooldown : Nat \cup {NoTime}, idle : 0..IdleResetMs \cup {NoTime},
     lastGood : 0..Ceiling, lastBad : 0..Ceiling]

FreshController ==
    [cap |-> Ceiling, epoch |-> 0, inFlight |-> 0, waiters |-> 0,
     streak |-> 0, cooldown |-> NoTime, idle |-> NoTime,
     lastGood |-> NoLevel, lastBad |-> NoLevel]

CanAdmit(c) == c.inFlight < c.cap /\ c.cooldown <= 0

-----------------------------------------------------------------------------

\* Nothing is remembered: the reset would only turn the page for nothing.
Pristine(c) ==
    /\ c.cap = Ceiling /\ c.streak = 0 /\ c.cooldown = NoTime
    /\ c.lastGood = NoLevel /\ c.lastBad = NoLevel

\* Never true before the first admission: then idle = NoTime.
Idle(c) == c.inFlight = 0 /\ c.idle = IdleResetMs

IdleReset(c) ==
    IF Idle(c) /\ ~Pristine(c)
    THEN [c EXCEPT !.cap = Ceiling, !.streak = 0, !.cooldown = NoTime,
                   !.lastGood = NoLevel, !.lastBad = NoLevel, !.epoch = @ + 1]
    ELSE c

\* A request leaves: every end signal resets first, then decrements.
Leave(c) == [c EXCEPT !.inFlight = Larger(0, @ - 1)]

Observe(c) == IdleReset(c)

Admitted(c) == [c EXCEPT !.idle = 0, !.inFlight = @ + 1]

\* A full streak proves the current cap; with someone waiting it also buys one step.
Proved(c) == [c EXCEPT !.lastGood = Larger(@, c.cap)]

Recovered(c) ==
    IF c.waiters <= 0 \/ c.cap >= Ceiling
    THEN c
    ELSE [c EXCEPT !.cap = Smaller(Ceiling, @ + CONCURRENCY_INCREASE_STEP), !.streak = 0]

Succeeded(c0, epoch) ==
    LET c == Leave(IdleReset(c0))
        counted == [c EXCEPT !.streak = Smaller(IncreaseAfter, @ + 1)]
    IN  IF epoch # c.epoch THEN c
        ELSE IF counted.streak < IncreaseAfter THEN counted
        ELSE Recovered(Proved(counted))

\* CONCURRENCY_DECREASE_FACTOR is 0.75.
Cut(cap) == Larger(CONCURRENCY_FLOOR, (3 * cap) \div 4)

\* A 429 under the current cap: above the proved level fall back to it,
\* otherwise cut by a quarter and forget the level it disproved.
\* (Two deviations come first: the level is kept, the epoch is kept.)
VerdictKeepsLevel(c) ==
    IF c.lastGood # NoLevel /\ c.cap > c.lastGood
    THEN [c EXCEPT !.lastBad = c.cap, !.cap = c.lastGood, !.epoch = @ + 1]
    ELSE [c EXCEPT !.lastBad = c.cap, !.cap = Cut(@), !.epoch = @ + 1]

VerdictSamePage(c) ==
    IF c.lastGood # NoLevel /\ c.cap > c.lastGood
    THEN [c EXCEPT !.lastBad = c.cap, !.cap = c.lastGood]
    ELSE [c EXCEPT !.lastBad = c.cap, !.cap = Cut(@), !.lastGood = NoLevel]

Verdict(c) ==
    IF c.lastGood # NoLevel /\ c.cap > c.lastGood
    THEN [c EXCEPT !.lastBad = c.cap, !.cap = c.lastGood, !.epoch = @ + 1]
    ELSE [c EXCEPT !.lastBad = c.cap, !.cap = Cut(@), !.lastGood = NoLevel, !.epoch = @ + 1]

Throttled(c0, epoch, retryAfterMs) ==
    LET c == Leave(IdleReset(c0))
        cooled == [c EXCEPT !.streak = 0,
                            !.cooldown = IF retryAfterMs > 0 THEN Larger(@, retryAfterMs) ELSE @]
    IN  IF epoch # c.epoch THEN cooled ELSE Verdict(cooled)

FailedTransient(c0) == [Leave(IdleReset(c0)) EXCEPT !.streak = 0]

\* A deviation: the slot is not given back.
EndedStillCounted(c0) == IdleReset(c0)

Ended(c0) == Leave(IdleReset(c0))

Waiters(c0, count) == [IdleReset(c0) EXCEPT !.waiters = Larger(0, count)]

-----------------------------------------------------------------------------

\* One tick of the caller's clock.
Elapse(c) ==
    [c EXCEPT !.idle = IF @ = NoTime THEN @ ELSE Smaller(IdleResetMs, @ + 1),
              !.cooldown = IF @ > 0 THEN @ - 1 ELSE @]
=============================================================================
