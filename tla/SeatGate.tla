------------------------------ MODULE SeatGate ------------------------------
(***************************************************************************)
(* The seat gate of a workflow run (bootstrap/src/app/                     *)
(* workflow-seat-gate.ts, workflow-run-control.ts) together with the slots *)
(* of the ask scheduler it must agree with.                                *)
(*                                                                         *)
(* The scheduler looks at the cap of the run when it dispatches an ask,    *)
(* which then works for minutes.  The gate applies a lowered cap sooner:   *)
(* before its next model request a subagent over the limit is parked and   *)
(* waits, first come first served, for a seat.  The two share no state and *)
(* never call each other; the driver tells the gate when an ask starts and *)
(* when it is settled, and a change of the cap reaches both in one step.   *)
(*                                                                         *)
(* The scheduler is reduced to the slots (module AskScheduler): `stage`    *)
(* is what the ask at the head of a subagent does, `queue` the number of   *)
(* asks behind it.  Which of the waiting actors gets a free slot is left   *)
(* open.  Handlers are synchronous.                                        *)
(***************************************************************************)
EXTENDS Integers, Sequences, FiniteSets

CONSTANTS
    Subagents,  \* the gate's keys: actors, one ask in flight each
    Limits,     \* the values of the cap
    MaxQueue    \* bound on the asks waiting behind one subagent

ASSUME SubagentsAssumption == IsFiniteSet(Subagents)
ASSUME LimitsAssumption == Limits \subseteq Nat \ {0} /\ Limits # {}
ASSUME MaxQueueAssumption == MaxQueue \in Nat

VARIABLES
    \* the scheduler
    caps,      \* caps.maxConcurrency
    stage,     \* none, starting (slot taken, session awaited) or live
    queue,     \* asks admitted behind the current one
    settled,   \* the run is settled
    \* the gate
    limit,
    working,   \* subagents with an ask in flight that are not parked
    parked,    \* keys waiting for a seat, in order
    \* the subagents
    request,   \* none, inside (past the seat) or parked
    tools      \* toolsInFlight() > 0

slots == <<caps, stage, queue, settled>>
gate == <<limit, working, parked>>
turns == <<request, tools>>
vars == <<slots, gate, turns>>

Parked == {parked[i] : i \in DOMAIN parked}

TypeOK ==
    /\ caps \in Limits /\ limit \in Limits
    /\ stage \in [Subagents -> {"none", "starting", "live"}]
    /\ queue \in [Subagents -> 0..MaxQueue]
    /\ settled \in BOOLEAN
    /\ working \subseteq Subagents
    /\ parked \in Seq(Subagents)
    /\ request \in [Subagents -> {"none", "inside", "parked"}]
    /\ tools \in [Subagents -> BOOLEAN]

Init ==
    /\ caps \in Limits /\ limit = caps
    /\ stage = [x \in Subagents |-> "none"]
    /\ queue = [x \in Subagents |-> 0]
    /\ settled = FALSE
    /\ working = {} /\ parked = <<>>
    /\ request = [x \in Subagents |-> "none"]
    /\ tools = [x \in Subagents |-> FALSE]

AtMost(m, n) == IF m < n THEN m ELSE n
AtLeast(m, n) == IF m > n THEN m ELSE n

-----------------------------------------------------------------------------
(* The scheduler's side.                                                   *)

InUse(st) == {x \in Subagents : st[x] # "none"}

Waiting(st, q) == {x \in Subagents : st[x] = "none" /\ q[x] > 0}

\* pumpAll: as many waiting actors as there are free slots.
PumpAll(st, q, cap) ==
    \E S \in SUBSET Waiting(st, q) :
        /\ Cardinality(S) =
              AtMost(Cardinality(Waiting(st, q)), AtLeast(cap - Cardinality(InUse(st)), 0))
        /\ stage' = [x \in Subagents |-> IF x \in S THEN "starting" ELSE st[x]]
        /\ queue' = [x \in Subagents |-> IF x \in S THEN q[x] - 1 ELSE q[x]]

Asked(x) ==
    /\ ~settled
    /\ queue[x] < MaxQueue
    /\ PumpAll(stage, [queue EXCEPT ![x] = @ + 1], caps)
    /\ UNCHANGED <<caps, settled, gate, turns>>

-----------------------------------------------------------------------------
(* The gate.                                                               *)

\* unpark: free seats go to the longest waiting; their requests go on.
Unpark(w, p, req, lim) ==
    LET n == AtMost(AtLeast(lim - Cardinality(w), 0), Len(p))
        granted == {p[i] : i \in 1..n}
    IN  /\ working' = w \cup granted
        /\ parked' = SubSeq(p, n + 1, Len(p))
        /\ request' = [x \in Subagents |-> IF x \in granted THEN "inside" ELSE req[x]]

\* A deviation: lowering aside, a new limit lets nobody in.
LimitOnly(lim) == limit' = lim /\ UNCHANGED <<working, parked, request>>

SetLimit(lim) == limit' = lim /\ Unpark(working, parked, request, lim)

\* setMaxConcurrency of the run control: the engine first, then the gate.
SetMaxConcurrency(n) ==
    /\ ~settled /\ n # caps
    /\ caps' = n
    /\ IF n > caps THEN PumpAll(stage, queue, n) ELSE UNCHANGED <<stage, queue>>
    /\ SetLimit(n)
    /\ UNCHANGED <<settled, tools>>

\* findIndex by key, then splice.
Place(p, x) == CHOOSE i \in DOMAIN p : p[i] = x

Dropped(p, x) == SubSeq(p, 1, Place(p, x) - 1) \o SubSeq(p, Place(p, x) + 1, Len(p))

\* askSettled: a parked ask has no seat to give back, a working one frees its own; an ask
\* that never started is unknown.
SeatOfSettled(x) ==
    /\ IF x \in Parked
       THEN /\ parked' = Dropped(parked, x)
            /\ request' = [request EXCEPT ![x] = "none"]
            /\ UNCHANGED working
       ELSE IF stage[x] = "live" /\ x \in working
       THEN Unpark(working \ {x}, parked, [request EXCEPT ![x] = "none"], limit)
       ELSE UNCHANGED <<working, parked, request>>
    /\ UNCHANGED limit

\* startAsk: the session is there, the driver reports the ask to the gate and runs the turn.
AskStarted(x) ==
    /\ ~settled /\ stage[x] = "starting"
    /\ stage' = [stage EXCEPT ![x] = "live"]
    /\ working' = IF x \in Parked THEN working ELSE working \cup {x}
    /\ UNCHANGED <<caps, queue, settled, limit, parked, turns>>

\* The engine records node-settled (the gate hears of it), then frees the slot and scans.
AskSettled(x) ==
    /\ ~settled /\ stage[x] # "none"
    /\ SeatOfSettled(x)
    /\ PumpAll([stage EXCEPT ![x] = "none"], queue, caps)
    /\ tools' = [tools EXCEPT ![x] = FALSE]
    /\ UNCHANGED <<caps, settled>>

\* abortInFlight: every request is aborted, so the parked go back to work, and the slots are
\* cleared.  A run that completes or is stopped also records a node-settled for every ask, and
\* the gate forgets them one after the other; a run that fails records none (emitCancelled is
\* false), and whoever was working or parked stays among the working.
RunSettled ==
    /\ ~settled
    /\ settled' = TRUE
    /\ stage' = [x \in Subagents |-> "none"]
    /\ queue' = [x \in Subagents |-> 0]
    /\ working' \in {{}, working \cup Parked}
    /\ parked' = <<>>
    /\ request' = [x \in Subagents |-> "none"]
    /\ tools' = [x \in Subagents |-> FALSE]
    /\ UNCHANGED <<caps, limit>>

NeedsSeat(x) == x \in working /\ ~tools[x]

\* Two deviations: equality is taken for an overrun; the parked stay among the working.
OverLimitOrAt == Cardinality(working) >= limit
ParkInPlace(x) == working' = working

OverLimit == Cardinality(working) > limit
LeaveWorking(x) == working' = working \ {x}

\* acquire, before the next model request of a turn.  A request made by a tool passes.
Request(x) ==
    /\ stage[x] = "live" /\ request[x] = "none"
    /\ IF NeedsSeat(x) /\ OverLimit
       THEN /\ LeaveWorking(x)
            /\ parked' = Append(parked, x)
            /\ request' = [request EXCEPT ![x] = "parked"]
       ELSE /\ request' = [request EXCEPT ![x] = "inside"]
            /\ UNCHANGED <<working, parked>>
    /\ UNCHANGED <<slots, limit, tools>>

\* The model has answered, perhaps with tool calls, or the request failed.
RequestEnds(x) ==
    /\ request[x] = "inside"
    /\ request' = [request EXCEPT ![x] = "none"]
    /\ \E calls \in BOOLEAN : tools' = [tools EXCEPT ![x] = @ \/ calls]
    /\ UNCHANGED <<slots, gate>>

ToolsEnd(x) ==
    /\ tools[x] /\ request[x] = "none"
    /\ tools' = [tools EXCEPT ![x] = FALSE]
    /\ UNCHANGED <<slots, gate, request>>

\* A deviation: the aborted request leaves the queue, its subagent belongs to nobody.
ForgottenOnAbort(x) == working' = working

BackToWork(x) == working' = working \cup {x}

\* onAbort: the request is dropped, the ask may well go on.
RequestAborted(x) ==
    /\ request[x] = "parked"
    /\ parked' = Dropped(parked, x)
    /\ BackToWork(x)
    /\ request' = [request EXCEPT ![x] = "none"]
    /\ UNCHANGED <<slots, limit, tools>>

-----------------------------------------------------------------------------

Next ==
    \/ \E x \in Subagents :
          \/ Asked(x) \/ AskStarted(x) \/ AskSettled(x)
          \/ Request(x) \/ RequestEnds(x) \/ ToolsEnd(x) \/ RequestAborted(x)
    \/ \E n \in Limits : SetMaxConcurrency(n)
    \/ RunSettled

Spec == Init /\ [][Next]_vars

\* Sessions arrive and a subagent that is let in comes to the end of its ask (the driver
\* bounds its turns).  A parked one does not end by itself: it has to be let in.
Served ==
    \A x \in Subagents : WF_vars(AskStarted(x)) /\ SF_vars(x \notin Parked /\ AskSettled(x))

\* Asks may go on for ever, but then by model requests that come to an end, one after the
\* other, with tools between them that come to an end, too.  Parked requests are not aborted
\* without end.
TurnsGoOn ==
    \A x \in Subagents :
        /\ SF_vars(NeedsSeat(x) /\ Request(x)) /\ SF_vars(ToolsEnd(x))
        /\ WF_vars(RequestEnds(x))
        /\ <>[][~RequestAborted(x)]_vars
-----------------------------------------------------------------------------

\* activeAsks = working + parked (plus those whose session is awaited): every ask in flight
\* is in exactly one of the two, so no subagent runs past the gate uncounted and none is
\* counted twice, through parking, aborted requests and settlements in any order, until the
\* run is settled.
SeatsExact ==
    /\ ~settled => working \cup Parked = {x \in Subagents : stage[x] = "live"}
    /\ working \cap Parked = {}
    /\ Cardinality(Parked) = Len(parked)
    /\ \A x \in Subagents : request[x] = "parked" <=> x \in Parked

\* Somebody always works: whoever waits, waits for a seat that is taken.
NoIdleSeat == parked # <<>> => Cardinality(working) >= limit

\* No ask is dispatched past a subagent that stays parked, although the scheduler knows
\* nothing of the gate.
ParkedNotOvertaken ==
    [][Cardinality(InUse(stage')) > Cardinality(InUse(stage)) => parked' = <<>>]_vars

\* A parked subagent gets a seat, or its ask ends, if those that work end their asks.
ParkedResumes == Served => \A x \in Subagents : x \in Parked ~> x \notin Parked

\* A lowered cap takes effect within the running asks: without anybody being called back and
\* without any ask having to end.  (The gate of a run that failed keeps its count, but has nobody to admit.)
OverrunEnds ==
    TurnsGoOn => (Cardinality(working) > limit ~> Cardinality(working) <= limit \/ settled)
=============================================================================
