----------------------------- MODULE ReplayOrder -----------------------------
(***************************************************************************)
(* Replay of a workflow script across the lives of a run                   *)
(* (dynamic-workflow/src/engine: replay-order.ts, scheduler.ts,            *)
(* engine-report.ts; dynamic-workflow-runtime: harness.ts,                 *)
(* child-source.ts).                                                       *)
(*                                                                         *)
(* The script runs in a child process and talks to the engine through two  *)
(* FIFO pipes.  A call is identified by its site in the text and an        *)
(* ordinal: how many calls of that site have arrived before.  In a         *)
(* fan-out, the ordinal a branch gets after an answer depends on the       *)
(* order of the answers.  When the run is resumed, the script runs again;  *)
(* a call that finds a row of another call under its identity ends the run *)
(* for good.  So the gate (replay-order.ts) holds recorded answers back    *)
(* and gives them in the order of the first life, read from the run's      *)
(* event log.                                                              *)
(*                                                                         *)
(* Every ask has a subagent of its own here; the order within a subagent   *)
(* is the subject of AskScheduler.                                         *)
(***************************************************************************)
EXTENDS Integers, Sequences, FiniteSets, SequencesExt

CONSTANTS
    Script,     \* per branch of the fan-out: the sites it calls, in order
    Kind,       \* of a site: "ask" (answered), "report" or "declare" (void)
    Hops,       \* per branch: awaits between an answer and the code after it
    StopLives,  \* bound: the lives the user may stop
    MaxLives    \* bound on the engines built for the run

NoRow == [call |-> <<>>, status |-> "none"]

Branches == DOMAIN Script
Calls == UNION {{<<b, k>> : k \in 1..Len(Script[b])} : b \in Branches}
Site(c) == Script[c[1]][c[2]]
Sites == {Site(c) : c \in Calls}
Instances == {<<s, n>> : s \in Sites, n \in 1..Cardinality(Calls)}

ASSUME ScriptAssumption ==
    /\ Script \in Seq(Seq(DOMAIN Kind)) /\ Kind \in [DOMAIN Kind -> {"ask", "report", "declare"}]
    /\ Hops \in [Branches -> Nat]
    /\ MaxLives \in Nat /\ StopLives \subseteq 1..MaxLives

VARIABLES
    \* the journal
    row,      \* dwf_node: the call an instance stands for (inputHash) and its status, or NoRow
    log,      \* dwf_event: the instances in the order of their first settlement event
    status,
    \* the engine
    alive,
    count,    \* ordinals: calls of a site so far
    live,     \* liveNodes, in the order of admission
    order,    \* ReplaySettleOrder.order
    cursor,   \* the entries of order that were released
    parked,   \* recorded answers that wait for their turn
    queue,    \* released, to be delivered by the next microtask
    \* the pipes and the child process
    toParent, \* calls
    toChild,  \* answered calls
    \* history
    told,     \* asks in the order in which they were first settled
    lives,
    disturbed \* something happened that the gate does not make up for

journal == <<row, log, status>>
held == <<order, cursor, parked, queue>>
vars == <<journal, alive, count, live, held, toParent, toChild, told, lives, disturbed>>

SeqsOver(S, s) == \A i \in DOMAIN s : s[i] \in S

\* The entries of s that are in S.
Selected(s, S) ==
    LET upTo[n \in 0..Len(s)] ==
            IF n = 0 THEN <<>>
            ELSE IF s[n] \in S THEN Append(upTo[n - 1], s[n]) ELSE upTo[n - 1]
    IN  upTo[Len(s)]

TypeOK ==
    /\ \A i \in Instances :
          row[i] = NoRow \/ row[i] \in [call : Calls, status : {"running", "completed"}]
    /\ SeqsOver(Instances, log) /\ SeqsOver(Instances, live)
    /\ status \in {"running", "completed", "stopped", "errored"}
    /\ alive \in BOOLEAN
    /\ count \in [Sites -> 0..Cardinality(Calls)]
    /\ SeqsOver(Instances, order) /\ cursor \in 0..Len(order)
    /\ parked \subseteq {order[p] : p \in (cursor + 1)..Len(order)} /\ SeqsOver(Instances, queue)
    /\ SeqsOver(Calls, toParent) /\ SeqsOver(Calls, toChild)
    /\ disturbed \in BOOLEAN

-----------------------------------------------------------------------------
(* The child process: one thread, deterministic.                           *)

Answered(c) == Kind[Site(c)] = "ask"

\* What a branch does after its first k calls: reports, up to the next call it waits for.
Continuation(b, k) ==
    LET stop == CHOOSE m \in k..Len(Script[b]) :
                    /\ m = Len(Script[b]) \/ (m > k /\ Answered(<<b, m>>))
                    /\ \A l \in (k + 1)..(m - 1) : ~Answered(<<b, l>>)
    IN  [j \in 1..(stop - k) |-> <<b, k + j>>]

FirstCalls == FlattenSeq([b \in Branches |-> Continuation(b, 0)])

\* What the script says after these answers, each in an event loop turn of its own.
InTurn(answers) ==
    FlattenSeq([j \in DOMAIN answers |-> Continuation(answers[j][1], answers[j][2])])

Deepest == CHOOSE d \in {0} \cup {Hops[b] : b \in Branches} : \A b \in Branches : Hops[b] <= d

\* One event loop turn delivers the lines of a chunk; their continuations run after it, those
\* behind more awaits later.
Woken(chunk) ==
    InTurn(FlattenSeq([d \in 1..(Deepest + 1) |->
                          SelectSeq(chunk, LAMBDA c : Hops[c[1]] = d - 1)]))

ScriptStep ==
    /\ alive /\ status = "running" /\ toChild # <<>>
    /\ \E n \in 1..Len(toChild) :
          LET chunk == SubSeq(toChild, 1, n)
          IN  /\ toParent' = toParent \o Woken(chunk)
              /\ toChild' = SubSeq(toChild, n + 1, Len(toChild))
              /\ disturbed' = (disturbed \/ Woken(chunk) # InTurn(chunk))
    /\ UNCHANGED <<journal, alive, count, live, held, told, lives>>

-----------------------------------------------------------------------------
(* The gate.                                                               *)

\* A deviation: the last event of an instance counts.
LogLast(l, i) == Append(Selected(l, Instances \ {i}), i)

\* record: only the first event of an instance is ever read again.
LogFirst(l, i) == IF Contains(l, i) THEN l ELSE Append(l, i)

LogAll(is) ==
    LET after[n \in 0..Len(is)] == IF n = 0 THEN log ELSE LogFirst(after[n - 1], is[n])
    IN  after[Len(is)]

Logged(is) == log' = LogAll(is)

\* A deviation: whatever has a settlement event is expected to come back.
AnyRow(i) == TRUE

ClaimsOnReplay(i) == Kind[i[1]] = "ask"

Claimable == {i \in Instances : row[i].status = "completed" /\ ClaimsOnReplay(i)}

\* recoverSettleOrder
SettleOrder == Selected(log, Claimable)

\* A deviation: recorded answers are given when they are asked for.
Unordered(i) == TRUE

\* hold: the table does not speak of i, or has already passed it.
LetThrough(i) == \A p \in DOMAIN order : order[p] = i => p <= cursor

\* pump: as far as the answers at the cursor have been called for.
Pump(waiting) ==
    LET reach == CHOOSE n \in cursor..Len(order) :
                    /\ \A p \in (cursor + 1)..n : order[p] \in waiting
                    /\ n = Len(order) \/ order[n + 1] \notin waiting
    IN  /\ cursor' = reach
        /\ parked' = waiting \ {order[p] : p \in (cursor + 1)..reach}
        /\ queue' = queue \o SubSeq(order, cursor + 1, reach)
        /\ UNCHANGED order

Respond(is) == toChild' = toChild \o [j \in DOMAIN is |-> row[is[j]].call]

\* flush, in a microtask: the answers are delivered in the order of their release.
Flush ==
    /\ alive /\ status = "running" /\ queue # <<>>
    /\ Respond(queue)
    /\ Logged(queue)
    /\ queue' = <<>>
    /\ UNCHANGED <<row, status, alive, count, live, order, cursor, parked, toParent, told, lives, disturbed>>

-----------------------------------------------------------------------------
(* The engine: a call arrives.                                             *)

NextOrdinal(s) == count[s] + 1

Instance(c) == <<Site(c), NextOrdinal(Site(c))>>

Arrives(c) ==
    /\ alive /\ status = "running"
    /\ toParent # <<>> /\ c = Head(toParent)
    /\ toParent' = Tail(toParent)
    /\ count' = [count EXCEPT ![Site(c)] = @ + 1]
    /\ UNCHANGED <<alive, told, lives, disturbed>>

\* A recorded call; hashMismatch: another one has the identity, the run fails, and a failed run
\* cannot be resumed.
CallRecorded(c) ==
    LET i == Instance(c)
    IN  /\ Arrives(c)
        /\ row[i] # NoRow
        /\ status' = IF row[i].call # c THEN "errored" ELSE status
        /\ IF row[i].call # c \/ ~Answered(c)
           THEN UNCHANGED <<log, live, held, toChild>>
           ELSE IF row[i].status = "running"
           THEN /\ live' = Append(live, i)
                /\ UNCHANGED <<log, held, toChild>>
           ELSE IF LetThrough(i)
           THEN /\ Logged(<<i>>)
                /\ Respond(<<i>>)
                /\ UNCHANGED <<live, held>>
           ELSE /\ Pump(parked \cup {i})
                /\ UNCHANGED <<log, live, toChild>>
        /\ UNCHANGED row

AskFresh(c) ==
    LET i == Instance(c)
    IN  /\ Arrives(c)
        /\ row[i] = NoRow /\ Answered(c)
        /\ row' = [row EXCEPT ![i] = [call |-> c, status |-> "running"]]
        /\ live' = Append(live, i)
        /\ UNCHANGED <<log, status, held, toChild>>

\* A void call is settled where it is made: a completed row, no answer.  The event of a
\* declaration counts as a settlement, that of a report does not.
Publish(c) ==
    LET i == Instance(c)
    IN  /\ Arrives(c)
        /\ row[i] = NoRow /\ ~Answered(c)
        /\ row' = [row EXCEPT ![i] = [call |-> c, status |-> "completed"]]
        /\ Logged(IF Kind[i[1]] = "declare" THEN <<i>> ELSE <<>>)
        /\ UNCHANGED <<status, live, held, toChild>>

\* Calls recorded in an earlier life that this life has not made yet.
Owed == {i \in Instances : row[i] # NoRow /\ i[2] > count[i[1]]}

\* The answer to i comes while recorded calls are still to be made, or i has its place in the
\* log from a stop that found it unanswered.
OutOfPlace(i) == Owed # {} \/ Contains(log, i)

\* A live ask is answered; microtasks run first.  Or the process dies after putNode and before
\* appendEvent.
Settle(i) ==
    /\ alive /\ status = "running" /\ queue = <<>>
    /\ Contains(live, i)
    /\ row' = [row EXCEPT ![i].status = "completed"]
    /\ \/ /\ alive' = FALSE /\ disturbed' = TRUE
          /\ UNCHANGED <<log, live, toChild, told>>
       \/ /\ Logged(<<i>>)
          /\ told' = Append(told, i)
          /\ live' = Selected(live, Instances \ {i})
          /\ Respond(<<i>>)
          /\ disturbed' = (disturbed \/ OutOfPlace(i))
          /\ UNCHANGED alive
    /\ UNCHANGED <<status, count, held, toParent, lives>>

Complete ==
    /\ alive /\ status = "running"
    /\ toParent = <<>> /\ toChild = <<>> /\ queue = <<>> /\ parked = {} /\ live = <<>>
    /\ status' = "completed"
    /\ UNCHANGED <<row, log, alive, count, live, held, toParent, toChild, told, lives, disturbed>>

\* abortInFlight records node-settled (cancelled) for every live ask.
Stop ==
    /\ alive /\ status = "running" /\ lives \in StopLives
    /\ status' = "stopped"
    /\ Logged(live)
    /\ UNCHANGED <<row, alive, count, live, held, toParent, toChild, told, lives, disturbed>>

Crash ==
    /\ alive /\ lives < MaxLives
    /\ alive' = FALSE
    /\ UNCHANGED <<journal, count, live, held, toParent, toChild, told, lives, disturbed>>

Resume ==
    /\ lives < MaxLives
    /\ (alive /\ status = "stopped") \/ (~alive /\ status \in {"running", "stopped"})
    /\ alive' = TRUE /\ status' = "running" /\ lives' = lives + 1
    /\ count' = [s \in Sites |-> 0]
    /\ live' = <<>>
    /\ order' = SettleOrder /\ cursor' = 0 /\ parked' = {} /\ queue' = <<>>
    /\ toParent' = FirstCalls /\ toChild' = <<>>
    /\ UNCHANGED <<row, log, told, disturbed>>

Init ==
    /\ row = [i \in Instances |-> NoRow] /\ log = <<>> /\ status = "running"
    /\ alive = TRUE
    /\ count = [s \in Sites |-> 0] /\ live = <<>>
    /\ order = <<>> /\ cursor = 0 /\ parked = {} /\ queue = <<>>
    /\ toParent = FirstCalls /\ toChild = <<>>
    /\ told = <<>> /\ lives = 1 /\ disturbed = FALSE

Arrival == \E c \in Calls : CallRecorded(c) \/ AskFresh(c) \/ Publish(c)

Next ==
    \/ ScriptStep \/ Flush \/ Arrival
    \/ \E i \in Instances : Settle(i)
    \/ Complete \/ Stop \/ Crash \/ Resume

Spec == Init /\ [][Next]_vars

\* The two event loops run, some live ask is answered.
Fairness ==
    /\ WF_vars(ScriptStep) /\ WF_vars(Flush) /\ WF_vars(Arrival) /\ WF_vars(Complete)
    /\ WF_vars(\E i \in Instances : Settle(i))

FairSpec == Spec /\ Fairness
-----------------------------------------------------------------------------

\* In every life the script makes the calls that the journal has recorded, under the identities
\* recorded there, unless an answer was given out of its place, answers of one chunk woke
\* branches out of turn, or the process died between the row and the event of a settlement.
ReplayAgrees == status = "errored" => disturbed

\* Until then the table a life is resumed with is the schedule of the lives before it: the asks
\* answered so far, in the order in which the script was first told.
TableIsSchedule == [][lives' > lives /\ ~disturbed => order' = told]_vars

\* The gate lets everybody through: a run that is not stopped and does not crash ends.
RunEnds == status = "running" ~> status # "running" \/ ~alive
=============================================================================
