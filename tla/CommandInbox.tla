----------------------------- MODULE CommandInbox -----------------------------
(***************************************************************************)
(* The command inbox of a session (bootstrap/src/zcode-protocol-v4/        *)
(* command-inbox.ts), the gateway that executes what it admits             *)
(* (v4-gateway.ts) and the index of the durable facts it falls back on     *)
(* (persistent-command-index.ts, persistent-command-facts.ts).             *)
(*                                                                         *)
(* A client repeats a command until it has an answer, under the same id.   *)
(* The inbox must execute it once.  What it knows of a command moves from  *)
(* the table of commands in flight to that of live inputs (taken by the    *)
(* runtime, not yet in the transcript), to a bounded table of settled      *)
(* ones, and finally to the store, which is read through an index that is  *)
(* loaded once and has to be invalidated.                                  *)
(*                                                                         *)
(* The requests of one session; every await is a step boundary.  An ack    *)
(* is reduced to its status, noop counts as accepted.                      *)
(***************************************************************************)
EXTENDS Integers, Sequences, FiniteSets

CONSTANTS
    Texts,      \* commands that carry an input into the transcript
    Compacts,   \* commands that compact the session: an input, but no message
    Others,     \* commands that leave nothing durable
    Calls,      \* requests that may be under way together
    TableSize,  \* idempotencyTablePerSession
    Loads,      \* loads of the index
    CancelMayFail,  \* the store may refuse to cancel a row: reported, not repeated
    None        \* no load, no command

Inputs == Texts \cup Compacts
Commands == Inputs \cup Others

ASSUME KindsAssumption ==
    Texts \cap Compacts = {} /\ Inputs \cap Others = {} /\ None \notin Commands
ASSUME TableSizeAssumption == TableSize \in Nat \ {0}
ASSUME LoadsAssumption == None \notin Loads
ASSUME CancelMayFailAssumption == CancelMayFail \in BOOLEAN

VARIABLES
    \* the store
    row,         \* session_input of an input, with the reason of its end
    saved,       \* command facts saved for compacts
    \* the inbox
    inFlight,
    live,        \* liveInputs
    settled,     \* <<command, status>>, oldest first
    keyGate,
    sessionGate,
    \* the index
    index,       \* the load that is cached
    load,        \* loads: begun, read or failed, and the facts read
    \* the runtime
    resident,
    pending,     \* what the runtime does with an input, up to the event the gateway ingests
    recorder,    \* the load a compact's fact is to be recorded in
    \* the requests
    pc, key, query, ref,
    answer       \* what a request is told in this very step

store == <<row, saved>>
inbox == <<inFlight, live, settled>>
gates == <<keyGate, sessionGate>>
cache == <<index, load>>
runtime == <<resident, pending, recorder>>
calls == <<pc, key, query, ref>>
vars == <<store, inbox, gates, cache, runtime, calls, answer>>

RowStates == {"none", "admitted", "promoted", "removed", "failed", "discarded"}
Facts == [Commands -> {"none", "accepted", "failed"}]
NoFacts == [k \in Commands |-> "none"]
Statuses == {"accepted", "failed"}
Answers == {"none", "accepted", "duplicate", "failed", "refused", "unknown", "unavailable"}
Waiting == {"transcript", "discarded"}  \* waiting for the index

TypeOK ==
    /\ row \in [Inputs -> RowStates] /\ saved \subseteq Compacts
    /\ inFlight \subseteq Commands /\ live \subseteq Inputs
    /\ settled \in Seq(Commands \X Statuses) /\ Len(settled) <= TableSize
    /\ keyGate \in [Commands -> Seq(Calls)] /\ sessionGate \in Seq(Calls)
    /\ index \in Loads \cup {None}
    /\ load \in [Loads -> [state : {"begun", "read", "failed"}, cold : BOOLEAN, facts : Facts]]
    /\ resident \in BOOLEAN
    /\ pending \in [Inputs -> {"none", "queued", "taken", "withdrawn", "saved", "recording"}]
    /\ recorder \in [Compacts -> Loads \cup {None}]
    /\ pc \in [Calls -> {"idle", "key", "joining", "transcript", "discarded", "session",
                         "admit", "execute", "handed", "cancel"} \cup Statuses]
    /\ key \in [Calls -> Commands \cup {None}] /\ query \in [Calls -> BOOLEAN]
    /\ ref \in [Calls -> Loads \cup {None}] /\ answer \in Answers

NoLoad == [state |-> "failed", cold |-> FALSE, facts |-> NoFacts]

EmptyMemory ==
    /\ inFlight = {} /\ live = {} /\ settled = <<>>
    /\ keyGate = [k \in Commands |-> <<>>] /\ sessionGate = <<>>
    /\ index = None /\ load = [l \in Loads |-> NoLoad]
    /\ pending = [k \in Inputs |-> "none"]
    /\ recorder = [k \in Compacts |-> None]
    /\ pc = [c \in Calls |-> "idle"] /\ key = [c \in Calls |-> None]
    /\ query = [c \in Calls |-> FALSE] /\ ref = [c \in Calls |-> None]
    /\ answer = "none"

Init ==
    /\ row = [k \in Inputs |-> "none"] /\ saved = {}
    /\ resident = TRUE
    /\ EmptyMemory

-----------------------------------------------------------------------------
(* Gates and tables.                                                       *)

HoldsKey(c) == keyGate[key[c]] # <<>> /\ Head(keyGate[key[c]]) = c
HoldsSession(c) == sessionGate # <<>> /\ Head(sessionGate) = c

LeaveKey(c) ==
    keyGate' = IF HoldsKey(c) THEN [keyGate EXCEPT ![key[c]] = Tail(@)] ELSE keyGate
\* Mutant: the gate of the session is not left.
LeaveSessionNever(c) == sessionGate' = sessionGate
LeaveSession(c) ==
    sessionGate' = IF HoldsSession(c) THEN Tail(sessionGate) ELSE sessionGate

\* The table is a Map: a command has one entry.
Drop(table, k) ==
    LET at == {i \in DOMAIN table : table[i][1] = k}
    IN  IF at = {} THEN table
        ELSE LET i == CHOOSE i \in at : TRUE
             IN  SubSeq(table, 1, i - 1) \o SubSeq(table, i + 1, Len(table))

Newest(table) ==
    IF Len(table) > TableSize THEN SubSeq(table, Len(table) - TableSize + 1, Len(table))
    ELSE table

Remember(table, k, status) == Newest(Append(Drop(table, k), <<k, status>>))

Remembered(k) == {settled[i][2] : i \in {j \in DOMAIN settled : settled[j][1] = k}}

\* retryAck: what the repetition of a command hears; a query hears the fact itself.
Retry(c, status) == IF query[c] \/ status = "failed" THEN status ELSE "duplicate"

\* A step that tells nobody anything.
Silent == answer' = "none"

\* The request is answered and leaves the gates it holds.
Answered(c, a) ==
    /\ pc' = [pc EXCEPT ![c] = "idle"]
    /\ key' = [key EXCEPT ![c] = None]
    /\ query' = [query EXCEPT ![c] = FALSE]
    /\ ref' = [ref EXCEPT ![c] = None]
    /\ answer' = a
    /\ LeaveKey(c) /\ LeaveSession(c)

-----------------------------------------------------------------------------
(* The index.                                                              *)

InUse(l) ==
    \/ l = index
    \/ \E c \in Calls : ref[c] = l
    \/ \E k \in Compacts : recorder[k] = l

\* ensureSession: the cached load, or a new one that is cached at once.
Free == {l \in Loads : ~InUse(l)}
CanEnsure == index # None \/ Free # {}
Ensured == IF index # None THEN index ELSE CHOOSE l \in Free : TRUE
Begun ==
    IF index # None THEN load
    ELSE [load EXCEPT ![Ensured] = [state |-> "begun", cold |-> ~resident, facts |-> NoFacts]]

\* What nobody refers to any longer is forgotten.
Collected(loads) == [l \in Loads |-> IF InUse(l)' THEN loads[l] ELSE NoLoad]

FactOf(k, rows) ==
    IF k \in saved THEN "accepted"
    ELSE IF k \notin Inputs THEN "none"
    ELSE CASE rows[k] = "promoted" -> "accepted"
           [] rows[k] \in {"removed", "failed", "discarded"} -> "failed"
           [] OTHER -> "none"

Discarded(rows) ==
    [k \in Inputs |-> IF rows[k] = "admitted" THEN "discarded" ELSE rows[k]]

\* loadPersistentCommandFacts; without a living session the open rows are discarded.
ReadStore(l) ==
    /\ load[l].state = "begun"
    /\ row' = IF load[l].cold THEN Discarded(row) ELSE row
    /\ load' = [load EXCEPT ![l].state = "read",
                            ![l].facts = [k \in Commands |-> FactOf(k, row')]]
    /\ Silent
    /\ UNCHANGED <<saved, inbox, gates, index, runtime, calls>>

\* A failed load is not cached.
LoadFails(l) ==
    /\ load[l].state = "begun"
    /\ index' = IF index = l THEN None ELSE index
    /\ load' = [load EXCEPT ![l] = NoLoad]
    /\ Silent
    /\ UNCHANGED <<store, inbox, gates, runtime, calls>>

-----------------------------------------------------------------------------
(* A request: handle or query.                                             *)

Arrive(c, k, q) ==
    /\ pc[c] = "idle"
    /\ pc' = [pc EXCEPT ![c] = "key"]
    /\ key' = [key EXCEPT ![c] = k]
    /\ query' = [query EXCEPT ![c] = q]
    /\ keyGate' = [keyGate EXCEPT ![k] = Append(@, c)]
    /\ Silent
    /\ UNCHANGED <<store, inbox, sessionGate, cache, runtime, ref>>

\* The request waits for a fact of the index.
Seek(c, stage) ==
    /\ CanEnsure
    /\ pc' = [pc EXCEPT ![c] = stage]
    /\ index' = Ensured
    /\ ref' = [ref EXCEPT ![c] = Ensured]
    /\ Silent
    /\ UNCHANGED <<gates, key, query>>

\* The tables in memory, in this order; then the index.  The request holds
\* the gate of its command and, the second time, that of the session.
Look(c) ==
    LET k == key[c] IN
    /\ \/ pc[c] = "key" /\ HoldsKey(c)
       \/ pc[c] = "session" /\ HoldsSession(c)
    /\ UNCHANGED <<store, inFlight, live, runtime>>
    /\ \/ /\ k \in inFlight
          /\ pc' = [pc EXCEPT ![c] = "joining"]
          /\ Silent
          /\ UNCHANGED <<settled, gates, cache, key, query, ref>>
       \/ /\ k \notin inFlight /\ k \in live
          /\ Answered(c, Retry(c, "accepted"))
          /\ UNCHANGED <<settled, cache>>
       \/ /\ k \notin inFlight \cup live
          /\ \E status \in Remembered(k) :
                /\ settled' = Append(Drop(settled, k), <<k, status>>)
                /\ Answered(c, Retry(c, status))
          /\ UNCHANGED cache
       \/ /\ k \notin inFlight \cup live /\ Remembered(k) = {}
          /\ Seek(c, "transcript")
          /\ load' = Collected(Begun)
          /\ UNCHANGED settled

\* The command joined has its final answer.
Deliver(c) ==
    /\ pc[c] \in Statuses
    /\ Answered(c, Retry(c, pc[c]))
    /\ UNCHANGED <<store, inbox, cache, runtime>>

Fact(c) == load[ref[c]].facts[key[c]]

\* A lookup that fails is answered as such, and forgotten.
Unavailable(c) ==
    /\ pc[c] \in Waiting /\ load[ref[c]].state = "failed"
    /\ Answered(c, "unavailable")
    /\ UNCHANGED <<store, inbox, cache, runtime>>

\* transcript, timeline and child facts; then, as a lookup of its own, the discarded inputs.
LookTranscript(c) ==
    /\ pc[c] = "transcript" /\ load[ref[c]].state = "read"
    /\ UNCHANGED <<store, inbox, runtime>>
    /\ \/ /\ Fact(c) = "accepted"
          /\ Answered(c, Retry(c, "accepted"))
          /\ UNCHANGED index /\ load' = Collected(load)
       \/ /\ Fact(c) # "accepted"
          /\ Seek(c, "discarded")
          /\ load' = Collected(Begun)

\* A command nobody knows: the decision, in the gate of the session.
Decide(c) ==
    \/ /\ ~resident \/ key[c] \in Others
       /\ Answered(c, "refused")
       /\ UNCHANGED inFlight
    \/ /\ resident
       /\ inFlight' = inFlight \cup {key[c]}
       /\ pc' = [pc EXCEPT ![c] = IF key[c] \in Inputs THEN "admit" ELSE "execute"]
       /\ ref' = [ref EXCEPT ![c] = None]
       /\ LeaveKey(c)
       /\ Silent
       /\ UNCHANGED <<sessionGate, key, query>>

NotFound(c) ==
    \/ /\ query[c]
       /\ Answered(c, "unknown")
       /\ UNCHANGED inFlight
    \/ /\ ~query[c] /\ ~HoldsSession(c)
       /\ sessionGate' = Append(sessionGate, c)
       /\ pc' = [pc EXCEPT ![c] = "session"]
       /\ ref' = [ref EXCEPT ![c] = None]
       /\ Silent
       /\ UNCHANGED <<keyGate, inFlight, key, query>>
    \/ ~query[c] /\ HoldsSession(c) /\ Decide(c)

LookDiscarded(c) ==
    /\ pc[c] = "discarded" /\ load[ref[c]].state = "read"
    /\ UNCHANGED <<store, live, settled, index, runtime>>
    /\ \/ /\ Fact(c) = "failed"
          /\ Answered(c, "failed")
          /\ UNCHANGED inFlight
       \/ Fact(c) # "failed" /\ NotFound(c)
    /\ load' = Collected(load)

-----------------------------------------------------------------------------
(* handleCommand: an admitted command is executed and settled.             *)

\* settle: the final answer, for every request that joined.
Settle(c, pinned, table, status) ==
    LET k == key[c]
        Joined == {d \in Calls : pc[d] = "joining" /\ key[d] = k}
    IN
    /\ inFlight' = inFlight \ {k}
    /\ live' = pinned
    /\ settled' = IF k \in pinned THEN table ELSE Remember(table, k, status)
    /\ pc' = [d \in Calls |-> IF d = c THEN "idle" ELSE IF d \in Joined THEN status ELSE pc[d]]
    /\ key' = [key EXCEPT ![c] = None]
    /\ answer' = status
    /\ LeaveSession(c)
    /\ UNCHANGED <<keyGate, query, ref>>

\* admitCommandInput: the durable row, then the pin.
Admit(c) ==
    LET k == key[c] IN
    /\ pc[c] = "admit"
    /\ row' = [row EXCEPT ![k] = IF @ \in {"none", "discarded"} THEN "admitted" ELSE @]
    /\ live' = live \cup {k}
    /\ settled' = Drop(settled, k)
    /\ pc' = [pc EXCEPT ![c] = "execute"]
    /\ Silent
    /\ UNCHANGED <<saved, inFlight, gates, cache, runtime, key, query, ref>>

AdmitFails(c) ==
    /\ pc[c] = "admit"
    /\ Settle(c, live, settled, "failed")
    /\ UNCHANGED <<store, cache, runtime>>

\* The runtime takes the input: it starts a turn, or queues it.
HandOver(c) ==
    /\ pc[c] = "execute" /\ key[c] \in Inputs
    /\ pending' = [pending EXCEPT ![key[c]] = "queued"]
    /\ pc' = [pc EXCEPT ![c] = "handed"]
    /\ Silent
    /\ UNCHANGED <<store, inbox, gates, cache, resident, recorder, key, query, ref>>

Succeed(c) ==
    /\ \/ pc[c] = "handed"
       \/ pc[c] = "execute" /\ key[c] \in Others
    /\ Settle(c, live, settled, "accepted")
    /\ UNCHANGED <<store, cache, runtime>>

\* The execution throws: the row of an input is cancelled and its pin released.
Fail(c) ==
    /\ pc[c] = "execute"
    /\ IF key[c] \in Inputs
       THEN /\ pc' = [pc EXCEPT ![c] = "cancel"]
            /\ Silent
            /\ UNCHANGED <<inbox, gates, key, query, ref>>
       ELSE Settle(c, live, settled, "failed")
    /\ UNCHANGED <<store, cache, runtime>>

CancelRow(k) ==
    row' \in {[row EXCEPT ![k] = IF @ = "admitted" THEN "failed" ELSE @]}
               \cup (IF CancelMayFail THEN {row} ELSE {})

\* A mutant: the row stays open.
CancelInMemory(c) ==
    LET k == key[c] IN
    /\ pc[c] = "cancel"
    /\ Settle(c, live \ {k}, Remember(settled, k, "failed"), "failed")
    /\ UNCHANGED <<store, cache, runtime>>

Cancel(c) ==
    LET k == key[c] IN
    /\ pc[c] = "cancel"
    /\ CancelRow(k)
    /\ Settle(c, live \ {k}, Remember(settled, k, "failed"), "failed")
    /\ UNCHANGED <<saved, cache, runtime>>

-----------------------------------------------------------------------------
(* The runtime and what the gateway ingests from it.                       *)

\* promoteSessionInput: message and status in one transaction.
Promote(k) ==
    /\ k \in Texts /\ pending[k] = "queued"
    /\ row' = [row EXCEPT ![k] = "promoted"]
    /\ pending' = [pending EXCEPT ![k] = "taken"]
    /\ Silent
    /\ UNCHANGED <<saved, inbox, gates, cache, resident, recorder, calls>>

\* The turn ends before the promotion: its model cannot be made, or a hook blocks the prompt.
\* Nobody is told of the input: its row stays open and its pin stays.
EndUnpromoted(k) ==
    /\ k \in Texts /\ pending[k] = "queued"
    /\ pending' = [pending EXCEPT ![k] = "none"]
    /\ Silent
    /\ UNCHANGED <<store, inbox, gates, cache, resident, recorder, calls>>

\* A command of the user removes what is queued: first the row.
Withdraw(k) ==
    /\ \E c \in Calls : pc[c] = "execute" /\ key[c] \in Others
    /\ pending[k] = "queued"
    /\ row' = [row EXCEPT ![k] = IF @ = "admitted" THEN "removed" ELSE @]
    /\ pending' = [pending EXCEPT ![k] = "withdrawn"]
    /\ Silent
    /\ UNCHANGED <<saved, inbox, gates, cache, resident, recorder, calls>>

\* Mutant: the cached index stays.
InvalidateNothing == index' = index

Invalidate == index' = None

\* SessionInputPromoted, or the removal of a queue item: invalidate, then release the pin.
Ingest(k) ==
    /\ pending[k] \in {"taken", "withdrawn"}
    /\ pending' = [pending EXCEPT ![k] = "none"]
    /\ live' = live \ {k}
    /\ settled' = IF k \in live THEN Remember(settled, k, "accepted") ELSE settled
    /\ Silent
    /\ UNCHANGED <<store, inFlight, gates, resident, recorder, calls>>
    /\ Invalidate /\ load' = Collected(load)

\* The end of a compact: its fact is saved, then recorded in the index.
SaveFact(k) ==
    /\ k \in Compacts /\ pending[k] = "queued"
    /\ saved' = saved \cup {k}
    /\ pending' = [pending EXCEPT ![k] = "saved"]
    /\ Silent
    /\ UNCHANGED <<row, inbox, gates, cache, resident, recorder, calls>>

RecordFact(k) ==
    /\ pending[k] = "saved"
    /\ CanEnsure
    /\ index' = Ensured
    /\ recorder' = [recorder EXCEPT ![k] = Ensured]
    /\ load' = Begun
    /\ pending' = [pending EXCEPT ![k] = "recording"]
    /\ Silent
    /\ UNCHANGED <<store, inbox, gates, resident, calls>>

FactRecorded(k) ==
    LET l == recorder[k] IN
    /\ pending[k] = "recording" /\ load[l].state # "begun"
    /\ recorder' = [recorder EXCEPT ![k] = None]
    /\ pending' = [pending EXCEPT ![k] = "none"]
    /\ Silent
    /\ UNCHANGED <<store, inbox, gates, index, resident, calls>>
    /\ load' = Collected(IF load[l].state = "read"
                         THEN [load EXCEPT ![l].facts[k] = "accepted"] ELSE load)

-----------------------------------------------------------------------------
(* The life of the session.                                                *)

\* Reclaimed while idle: nothing in flight, pinned or running.
Deactivate ==
    /\ resident
    /\ inFlight = {} /\ live = {}
    /\ \A k \in Inputs : pending[k] = "none"
    /\ resident' = FALSE
    /\ settled' = <<>>
    /\ Silent
    /\ UNCHANGED <<store, inFlight, live, gates, cache, pending, recorder, calls>>

\* Opened again: what is still open in the store is swept.  A load reads a
\* synchronous store: the opening, which waits for I/O, does not end within one.
Resume ==
    /\ ~resident
    /\ \A l \in Loads : load[l].state # "begun"
    /\ resident' = TRUE
    /\ row' = Discarded(row)
    /\ Silent
    /\ UNCHANGED <<saved, inbox, gates, cache, pending, recorder, calls>>

\* The process dies and is started again; its clients repeat their commands.
Restart ==
    /\ resident' = FALSE
    /\ inFlight' = {} /\ live' = {} /\ settled' = <<>>
    /\ keyGate' = [k \in Commands |-> <<>>] /\ sessionGate' = <<>>
    /\ index' = None /\ load' = [l \in Loads |-> NoLoad]
    /\ pending' = [k \in Inputs |-> "none"] /\ recorder' = [k \in Compacts |-> None]
    /\ pc' = [c \in Calls |-> "idle"] /\ key' = [c \in Calls |-> None]
    /\ query' = [c \in Calls |-> FALSE] /\ ref' = [c \in Calls |-> None]
    /\ Silent
    /\ UNCHANGED store

Step(c) ==
    \/ Look(c) \/ Deliver(c) \/ Unavailable(c) \/ LookTranscript(c) \/ LookDiscarded(c)
    \/ Admit(c) \/ AdmitFails(c) \/ HandOver(c) \/ Succeed(c) \/ Fail(c) \/ Cancel(c)

Loading(l) == ReadStore(l) \/ LoadFails(l)

\* What follows of itself once the runtime is done with an input.
Aftermath(k) == Ingest(k) \/ RecordFact(k) \/ FactRecorded(k)

Next ==
    \/ \E c \in Calls, k \in Commands, q \in BOOLEAN : Arrive(c, k, q)
    \/ \E c \in Calls : Step(c)
    \/ \E l \in Loads : Loading(l)
    \/ \E k \in Inputs :
          Promote(k) \/ EndUnpromoted(k) \/ SaveFact(k) \/ Withdraw(k) \/ Aftermath(k)
    \/ Deactivate \/ Resume \/ Restart

Spec == Init /\ [][Next]_vars

-----------------------------------------------------------------------------
(* Properties.                                                             *)

\* What has become of an input, read off the store and the tables.
Phase(k) ==
    CASE row[k] = "promoted" \/ k \in saved -> "entered"
      [] row[k] = "failed" /\ k \notin saved ->
            IF k \notin live THEN "failed"
            ELSE IF k \in inFlight THEN "retrying" ELSE "reaccepted"
      [] row[k] = "admitted" /\ k \notin saved ->
            IF k \notin live THEN "lost"
            ELSE IF k \in inFlight THEN "running" ELSE "accepted"
      [] row[k] = "removed" /\ k \notin saved -> "removed"
      [] row[k] = "discarded" /\ k \notin saved -> "lost"
      [] OTHER -> "fresh"

\* An input is carried out once, through repetitions, eviction from the table,
\* invalidation of the index, reclaimed sessions and restarts (module CommandPromise).
Promise == INSTANCE CommandPromise WITH phase <- [k \in Inputs |-> Phase(k)]

CarriedOutOnce == Promise!Spec

\* What a request is told is so at that moment: a duplicate was accepted before,
\* an unknown command has not been carried out, and no input is reported failed
\* that waits in the queue or is in the transcript.
AnswersTrue ==
    [][\A c \in Calls, k \in Inputs :
          (pc[c] # "idle" /\ pc'[c] = "idle" /\ key[c] = k) =>
             LET phase == Phase(k)' IN
             /\ answer' = "duplicate" => phase \notin {"fresh", "running", "retrying"}
             /\ answer' = "unknown" => phase \in {"fresh", "failed"}
             /\ answer' = "failed" =>
                   phase \notin {"running", "accepted", "reaccepted", "entered"}]_vars

\* An input that is still open while its session is resident is pinned: neither the bounded
\* table nor a reclaimed session can forget it, through failures, evictions, loads that discard
\* and turns that end without it.
OpenIsPinned == \A k \in Inputs : resident /\ row[k] = "admitted" => k \in live

\* A request that does not go on by itself waits for its turn at a gate, or for the end of the
\* command it has joined, and so for another request.
Blocked(c) ==
    \/ pc[c] = "key" /\ ~HoldsKey(c)
    \/ pc[c] = "session" /\ ~HoldsSession(c)
    \/ pc[c] = "joining"

WaitsFor(c, d) ==
    /\ pc[d] # "idle"
    /\ \/ pc[c] = "key" /\ keyGate[key[c]] # <<>> /\ d = Head(keyGate[key[c]])
       \/ pc[c] = "session" /\ HoldsSession(d)
       \/ pc[c] = "joining" /\ key[d] = key[c] /\ pc[d] \in {"admit", "execute", "handed", "cancel"}

\* The two gates and the joiners do not lock each other: no set of waiting requests is closed,
\* one of them waits for a request outside of it that is still under way.
NobodyStuck ==
    \A S \in SUBSET {c \in Calls : Blocked(c)} :
        S # {} => \E c \in S, d \in Calls \ S : WaitsFor(c, d)
=============================================================================
