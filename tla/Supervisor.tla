------------------------------ MODULE Supervisor ------------------------------
(***************************************************************************)
(* The supervisor of the server core (zcode-server-cli/src/supervisor/     *)
(* supervisor.ts): it holds the lock of the data root, runs one core       *)
(* process, restarts it when it crashes, stops it, and replaces its        *)
(* release with a transaction on disk that a later start can undo          *)
(* (runtime/releaseManager.ts, startupRecovery.ts, updateReadiness.ts).    *)
(*                                                                         *)
(* One supervisor process at a time: that is what module DataRootLock is   *)
(* about; the lock of a dead one counts as free.  Events of a core reach   *)
(* the supervisor later than they happen, and a ready message may outlive  *)
(* its sender.  The pc of a lifecycle operation names what it awaits.      *)
(***************************************************************************)
EXTENDS Integers, FiniteSets

CONSTANTS
    Releases,
    NoRelease,   \* no release file: the bundled core
    First,       \* the release installed at the beginning, or NoRelease
    NoMarker,    \* no update-transaction.json
    Cores,       \* core processes at one time, their late messages included
    NoCore,
    Budget,      \* number of backoff delays: crashes answered by a restart
    DiskMayFail

Images == Releases \cup {NoRelease}

ASSUME FirstAssumption == First \in Images
ASSUME NothingAssumption ==
    NoRelease \notin Releases /\ NoMarker \notin Images /\ NoCore \notin Cores
ASSUME BudgetAssumption == Budget \in Nat
ASSUME FlagAssumption == DiskMayFail \in BOOLEAN

VARIABLES
    \* on disk
    current, pending, marker,
    lock,        \* held by the living supervisor
    proven,      \* releases whose core has been ready
    \* the core processes
    alive,       \* of this supervisor
    orphans,     \* of a supervisor that died
    image,       \* what a living core executes
    booted,      \* living cores that have reported ready
    readies,     \* ready messages under way
    exits,       \* exit events under way
    \* the supervisor
    up, state, core,
    active,      \* activeRelease
    control,     \* the control server listens
    timers,      \* restart timers that will fire
    crashes,     \* of the crash window
    op, pc,
    after,       \* where stopCore returns to
    wanted, previous

disk == <<current, pending, marker>>
processes == <<alive, orphans, image, booted, readies, exits>>
operation == <<op, pc, after, wanted, previous>>
memory == <<up, state, core, active, control, timers, crashes>>
vars == <<disk, lock, proven, processes, memory, operation>>

States == {"stopped", "starting", "ready", "stopping", "stop-failed", "updating",
           "crashed", "crash-loop-stopped"}
Starting == {"acquire", "recover", "forget", "load", "listen"}
Switching == {"mark", "apply", "clear"}
Undoing == {"restore", "unmark"}
Steps == {"idle", "stop", "grace", "kill", "close", "pending", "previous", "wait", "commit",
          "rewait", "giveup"} \cup Starting \cup Switching \cup Undoing

TypeOK ==
    /\ current \in Images /\ pending \in Images /\ marker \in Images \cup {NoMarker}
    /\ lock \in BOOLEAN /\ proven \subseteq Images
    /\ alive \subseteq Cores /\ orphans \subseteq Cores \ alive /\ booted \subseteq alive
    /\ image \in [Cores -> Images]
    /\ readies \subseteq Cores /\ exits \subseteq Cores \ alive
    /\ up \in BOOLEAN /\ state \in States /\ core \in Cores \cup {NoCore}
    /\ active \in Images /\ control \in BOOLEAN
    /\ timers \in 0 .. Budget /\ crashes \in 0 .. Budget + 1
    /\ op \in {"none", "stop", "restart", "update"} /\ pc \in Steps
    /\ after \in {"none", "close", "mark", "restore", "giveup"}
    /\ wanted \in Images /\ previous \in Images

\* What a supervisor process has forgotten or not yet learnt.
Blank ==
    /\ state' = "stopped" /\ core' = NoCore /\ active' = NoRelease /\ control' = FALSE
    /\ timers' = 0 /\ crashes' = 0
    /\ op' = "none" /\ pc' = "idle" /\ after' = "none"
    /\ wanted' = NoRelease /\ previous' = NoRelease

Init ==
    /\ current = First /\ pending = NoRelease /\ marker = NoMarker
    /\ lock = FALSE /\ proven = {First}
    /\ alive = {} /\ orphans = {} /\ booted = {} /\ readies = {} /\ exits = {}
    /\ image = [g \in Cores |-> NoRelease]
    /\ up = FALSE /\ state = "stopped" /\ core = NoCore /\ active = NoRelease /\ control = FALSE
    /\ timers = 0 /\ crashes = 0
    /\ op = "none" /\ pc = "idle" /\ after = "none"
    /\ wanted = NoRelease /\ previous = NoRelease

-----------------------------------------------------------------------------
(* The core processes.                                                     *)

CoreReady(g) ==
    /\ g \in alive \ booted
    /\ booted' = booted \cup {g}
    /\ readies' = readies \cup {g}
    /\ proven' = proven \cup {image[g]}
    /\ UNCHANGED <<disk, lock, alive, orphans, image, exits, memory, operation>>

\* It crashes, obeys the shutdown, or is killed.
CoreExits(g) ==
    /\ g \in alive
    /\ alive' = alive \ {g} /\ booted' = booted \ {g}
    /\ exits' = exits \cup {g}
    /\ image' = [image EXCEPT ![g] = NoRelease]
    /\ UNCHANGED <<disk, lock, proven, orphans, readies, memory, operation>>

\* A core whose supervisor is gone shuts itself down, when it has come to it.
OrphanExits(g) ==
    /\ g \in orphans
    /\ orphans' = orphans \ {g}
    /\ UNCHANGED <<disk, lock, proven, alive, image, booted, readies, exits, memory, operation>>

\* launchCore
Launch(release) ==
    \E g \in Cores \ (alive \cup orphans \cup readies \cup exits) :
        /\ core' = g
        /\ alive' = alive \cup {g}
        /\ image' = [image EXCEPT ![g] = release]
        /\ state' = "starting"
        /\ UNCHANGED <<orphans, booted, readies, exits>>

-----------------------------------------------------------------------------
(* What the supervisor hears of its core.                                  *)

\* Mutant: whoever sent it.
HeedsAnybody(g) == state = "starting"

Heeds(g) == core = g /\ state = "starting"

HearReady(g) ==
    /\ g \in readies
    /\ readies' = readies \ {g}
    /\ state' = IF Heeds(g) THEN "ready" ELSE state
    /\ UNCHANGED <<disk, lock, proven, alive, orphans, image, booted, exits, up, core, active,
                   control, timers, crashes, operation>>

\* recordCrash: index counts the crashes of the window before this one.
Exhausted(index) == index >= Budget

\* Mutant: the exhausted budget is not told from a crash.
AfterCrashAlways(index) == "crashed"

AfterCrash(index) == IF Exhausted(index) THEN "crash-loop-stopped" ELSE "crashed"

\* The window is over: long after its timers have fired.
WindowOver == timers = 0

\* handleTerminal: the end of a stop, a late end after a failed one, or a crash.
HearExit(g) ==
    /\ g \in exits
    /\ exits' = exits \ {g}
    /\ core' = IF core = g THEN NoCore ELSE core
    /\ \/ /\ core # g
          /\ UNCHANGED <<state, timers, crashes, pc, after>>
       \/ /\ core = g /\ state = "stopping"
          /\ pc' = after /\ after' = "none"
          /\ UNCHANGED <<state, timers, crashes>>
       \/ /\ core = g /\ state = "stop-failed"
          /\ UNCHANGED <<state, timers, crashes, pc, after>>
       \/ /\ core = g /\ state \notin {"stopping", "stop-failed"}
          /\ \E index \in {crashes} \cup (IF WindowOver THEN {0} ELSE {}) :
                /\ crashes' = IF index > Budget THEN index ELSE index + 1
                /\ state' = AfterCrash(index)
                /\ timers' = IF Exhausted(index) THEN timers ELSE timers + 1
          /\ UNCHANGED <<pc, after>>
    /\ UNCHANGED <<disk, lock, proven, alive, orphans, image, booted, readies, up, active,
                   control, op, wanted, previous>>

\* The timer is not cancelled by whatever happens in the meantime.
RestartTimer ==
    /\ timers > 0
    /\ timers' = timers - 1
    /\ IF state = "crashed" THEN Launch(active) ELSE UNCHANGED <<processes, state, core>>
    /\ UNCHANGED <<disk, lock, proven, up, active, control, crashes, operation>>

-----------------------------------------------------------------------------
(* start                                                                   *)

Goto(from, to) == pc = from /\ pc' = to /\ UNCHANGED <<op, after, wanted, previous>>

Boot ==
    /\ ~up
    /\ up' = TRUE
    /\ pc' = "acquire"
    /\ UNCHANGED <<disk, lock, proven, processes, state, core, active, control, timers, crashes,
                   op, after, wanted, previous>>

Acquire ==
    /\ Goto("acquire", "recover")
    /\ lock' = TRUE
    /\ UNCHANGED <<disk, proven, processes, memory>>

\* Mutant: the transaction is taken for a finished one.
RecoverNothing ==
    /\ Goto("recover", IF marker = NoMarker THEN "load" ELSE "forget")
    /\ UNCHANGED <<disk, lock, proven, processes, memory>>

\* recoverInterruptedUpdate
Recover ==
    /\ Goto("recover", IF marker = NoMarker THEN "load" ELSE "forget")
    /\ current' = IF marker = NoMarker THEN current ELSE marker
    /\ UNCHANGED <<pending, marker, lock, proven, processes, memory>>

Forget ==
    /\ Goto("forget", "load")
    /\ marker' = NoMarker
    /\ UNCHANGED <<current, pending, lock, proven, processes, memory>>

Load ==
    /\ Goto("load", "listen")
    /\ active' = current
    /\ UNCHANGED <<disk, lock, proven, processes, up, state, core, control, timers, crashes>>

Listen ==
    /\ pc = "listen" /\ pc' = "idle" /\ op' = "none"
    /\ control' = TRUE
    /\ Launch(active)
    /\ UNCHANGED <<disk, lock, proven, up, active, timers, crashes, after, wanted, previous>>

\* The process ends, and with it what its core would have told it: nothing but
\* the control server would keep it.
GoDown ==
    /\ up' = FALSE /\ lock' = FALSE
    /\ orphans' = orphans \cup alive
    /\ alive' = {} /\ booted' = {} /\ readies' = {} /\ exits' = {}
    /\ image' = [g \in Cores |-> NoRelease]
    /\ Blank

StartFails ==
    /\ DiskMayFail
    /\ pc \in Starting \ {"acquire"}
    /\ GoDown
    /\ UNCHANGED <<disk, proven>>

-----------------------------------------------------------------------------
(* Lifecycle operations, one at a time.                                    *)

Request(kind) ==
    /\ control /\ pc = "idle" /\ op = "none"
    /\ op' = kind
    /\ pc' = IF kind = "update" THEN "pending" ELSE "stop"
    /\ UNCHANGED <<disk, lock, proven, processes, memory, after, wanted, previous>>

\* With the operation its local variables are gone.
OperationOver ==
    /\ op' = "none" /\ pc' = "idle" /\ after' = "none"
    /\ wanted' = NoRelease /\ previous' = NoRelease

\* stopCore, which returns to next; without a core at once.
StopCore(next, otherwise) ==
    /\ IF core = NoCore
       THEN pc' = next /\ state' = otherwise /\ UNCHANGED after
       ELSE pc' = "grace" /\ state' = "stopping" /\ after' = next
    /\ UNCHANGED <<up, core, active, control, timers, crashes, op>>

Stop ==
    /\ pc = "stop"
    /\ StopCore("close", "stopped")
    /\ UNCHANGED <<disk, lock, proven, processes, wanted, previous>>

\* The core has not ended in time, or cannot be told to: SIGKILL.
GraceTimeout ==
    /\ Goto("grace", "kill")
    /\ UNCHANGED <<disk, lock, proven, processes, memory>>

\* Mutants: a killed core counts as ended; its end is awaited for ever.
KillTimeoutTrusting ==
    /\ Goto("kill", after)
    /\ core' = NoCore
    /\ UNCHANGED <<disk, lock, proven, processes, up, state, active, control, timers, crashes>>

KillTimeoutNever ==
    /\ Goto("kill", "kill")
    /\ UNCHANGED <<disk, lock, proven, processes, memory>>

\* Core and lock are kept, the operation fails.
KillTimeout ==
    /\ pc = "kill"
    /\ state' = "stop-failed"
    /\ OperationOver
    /\ UNCHANGED <<disk, lock, proven, processes, up, core, active, control, timers, crashes>>

Close ==
    /\ pc = "close"
    /\ IF op = "restart"
       THEN /\ lock' = FALSE /\ control' = FALSE /\ state' = "stopped"
            /\ pc' = "acquire" /\ after' = "none"
            /\ UNCHANGED <<processes, up, core, active, timers, crashes, op, wanted, previous>>
       ELSE GoDown
    /\ UNCHANGED <<disk, proven>>

-----------------------------------------------------------------------------
(* applyUpdate                                                             *)

\* A pending release, which running tasks do not forbid; refused otherwise.
ReadPending ==
    /\ pc = "pending"
    /\ \/ OperationOver
       \/ /\ pending # NoRelease
          /\ wanted' = pending
          /\ pc' = "previous"
          /\ UNCHANGED <<op, after, previous>>
    /\ UNCHANGED <<disk, lock, proven, processes, memory>>

ReadPrevious ==
    /\ pc = "previous"
    /\ previous' = current
    /\ StopCore("mark", "updating")
    /\ UNCHANGED <<disk, lock, proven, processes, wanted>>

\* beginUpdate
Mark ==
    /\ Goto("mark", "apply")
    /\ state' = "updating"
    /\ marker' = previous
    /\ UNCHANGED <<current, pending, lock, proven, processes, up, core, active, control,
                   timers, crashes>>

\* applyPending reads the pending release again, makes it the current one and removes it.
Apply ==
    /\ Goto("apply", "clear")
    /\ pending # NoRelease
    /\ current' = pending
    /\ UNCHANGED <<pending, marker, lock, proven, processes, memory>>

Clear ==
    /\ Goto("clear", "wait")
    /\ pending' = NoRelease
    /\ active' = wanted
    /\ Launch(wanted)
    /\ UNCHANGED <<current, marker, lock, proven, up, control, timers, crashes>>

\* waitForUpdateReady
Observe ==
    /\ state = "ready"
    /\ Goto("wait", "commit")
    /\ UNCHANGED <<disk, lock, proven, processes, memory>>

\* completeUpdate
Commit ==
    /\ pc = "commit"
    /\ marker' = NoMarker
    /\ OperationOver
    /\ UNCHANGED <<current, pending, lock, proven, processes, memory>>

\* Mutant: a crashed candidate keeps its restart timer.
EnterUpdateRollbackNot == state

\* enterUpdateRollback: out of the reach of the restart timer.
EnterUpdateRollback == IF state = "crashed" THEN "updating" ELSE state

\* Something failed on disk, the candidate has crashed, or the time is up.
Rollback ==
    /\ \/ DiskMayFail /\ pc \in Switching \cup {"commit"}
       \/ pc = "apply" /\ pending = NoRelease
       \/ pc = "wait"
    /\ StopCore("restore", EnterUpdateRollback)
    /\ UNCHANGED <<disk, lock, proven, processes, wanted, previous>>

Restore ==
    /\ Goto("restore", "unmark")
    /\ current' = previous
    /\ UNCHANGED <<pending, marker, lock, proven, processes, memory>>

\* Mutant: the candidate stays the release in memory.
ActiveAfterRollbackStale == active

ActiveAfterRollback == previous

Unmark ==
    /\ pc = "unmark"
    /\ marker' = NoMarker
    /\ active' = ActiveAfterRollback
    /\ IF previous # NoRelease
       THEN /\ Launch(ActiveAfterRollback)
            /\ pc' = "rewait" /\ UNCHANGED <<op, after, wanted, previous>>
       ELSE state' = "stopped" /\ OperationOver /\ UNCHANGED <<processes, core>>
    /\ UNCHANGED <<current, pending, lock, proven, up, control, timers, crashes>>

UndoFails ==
    /\ DiskMayFail
    /\ pc \in Undoing
    /\ state' = "stop-failed"
    /\ OperationOver
    /\ UNCHANGED <<disk, lock, proven, processes, up, core, active, control, timers, crashes>>

\* The previous release is ready again; the update has failed all the same.
Recovered ==
    /\ pc = "rewait" /\ state = "ready"
    /\ OperationOver
    /\ UNCHANGED <<disk, lock, proven, processes, memory>>

\* It is not: its core is stopped and the server stays so.
Despair ==
    /\ pc = "rewait"
    /\ StopCore("giveup", "stopped")
    /\ UNCHANGED <<disk, lock, proven, processes, wanted, previous>>

GiveUp ==
    /\ pc = "giveup"
    /\ state' = "stopped"
    /\ OperationOver
    /\ UNCHANGED <<disk, lock, proven, processes, up, core, active, control, timers, crashes>>

-----------------------------------------------------------------------------
(* The surroundings.                                                       *)

\* prepareOnlineUpdate, run by a process of its own, at any time: the release it
\* compares with may since have been replaced, even by the one it prepares.
Prepare(release) ==
    /\ pending' = release
    /\ UNCHANGED <<current, marker, lock, proven, processes, memory, operation>>

\* The prepared release is given up, or is no newer than the current one.  (To put
\* back the one prepared before is a Prepare.)
Discard ==
    /\ pending' = NoRelease
    /\ UNCHANGED <<current, marker, lock, proven, processes, memory, operation>>

\* The supervisor dies; its core hears nothing but the end of the connection.
\* At most one orphan at a time.
Dies ==
    /\ up
    /\ orphans = {} \/ alive = {}
    /\ GoDown
    /\ UNCHANGED <<disk, proven>>

Start == Acquire \/ Recover \/ Forget \/ Load \/ Listen \/ StartFails
Stopping == Stop \/ GraceTimeout \/ KillTimeout \/ Close
Updating ==
    \/ ReadPending \/ ReadPrevious \/ Mark \/ Apply \/ Clear \/ Observe \/ Commit
    \/ Rollback \/ Restore \/ Unmark \/ UndoFails \/ Recovered \/ Despair \/ GiveUp
Proceed == Start \/ Stopping \/ Updating

Next ==
    \/ \E g \in Cores :
          CoreReady(g) \/ CoreExits(g) \/ OrphanExits(g) \/ HearReady(g) \/ HearExit(g)
    \/ RestartTimer
    \/ Boot
    \/ Proceed
    \/ \E kind \in {"stop", "restart", "update"} : Request(kind)
    \/ \E release \in Releases : Prepare(release)
    \/ Discard
    \/ Dies

\* Events arrive, timers fire, file operations and waits end; a core need not
\* become ready, nor exit.  An orphan ends.
Spec ==
    /\ Init /\ [][Next]_vars
    /\ WF_vars(\E g \in Cores : HearReady(g) \/ HearExit(g))
    /\ WF_vars(\E g \in Cores : OrphanExits(g))
    /\ WF_vars(RestartTimer)
    /\ WF_vars(Proceed)

-----------------------------------------------------------------------------
(* Properties.                                                             *)

\* A living core is the one the supervisor knows, under its lock: no stop that
\* failed, no timer and no rollback leaves a second one on the data root.
NoStrayCore == alive \subseteq {core} /\ (alive # {} => lock)

\* While the files of an update are switched or restored no core runs on them,
\* not even one a restart timer has brought back.
SwitchedAtRest == pc \in Switching \cup Undoing => alive = {}

\* The server is said to be ready only if the core it runs has said so itself,
\* not one of an earlier generation.
ReadyIsTrue == state = "ready" => core \in booted \cup exits

\* Another release was prepared between the two reads of the pending one
\* (supervisor.ts:267, releaseManager.ts:132): the update has switched to a release
\* other than the one whose core it has seen ready.
OtherSwitched == pc = "commit" /\ current # wanted

\* Outside an update, what runs or is to be restarted is what is on disk.
Agrees ==
    (op # "update" \/ pc \in {"pending", "previous"})
    /\ state \in {"starting", "ready", "crashed"} =>
        active = current /\ (core \in alive => image[core] = current)

\* The supervisor loses touch with the disk in one way only: by committing an
\* update during which another release was prepared.  No failed update, rollback,
\* crash or late timer does it.
DriftsOnlyWhenOvertaken == [][Agrees => Agrees' \/ OtherSwitched]_vars

\* The release a start would execute now.
Effective == IF marker = NoMarker THEN current ELSE marker

\* The marker of an update that is still to be undone gives way to another update,
\* which takes the candidate on disk for the release to return to.
MarkerOverridden == pc \in {"mark", "unmark"} /\ marker \notin {NoMarker, previous}

\* A release whose core has never been ready becomes what a start executes in two
\* ways only: an update over the open marker of a failed one, and a release
\* prepared while another was applied.  Crashes of the supervisor at any step,
\* failed updates and failed rollbacks lead back to one that has been ready.
UnprovenOnlyByOverlap ==
    [][Effective' # Effective /\ Effective' \notin proven => MarkerOverridden \/ OtherSwitched]_vars

\* Every operation ends, whatever the core does.
OperationsEnd == op # "none" ~> op = "none"

\* A crashed core is restarted, or the budget is said to be exhausted.
CrashIsAnswered == state = "crashed" ~> state # "crashed"
=============================================================================
