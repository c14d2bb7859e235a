---------------------------- MODULE DataRootLock ----------------------------
(***************************************************************************)
(* The single-instance lock of a server's data root                        *)
(* (zcode-server-cli/src/runtime/lock.ts).                                 *)
(*                                                                         *)
(* Any number of processes, supervisors and uninstallers, may try to       *)
(* acquire the lock at once.  The lock is a file created with O_EXCL; its  *)
(* text, written by a second system call, names the owner.  A lock that    *)
(* names no living owner is stale: under a second such file, the recovery  *)
(* gate, a contender renames it to a name of its own, compares what it got *)
(* with what it had read, and removes it or renames it back.  Releasing a  *)
(* file goes the same way.  A file that has no text yet looks stale too.   *)
(*                                                                         *)
(* One action is one call of the file system with the computation up to    *)
(* the next; a read that looks for a living owner includes the check.      *)
(* Every process tries once; process ids are not used again.               *)
(***************************************************************************)
EXTENDS Integers, FiniteSets

CONSTANTS
    Procs,
    Dead,      \* the owner of what earlier, dead processes have left behind
    Attempts,  \* rounds of recovery before a process gives up (100 in the code)
    GateLeft,  \* whether one of them may have died in the middle of a recovery
    MaxCrashes \* bound on the processes that die

ASSUME ProcsAssumption == IsFiniteSet(Procs) /\ Procs \cap {"lock", "gate", Dead} = {}
ASSUME AttemptsAssumption == Attempts \in Nat \ {0} /\ MaxCrashes \in Nat
ASSUME SwitchesAssumption == GateLeft \in BOOLEAN

VARIABLES
    at,      \* the file of that name; every process has one name of its own (quarantine)
    pc,      \* the call a process makes next
    alive,
    round,   \* attempt of the for loop, 0 before it
    expect,  \* the text it has read and expects to rename, or the text of its own file
    verdict, \* what acquire will return: none yet, held, refused; released after release()
    mistaken \* history: a living process was taken for a dead one, see Mistake

vars == <<at, pc, alive, round, expect, verdict, mistaken>>

NoFile == [owner |-> Dead, kind |-> "none", round |-> 0, written |-> FALSE]
Files == [owner : Procs \cup {Dead}, kind : {"none", "lock", "gate"}, round : 0..Attempts,
          written : BOOLEAN]
Names == {"lock", "gate"} \cup Procs

\* A text is known by its token, that is by who made it, when and what for.
NoText == [owner |-> Dead, kind |-> "none", round |-> 0]
Texts == [owner : Procs \cup {Dead}, kind : {"none", "lock", "gate"}, round : 0..Attempts]

\* The text of a file; a file that is not yet written is empty, whoever made it.
Text(f) == IF f.written THEN [owner |-> f.owner, kind |-> f.kind, round |-> f.round] ELSE NoText

\* The states of a process, by the file the next call is about.
OnLock == {"open", "write", "look", "check", "claim", "judge", "reopen", "rewrite",
           "drop", "take", "shed"}
OnGate == {"enter", "sign", "peek", "oust", "weigh", "leave", "yield", "clear"}

TypeOK ==
    /\ at \in [Names -> Files]
    /\ pc \in [Procs -> OnLock \cup OnGate \cup {"working", "over"}]
    /\ alive \in [Procs -> BOOLEAN]
    /\ round \in [Procs -> 0..Attempts]
    /\ expect \in [Procs -> Texts]
    /\ verdict \in [Procs -> {"none", "held", "refused", "released"}]
    /\ mistaken \in BOOLEAN

Left(name) == {NoFile} \cup {[owner |-> Dead, kind |-> name, round |-> 0, written |-> w] : w \in BOOLEAN}

\* Earlier processes, all dead now, may have left a lock and a gate.
Init ==
    /\ \E l \in Left("lock"), g \in IF GateLeft THEN Left("gate") ELSE {NoFile} :
          at = [n \in Names |-> IF n = "lock" THEN l ELSE IF n = "gate" THEN g ELSE NoFile]
    /\ pc = [p \in Procs |-> "open"]
    /\ alive = [p \in Procs |-> TRUE]
    /\ round = [p \in Procs |-> 0]
    /\ expect = [p \in Procs |-> NoText]
    /\ verdict = [p \in Procs |-> "none"]
    /\ mistaken = FALSE

-----------------------------------------------------------------------------

Holds(p) == alive[p] /\ verdict[p] = "held"

\* A deviation: whoever is named is taken to be alive.
HolderNamed(f) == f.written

\* isHolderAlive of the pid that was read
HolderAlive(f) == f.written /\ f.owner \in Procs /\ alive[f.owner]

At(p, here) == alive[p] /\ pc[p] = here

Goes(p, next) == pc' = [pc EXCEPT ![p] = next]

\* What open(name, "wx") leaves: a file without a text.
Made(p, name) == [owner |-> p, kind |-> name, round |-> round[p], written |-> FALSE]
OwnText(p, name) == [owner |-> p, kind |-> name, round |-> round[p]]

IsOwn(f, p, name) == f.owner = p /\ f.kind = name /\ f.round = round[p]

WithText(f, w) == [owner |-> f.owner, kind |-> f.kind, round |-> f.round, written |-> w]

\* open(name, "wx")
Create(p, name) == at' = [at EXCEPT ![name] = Made(p, name)]

\* writeFile through the handle: it finds the file wherever it has been renamed to, and
\* succeeds even if the file is gone.
WriteText(p, name) ==
    at' = [n \in Names |->
             IF IsOwn(at[n], p, name) THEN WithText(at[n], TRUE) ELSE at[n]]

\* The next round of the loop, or the error after the last one.
NextRound(p) ==
    IF round[p] = Attempts
    THEN /\ verdict' = [verdict EXCEPT ![p] = "refused"]
         /\ Goes(p, "over")
         /\ UNCHANGED round
    ELSE /\ round' = [round EXCEPT ![p] = @ + 1]
         /\ Goes(p, "look")
         /\ UNCHANGED verdict

\* tryAcquireOnce, open: before the loop and under the gate.
OpenLock(p) ==
    /\ At(p, "open") \/ At(p, "reopen")
    /\ IF at["lock"] = NoFile
       THEN /\ Create(p, "lock")
            /\ Goes(p, IF pc[p] = "open" THEN "write" ELSE "rewrite")
            /\ UNCHANGED round
       ELSE /\ Goes(p, IF pc[p] = "open" THEN "look" ELSE "leave")
            /\ round' = IF pc[p] = "open" THEN [round EXCEPT ![p] = 1] ELSE round
            /\ UNCHANGED at
    /\ UNCHANGED <<alive, expect, verdict>>

\* tryAcquireOnce, writeFile: the lock is held; under the gate the gate is left next.
WriteLock(p) ==
    /\ At(p, "write") \/ At(p, "rewrite")
    /\ WriteText(p, "lock")
    /\ verdict' = [verdict EXCEPT ![p] = "held"]
    /\ Goes(p, IF pc[p] = "write" THEN "working" ELSE "leave")
    /\ UNCHANGED <<alive, round, expect>>

\* acquire: is there a living owner?
LookAtLock(p) ==
    /\ At(p, "look")
    /\ IF HolderAlive(at["lock"])
       THEN /\ verdict' = [verdict EXCEPT ![p] = "refused"]
            /\ Goes(p, "over")
       ELSE /\ Goes(p, "enter")
            /\ UNCHANGED verdict
    /\ UNCHANGED <<at, alive, round, expect>>

\* tryAcquireRecoveryGate, open
OpenGate(p) ==
    /\ At(p, "enter")
    /\ IF at["gate"] = NoFile
       THEN Create(p, "gate") /\ Goes(p, "sign")
       ELSE Goes(p, "peek") /\ UNCHANGED at
    /\ UNCHANGED <<alive, round, expect, verdict>>

\* tryAcquireRecoveryGate, writeFile
WriteGate(p) ==
    /\ At(p, "sign")
    /\ WriteText(p, "gate")
    /\ Goes(p, "check")
    /\ UNCHANGED <<alive, round, expect, verdict>>

\* tryAcquireRecoveryGate, the gate is there: it is claimed when its owner is dead.
LookAtGate(p) ==
    /\ At(p, "peek")
    /\ IF at["gate"] = NoFile \/ HolderAlive(at["gate"])
       THEN NextRound(p) /\ UNCHANGED expect
       ELSE /\ expect' = [expect EXCEPT ![p] = Text(at["gate"])]
            /\ Goes(p, "oust")
            /\ UNCHANGED <<round, verdict>>
    /\ UNCHANGED <<at, alive>>

\* A deviation: under the gate the owner is not looked at again.
LookAgainTrusting(p) ==
    /\ At(p, "check")
    /\ expect' = [expect EXCEPT ![p] = Text(at["lock"])]
    /\ Goes(p, IF at["lock"] = NoFile THEN "reopen" ELSE "claim")
    /\ UNCHANGED <<at, alive, round, verdict>>

\* acquire, under the gate: a second look at the lock.
LookAgain(p) ==
    /\ At(p, "check")
    /\ IF HolderAlive(at["lock"])
       THEN /\ verdict' = [verdict EXCEPT ![p] = "refused"]
            /\ Goes(p, "leave")
            /\ UNCHANGED expect
       ELSE IF at["lock"] = NoFile
       THEN Goes(p, "reopen") /\ UNCHANGED <<expect, verdict>>
       ELSE /\ expect' = [expect EXCEPT ![p] = Text(at["lock"])]
            /\ Goes(p, "claim")
            /\ UNCHANGED verdict
    /\ UNCHANGED <<at, alive, round>>

\* What follows the recovery gate's release: acquire returns, throws or goes on.
AfterGate(p) ==
    CASE verdict[p] = "held"    -> Goes(p, "working") /\ UNCHANGED <<round, verdict>>
      [] verdict[p] = "refused" -> Goes(p, "over") /\ UNCHANGED <<round, verdict>>
      [] OTHER                  -> NextRound(p)

Follows(p, here) ==
    CASE here \in {"claim", "judge"}         -> Goes(p, "reopen") /\ UNCHANGED <<round, verdict>>
      [] here \in {"oust", "weigh"}          -> NextRound(p)
      [] here \in {"leave", "yield", "clear"} -> AfterGate(p)
      [] here \in {"drop", "take", "shed"}   -> Goes(p, "over") /\ UNCHANGED <<round, verdict>>

\* What was expected is a local of a call that has returned.
Forgets(p) == expect' = [expect EXCEPT ![p] = NoText]

\* releaseOwnedPath, the first look: somebody else's file is left alone.
LookAtOwn(p, name, here, next) ==
    /\ At(p, here)
    /\ IF Text(at[name]) = OwnText(p, name)
       THEN /\ expect' = [expect EXCEPT ![p] = OwnText(p, name)]
            /\ Goes(p, next)
            /\ UNCHANGED <<round, verdict>>
       ELSE Follows(p, here) /\ Forgets(p)
    /\ UNCHANGED <<at, alive>>

\* claimStalePath and releaseOwnedPath: rename to a name of its own.
RenameAway(p, name, here, next) ==
    /\ At(p, here)
    /\ IF at[name] = NoFile
       THEN Follows(p, here) /\ Forgets(p) /\ UNCHANGED at
       ELSE /\ at' = [at EXCEPT ![p] = at[name], ![name] = NoFile]
            /\ Goes(p, next)
            /\ UNCHANGED <<round, expect, verdict>>
    /\ UNCHANGED alive

\* A deviation: what was renamed is removed unseen.
RemoveUnseen(p, name) == at' = [at EXCEPT ![p] = NoFile]

\* What was renamed is compared: removed, or renamed back over whatever is there now.
RemoveOrRestore(p, name) ==
    at' = IF Text(at[p]) = expect[p]
          THEN [at EXCEPT ![p] = NoFile]
          ELSE [at EXCEPT ![name] = at[p], ![p] = NoFile]

Compare(p, name, here) ==
    /\ At(p, here)
    /\ RemoveOrRestore(p, name)
    /\ Follows(p, here)
    /\ Forgets(p)
    /\ UNCHANGED alive

ClaimLock(p) == RenameAway(p, "lock", "claim", "judge") \/ Compare(p, "lock", "judge")
ClaimGate(p) == RenameAway(p, "gate", "oust", "weigh") \/ Compare(p, "gate", "weigh")
LeaveGate(p) ==
    \/ LookAtOwn(p, "gate", "leave", "yield")
    \/ RenameAway(p, "gate", "yield", "clear") \/ Compare(p, "gate", "clear")
DropLock(p) ==
    \/ LookAtOwn(p, "lock", "drop", "take")
    \/ RenameAway(p, "lock", "take", "shed") \/ Compare(p, "lock", "shed")

\* release: the handle is closed first; from here on the process is no instance any more.
Release(p) ==
    /\ At(p, "working")
    /\ verdict' = [verdict EXCEPT ![p] = "released"]
    /\ Goes(p, "drop")
    /\ UNCHANGED <<at, alive, round, expect>>

\* Between any two calls: its files stay as they are, also a file not yet written.
Crash(p) ==
    /\ alive[p]
    /\ Cardinality({q \in Procs : ~alive[q]}) < MaxCrashes
    /\ alive' = [alive EXCEPT ![p] = FALSE]
    /\ Goes(p, "over")
    /\ Forgets(p)
    /\ round' = [round EXCEPT ![p] = 0]
    /\ verdict' = [verdict EXCEPT ![p] = "none"]
    /\ UNCHANGED at

Step(p) ==
    \/ OpenLock(p) \/ WriteLock(p) \/ LookAtLock(p) \/ LookAgain(p) \/ ClaimLock(p)
    \/ OpenGate(p) \/ WriteGate(p) \/ LookAtGate(p) \/ ClaimGate(p) \/ LeaveGate(p)
    \/ DropLock(p)

OfLiving(f) == f.owner \in Procs /\ alive[f.owner]

\* The two ways of taking a living process for a dead one: under the gate, to see its lock before
\* the text and claim it; and to rename its gate away, or overwrite it by a renaming back, for
\* having meant the gate of somebody dead.
Mistake(p) ==
    \/ pc[p] = "check" /\ pc'[p] = "claim" /\ OfLiving(at["lock"]) /\ ~at["lock"].written
    \/ OfLiving(at["gate"]) /\ at["gate"].owner # p /\ at'["gate"] # at["gate"]

\* History only: nothing depends on it.
Remembers(p) == mistaken' = (mistaken \/ Mistake(p))

Next == \E p \in Procs : (Step(p) \/ Release(p) \/ Crash(p)) /\ Remembers(p)

Spec == Init /\ [][Next]_vars

\* Somebody goes on; as everybody is done after so many calls, that is enough.
FairSpec == Spec /\ WF_vars(\E p \in Procs : Step(p) /\ Remembers(p))
-----------------------------------------------------------------------------

\* At most one instance, as the refusal in acquire says it ("another instance is already
\* running"): no two living processes have returned from acquire and not yet begun to release.
MutualExclusion == \A p, q \in Procs : Holds(p) /\ Holds(q) => p = q

\* A holder's lock is in its place, with its text.
LocksInPlace == \A p \in Procs : Holds(p) => Text(at["lock"]) = OwnText(p, "lock")

\* Two processes hold the data root, or a holder loses its lock, only after one of the two
\* mistakes: starts, recoveries of dead owners' locks, releases, deaths in the gate and with the
\* lock, stale gates ousted and renamings undone do not do it in any order.
LostOnlyByMistake == mistaken \/ (MutualExclusion /\ LocksInPlace)

\* A stale lock or gate never keeps everybody out: unless it dies, one of the processes that try
\* gets the lock.
SomebodyWins ==
    <>(\E p \in Procs : verdict[p] \in {"held", "released"} \/ ~alive[p])
=============================================================================
