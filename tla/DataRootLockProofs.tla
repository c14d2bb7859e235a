-------------------------- MODULE DataRootLockProofs --------------------------
(***************************************************************************)
(* Proofs about DataRootLock, for any number of processes, rounds and      *)
(* deaths and whatever earlier processes have left: type correctness, and  *)
(* that two holders, or a holder without its lock, need one of the two     *)
(* mistakes: a claim of a living owner's lock that had no text yet, or a   *)
(* renaming that takes a living process's recovery gate.                   *)
(***************************************************************************)
EXTENDS DataRootLock, FiniteSetTheorems, TLAPS

USE ProcsAssumption, AttemptsAssumption, SwitchesAssumption

-----------------------------------------------------------------------------
(* Type correctness.                                                       *)

LEMMA NoFileIsFile == NoFile \in Files
  BY DEF NoFile, Files

LEMMA MadeIsFile ==
  ASSUME TypeOK, NEW p \in Procs, NEW name \in {"lock", "gate"}
  PROVE  Made(p, name) \in Files
  BY DEF TypeOK, Made, Files

LEMMA TextIsText ==
  ASSUME NEW f \in Files
  PROVE  Text(f) \in Texts
  BY DEF Files, Texts, Text, NoText

LEMMA OwnTextIsText ==
  ASSUME TypeOK, NEW p \in Procs, NEW name \in {"lock", "gate"}
  PROVE  OwnText(p, name) \in Texts
  BY DEF TypeOK, OwnText, Texts

\* A file whose text is written or lost is still a file.
LEMMA RewrittenIsFile ==
  ASSUME NEW f \in Files, NEW w \in BOOLEAN
  PROVE  WithText(f, w) \in Files
  BY DEF Files, WithText

Pcs == OnLock \cup OnGate \cup {"working", "over"}

LEMMA NextRoundType ==
  ASSUME TypeOK, NEW p \in Procs, NextRound(p)
  PROVE  /\ pc' \in [Procs -> Pcs]
         /\ round' \in [Procs -> 0..Attempts]
         /\ verdict' \in [Procs -> {"none", "held", "refused", "released"}]
  BY DEF TypeOK, NextRound, Goes, Pcs, OnLock, OnGate

LEMMA FollowsType ==
  ASSUME TypeOK, NEW p \in Procs,
         NEW here \in {"claim", "judge", "oust", "weigh", "leave", "yield", "clear",
                       "drop", "take", "shed"},
         Follows(p, here)
  PROVE  /\ pc' \in [Procs -> Pcs]
         /\ round' \in [Procs -> 0..Attempts]
         /\ verdict' \in [Procs -> {"none", "held", "refused", "released"}]
  <1>1. CASE NextRound(p)
    BY <1>1, NextRoundType
  <1>2. CASE \E next \in {"reopen", "working", "over"} : Goes(p, next) /\ UNCHANGED <<round, verdict>>
    BY <1>2 DEF TypeOK, Goes, Pcs, OnLock, OnGate
  <1>q. QED BY <1>1, <1>2 DEF Follows, AfterGate

LEMMA InitType == Init => TypeOK
  <1> SUFFICES ASSUME Init PROVE TypeOK
    OBVIOUS
  <1>1. PICK l \in Left("lock"), g \in IF GateLeft THEN Left("gate") ELSE {NoFile} :
           at = [n \in Names |-> IF n = "lock" THEN l ELSE IF n = "gate" THEN g ELSE NoFile]
    BY DEF Init
  <1>2. l \in Files /\ g \in Files
    BY NoFileIsFile DEF Left, Files
  <1>3. at \in [Names -> Files]
    BY <1>1, <1>2, NoFileIsFile
  <1>4. NoText \in Texts
    BY DEF NoText, Texts
  <1>5. mistaken \in BOOLEAN
    BY Zenon DEF Init
  <1>q. QED BY <1>3, <1>4, <1>5 DEF Init, TypeOK, OnLock

LEMMA NoTextIsText == NoText \in Texts
  BY DEF NoText, Texts

LEMMA CreateType ==
  ASSUME TypeOK, NEW p \in Procs, NEW name \in {"lock", "gate"}, Create(p, name)
  PROVE  at' \in [Names -> Files]
  <1>1. PICK f \in Files : f = Made(p, name)
    BY MadeIsFile
  <1>2. at' = [at EXCEPT ![name] = f]
    BY <1>1 DEF Create
  <1>q. QED BY <1>2 DEF TypeOK, Names

LEMMA WriteTextType ==
  ASSUME TypeOK, NEW p \in Procs, NEW name \in {"lock", "gate"}, WriteText(p, name)
  PROVE  at' \in [Names -> Files]
  <1> DEFINE file(n) == IF IsOwn(at[n], p, name) THEN WithText(at[n], TRUE) ELSE at[n]
  <1>1. ASSUME NEW n \in Names PROVE file(n) \in Files
    <2>1. at[n] \in Files
      BY DEF TypeOK
    <2>2. WithText(at[n], TRUE) \in Files
      BY <2>1, RewrittenIsFile
    <2>q. QED BY <2>1, <2>2
  <1>2. at' = [n \in Names |-> file(n)]
    BY DEF WriteText
  <1> HIDE DEF file
  <1>q. QED BY <1>1, <1>2

LEMMA RenameAwayType ==
  ASSUME TypeOK, NEW p \in Procs,
         NEW name \in {"lock", "gate"},
         NEW here \in {"claim", "oust", "yield", "take"},
         NEW next \in {"judge", "weigh", "clear", "shed"},
         RenameAway(p, name, here, next),
         mistaken' \in BOOLEAN
  PROVE  TypeOK'
  <1>1. CASE at[name] = NoFile
    BY <1>1, FollowsType, NoTextIsText DEF RenameAway, Forgets, TypeOK, Pcs
  <1>2. CASE at[name] # NoFile
    <2>1. at' \in [Names -> Files]
      BY <1>2, NoFileIsFile DEF RenameAway, TypeOK, Names
    <2>q. QED BY <1>2, <2>1 DEF RenameAway, TypeOK, Goes, OnLock, OnGate
  <1>q. QED BY <1>1, <1>2

LEMMA CompareType ==
  ASSUME TypeOK, NEW p \in Procs,
         NEW name \in {"lock", "gate"},
         NEW here \in {"judge", "weigh", "clear", "shed"},
         Compare(p, name, here),
         mistaken' \in BOOLEAN
  PROVE  TypeOK'
  <1>1. at' \in [Names -> Files]
    <2>1. PICK b \in BOOLEAN : b = (Text(at[p]) = expect[p])
      OBVIOUS
    <2>2. at' = IF b THEN [at EXCEPT ![p] = NoFile] ELSE [at EXCEPT ![name] = at[p], ![p] = NoFile]
      BY <2>1 DEF Compare, RemoveOrRestore
    <2>q. QED BY <2>2, NoFileIsFile DEF TypeOK, Names
  <1>q. QED BY <1>1, FollowsType, NoTextIsText DEF Compare, Forgets, TypeOK, Pcs

LEMMA LookAtOwnType ==
  ASSUME TypeOK, NEW p \in Procs,
         NEW name \in {"lock", "gate"},
         NEW here \in {"leave", "drop"},
         NEW next \in {"yield", "take"},
         LookAtOwn(p, name, here, next),
         mistaken' \in BOOLEAN
  PROVE  TypeOK'
  <1>1. PICK t \in Texts : t = OwnText(p, name)
    BY OwnTextIsText
  <1>2. CASE Text(at[name]) = t
    BY <1>1, <1>2 DEF LookAtOwn, TypeOK, Goes, OnLock, OnGate
  <1>3. CASE Text(at[name]) # t
    BY <1>1, <1>3, FollowsType, NoTextIsText DEF LookAtOwn, Forgets, TypeOK, Pcs
  <1>q. QED BY <1>2, <1>3

LEMMA StepType ==
  ASSUME TypeOK, NEW p \in Procs, Step(p), mistaken' \in BOOLEAN
  PROVE  TypeOK'
  <1>1. CASE OpenLock(p)
    <2>1. at' \in [Names -> Files]
      BY <1>1, CreateType DEF OpenLock, TypeOK
    <2>q. QED BY <1>1, <2>1 DEF OpenLock, TypeOK, Goes, OnLock, OnGate
  <1>2. CASE WriteLock(p)
    BY <1>2, WriteTextType DEF WriteLock, TypeOK, Goes, OnLock, OnGate
  <1>3. CASE LookAtLock(p)
    BY <1>3 DEF LookAtLock, TypeOK, Goes, OnLock, OnGate
  <1>4. CASE LookAgain(p)
    <2>1. Text(at["lock"]) \in Texts
      BY TextIsText DEF TypeOK, Names
    <2>q. QED BY <1>4, <2>1 DEF LookAgain, TypeOK, Goes, OnLock, OnGate
  <1>5. CASE ClaimLock(p)
    BY <1>5, RenameAwayType, CompareType DEF ClaimLock
  <1>6. CASE OpenGate(p)
    <2>1. at' \in [Names -> Files]
      BY <1>6, CreateType DEF OpenGate, TypeOK
    <2>q. QED BY <1>6, <2>1 DEF OpenGate, TypeOK, Goes, OnLock, OnGate
  <1>7. CASE WriteGate(p)
    BY <1>7, WriteTextType DEF WriteGate, TypeOK, Goes, OnLock, OnGate
  <1>8. CASE LookAtGate(p)
    <2>1. Text(at["gate"]) \in Texts
      BY TextIsText DEF TypeOK, Names
    <2>2. CASE at["gate"] = NoFile \/ HolderAlive(at["gate"])
      BY <1>8, <2>2, NextRoundType DEF LookAtGate, TypeOK, Pcs
    <2>3. CASE ~(at["gate"] = NoFile \/ HolderAlive(at["gate"]))
      BY <1>8, <2>1, <2>3 DEF LookAtGate, TypeOK, Goes, OnLock, OnGate
    <2>q. QED BY <2>2, <2>3
  <1>9. CASE ClaimGate(p)
    BY <1>9, RenameAwayType, CompareType DEF ClaimGate
  <1>10. CASE LeaveGate(p)
    BY <1>10, RenameAwayType, CompareType, LookAtOwnType DEF LeaveGate
  <1>11. CASE DropLock(p)
    BY <1>11, RenameAwayType, CompareType, LookAtOwnType DEF DropLock
  <1>q. QED BY <1>1, <1>2, <1>3, <1>4, <1>5, <1>6, <1>7, <1>8, <1>9, <1>10, <1>11 DEF Step

LEMMA CrashType ==
  ASSUME TypeOK, NEW p \in Procs, Crash(p), mistaken' \in BOOLEAN
  PROVE  TypeOK'
  BY NoTextIsText DEF Crash, Forgets, Goes, TypeOK, OnLock, OnGate

LEMMA ReleaseType ==
  ASSUME TypeOK, NEW p \in Procs, Release(p), mistaken' \in BOOLEAN
  PROVE  TypeOK'
  BY DEF Release, TypeOK, Goes, OnLock, OnGate

LEMMA RemembersType == ASSUME TypeOK, NEW p \in Procs, Remembers(p) PROVE mistaken' \in BOOLEAN
  BY DEF Remembers, TypeOK

\* Whatever the processes do, the files and the processes' own variables keep their shape: in
\* particular no process ever counts a round past its last one (lock.ts:51).
THEOREM TypeCorrect == Spec => []TypeOK
  <1>1. ASSUME TypeOK, [Next]_vars PROVE TypeOK'
    <2>1. CASE UNCHANGED vars
      BY <1>1, <2>1 DEF TypeOK, vars
    <2>2. ASSUME NEW p \in Procs, Step(p), Remembers(p) PROVE TypeOK'
      BY <1>1, <2>2, StepType, RemembersType
    <2>3. ASSUME NEW p \in Procs, Release(p), Remembers(p) PROVE TypeOK'
      <3>1. mistaken' \in BOOLEAN
        BY <1>1, <2>3, RemembersType
      <3>q. QED BY <1>1, <2>3, <3>1, ReleaseType
    <2>4. ASSUME NEW p \in Procs, Crash(p), Remembers(p) PROVE TypeOK'
      BY <1>1, <2>4, CrashType, RemembersType
    <2>q. QED BY <1>1, <2>1, <2>2, <2>3, <2>4 DEF Next
  <1>q. QED BY InitType, <1>1, PTL DEF Spec

-----------------------------------------------------------------------------
(* Who holds what, as long as no mistake has been made.                    *)

\* The gate and the lock a process has made in its present round, and how much is written of them.
GateOf(p) == [owner |-> p, kind |-> "gate", round |-> round[p], written |-> pc[p] # "sign"]
LockOf(p) ==
    [owner |-> p, kind |-> "lock", round |-> round[p], written |-> pc[p] \notin {"write", "rewrite"}]

\* Where a process has the gate, and where the lock: from creating the file to renaming it.
HasGate(p) == pc[p] \in {"sign", "check", "claim", "judge", "reopen", "rewrite", "leave", "yield"}
HasLock(p) ==
    \/ pc[p] \in {"write", "rewrite", "working", "drop", "take"}
    \/ pc[p] \in {"leave", "yield", "clear"} /\ verdict[p] = "held"

\* What a living process knows of the files: its gate and its lock are in their places until it
\* renames them, what it renamed is what it expected, and only a dead owner's lock is claimed.
Knows(p) == alive[p] =>
    /\ HasGate(p) => at["gate"] = GateOf(p)
    /\ HasLock(p) => at["lock"] = LockOf(p)
    /\ pc[p] = "claim" => at["lock"] # NoFile /\ ~OfLiving(at["lock"]) /\ Text(at["lock"]) = expect[p]
    /\ pc[p] = "judge" => ~OfLiving(at[p]) /\ Text(at[p]) = expect[p]
    /\ pc[p] = "yield" => expect[p] = OwnText(p, "gate")
    /\ pc[p] = "clear" => expect[p] = OwnText(p, "gate") /\ at[p] = GateOf(p)
    /\ pc[p] = "take" => expect[p] = OwnText(p, "lock")
    /\ pc[p] = "shed" => expect[p] = OwnText(p, "lock") /\ at[p] = LockOf(p)
    /\ verdict[p] = "held" => pc[p] \in {"leave", "yield", "clear", "working"}

AllKnow == \A p \in Procs : Knows(p)

Inv == TypeOK /\ AllKnow

LEMMA OwnFiles ==
  ASSUME NEW p \in Procs, NEW q \in Procs
  PROVE  /\ GateOf(p) # NoFile /\ GateOf(p).owner = p
         /\ LockOf(p) # NoFile /\ LockOf(p).owner = p
         /\ pc[p] # "sign" => Text(GateOf(p)) = OwnText(p, "gate")
         /\ pc[p] \notin {"write", "rewrite"} => Text(LockOf(p)) = OwnText(p, "lock")
         /\ GateOf(p) = GateOf(q) => p = q
         /\ LockOf(p) = LockOf(q) => p = q
         /\ p # Dead
         /\ NoFile.owner = Dead
  BY DEF GateOf, LockOf, NoFile, Text, OwnText

\* Without a mistake nobody else touches a living process's gate.
LEMMA GateStays ==
  ASSUME Inv, NEW p \in Procs, NEW q \in Procs, q # p, alive[q], HasGate(q), ~Mistake(p)
  PROVE  at'["gate"] = at["gate"]
  <1>1. at["gate"] = GateOf(q)
    BY DEF Inv, AllKnow, Knows
  <1>2. OfLiving(at["gate"]) /\ at["gate"].owner # p
    BY <1>1, OwnFiles DEF OfLiving
  <1>q. QED BY <1>2 DEF Mistake

\* What a process knows is disturbed by a step of another only through the two shared files and
\* through what it has renamed.
LEMMA OthersKnow ==
  ASSUME Inv, NEW p \in Procs, NEW q \in Procs, q # p, ~Mistake(p),
         \A r \in Procs : alive'[r] => alive[r],
         pc'[q] = pc[q], round'[q] = round[q], expect'[q] = expect[q], verdict'[q] = verdict[q],
         alive[q] /\ pc[q] \in {"judge", "clear", "shed"} => at'[q] = at[q],
         alive[q] /\ (HasLock(q) \/ pc[q] = "claim") => at'["lock"] = at["lock"]
  PROVE  Knows(q)'
  <1> SUFFICES ASSUME alive'[q] PROVE Knows(q)'
    BY DEF Knows
  <1>1. /\ GateOf(q)' = GateOf(q) /\ LockOf(q)' = LockOf(q)
        /\ OwnText(q, "gate")' = OwnText(q, "gate") /\ OwnText(q, "lock")' = OwnText(q, "lock")
        /\ HasGate(q)' = HasGate(q) /\ HasLock(q)' = HasLock(q)
    BY DEF GateOf, LockOf, OwnText, HasGate, HasLock
  <1>2. /\ at'[q] = at[q] => Text(at[q])' = Text(at[q])
        /\ at'["lock"] = at["lock"] => Text(at["lock"])' = Text(at["lock"])
    BY DEF Text
  <1>3. /\ at'["lock"] = at["lock"] /\ ~OfLiving(at["lock"]) => ~OfLiving(at["lock"])'
        /\ at'[q] = at[q] /\ ~OfLiving(at[q]) => ~OfLiving(at[q])'
    BY DEF OfLiving
  <1>4. alive[q] /\ Knows(q)
    BY DEF Inv, AllKnow
  <1>5. HasGate(q) => at'["gate"] = at["gate"]
    BY <1>4, GateStays
  <1>q. QED BY <1>1, <1>2, <1>3, <1>4, <1>5 DEF Knows

\* A step that leaves the lock's place and what the others have renamed alone.
LEMMA OthersUndisturbed ==
  ASSUME Inv, NEW p \in Procs, ~Mistake(p), alive' = alive, Knows(p)',
         at'["lock"] = at["lock"], \A q \in Procs \ {p} : at'[q] = at[q],
         \A q \in Procs \ {p} : /\ pc'[q] = pc[q] /\ round'[q] = round[q]
                                /\ expect'[q] = expect[q] /\ verdict'[q] = verdict[q]
  PROVE  AllKnow'
  <1>1. ASSUME NEW q \in Procs, q # p PROVE Knows(q)'
    BY <1>1, OthersKnow
  <1>q. QED BY <1>1 DEF AllKnow

LEMMA OpenLockKeeps ==
  ASSUME Inv, NEW p \in Procs, OpenLock(p), ~Mistake(p)
  PROVE  AllKnow'
  <1>0. alive[p] /\ pc[p] \in {"open", "reopen"} /\ Knows(p)
    BY DEF OpenLock, At, Inv, AllKnow
  <1>1. CASE at["lock"] = NoFile
    <2>1. /\ at' = [at EXCEPT !["lock"] = Made(p, "lock")] /\ UNCHANGED <<alive, round, expect, verdict>>
          /\ pc' = [pc EXCEPT ![p] = IF pc[p] = "open" THEN "write" ELSE "rewrite"]
      BY <1>1 DEF OpenLock, Create, Goes
    <2>2. /\ at'["gate"] = at["gate"] /\ at'["lock"] = Made(p, "lock")
          /\ \A n \in Names \ {"lock"} : at'[n] = at[n]
      BY <2>1 DEF Inv, TypeOK, Names
    <2>3. Knows(p)'
      <3>1. GateOf(p)' = GateOf(p) /\ Made(p, "lock") = LockOf(p)'
        BY <1>0, <2>1 DEF GateOf, LockOf, Made, Inv, TypeOK
      <3>q. QED BY <1>0, <2>1, <2>2, <3>1 DEF Inv, TypeOK, Knows, HasGate, HasLock
    <2>4. ASSUME NEW q \in Procs, q # p PROVE Knows(q)'
      <3>1. alive[q] => ~HasLock(q) /\ pc[q] # "claim"
        BY <1>1, OwnFiles DEF Inv, AllKnow, Knows
      <3>q. QED BY <2>1, <2>2, <2>4, <3>1, OthersKnow DEF Names, Inv, TypeOK
    <2>q. QED BY <2>3, <2>4 DEF AllKnow
  <1>2. CASE at["lock"] # NoFile
    <2>1. /\ at' = at /\ alive' = alive /\ expect' = expect /\ verdict' = verdict
          /\ pc' = [pc EXCEPT ![p] = IF pc[p] = "open" THEN "look" ELSE "leave"]
          /\ round' = IF pc[p] = "open" THEN [round EXCEPT ![p] = 1] ELSE round
      BY <1>2 DEF OpenLock, Goes
    <2>2. Knows(p)'
      <3>1. CASE pc[p] = "open"
        BY <1>0, <2>1, <3>1 DEF Inv, TypeOK, Knows, HasGate, HasLock
      <3>2. CASE pc[p] = "reopen"
        <4>1. GateOf(p)' = GateOf(p)
          BY <2>1, <3>2 DEF GateOf, Inv, TypeOK
        <4>q. QED BY <1>0, <2>1, <3>2, <4>1 DEF Inv, TypeOK, Knows, HasGate, HasLock
      <3>q. QED BY <1>0, <3>1, <3>2
    <2>q. QED BY <2>1, <2>2, OthersUndisturbed DEF Inv, TypeOK
  <1>q. QED BY <1>1, <1>2

\* The owner's writing reaches its file in its place and no other.
LEMMA WriteTextReaches ==
  ASSUME Inv, NEW p \in Procs, NEW name \in {"lock", "gate"}, WriteText(p, name),
         NEW n \in Names
  PROVE  /\ IsOwn(at[n], p, name) => at'[n] = WithText(at[n], TRUE)
         /\ ~IsOwn(at[n], p, name) => at'[n] = at[n]
  BY DEF WriteText

LEMMA OthersFilesUnwritten ==
  ASSUME Inv, NEW p \in Procs, alive[p], NEW name \in {"lock", "gate"}, WriteText(p, name),
         NEW q \in Procs, q # p, alive[q], pc[q] \in {"judge", "clear", "shed"}
  PROVE  at'[q] = at[q]
  <1>1. ~IsOwn(at[q], p, name)
    <2>1. CASE pc[q] = "judge"
      BY <2>1 DEF Inv, AllKnow, Knows, OfLiving, IsOwn
    <2>2. CASE pc[q] \in {"clear", "shed"}
      BY <2>2, OwnFiles DEF Inv, AllKnow, Knows, IsOwn
    <2>q. QED BY <2>1, <2>2
  <1>q. QED BY <1>1, WriteTextReaches DEF Names

LEMMA WriteLockKeeps ==
  ASSUME Inv, NEW p \in Procs, WriteLock(p), ~Mistake(p)
  PROVE  AllKnow'
  <1>1. /\ alive' = alive /\ expect' = expect /\ round' = round /\ WriteText(p, "lock")
        /\ pc' = [pc EXCEPT ![p] = IF pc[p] = "write" THEN "working" ELSE "leave"]
        /\ verdict' = [verdict EXCEPT ![p] = "held"]
        /\ alive[p] /\ pc[p] \in {"write", "rewrite"} /\ Knows(p)
    BY DEF WriteLock, At, Goes, Inv, AllKnow
  <1>2. at["lock"] = LockOf(p)
    BY <1>1 DEF Knows, HasLock
  <1>3. at'["lock"] = LockOf(p)'
    <2>0. IsOwn(at["lock"], p, "lock")
      BY <1>2 DEF IsOwn, LockOf
    <2>n. "lock" \in Names /\ "lock" \in {"lock", "gate"}
      BY DEF Names
    <2>a. at'["lock"] = WithText(at["lock"], TRUE)
      BY <1>1, <2>0, <2>n, WriteTextReaches
    <2>1. at'["lock"] = WithText(LockOf(p), TRUE)
      BY <1>2, <2>a
    <2>2. WithText(LockOf(p), TRUE) = LockOf(p)'
      BY <1>1 DEF WithText, LockOf, Inv, TypeOK
    <2>q. QED BY <2>1, <2>2
  <1>4. HasGate(p) => at'["gate"] = at["gate"] /\ GateOf(p)' = GateOf(p)
    <2>1. ASSUME HasGate(p) PROVE ~IsOwn(at["gate"], p, "lock")
      BY <1>1, <2>1 DEF Knows, GateOf, IsOwn
    <2>q. QED BY <1>1, <2>1, WriteTextReaches DEF GateOf, Names, Inv, TypeOK
  <1>5. Knows(p)'
    BY <1>1, <1>3, <1>4 DEF Inv, TypeOK, Knows, HasGate, HasLock
  <1>6. ASSUME NEW q \in Procs, q # p PROVE Knows(q)'
    <2>1. alive[q] => ~HasLock(q) /\ pc[q] # "claim"
      BY <1>1, <1>2, <1>6, OwnFiles DEF Inv, AllKnow, Knows, OfLiving
    <2>q. QED BY <1>1, <1>6, <2>1, OthersFilesUnwritten, OthersKnow DEF Inv, TypeOK
  <1>q. QED BY <1>5, <1>6 DEF AllKnow

LEMMA LookAtLockKeeps ==
  ASSUME Inv, NEW p \in Procs, LookAtLock(p), ~Mistake(p)
  PROVE  AllKnow'
  <1>1. Knows(p)'
    BY DEF LookAtLock, At, Goes, Inv, AllKnow, TypeOK, Knows, HasGate, HasLock
  <1>q. QED BY <1>1, OthersUndisturbed DEF LookAtLock, Goes, Inv, TypeOK

LEMMA OpenGateKeeps ==
  ASSUME Inv, NEW p \in Procs, OpenGate(p), ~Mistake(p)
  PROVE  AllKnow'
  <1>0. alive[p] /\ pc[p] = "enter" /\ Knows(p)
    BY DEF OpenGate, At, Inv, AllKnow
  <1>1. CASE at["gate"] = NoFile
    <2>1. /\ at' = [at EXCEPT !["gate"] = Made(p, "gate")] /\ UNCHANGED <<alive, round, expect, verdict>>
          /\ pc' = [pc EXCEPT ![p] = "sign"]
      BY <1>1 DEF OpenGate, Create, Goes
    <2>2. /\ at'["lock"] = at["lock"] /\ at'["gate"] = Made(p, "gate")
          /\ \A n \in Names \ {"gate"} : at'[n] = at[n]
      BY <2>1 DEF Inv, TypeOK, Names
    <2>3. Made(p, "gate") = GateOf(p)'
      BY <2>1 DEF GateOf, Made, Inv, TypeOK
    <2>4. Knows(p)'
      BY <1>0, <2>1, <2>2, <2>3 DEF Inv, TypeOK, Knows, HasGate, HasLock
    <2>q. QED BY <2>1, <2>2, <2>4, OthersUndisturbed DEF Inv, TypeOK, Names
  <1>2. CASE at["gate"] # NoFile
    <2>1. Knows(p)'
      BY <1>2 DEF OpenGate, At, Goes, Inv, AllKnow, TypeOK, Knows, HasGate, HasLock
    <2>q. QED BY <1>2, <2>1, OthersUndisturbed DEF OpenGate, Goes, Inv, TypeOK
  <1>q. QED BY <1>1, <1>2

LEMMA WriteGateKeeps ==
  ASSUME Inv, NEW p \in Procs, WriteGate(p), ~Mistake(p)
  PROVE  AllKnow'
  <1>1. /\ alive' = alive /\ expect' = expect /\ round' = round /\ verdict' = verdict
        /\ WriteText(p, "gate") /\ pc' = [pc EXCEPT ![p] = "check"]
        /\ alive[p] /\ pc[p] = "sign" /\ Knows(p)
    BY DEF WriteGate, At, Goes, Inv, AllKnow
  <1>2. at'["gate"] = GateOf(p)'
    <2>1. at["gate"] = GateOf(p)
      BY <1>1 DEF Knows, HasGate
    <2>0. IsOwn(at["gate"], p, "gate")
      BY <2>1 DEF IsOwn, GateOf
    <2>n. "gate" \in Names /\ "gate" \in {"lock", "gate"}
      BY DEF Names
    <2>a. at'["gate"] = WithText(at["gate"], TRUE)
      BY <1>1, <2>0, <2>n, WriteTextReaches
    <2>2. at'["gate"] = WithText(GateOf(p), TRUE)
      BY <2>1, <2>a
    <2>3. WithText(GateOf(p), TRUE) = GateOf(p)'
      BY <1>1 DEF WithText, GateOf, Inv, TypeOK
    <2>q. QED BY <2>2, <2>3
  <1>3. Knows(p)'
    BY <1>1, <1>2 DEF Inv, TypeOK, Knows, HasGate, HasLock
  <1>4. ASSUME NEW q \in Procs, q # p PROVE Knows(q)'
    <2>1. ASSUME alive[q], HasLock(q) \/ pc[q] = "claim" PROVE at'["lock"] = at["lock"]
      <3>1. ~IsOwn(at["lock"], p, "gate")
        BY <1>1, <1>4, <2>1, OwnFiles DEF Inv, AllKnow, Knows, OfLiving, IsOwn
      <3>q. QED BY <1>1, <3>1, WriteTextReaches DEF Names
    <2>q. QED BY <1>1, <1>4, <2>1, OthersFilesUnwritten, OthersKnow DEF Inv, TypeOK
  <1>q. QED BY <1>3, <1>4 DEF AllKnow

\* Between rounds and after the last one there is nothing to know of the files.
LEMMA NextRoundKnows ==
  ASSUME Inv, NEW p \in Procs, NextRound(p), verdict[p] # "held"
  PROVE  /\ Knows(p)'
         /\ \A q \in Procs \ {p} : pc'[q] = pc[q] /\ round'[q] = round[q] /\ verdict'[q] = verdict[q]
  BY DEF NextRound, Goes, Inv, TypeOK, Knows, HasGate, HasLock

LEMMA AfterGateKnows ==
  ASSUME Inv, NEW p \in Procs, AfterGate(p), pc[p] \in {"leave", "yield", "clear"},
         at'["lock"] = at["lock"], alive' = alive
  PROVE  /\ Knows(p)'
         /\ \A q \in Procs \ {p} : pc'[q] = pc[q] /\ round'[q] = round[q] /\ verdict'[q] = verdict[q]
  <1>1. CASE verdict[p] = "held"
    <2>1. pc' = [pc EXCEPT ![p] = "working"] /\ round' = round /\ verdict' = verdict
      BY <1>1 DEF AfterGate, Goes
    <2>2. LockOf(p)' = LockOf(p)
      BY <2>1 DEF LockOf, Inv, TypeOK
    <2>3. alive[p] => at["lock"] = LockOf(p)
      BY <1>1 DEF Inv, AllKnow, Knows, HasLock
    <2>q. QED BY <2>1, <2>2, <2>3 DEF Inv, TypeOK, Knows, HasGate, HasLock
  <1>2. CASE verdict[p] = "refused"
    <2>1. pc' = [pc EXCEPT ![p] = "over"] /\ round' = round /\ verdict' = verdict
      BY <1>2 DEF AfterGate, Goes
    <2>q. QED BY <1>2, <2>1 DEF Inv, TypeOK, Knows, HasGate, HasLock
  <1>3. CASE verdict[p] \notin {"held", "refused"}
    <2>1. NextRound(p)
      BY <1>3 DEF AfterGate
    <2>q. QED BY <1>3, <2>1, NextRoundKnows
  <1>q. QED BY <1>1, <1>2, <1>3

LEMMA LookAtGateKeeps ==
  ASSUME Inv, NEW p \in Procs, LookAtGate(p), ~Mistake(p)
  PROVE  AllKnow'
  <1>1. alive[p] /\ pc[p] = "peek" /\ verdict[p] # "held" /\ at' = at /\ alive' = alive
    BY DEF LookAtGate, At, Inv, AllKnow, Knows
  <1>2. CASE NextRound(p) /\ expect' = expect
    BY <1>1, <1>2, NextRoundKnows, OthersUndisturbed
  <1>3. CASE ~(at["gate"] = NoFile \/ HolderAlive(at["gate"]))
    <2>1. /\ pc' = [pc EXCEPT ![p] = "oust"] /\ round' = round /\ verdict' = verdict
          /\ expect' = [expect EXCEPT ![p] = Text(at["gate"])]
      BY <1>3 DEF LookAtGate, Goes
    <2>2. Knows(p)'
      BY <1>1, <2>1 DEF Inv, TypeOK, Knows, HasGate, HasLock
    <2>q. QED BY <1>1, <2>1, <2>2, OthersUndisturbed DEF Inv, TypeOK
  <1>q. QED BY <1>2, <1>3 DEF LookAtGate

\* Ousting concerns the gate alone, and without a mistake no living process's.
LEMMA ClaimGateKeeps ==
  ASSUME Inv, NEW p \in Procs, ClaimGate(p), ~Mistake(p)
  PROVE  AllKnow'
  <1>1. alive[p] /\ pc[p] \in {"oust", "weigh"} /\ verdict[p] # "held"
    BY DEF ClaimGate, RenameAway, Compare, At, Inv, AllKnow, Knows
  <1>2. /\ alive' = alive /\ at'["lock"] = at["lock"] /\ \A q \in Procs \ {p} : at'[q] = at[q]
        /\ \A q \in Procs \ {p} : expect'[q] = expect[q]
    <2>0. p # "lock" /\ p # "gate" /\ \A q \in Procs \ {p} : q # p /\ q # "gate"
      BY ProcsAssumption
    <2>t. /\ \A n \in {"lock"} \cup Procs : n \in DOMAIN at
          /\ \A q \in Procs : q \in DOMAIN expect
          /\ at \in [Names -> Files] /\ expect \in [Procs -> Texts]
      BY DEF Inv, TypeOK, Names
    <2>1. CASE RenameAway(p, "gate", "oust", "weigh")
      <3>1. alive' = alive /\ (expect' = expect \/ Forgets(p))
        BY <2>1 DEF RenameAway
      <3>2. at' = at \/ at' = [at EXCEPT ![p] = at["gate"], !["gate"] = NoFile]
        BY <2>1 DEF RenameAway
      <3>q. QED BY <2>0, <2>t, <3>1, <3>2 DEF Forgets
    <2>2. CASE Compare(p, "gate", "weigh")
      <3>1. alive' = alive /\ Forgets(p)
        BY <2>2 DEF Compare
      <3>2. \/ at' = [at EXCEPT ![p] = NoFile]
            \/ at' = [at EXCEPT !["gate"] = at[p], ![p] = NoFile]
        BY <2>2 DEF Compare, RemoveOrRestore
      <3>q. QED BY <2>0, <2>t, <3>1, <3>2 DEF Forgets
    <2>q. QED BY <2>1, <2>2 DEF ClaimGate
  <1>3. CASE NextRound(p)
    BY <1>1, <1>2, <1>3, NextRoundKnows, OthersUndisturbed
  <1>4. CASE Goes(p, "weigh") /\ UNCHANGED <<round, verdict>>
    <2>1. Knows(p)'
      BY <1>1, <1>4 DEF Goes, Inv, TypeOK, Knows, HasGate, HasLock
    <2>q. QED BY <1>2, <1>4, <2>1, OthersUndisturbed DEF Goes, Inv, TypeOK
  <1>5. NextRound(p) \/ (Goes(p, "weigh") /\ UNCHANGED <<round, verdict>>)
    BY DEF ClaimGate, RenameAway, Compare, Follows
  <1>q. QED BY <1>3, <1>4, <1>5

LEMMA LookAgainKeeps ==
  ASSUME Inv, NEW p \in Procs, LookAgain(p), ~Mistake(p)
  PROVE  AllKnow'
  <1>1. /\ at' = at /\ alive' = alive /\ round' = round
        /\ alive[p] /\ pc[p] = "check" /\ at["gate"] = GateOf(p) /\ verdict[p] # "held"
    BY DEF LookAgain, At, Inv, AllKnow, Knows, HasGate
  <1>2. pc'[p] # "sign" => GateOf(p)' = GateOf(p)
    BY <1>1 DEF GateOf
  <1>3. CASE HolderAlive(at["lock"])
    <2>1. Knows(p)'
      BY <1>1, <1>2, <1>3 DEF LookAgain, Goes, Inv, TypeOK, Knows, HasGate, HasLock
    <2>q. QED BY <1>1, <1>3, <2>1, OthersUndisturbed DEF LookAgain, Goes, Inv, TypeOK
  <1>4. CASE at["lock"] = NoFile
    <2>1. ~HolderAlive(at["lock"])
      BY <1>4 DEF NoFile, HolderAlive
    <2>2. Knows(p)'
      BY <1>1, <1>2, <1>4, <2>1 DEF LookAgain, Goes, Inv, TypeOK, Knows, HasGate, HasLock
    <2>q. QED BY <1>1, <1>4, <2>1, <2>2, OthersUndisturbed DEF LookAgain, Goes, Inv, TypeOK
  <1>5. CASE ~HolderAlive(at["lock"]) /\ at["lock"] # NoFile
    <2>1. /\ pc' = [pc EXCEPT ![p] = "claim"] /\ verdict' = verdict
          /\ expect' = [expect EXCEPT ![p] = Text(at["lock"])]
      BY <1>5 DEF LookAgain, Goes
    <2>2. pc'[p] = "claim"
      BY <2>1 DEF Inv, TypeOK
    <2>3. ~OfLiving(at["lock"])
      <3>1. at["lock"].written => ~OfLiving(at["lock"])
        BY <1>5 DEF HolderAlive, OfLiving
      <3>2. OfLiving(at["lock"]) => at["lock"].written
        BY <1>1, <2>2, Zenon DEF Mistake
      <3>q. QED BY <3>1, <3>2
    <2>4. Text(at["lock"])' = Text(at["lock"]) /\ OfLiving(at["lock"])' = OfLiving(at["lock"])
      BY <1>1 DEF Text, OfLiving
    <2>5. Knows(p)'
      BY <1>1, <1>2, <1>5, <2>1, <2>2, <2>3, <2>4 DEF Inv, TypeOK, Knows, HasGate, HasLock
    <2>q. QED BY <1>1, <2>1, <2>5, OthersUndisturbed DEF Inv, TypeOK
  <1>q. QED BY <1>3, <1>4, <1>5

\* claimStalePath: what is renamed is the dead owner's lock that was looked at under the gate.
LEMMA ClaimLockKeeps ==
  ASSUME Inv, NEW p \in Procs, ClaimLock(p), ~Mistake(p)
  PROVE  AllKnow'
  <1>1. CASE RenameAway(p, "lock", "claim", "judge")
    <2>1. /\ alive[p] /\ pc[p] = "claim" /\ at["lock"] # NoFile /\ ~OfLiving(at["lock"])
          /\ Text(at["lock"]) = expect[p] /\ at["gate"] = GateOf(p) /\ verdict[p] # "held"
      BY <1>1 DEF RenameAway, At, Inv, AllKnow, Knows, HasGate
    <2>2. /\ at' = [at EXCEPT ![p] = at["lock"], !["lock"] = NoFile]
          /\ pc' = [pc EXCEPT ![p] = "judge"] /\ UNCHANGED <<alive, round, expect, verdict>>
      BY <1>1, <2>1 DEF RenameAway, Goes
    <2>3. /\ at'["gate"] = at["gate"] /\ at'[p] = at["lock"] /\ at'["lock"] = NoFile
          /\ \A n \in Names \ {p, "lock"} : at'[n] = at[n]
      BY <2>2 DEF Inv, TypeOK, Names
    <2>4. pc'[p] = "judge"
      BY <2>2 DEF Inv, TypeOK
    <2>5. /\ GateOf(p)' = GateOf(p) /\ Text(at[p])' = Text(at["lock"])
          /\ OfLiving(at[p])' = OfLiving(at["lock"])
      BY <2>1, <2>2, <2>3, <2>4 DEF GateOf, Text, OfLiving
    <2>6. Knows(p)'
      BY <2>1, <2>2, <2>3, <2>4, <2>5 DEF Knows, HasGate, HasLock
    <2>7. ASSUME NEW q \in Procs, q # p PROVE Knows(q)'
      <3>1. ASSUME alive[q] PROVE ~HasLock(q) /\ pc[q] # "claim"
        <4>1. OfLiving(LockOf(q))
          BY <3>1, OwnFiles DEF OfLiving
        <4>q. QED BY <2>1, <2>7, <3>1, <4>1, OwnFiles DEF Inv, AllKnow, Knows, HasGate
      <3>q. QED BY <2>2, <2>3, <2>7, <3>1, OthersKnow DEF Inv, TypeOK, Names
    <2>q. QED BY <2>6, <2>7 DEF AllKnow
  <1>2. CASE Compare(p, "lock", "judge")
    <2>1. /\ alive[p] /\ pc[p] = "judge" /\ Text(at[p]) = expect[p] /\ at["gate"] = GateOf(p)
          /\ verdict[p] # "held"
      BY <1>2 DEF Compare, At, Inv, AllKnow, Knows, HasGate
    <2>2. /\ at' = [at EXCEPT ![p] = NoFile] /\ expect' = [expect EXCEPT ![p] = NoText]
          /\ pc' = [pc EXCEPT ![p] = "reopen"] /\ UNCHANGED <<alive, round, verdict>>
      BY <1>2, <2>1 DEF Compare, RemoveOrRestore, Follows, Goes, Forgets
    <2>3. at'["gate"] = at["gate"] /\ at'["lock"] = at["lock"] /\ at'[p] = NoFile
          /\ \A n \in Names \ {p} : at'[n] = at[n]
      BY <2>2 DEF Inv, TypeOK, Names
    <2>4. pc'[p] = "reopen"
      BY <2>2 DEF Inv, TypeOK
    <2>5. GateOf(p)' = GateOf(p)
      BY <2>1, <2>2, <2>4 DEF GateOf
    <2>6. Knows(p)'
      BY <2>1, <2>2, <2>3, <2>4, <2>5 DEF Knows, HasGate, HasLock
    <2>q. QED BY <2>2, <2>3, <2>6, OthersUndisturbed DEF Names, Inv, TypeOK
  <1>q. QED BY <1>1, <1>2 DEF ClaimLock

\* releaseOwnedPath, on the way out of a recovery: the gate was this process's all the time.
LEMMA LeaveGateKeeps ==
  ASSUME Inv, NEW p \in Procs, LeaveGate(p), ~Mistake(p)
  PROVE  AllKnow'
  <1>1. CASE LookAtOwn(p, "gate", "leave", "yield")
    <2>1. alive[p] /\ pc[p] = "leave" /\ at' = at /\ alive' = alive /\ Knows(p)
      BY <1>1 DEF LookAtOwn, At, Inv, AllKnow
    <2>2. Text(at["gate"]) = OwnText(p, "gate")
      BY <2>1, OwnFiles DEF Knows, HasGate
    <2>3. /\ pc' = [pc EXCEPT ![p] = "yield"] /\ round' = round /\ verdict' = verdict
          /\ expect' = [expect EXCEPT ![p] = OwnText(p, "gate")]
      BY <1>1, <2>2 DEF LookAtOwn, Goes
    <2>4. GateOf(p)' = GateOf(p) /\ LockOf(p)' = LockOf(p) /\ OwnText(p, "gate")' = OwnText(p, "gate")
      BY <2>1, <2>3 DEF GateOf, LockOf, OwnText, Inv, TypeOK
    <2>5. Knows(p)'
      BY <2>1, <2>3, <2>4 DEF Inv, TypeOK, Knows, HasGate, HasLock
    <2>q. QED BY <2>1, <2>3, <2>5, OthersUndisturbed DEF Inv, TypeOK
  <1>2. CASE RenameAway(p, "gate", "yield", "clear")
    <2>1. /\ alive[p] /\ pc[p] = "yield" /\ at["gate"] = GateOf(p) /\ expect[p] = OwnText(p, "gate")
          /\ Knows(p)
      BY <1>2 DEF RenameAway, At, Inv, AllKnow, Knows, HasGate
    <2>2. /\ at' = [at EXCEPT ![p] = at["gate"], !["gate"] = NoFile]
          /\ pc' = [pc EXCEPT ![p] = "clear"] /\ UNCHANGED <<alive, round, expect, verdict>>
      BY <1>2, <2>1, OwnFiles DEF RenameAway, Goes
    <2>3. /\ at'["lock"] = at["lock"] /\ at'[p] = at["gate"]
          /\ \A n \in Names \ {p, "gate"} : at'[n] = at[n]
      BY <2>2 DEF Inv, TypeOK, Names
    <2>4. pc'[p] = "clear"
      BY <2>2 DEF Inv, TypeOK
    <2>5. /\ GateOf(p)' = GateOf(p) /\ LockOf(p)' = LockOf(p)
          /\ OwnText(p, "gate")' = OwnText(p, "gate")
      BY <2>1, <2>2, <2>4 DEF GateOf, LockOf, OwnText
    <2>6. Knows(p)'
      BY <2>1, <2>2, <2>3, <2>4, <2>5 DEF Knows, HasGate, HasLock
    <2>q. QED BY <2>2, <2>3, <2>6, OthersUndisturbed DEF Names, Inv, TypeOK
  <1>3. CASE Compare(p, "gate", "clear")
    <2>1. alive[p] /\ pc[p] = "clear" /\ Text(at[p]) = expect[p]
      BY <1>3, OwnFiles DEF Compare, At, Inv, AllKnow, Knows
    <2>2. /\ at' = [at EXCEPT ![p] = NoFile] /\ expect' = [expect EXCEPT ![p] = NoText]
          /\ alive' = alive /\ AfterGate(p)
      BY <1>3, <2>1 DEF Compare, RemoveOrRestore, Follows, Forgets
    <2>3. at'["lock"] = at["lock"] /\ \A n \in Names \ {p} : at'[n] = at[n]
      BY <2>2 DEF Inv, TypeOK, Names
    <2>4. /\ Knows(p)'
          /\ \A q \in Procs \ {p} : pc'[q] = pc[q] /\ round'[q] = round[q] /\ verdict'[q] = verdict[q]
      BY <2>1, <2>2, <2>3, AfterGateKnows
    <2>q. QED BY <2>2, <2>3, <2>4, OthersUndisturbed DEF Names, Inv, TypeOK
  <1>q. QED BY <1>1, <1>2, <1>3 DEF LeaveGate

\* releaseOwnedPath, for the lock: what is renamed and removed is the process's own.
LEMMA DropLockKeeps ==
  ASSUME Inv, NEW p \in Procs, DropLock(p), ~Mistake(p)
  PROVE  AllKnow'
  <1>1. CASE LookAtOwn(p, "lock", "drop", "take")
    <2>1. alive[p] /\ pc[p] = "drop" /\ at' = at /\ alive' = alive /\ Knows(p)
      BY <1>1 DEF LookAtOwn, At, Inv, AllKnow
    <2>2. Text(at["lock"]) = OwnText(p, "lock")
      BY <2>1, OwnFiles DEF Knows, HasLock
    <2>3. /\ pc' = [pc EXCEPT ![p] = "take"] /\ round' = round /\ verdict' = verdict
          /\ expect' = [expect EXCEPT ![p] = OwnText(p, "lock")]
      BY <1>1, <2>2 DEF LookAtOwn, Goes
    <2>4. LockOf(p)' = LockOf(p) /\ OwnText(p, "lock")' = OwnText(p, "lock")
      BY <2>1, <2>3 DEF LockOf, OwnText, Inv, TypeOK
    <2>5. Knows(p)'
      BY <2>1, <2>3, <2>4 DEF Inv, TypeOK, Knows, HasGate, HasLock
    <2>q. QED BY <2>1, <2>3, <2>5, OthersUndisturbed DEF Inv, TypeOK
  <1>2. CASE RenameAway(p, "lock", "take", "shed")
    <2>1. /\ alive[p] /\ pc[p] = "take" /\ at["lock"] = LockOf(p) /\ expect[p] = OwnText(p, "lock")
          /\ Knows(p)
      BY <1>2 DEF RenameAway, At, Inv, AllKnow, Knows, HasLock
    <2>2. /\ at' = [at EXCEPT ![p] = at["lock"], !["lock"] = NoFile]
          /\ pc' = [pc EXCEPT ![p] = "shed"] /\ UNCHANGED <<alive, round, expect, verdict>>
      BY <1>2, <2>1, OwnFiles DEF RenameAway, Goes
    <2>3. /\ at'["gate"] = at["gate"] /\ at'[p] = at["lock"] /\ at'["lock"] = NoFile
          /\ \A n \in Names \ {p, "lock"} : at'[n] = at[n]
      BY <2>2 DEF Inv, TypeOK, Names
    <2>4. pc'[p] = "shed"
      BY <2>2 DEF Inv, TypeOK
    <2>5. LockOf(p)' = LockOf(p) /\ OwnText(p, "lock")' = OwnText(p, "lock")
      BY <2>1, <2>2, <2>4 DEF LockOf, OwnText
    <2>6. Knows(p)'
      BY <2>1, <2>2, <2>3, <2>4, <2>5 DEF Knows, HasGate, HasLock
    <2>7. ASSUME NEW q \in Procs, q # p PROVE Knows(q)'
      <3>1. alive[q] => ~HasLock(q) /\ pc[q] # "claim"
        BY <2>1, <2>7, OwnFiles DEF Inv, AllKnow, Knows, OfLiving
      <3>q. QED BY <2>2, <2>3, <2>7, <3>1, OthersKnow DEF Inv, TypeOK, Names
    <2>q. QED BY <2>6, <2>7 DEF AllKnow
  <1>3. CASE Compare(p, "lock", "shed")
    <2>1. alive[p] /\ pc[p] = "shed" /\ Text(at[p]) = expect[p] /\ verdict[p] # "held"
      BY <1>3, OwnFiles DEF Compare, At, Inv, AllKnow, Knows
    <2>2. /\ at' = [at EXCEPT ![p] = NoFile] /\ expect' = [expect EXCEPT ![p] = NoText]
          /\ alive' = alive /\ pc' = [pc EXCEPT ![p] = "over"] /\ UNCHANGED <<round, verdict>>
      BY <1>3, <2>1 DEF Compare, RemoveOrRestore, Follows, Goes, Forgets
    <2>3. at'["lock"] = at["lock"] /\ \A n \in Names \ {p} : at'[n] = at[n]
      BY <2>2 DEF Inv, TypeOK, Names
    <2>4. Knows(p)'
      BY <2>1, <2>2 DEF Inv, TypeOK, Knows, HasGate, HasLock
    <2>q. QED BY <2>2, <2>3, <2>4, OthersUndisturbed DEF Names, Inv, TypeOK
  <1>q. QED BY <1>1, <1>2, <1>3 DEF DropLock

LEMMA ReleaseKeeps ==
  ASSUME Inv, NEW p \in Procs, Release(p), ~Mistake(p)
  PROVE  AllKnow'
  <1>1. LockOf(p)' = LockOf(p)
    BY DEF Release, At, Goes, LockOf, Inv, TypeOK
  <1>2. Knows(p)'
    BY <1>1 DEF Release, At, Goes, Inv, AllKnow, TypeOK, Knows, HasGate, HasLock
  <1>q. QED BY <1>2, OthersUndisturbed DEF Release, Goes, Inv, TypeOK

\* A death changes no file, and what was stale stays so.
LEMMA CrashKeeps ==
  ASSUME Inv, NEW p \in Procs, Crash(p), ~Mistake(p)
  PROVE  AllKnow'
  <1>1. /\ at' = at /\ ~alive'[p] /\ \A q \in Procs : alive'[q] => alive[q]
        /\ \A q \in Procs \ {p} : /\ pc'[q] = pc[q] /\ round'[q] = round[q]
                                  /\ expect'[q] = expect[q] /\ verdict'[q] = verdict[q]
    BY DEF Crash, Goes, Forgets, Inv, TypeOK
  <1>2. ASSUME NEW q \in Procs, q # p PROVE Knows(q)'
    BY <1>1, <1>2, OthersKnow
  <1>q. QED BY <1>1, <1>2 DEF AllKnow, Knows

-----------------------------------------------------------------------------
(* The theorem.                                                            *)

IInv == TypeOK /\ (mistaken \/ AllKnow)

LEMMA InitKnows == Init => IInv
  <1> SUFFICES ASSUME Init PROVE IInv
    OBVIOUS
  <1>1. AllKnow
    BY DEF Init, AllKnow, Knows, HasGate, HasLock
  <1>q. QED BY <1>1, InitType DEF IInv

LEMMA NextKeeps == ASSUME IInv, [Next]_vars PROVE IInv'
  <1>1. CASE UNCHANGED vars
    BY <1>1 DEF vars, IInv, TypeOK, AllKnow, OfLiving, Knows, HasGate, HasLock, GateOf, LockOf,
                OwnText, Text
  <1>2. ASSUME NEW p \in Procs, Step(p) \/ Release(p) \/ Crash(p), Remembers(p) PROVE IInv'
    <2>1. TypeOK'
      <3>1. mistaken' \in BOOLEAN
        BY <1>2, RemembersType DEF IInv
      <3>q. QED BY <1>2, <3>1, StepType, ReleaseType, CrashType DEF IInv
    <2>2. ASSUME ~mistaken' PROVE AllKnow'
      <3>1. ~mistaken /\ ~Mistake(p)
        BY <1>2, <2>2, Zenon DEF Remembers
      <3>2. Inv
        BY <3>1 DEF IInv, Inv
      <3>q. QED BY <1>2, <3>1, <3>2, OpenLockKeeps, WriteLockKeeps, LookAtLockKeeps,
                   LookAgainKeeps, ClaimLockKeeps, OpenGateKeeps, WriteGateKeeps, LookAtGateKeeps,
                   ClaimGateKeeps, LeaveGateKeeps, DropLockKeeps, ReleaseKeeps, CrashKeeps DEF Step
    <2>q. QED BY <2>1, <2>2 DEF IInv
  <1>q. QED BY <1>1, <1>2 DEF Next

\* However many processes start, recover what the dead have left, release their own or die at any
\* call, with the gate in hand too: two hold the data root at once, or a holder's lock is not in
\* its place, only after a living owner's lock was claimed before it had a text, or a living
\* process's gate was renamed away or overwritten (lock.ts:47-98, 147-209).
THEOREM LostOnlyThroughMistakes == Spec => []LostOnlyByMistake
  <1>1. ASSUME IInv PROVE LostOnlyByMistake
    <2> SUFFICES ASSUME ~mistaken PROVE MutualExclusion /\ LocksInPlace
      BY DEF LostOnlyByMistake
    <2>1. AllKnow
      BY <1>1 DEF IInv
    <2>2. ASSUME NEW p \in Procs, Holds(p)
          PROVE  at["lock"] = LockOf(p) /\ Text(LockOf(p)) = OwnText(p, "lock")
      <3>1. alive[p] /\ pc[p] \in {"leave", "yield", "clear", "working"} /\ HasLock(p)
        BY <2>1, <2>2 DEF Holds, AllKnow, Knows, HasLock
      <3>q. QED BY <2>1, <3>1, OwnFiles DEF AllKnow, Knows
    <2>3. MutualExclusion
      BY <2>2, OwnFiles DEF MutualExclusion
    <2>4. LocksInPlace
      BY <2>2 DEF LocksInPlace
    <2>q. QED BY <2>3, <2>4
  <1>q. QED BY InitKnows, NextKeeps, <1>1, PTL DEF Spec

=============================================================================
