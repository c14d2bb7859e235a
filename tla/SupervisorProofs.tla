--------------------------- MODULE SupervisorProofs ---------------------------
(***************************************************************************)
(* Proofs about Supervisor, for any number of releases and of core         *)
(* processes, any crash budget, failing file operations and deaths of the  *)
(* supervisor: type correctness; one core, at rest while its files are     *)
(* switched, believed only when it has spoken for itself; and the steps by *)
(* which the supervisor can lose touch with the disk, or a release that    *)
(* has never been ready can become what a start runs, are all named.       *)
(***************************************************************************)
EXTENDS Supervisor, TLAPS

USE FirstAssumption, NothingAssumption, BudgetAssumption, FlagAssumption
USE DEF vars, disk, processes, operation, memory

-----------------------------------------------------------------------------
(* The processes: what the steps of the supervisor rely on.                *)

Down ==
    ~up => /\ pc = "idle" /\ op = "none" /\ state = "stopped" /\ core = NoCore
           /\ ~control /\ readies = {} /\ exits = {}

OneCore == alive \subseteq {core}

Locked == up /\ pc # "acquire" => lock

\* A core is known in four states; in two of them there is one.
Attended ==
    /\ core # NoCore => state \in {"starting", "ready", "stopping", "stop-failed"}
    /\ state \in {"starting", "ready"} => core # NoCore

\* The steps before a launch, after a stop: no core, and nothing a restart timer acts on.
Quiet == pc \in Starting \cup Switching \cup Undoing \cup {"close", "giveup"}

AtRest ==
    /\ Quiet => core = NoCore /\ state \notin {"crashed", "ready", "starting"}
    /\ pc \in Starting => state = "stopped"

StopAwaited ==
    /\ pc \in {"grace", "kill"} => core # NoCore /\ state = "stopping" /\ after # "none"
    /\ core # NoCore /\ state = "stopping" => pc \in {"grace", "kill"}

ReadyMessages == core \in readies => core \in booted \cup exits

TimersCounted == timers <= crashes

Coherent ==
    /\ Down /\ OneCore /\ Locked /\ Attended /\ AtRest /\ StopAwaited
    /\ ReadyMessages /\ ReadyIsTrue /\ TimersCounted

-----------------------------------------------------------------------------
(* Every step keeps the types and the processes coherent.                  *)

LEMMA NoImages == [g \in Cores |-> NoRelease] \in [Cores -> Images]
  BY DEF Images

LEMMA GoDownType ==
  ASSUME TypeOK, GoDown, UNCHANGED <<disk, proven>>
  PROVE  TypeOK'
  <1>1. image' \in [Cores -> Images]
    BY NoImages DEF GoDown
  <1>2. /\ orphans' \subseteq Cores \ alive'
        /\ booted' \subseteq alive' /\ alive' \subseteq Cores
        /\ readies' \subseteq Cores /\ exits' \subseteq Cores \ alive'
    BY DEF GoDown, TypeOK
  <1>3. timers' \in 0 .. Budget /\ crashes' \in 0 .. Budget + 1
    BY DEF GoDown, Blank
  <1>5. /\ state' \in States /\ core' \in Cores \cup {NoCore} /\ active' \in Images
        /\ control' \in BOOLEAN
        /\ op' \in {"none", "stop", "restart", "update"} /\ pc' \in Steps
        /\ after' \in {"none", "close", "mark", "restore", "giveup"}
        /\ wanted' \in Images /\ previous' \in Images
        /\ up' \in BOOLEAN /\ lock' \in BOOLEAN
    BY DEF GoDown, Blank, States, Steps, Images
  <1>4. proven' \subseteq Images /\ current' \in Images /\ pending' \in Images
        /\ marker' \in Images \cup {NoMarker}
    BY DEF TypeOK
  <1>q. QED BY <1>1, <1>2, <1>3, <1>4, <1>5 DEF TypeOK

LEMMA TypeStep ==
  ASSUME TypeOK, Coherent, [Next]_vars
  PROVE  TypeOK'
  <1> USE DEF States, Steps, Starting, Switching, Undoing, Images
  <1>1. ASSUME NEW g \in Cores, CoreReady(g) PROVE TypeOK'
    BY <1>1 DEF CoreReady, TypeOK
  <1>2. ASSUME NEW g \in Cores, CoreExits(g) PROVE TypeOK'
    BY <1>2 DEF CoreExits, TypeOK
  <1>3. ASSUME NEW g \in Cores, OrphanExits(g) PROVE TypeOK'
    BY <1>3 DEF OrphanExits, TypeOK
  <1>4. ASSUME NEW g \in Cores, HearReady(g) PROVE TypeOK'
    BY <1>4 DEF HearReady, Heeds, TypeOK
  <1>5. ASSUME NEW g \in Cores, HearExit(g) PROVE TypeOK'
    BY <1>5 DEF HearExit, AfterCrash, Exhausted, WindowOver, TypeOK, Coherent,
           TimersCounted, StopAwaited
  <1>6. CASE RestartTimer
    BY <1>6 DEF RestartTimer, Launch, TypeOK
  <1>7. CASE Boot
    BY <1>7 DEF Boot, TypeOK
  <1>8. CASE Acquire
    BY <1>8 DEF Acquire, Goto, TypeOK
  <1>9. CASE Recover
    BY <1>9 DEF Recover, Goto, TypeOK
  <1>10. CASE Forget
    BY <1>10 DEF Forget, Goto, TypeOK
  <1>11. CASE Load
    BY <1>11 DEF Load, Goto, TypeOK
  <1>12. CASE Listen
    BY <1>12 DEF Listen, Launch, TypeOK
  <1>13. CASE StartFails
    BY <1>13, GoDownType DEF StartFails
  <1>14. CASE Stop
    BY <1>14 DEF Stop, StopCore, TypeOK
  <1>15. CASE GraceTimeout
    BY <1>15 DEF GraceTimeout, Goto, TypeOK
  <1>16. CASE KillTimeout
    BY <1>16 DEF KillTimeout, OperationOver, TypeOK
  <1>17. CASE Close
    <2>1. CASE op = "restart"
      BY <1>17, <2>1 DEF Close, TypeOK
    <2>2. CASE op # "restart"
      BY <1>17, <2>2, GoDownType DEF Close
    <2>q. QED BY <2>1, <2>2
  <1>18. CASE ReadPending
    BY <1>18 DEF ReadPending, OperationOver, TypeOK
  <1>19. CASE ReadPrevious
    BY <1>19 DEF ReadPrevious, StopCore, TypeOK
  <1>20. CASE Mark
    BY <1>20 DEF Mark, Goto, TypeOK
  <1>21. CASE Apply
    BY <1>21 DEF Apply, Goto, TypeOK
  <1>22. CASE Clear
    BY <1>22 DEF Clear, Launch, Goto, TypeOK
  <1>23. CASE Observe
    BY <1>23 DEF Observe, Goto, TypeOK
  <1>24. CASE Commit
    BY <1>24 DEF Commit, OperationOver, TypeOK
  <1>25. CASE Rollback
    BY <1>25 DEF Rollback, StopCore, EnterUpdateRollback, Switching, TypeOK
  <1>26. CASE Restore
    BY <1>26 DEF Restore, Goto, TypeOK
  <1>27. CASE Unmark
    BY <1>27 DEF Unmark, Launch, OperationOver, ActiveAfterRollback, TypeOK
  <1>28. CASE UndoFails
    BY <1>28 DEF UndoFails, OperationOver, Undoing, TypeOK
  <1>29. CASE Recovered
    BY <1>29 DEF Recovered, OperationOver, TypeOK
  <1>30. CASE Despair
    BY <1>30 DEF Despair, StopCore, TypeOK
  <1>31. CASE GiveUp
    BY <1>31 DEF GiveUp, OperationOver, TypeOK
  <1>32. ASSUME NEW kind \in {"stop", "restart", "update"}, Request(kind) PROVE TypeOK'
    BY <1>32 DEF Request, TypeOK
  <1>33. ASSUME NEW release \in Releases, Prepare(release) PROVE TypeOK'
    BY <1>33 DEF Prepare, TypeOK
  <1>34. CASE Dies
    BY <1>34, GoDownType DEF Dies
  <1>36. CASE Discard
    BY <1>36 DEF Discard, TypeOK
  <1>35. CASE UNCHANGED vars
    BY <1>35 DEF TypeOK
  <1>q. QED
    BY <1>1, <1>2, <1>3, <1>4, <1>5, <1>6, <1>7, <1>8, <1>9, <1>10, <1>11, <1>12, <1>13, <1>14,
       <1>15, <1>16, <1>17, <1>18, <1>19, <1>20, <1>21, <1>22, <1>23, <1>24, <1>25, <1>26, <1>27,
       <1>28, <1>29, <1>30, <1>31, <1>32, <1>33, <1>34, <1>35, <1>36
    DEF Next, Proceed, Start, Stopping, Updating

LEMMA CoherentStep ==
  ASSUME TypeOK, Coherent, [Next]_vars
  PROVE  Coherent'
  <1> USE DEF States, Starting, Switching, Undoing, TypeOK,
             Coherent, Down, OneCore, Locked, Attended, Quiet, AtRest, StopAwaited, ReadyMessages,
             ReadyIsTrue, TimersCounted
  <1>1. ASSUME NEW g \in Cores, CoreReady(g) PROVE Coherent'
    BY <1>1 DEF CoreReady
  <1>2. ASSUME NEW g \in Cores, CoreExits(g) PROVE Coherent'
    BY <1>2 DEF CoreExits
  <1>3. ASSUME NEW g \in Cores, OrphanExits(g) PROVE Coherent'
    BY <1>3 DEF OrphanExits
  <1>4. ASSUME NEW g \in Cores, HearReady(g) PROVE Coherent'
    BY <1>4 DEF HearReady, Heeds
  <1>5. ASSUME NEW g \in Cores, HearExit(g) PROVE Coherent'
    BY <1>5 DEF HearExit, AfterCrash, Exhausted, WindowOver
  <1>6. CASE RestartTimer
    BY <1>6 DEF RestartTimer, Launch
  <1>7. CASE Boot
    BY <1>7 DEF Boot
  <1>8. CASE Acquire
    BY <1>8 DEF Acquire, Goto
  <1>9. CASE Recover
    BY <1>9 DEF Recover, Goto
  <1>10. CASE Forget
    BY <1>10 DEF Forget, Goto
  <1>11. CASE Load
    BY <1>11 DEF Load, Goto
  <1>12. CASE Listen
    BY <1>12 DEF Listen, Launch
  <1>13. CASE StartFails
    BY <1>13 DEF StartFails, GoDown, Blank, Starting
  <1>14. CASE Stop
    BY <1>14 DEF Stop, StopCore
  <1>15. CASE GraceTimeout
    BY <1>15 DEF GraceTimeout, Goto
  <1>16. CASE KillTimeout
    BY <1>16 DEF KillTimeout, OperationOver
  <1>17. CASE Close
    BY <1>17 DEF Close, GoDown, Blank
  <1>18. CASE ReadPending
    BY <1>18 DEF ReadPending, OperationOver
  <1>19. CASE ReadPrevious
    BY <1>19 DEF ReadPrevious, StopCore
  <1>20. CASE Mark
    BY <1>20 DEF Mark, Goto
  <1>21. CASE Apply
    BY <1>21 DEF Apply, Goto
  <1>22. CASE Clear
    BY <1>22 DEF Clear, Launch, Goto
  <1>23. CASE Observe
    BY <1>23 DEF Observe, Goto
  <1>24. CASE Commit
    BY <1>24 DEF Commit, OperationOver
  <1>25. CASE Rollback
    BY <1>25 DEF Rollback, StopCore, EnterUpdateRollback, Switching
  <1>26. CASE Restore
    BY <1>26 DEF Restore, Goto
  <1>27. CASE Unmark
    BY <1>27 DEF Unmark, Launch, OperationOver, ActiveAfterRollback
  <1>28. CASE UndoFails
    BY <1>28 DEF UndoFails, OperationOver, Undoing
  <1>29. CASE Recovered
    BY <1>29 DEF Recovered, OperationOver
  <1>30. CASE Despair
    BY <1>30 DEF Despair, StopCore
  <1>31. CASE GiveUp
    BY <1>31 DEF GiveUp, OperationOver
  <1>32. ASSUME NEW kind \in {"stop", "restart", "update"}, Request(kind) PROVE Coherent'
    BY <1>32 DEF Request
  <1>33. ASSUME NEW release \in Releases, Prepare(release) PROVE Coherent'
    BY <1>33 DEF Prepare
  <1>34. CASE Dies
    BY <1>34 DEF Dies, GoDown, Blank
  <1>36. CASE Discard
    BY <1>36 DEF Discard
  <1>35. CASE UNCHANGED vars
    BY <1>35
  <1>q. QED
    BY <1>1, <1>2, <1>3, <1>4, <1>5, <1>6, <1>7, <1>8, <1>9, <1>10, <1>11, <1>12, <1>13, <1>14,
       <1>15, <1>16, <1>17, <1>18, <1>19, <1>20, <1>21, <1>22, <1>23, <1>24, <1>25, <1>26, <1>27,
       <1>28, <1>29, <1>30, <1>31, <1>32, <1>33, <1>34, <1>35, <1>36
    DEF Next, Proceed, Start, Stopping, Updating

-----------------------------------------------------------------------------
(* The releases: what the phases of an update have done on disk.           *)

Runs == core \in alive => image[core] = active

Heard == core \in booted \cup readies \/ state = "ready" => active \in proven

\* Where the operation stands, or will when the core it stops has ended.
Aim == IF pc \in {"grace", "kill"} THEN after ELSE pc

Fresh == {"pending", "previous"}

Phases ==
    /\ op = "update" <=>
          Aim \in Fresh \cup Switching \cup {"wait", "commit", "rewait", "giveup"} \cup Undoing
    /\ Aim = "mark" => previous = current
    /\ Aim \in {"apply", "clear", "wait", "commit"} => marker = previous
    /\ pc \in {"wait", "commit"} => active = wanted
    /\ pc = "commit" => wanted \in proven
    /\ Aim \in Undoing /\ marker = NoMarker => current = previous
    /\ Aim = "unmark" => current = previous
    /\ pc = "rewait" => current = previous /\ active = previous
    /\ pc = "idle" => op = "none"
    /\ pc = "forget" => current = marker
    /\ pc = "listen" => active = current

DiskInv == Runs /\ Heard /\ Phases

LEMMA DiskStep ==
  ASSUME TypeOK, Coherent, DiskInv, [Next]_vars
  PROVE  DiskInv'
  <1> USE DEF States, Starting, Switching, Undoing, TypeOK, Aim, Fresh,
             Coherent, Down, OneCore, Locked, Attended, Quiet, AtRest, StopAwaited, ReadyMessages,
             ReadyIsTrue, TimersCounted, DiskInv, Runs, Heard, Phases
  <1>1. ASSUME NEW g \in Cores, CoreReady(g) PROVE DiskInv'
    BY <1>1 DEF CoreReady
  <1>2. ASSUME NEW g \in Cores, CoreExits(g) PROVE DiskInv'
    BY <1>2 DEF CoreExits
  <1>3. ASSUME NEW g \in Cores, OrphanExits(g) PROVE DiskInv'
    BY <1>3 DEF OrphanExits
  <1>4. ASSUME NEW g \in Cores, HearReady(g) PROVE DiskInv'
    BY <1>4 DEF HearReady, Heeds
  <1>5. ASSUME NEW g \in Cores, HearExit(g) PROVE DiskInv'
    <2>1. CASE core # g
      BY <1>5, <2>1 DEF HearExit
    <2>2. CASE core = g /\ state = "stopping"
      BY <1>5, <2>2 DEF HearExit
    <2>3. CASE core = g /\ state = "stop-failed"
      BY <1>5, <2>3 DEF HearExit
    <2>4. CASE core = g /\ state \notin {"stopping", "stop-failed"}
      <3>1. state' \in {"crashed", "crash-loop-stopped"}
        BY <1>5, <2>4 DEF HearExit, AfterCrash
      <3>2. core' = NoCore
        BY <1>5, <2>4 DEF HearExit
      <3>3. booted' \subseteq Cores /\ readies' \subseteq Cores /\ alive' \subseteq Cores
        BY <1>5 DEF HearExit
      <3>4. Runs'
        BY <3>2, <3>3
      <3>5. Heard'
        BY <3>1, <3>2, <3>3
      <3>6. Phases'
        BY <1>5, <2>4, <3>1, <3>2 DEF HearExit
      <3>q. QED BY <3>4, <3>5, <3>6
    <2>q. QED BY <2>1, <2>2, <2>3, <2>4
  <1>6. CASE RestartTimer
    BY <1>6 DEF RestartTimer, Launch
  <1>7. CASE Boot
    BY <1>7 DEF Boot
  <1>8. CASE Acquire
    BY <1>8 DEF Acquire, Goto
  <1>9. CASE Recover
    BY <1>9 DEF Recover, Goto
  <1>10. CASE Forget
    BY <1>10 DEF Forget, Goto
  <1>11. CASE Load
    BY <1>11 DEF Load, Goto
  <1>12. CASE Listen
    BY <1>12 DEF Listen, Launch
  <1>13. CASE StartFails
    BY <1>13 DEF StartFails, GoDown, Blank, Starting
  <1>14. CASE Stop
    BY <1>14 DEF Stop, StopCore
  <1>15. CASE GraceTimeout
    BY <1>15 DEF GraceTimeout, Goto
  <1>16. CASE KillTimeout
    BY <1>16 DEF KillTimeout, OperationOver
  <1>17. CASE Close
    BY <1>17 DEF Close, GoDown, Blank
  <1>18. CASE ReadPending
    BY <1>18 DEF ReadPending, OperationOver
  <1>19. CASE ReadPrevious
    BY <1>19 DEF ReadPrevious, StopCore
  <1>20. CASE Mark
    BY <1>20 DEF Mark, Goto
  <1>21. CASE Apply
    BY <1>21 DEF Apply, Goto
  <1>22. CASE Clear
    BY <1>22 DEF Clear, Launch, Goto
  <1>23. CASE Observe
    BY <1>23 DEF Observe, Goto
  <1>24. CASE Commit
    BY <1>24 DEF Commit, OperationOver
  <1>25. CASE Rollback
    BY <1>25 DEF Rollback, StopCore, EnterUpdateRollback, Switching
  <1>26. CASE Restore
    BY <1>26 DEF Restore, Goto
  <1>27. CASE Unmark
    BY <1>27 DEF Unmark, Launch, OperationOver, ActiveAfterRollback
  <1>28. CASE UndoFails
    BY <1>28 DEF UndoFails, OperationOver, Undoing
  <1>29. CASE Recovered
    BY <1>29 DEF Recovered, OperationOver
  <1>30. CASE Despair
    BY <1>30 DEF Despair, StopCore
  <1>31. CASE GiveUp
    BY <1>31 DEF GiveUp, OperationOver
  <1>32. ASSUME NEW kind \in {"stop", "restart", "update"}, Request(kind) PROVE DiskInv'
    BY <1>32 DEF Request
  <1>33. ASSUME NEW release \in Releases, Prepare(release) PROVE DiskInv'
    BY <1>33 DEF Prepare
  <1>34. CASE Dies
    BY <1>34 DEF Dies, GoDown, Blank
  <1>36. CASE Discard
    BY <1>36 DEF Discard
  <1>35. CASE UNCHANGED vars
    BY <1>35
  <1>q. QED
    BY <1>1, <1>2, <1>3, <1>4, <1>5, <1>6, <1>7, <1>8, <1>9, <1>10, <1>11, <1>12, <1>13, <1>14,
       <1>15, <1>16, <1>17, <1>18, <1>19, <1>20, <1>21, <1>22, <1>23, <1>24, <1>25, <1>26, <1>27,
       <1>28, <1>29, <1>30, <1>31, <1>32, <1>33, <1>34, <1>35, <1>36
    DEF Next, Proceed, Start, Stopping, Updating

-----------------------------------------------------------------------------
(* Theorems.                                                               *)

Inv == TypeOK /\ Coherent

LEMMA InitInv == Init => Inv /\ DiskInv
  <1> SUFFICES ASSUME Init PROVE Inv /\ DiskInv
    OBVIOUS
  <1>1. TypeOK
    <2>1. image \in [Cores -> Images] /\ timers \in 0 .. Budget /\ crashes \in 0 .. Budget + 1
      BY NoImages DEF Init
    <2>2. state \in States /\ pc \in Steps
      BY DEF Init, States, Steps
    <2>q. QED BY <2>1, <2>2 DEF Init, TypeOK, Images
  <1>2. Coherent
    BY DEF Init, Starting, Switching, Undoing, Coherent, Down, OneCore, Locked, Attended, Quiet,
           AtRest, StopAwaited, ReadyMessages, ReadyIsTrue, TimersCounted
  <1>3. DiskInv
    BY DEF Init, Starting, Switching, Undoing, DiskInv, Runs, Heard, Phases, Aim, Fresh
  <1>q. QED BY <1>1, <1>2, <1>3 DEF Inv

LEMMA NextInv == Inv /\ [Next]_vars => Inv'
  BY TypeStep, CoherentStep DEF Inv

LEMMA SpecInv == Spec => []Inv
  BY InitInv, NextInv, PTL DEF Spec

\* Files, processes and variables keep their shape; no more timers than the budget has delays
\* are ever set, and the crashes of a window pass the budget by one at most (crashBudget.ts).
THEOREM TypeCorrect == Spec => []TypeOK
  <1>1. Inv => TypeOK
    BY DEF Inv
  <1>q. QED BY SpecInv, <1>1, PTL

\* However stops fail, timers fire late and updates roll back, the supervisor never has a living
\* core it does not know, nor one without the lock of the data root (supervisor.ts:194-393).
THEOREM OneCoreUnderLock == Spec => []NoStrayCore
  <1>1. Inv => NoStrayCore
    BY DEF Inv, Coherent, NoStrayCore, OneCore, Locked, Down, AtRest, Quiet, Starting, TypeOK
  <1>q. QED BY SpecInv, <1>1, PTL

\* No core runs while the release files are switched or restored (supervisor.ts:275-309).
THEOREM AtRestWhileSwitched == Spec => []SwitchedAtRest
  <1>1. Inv => SwitchedAtRest
    BY DEF Inv, Coherent, SwitchedAtRest, OneCore, AtRest, Quiet, TypeOK
  <1>q. QED BY SpecInv, <1>1, PTL

\* The state is ready only for a core that has said so itself (supervisor.ts:416-429).
THEOREM ReadyOfItsOwn == Spec => []ReadyIsTrue
  <1>1. Inv => ReadyIsTrue
    BY DEF Inv, Coherent
  <1>q. QED BY SpecInv, <1>1, PTL

LEMMA SpecDiskInv == Spec => [](Inv /\ DiskInv)
  <1>1. Inv /\ DiskInv /\ [Next]_vars => (Inv /\ DiskInv)'
    BY NextInv, DiskStep DEF Inv
  <1>q. QED BY InitInv, <1>1, PTL DEF Spec

LEMMA AgreesStep ==
  ASSUME TypeOK, Coherent, DiskInv, Agrees, ~OtherSwitched, [Next]_vars
  PROVE  Agrees'
  <1> USE DEF States, Starting, Switching, Undoing, TypeOK, Aim, Fresh, Agrees, OtherSwitched,
             Coherent, Down, OneCore, Locked, Attended, Quiet, AtRest, StopAwaited,
             DiskInv, Runs, Phases
  <1>0. Runs'
    BY DiskStep
  <1>1. CASE UNCHANGED <<current, active, state, op, pc>>
    BY <1>0, <1>1
  <1>2. ASSUME NEW g \in Cores, HearReady(g) PROVE Agrees'
    BY <1>0, <1>2 DEF HearReady, Heeds
  <1>3. ASSUME NEW g \in Cores, HearExit(g) PROVE Agrees'
    BY <1>0, <1>3 DEF HearExit, AfterCrash
  <1>4. CASE RestartTimer
    BY <1>0, <1>4 DEF RestartTimer, Launch
  <1>5. CASE Recover \/ Forget \/ Load \/ Acquire \/ Boot
    BY <1>0, <1>5 DEF Recover, Forget, Load, Acquire, Boot, Goto
  <1>6. CASE Listen
    BY <1>0, <1>6 DEF Listen, Launch
  <1>7. CASE StartFails \/ Dies
    BY <1>0, <1>7 DEF StartFails, Dies, GoDown, Blank
  <1>8. CASE Stop \/ GraceTimeout \/ KillTimeout
    BY <1>0, <1>8 DEF Stop, StopCore, GraceTimeout, KillTimeout, OperationOver, Goto
  <1>9. CASE Close
    BY <1>0, <1>9 DEF Close, GoDown, Blank
  <1>10. CASE ReadPending \/ ReadPrevious
    BY <1>0, <1>10 DEF ReadPending, ReadPrevious, StopCore, OperationOver
  <1>11. CASE Mark \/ Apply
    BY <1>0, <1>11 DEF Mark, Apply, Goto
  <1>12. CASE Clear
    BY <1>0, <1>12 DEF Clear, Launch, Goto
  <1>13. CASE Observe
    BY <1>0, <1>13 DEF Observe, Goto
  <1>14. CASE Commit
    BY <1>0, <1>14 DEF Commit, OperationOver
  <1>15. CASE Rollback
    BY <1>0, <1>15 DEF Rollback, StopCore, EnterUpdateRollback
  <1>16. CASE Restore \/ UndoFails
    BY <1>0, <1>16 DEF Restore, UndoFails, OperationOver, Goto
  <1>17. CASE Unmark
    BY <1>0, <1>17 DEF Unmark, Launch, OperationOver, ActiveAfterRollback
  <1>18. CASE Recovered
    BY <1>0, <1>18 DEF Recovered, OperationOver
  <1>19. CASE Despair \/ GiveUp
    BY <1>0, <1>19 DEF Despair, GiveUp, StopCore, OperationOver
  <1>20. ASSUME NEW kind \in {"stop", "restart", "update"}, Request(kind) PROVE Agrees'
    BY <1>0, <1>20 DEF Request
  <1>21. ASSUME NEW g \in Cores, CoreReady(g) \/ CoreExits(g) \/ OrphanExits(g)
         PROVE  UNCHANGED <<current, active, state, op, pc>>
    BY <1>21 DEF CoreReady, CoreExits, OrphanExits
  <1>22. ASSUME NEW release \in Releases, Prepare(release)
         PROVE  UNCHANGED <<current, active, state, op, pc>>
    BY <1>22 DEF Prepare
  <1>23. CASE Discard \/ UNCHANGED vars
    BY <1>1, <1>23 DEF Discard
  <1>q. QED
    BY <1>1, <1>2, <1>3, <1>4, <1>5, <1>6, <1>7, <1>8, <1>9, <1>10, <1>11, <1>12, <1>13, <1>14,
       <1>15, <1>16, <1>17, <1>18, <1>19, <1>20, <1>21, <1>22, <1>23
    DEF Next, Proceed, Start, Stopping, Updating

\* What runs outside an update is what is on disk; only an update during which another release
\* was prepared ends that (supervisor.ts:263-327, releaseManager.ts:131-149).
THEOREM DriftNamed == Spec => DriftsOnlyWhenOvertaken
  <1>1. Inv /\ DiskInv /\ [Next]_vars => [Agrees => Agrees' \/ OtherSwitched]_vars
    BY AgreesStep DEF Inv
  <1>q. QED BY SpecDiskInv, <1>1, PTL DEF Spec, DriftsOnlyWhenOvertaken

\* A release that has never been ready becomes what a start runs by an update over an open marker
\* or by a release prepared during an update, and by nothing else: no crash of the supervisor,
\* failed update or failed rollback (releaseManager.ts:59-98, 131-149).
THEOREM UnprovenNamed == Spec => UnprovenOnlyByOverlap
  <1> DEFINE Advance ==
        Effective' # Effective /\ Effective' \notin proven => MarkerOverridden \/ OtherSwitched
  <1>1. Inv /\ DiskInv /\ [Next]_vars => [Advance]_vars
    <2> SUFFICES ASSUME Inv, DiskInv, Next PROVE Advance
      BY DEF Effective
    <2> USE DEF Inv, DiskInv, Phases, Aim, Fresh, Effective, Switching, Undoing,
               MarkerOverridden, OtherSwitched
    <2>1. CASE UNCHANGED <<current, marker>>
      BY <2>1
    <2>2. CASE Recover
      BY <2>2 DEF Recover
    <2>3. CASE Forget
      BY <2>3 DEF Forget, Goto
    <2>4. CASE Mark
      BY <2>4 DEF Mark, Goto
    <2>5. CASE Apply
      BY <2>5 DEF Apply, Goto, TypeOK
    <2>6. CASE Commit
      BY <2>6 DEF Commit
    <2>7. CASE Restore
      BY <2>7 DEF Restore, Goto, TypeOK
    <2>8. CASE Unmark
      BY <2>8 DEF Unmark
    <2>9. \/ UNCHANGED <<current, marker>>
          \/ Recover \/ Forget \/ Mark \/ Apply \/ Commit \/ Restore \/ Unmark
      BY DEF Next, Proceed, Start, Stopping, Updating, CoreReady, CoreExits, OrphanExits, HearReady,
             HearExit, RestartTimer, Boot, Acquire, Load, Listen, StartFails, Request, Stop,
             GraceTimeout, KillTimeout, Close, ReadPending, ReadPrevious, Clear, Observe, Rollback,
             UndoFails, Recovered, Despair, GiveUp, Prepare, Discard, Dies
    <2>q. QED BY <2>1, <2>2, <2>3, <2>4, <2>5, <2>6, <2>7, <2>8, <2>9
  <1>q. QED BY SpecDiskInv, <1>1, PTL DEF Spec, UnprovenOnlyByOverlap

=============================================================================
