---------------------------- MODULE VserverProofs ----------------------------
(***************************************************************************)
(* For every set of command processes and every setting: the types, the    *)
(* exclusion of start and stop, and what follows from it for the run file, *)
(* the context, the interfaces and the mounts of the guest.                *)
(***************************************************************************)
EXTENDS Vserver, SequenceTheorems, TLAPS

Names == {"startup", "interfaces"}

\* The steps between lock and unlock 1 of the interfaces.
IfsHeld == {"start.ifs", "start.ifs.unlock", "clean.ifs", "clean.ifs.unlock",
            "stop.ifs", "stop.ifs.unlock"}

\* Without timeouts _VS_LOCKS is what the script has come to: the startup lock
\* at the bottom while it does its work, on it at most the interfaces lock (a
\* command that is interrupted keeps it), and nothing outside.
StackOf(c) ==
    /\ pc[c] \in IfsHeld => locks[c] = <<"interfaces", "startup">>
    /\ pc[c] \in Critical =>
          locks[c] = <<"startup">> \/ locks[c] = <<"interfaces", "startup">>
    /\ pc[c] \notin Critical => locks[c] = << >>

StackInv == NoTimeouts => \A c \in Cmd : StackOf(c)

\* What a script at step l may rely on about the context, the run file, the
\* mounts and the interfaces, none of which it looks at again.
Room(l) ==
    /\ l \in {"start.prep", "start.ifs.lock", "start.ifs", "start.ifs.unlock",
              "start.mount", "start.pre", "start.exec"} => ctx = "none" /\ ~run
    /\ l = "start.save" => ctx = "setup" /\ ~run
    /\ l \in {"start.rm", "stop.rm", "stop.kill", "stop.running", "stop.runningrm"} =>
          ctx = "none"
    /\ l \in {"stop.umount", "stop.ifs.lock", "stop.ifs", "stop.ifs.unlock"} =>
          ctx = "none" /\ ~run
    /\ l \in {"stop.ifs.lock", "stop.ifs", "stop.ifs.unlock"} => ~mnt
    /\ l = "stop.ifs.unlock" => net = "down"
    /\ l \notin {"running.check", "running.rm", "stop.probe", "stop.proberm"}

\* A guest that runs has its run file, and one in setup its start.
RoomInv ==
    NoTimeouts /\ NoProbes =>
        /\ ctx \in {"up", "halting"} => run
        /\ ctx = "setup" => \E c \in Cmd : pc[c] = "start.save"
        /\ \A c \in Cmd : Room(pc[c])

\* What a start has set up for the guest when it comes to step l.
Complete(l) ==
    /\ l \in {"start.ifs.unlock", "start.mount", "start.pre", "start.exec",
              "start.save"} => net # "down"
    /\ l \in {"start.pre", "start.exec", "start.save"} => mnt = AvoidNamespace
    /\ l \in {"start.post", "start.init"} => run
    /\ l \in CleanSteps => ctx = "none"

CompleteInv ==
    NoTimeouts /\ NoProbes /\ setup.faults \cap {"post", "int"} = {} =>
        /\ ctx # "none" => net # "down" /\ mnt = AvoidNamespace
        /\ \A c \in Cmd : Complete(pc[c])

IInv == TypeOK /\ StackInv /\ OneAtATime /\ RoomInv /\ CompleteInv /\ AsyncOnlyInStop

-----------------------------------------------------------------------------
(* Types.                                                                  *)

\* What lock and unlock push and pop is a stack of lock names.
LEMMA LockTypes ==
    ASSUME TypeOK, NEW c \in Cmd, NEW l \in Names, NEW f,
           lock(c, l, f) \/ unlock1(c) \/ unlock(c) \/ UNCHANGED locks
    PROVE  locks' \in [Cmd -> Seq(Names)]
<1>1. locks \in [Cmd -> Seq(Names)]
  BY DEF TypeOK, Names
<1>2. \A s \in Seq(Names) : <<l>> \o s \in Seq(Names)
  <2>1. <<l>> \in Seq(Names)
    OBVIOUS
  <2> QED
    BY <2>1
<1>3. \A s \in Seq(Names) : s # << >> => Tail(s) \in Seq(Names)
  OBVIOUS
<1>4. << >> \in Seq(Names)
  OBVIOUS
<1> QED
  BY <1>1, <1>2, <1>3, <1>4 DEF lock, unlock1, unlock

\* Every step keeps the types.
LEMMA TypeStep == ASSUME TypeOK, [Next]_<<setup, vars>> PROVE TypeOK'
<1> USE DEF shared
<1>0. CASE UNCHANGED <<setup, vars>>
  BY <1>0 DEF TypeOK, vars
<1> SUFFICES ASSUME Step, setup' = setup PROVE TypeOK'
  BY <1>0 DEF Next
<1>a. ASSUME NEW c \in Cmd, NEW l \in Steps, GoTo(c, l) PROVE pc' \in [Cmd -> Steps]
  BY <1>a DEF TypeOK, GoTo
<1>b. AvoidNamespace \in BOOLEAN
  BY VserverAssumption DEF TypeOK, AvoidNamespace
<1> DEFINE Locks == locks' \in [Cmd -> Seq(Names)]
<1> USE DEF Flags, Names
<1>1. ASSUME NEW c \in Cmd, startLock(c) PROVE TypeOK'
  <2>1. pc' \in [Cmd -> Steps]
    BY <1>1, <1>a DEF startLock, Steps, StartSteps, CleanSteps, StopSteps
  <2>2. Locks
    BY <1>1, LockTypes DEF startLock
  <2> QED
    BY <1>1, <2>1, <2>2 DEF startLock, TypeOK
<1>2. ASSUME NEW c \in Cmd, startCheck(c) PROVE TypeOK'
  <2>1. pc' \in [Cmd -> Steps]
    BY <1>2, <1>a DEF startCheck, Steps, StartSteps, CleanSteps, StopSteps
  <2>2. Locks
    BY <1>2, LockTypes DEF startCheck
  <2> QED
    BY <1>2, <2>1, <2>2 DEF startCheck, TypeOK
<1>3. ASSUME NEW c \in Cmd, startRm(c) PROVE TypeOK'
  <2>1. pc' \in [Cmd -> Steps]
    BY <1>3, <1>a DEF startRm, Steps, StartSteps, CleanSteps, StopSteps
  <2> QED
    BY <1>3, <2>1 DEF startRm, TypeOK, removeRun
<1>4. ASSUME NEW c \in Cmd, startPrep(c) PROVE TypeOK'
  <2>1. pc' \in [Cmd -> Steps]
    BY <1>4, <1>a DEF startPrep, Steps, StartSteps, CleanSteps, StopSteps
  <2> QED
    BY <1>4, <2>1, <1>b DEF startPrep, TypeOK
<1>5. ASSUME NEW c \in Cmd, startIfsLock(c) PROVE TypeOK'
  <2>1. pc' \in [Cmd -> Steps]
    BY <1>5, <1>a DEF startIfsLock, Steps, StartSteps, CleanSteps, StopSteps
  <2>2. Locks
    BY <1>5, LockTypes DEF startIfsLock
  <2> QED
    BY <1>5, <2>1, <2>2 DEF startIfsLock, TypeOK
<1>6. ASSUME NEW c \in Cmd, startIfs(c) PROVE TypeOK'
  <2>1. pc' \in [Cmd -> Steps]
    BY <1>6, <1>a DEF startIfs, Steps, StartSteps, CleanSteps, StopSteps
  <2> QED
    BY <1>6, <2>1 DEF startIfs, TypeOK
<1>7. ASSUME NEW c \in Cmd, startIfsUnlock(c) PROVE TypeOK'
  <2>1. pc' \in [Cmd -> Steps]
    BY <1>7, <1>a DEF startIfsUnlock, Steps, StartSteps, CleanSteps, StopSteps
  <2>2. Locks
    BY <1>7, LockTypes DEF startIfsUnlock
  <2> QED
    BY <1>7, <2>1, <2>2 DEF startIfsUnlock, TypeOK
<1>8. ASSUME NEW c \in Cmd, startMount(c) PROVE TypeOK'
  <2>1. pc' \in [Cmd -> Steps]
    BY <1>8, <1>a DEF startMount, Steps, StartSteps, CleanSteps, StopSteps
  <2> QED
    BY <1>8, <2>1, <1>b DEF startMount, TypeOK
<1>9. ASSUME NEW c \in Cmd, startPre(c) PROVE TypeOK'
  <2>1. pc' \in [Cmd -> Steps]
    BY <1>9, <1>a DEF startPre, Steps, StartSteps, CleanSteps, StopSteps
  <2> QED
    BY <1>9, <2>1 DEF startPre, TypeOK
<1>10. ASSUME NEW c \in Cmd, startExec(c) PROVE TypeOK'
  <2>1. pc' \in [Cmd -> Steps]
    BY <1>10, <1>a DEF startExec, Steps, StartSteps, CleanSteps, StopSteps
  <2> QED
    BY <1>10, <2>1 DEF startExec, TypeOK
<1>11. ASSUME NEW c \in Cmd, startSave(c) PROVE TypeOK'
  <2>1. pc' \in [Cmd -> Steps]
    BY <1>11, <1>a DEF startSave, Steps, StartSteps, CleanSteps, StopSteps
  <2> QED
    BY <1>11, <2>1 DEF startSave, TypeOK
<1>12. ASSUME NEW c \in Cmd, startPost(c) PROVE TypeOK'
  <2>1. pc' \in [Cmd -> Steps]
    BY <1>12, <1>a DEF startPost, Steps, StartSteps, CleanSteps, StopSteps
  <2> QED
    BY <1>12, <2>1 DEF startPost, TypeOK
<1>13. ASSUME NEW c \in Cmd, startInit(c) PROVE TypeOK'
  <2>1. pc' \in [Cmd -> Steps]
    BY <1>13, <1>a DEF startInit, Steps, StartSteps, CleanSteps, StopSteps
  <2> QED
    BY <1>13, <2>1 DEF startInit, TypeOK
<1>14. ASSUME NEW c \in Cmd, startEnd(c) PROVE TypeOK'
  <2>1. pc' \in [Cmd -> Steps]
    BY <1>14, <1>a DEF startEnd, Steps, StartSteps, CleanSteps, StopSteps
  <2>2. Locks
    BY <1>14, LockTypes DEF startEnd
  <2> QED
    BY <1>14, <2>1, <2>2 DEF startEnd, TypeOK
<1>15. ASSUME NEW c \in Cmd, cleanUmount(c) PROVE TypeOK'
  <2>1. pc' \in [Cmd -> Steps]
    BY <1>15, <1>a DEF cleanUmount, Steps, StartSteps, CleanSteps, StopSteps
  <2> QED
    BY <1>15, <2>1, <1>b DEF cleanUmount, TypeOK
<1>16. ASSUME NEW c \in Cmd, cleanIfsLock(c) PROVE TypeOK'
  <2>1. pc' \in [Cmd -> Steps]
    BY <1>16, <1>a DEF cleanIfsLock, Steps, StartSteps, CleanSteps, StopSteps
  <2>2. Locks
    BY <1>16, LockTypes DEF cleanIfsLock
  <2> QED
    BY <1>16, <2>1, <2>2 DEF cleanIfsLock, TypeOK
<1>17. ASSUME NEW c \in Cmd, cleanIfs(c) PROVE TypeOK'
  <2>1. pc' \in [Cmd -> Steps]
    BY <1>17, <1>a DEF cleanIfs, Steps, StartSteps, CleanSteps, StopSteps
  <2> QED
    BY <1>17, <2>1 DEF cleanIfs, TypeOK
<1>18. ASSUME NEW c \in Cmd, cleanIfsUnlock(c) PROVE TypeOK'
  <2>1. pc' \in [Cmd -> Steps]
    BY <1>18, <1>a DEF cleanIfsUnlock, Steps, StartSteps, CleanSteps, StopSteps
  <2>2. Locks
    BY <1>18, LockTypes DEF cleanIfsUnlock
  <2> QED
    BY <1>18, <2>1, <2>2 DEF cleanIfsUnlock, TypeOK
<1>19. ASSUME NEW c \in Cmd, cleanUnlock(c) PROVE TypeOK'
  <2>1. pc' \in [Cmd -> Steps]
    BY <1>19, <1>a DEF cleanUnlock, Steps, StartSteps, CleanSteps, StopSteps
  <2>2. Locks
    BY <1>19, LockTypes DEF cleanUnlock
  <2> QED
    BY <1>19, <2>1, <2>2 DEF cleanUnlock, TypeOK
<1>20. ASSUME NEW c \in Cmd, stopProbe(c) PROVE TypeOK'
  <2>1. pc' \in [Cmd -> Steps]
    BY <1>20, <1>a DEF stopProbe, Steps, StartSteps, CleanSteps, StopSteps
  <2> QED
    BY <1>20, <2>1 DEF stopProbe, TypeOK
<1>21. ASSUME NEW c \in Cmd, stopProbeRm(c) PROVE TypeOK'
  <2>1. pc' \in [Cmd -> Steps]
    BY <1>21, <1>a DEF stopProbeRm, Steps, StartSteps, CleanSteps, StopSteps
  <2> QED
    BY <1>21, <2>1 DEF stopProbeRm, TypeOK, removeRun
<1>22. ASSUME NEW c \in Cmd, stopLock(c) PROVE TypeOK'
  <2>1. pc' \in [Cmd -> Steps]
    BY <1>22, <1>a DEF stopLock, Steps, StartSteps, CleanSteps, StopSteps
  <2>2. Locks
    BY <1>22, LockTypes DEF stopLock
  <2> QED
    BY <1>22, <2>1, <2>2 DEF stopLock, TypeOK
<1>23. ASSUME NEW c \in Cmd, stopCheck(c) PROVE TypeOK'
  <2>1. pc' \in [Cmd -> Steps]
    BY <1>23, <1>a DEF stopCheck, Steps, StartSteps, CleanSteps, StopSteps
  <2> QED
    BY <1>23, <2>1 DEF stopCheck, TypeOK
<1>24. ASSUME NEW c \in Cmd, stopRm(c) PROVE TypeOK'
  <2>1. pc' \in [Cmd -> Steps]
    BY <1>24, <1>a DEF stopRm, Steps, StartSteps, CleanSteps, StopSteps
  <2> QED
    BY <1>24, <2>1 DEF stopRm, TypeOK, removeRun
<1>25. ASSUME NEW c \in Cmd, stopGen(c) PROVE TypeOK'
  <2>1. pc' \in [Cmd -> Steps]
    BY <1>25, <1>a DEF stopGen, Steps, StartSteps, CleanSteps, StopSteps
  <2> QED
    BY <1>25, <2>1 DEF stopGen, TypeOK
<1>26. ASSUME NEW c \in Cmd, stopSync(c) PROVE TypeOK'
  <2>1. pc' \in [Cmd -> Steps]
    BY <1>26, <1>a DEF stopSync, Steps, StartSteps, CleanSteps, StopSteps
  <2> QED
    BY <1>26, <2>1 DEF stopSync, TypeOK
<1>27. ASSUME NEW c \in Cmd, stopSignal(c) PROVE TypeOK'
  <2>1. pc' \in [Cmd -> Steps]
    BY <1>27, <1>a DEF stopSignal, Steps, StartSteps, CleanSteps, StopSteps
  <2> QED
    BY <1>27, <2>1 DEF stopSignal, TypeOK
<1>28. ASSUME NEW c \in Cmd, stopDoSync(c) PROVE TypeOK'
  <2>1. pc' \in [Cmd -> Steps]
    BY <1>28, <1>a DEF stopDoSync, Steps, StartSteps, CleanSteps, StopSteps
  <2> QED
    BY <1>28, <2>1 DEF stopDoSync, TypeOK
<1>29. ASSUME NEW c \in Cmd, stopRunning(c) PROVE TypeOK'
  <2>1. pc' \in [Cmd -> Steps]
    BY <1>29, <1>a DEF stopRunning, Steps, StartSteps, CleanSteps, StopSteps
  <2> QED
    BY <1>29, <2>1 DEF stopRunning, TypeOK
<1>30. ASSUME NEW c \in Cmd, stopRunningRm(c) PROVE TypeOK'
  <2>1. pc' \in [Cmd -> Steps]
    BY <1>30, <1>a DEF stopRunningRm, Steps, StartSteps, CleanSteps, StopSteps
  <2> QED
    BY <1>30, <2>1 DEF stopRunningRm, TypeOK, removeRun
<1>31. ASSUME NEW c \in Cmd, stopUmount(c) PROVE TypeOK'
  <2>1. pc' \in [Cmd -> Steps]
    BY <1>31, <1>a DEF stopUmount, Steps, StartSteps, CleanSteps, StopSteps
  <2> QED
    BY <1>31, <2>1 DEF stopUmount, TypeOK
<1>32. ASSUME NEW c \in Cmd, stopIfsLock(c) PROVE TypeOK'
  <2>1. pc' \in [Cmd -> Steps]
    BY <1>32, <1>a DEF stopIfsLock, Steps, StartSteps, CleanSteps, StopSteps
  <2>2. Locks
    BY <1>32, LockTypes DEF stopIfsLock
  <2> QED
    BY <1>32, <2>1, <2>2 DEF stopIfsLock, TypeOK
<1>33. ASSUME NEW c \in Cmd, stopIfs(c) PROVE TypeOK'
  <2>1. pc' \in [Cmd -> Steps]
    BY <1>33, <1>a DEF stopIfs, Steps, StartSteps, CleanSteps, StopSteps
  <2> QED
    BY <1>33, <2>1 DEF stopIfs, TypeOK
<1>34. ASSUME NEW c \in Cmd, stopIfsUnlock(c) PROVE TypeOK'
  <2>1. pc' \in [Cmd -> Steps]
    BY <1>34, <1>a DEF stopIfsUnlock, Steps, StartSteps, CleanSteps, StopSteps
  <2>2. Locks
    BY <1>34, LockTypes DEF stopIfsUnlock
  <2> QED
    BY <1>34, <2>1, <2>2 DEF stopIfsUnlock, TypeOK
<1>35. ASSUME NEW c \in Cmd, stopUnlock(c) PROVE TypeOK'
  <2>1. pc' \in [Cmd -> Steps]
    BY <1>35, <1>a DEF stopUnlock, Steps, StartSteps, CleanSteps, StopSteps
  <2>2. Locks
    BY <1>35, LockTypes DEF stopUnlock
  <2> QED
    BY <1>35, <2>1, <2>2 DEF stopUnlock, TypeOK
<1>36. ASSUME NEW c \in Cmd, runningCheck(c) PROVE TypeOK'
  <2>1. pc' \in [Cmd -> Steps]
    BY <1>36, <1>a DEF runningCheck, Steps, StartSteps, CleanSteps, StopSteps
  <2> QED
    BY <1>36, <2>1 DEF runningCheck, TypeOK
<1>37. ASSUME NEW c \in Cmd, runningRm(c) PROVE TypeOK'
  <2>1. pc' \in [Cmd -> Steps]
    BY <1>37, <1>a DEF runningRm, Steps, StartSteps, CleanSteps, StopSteps
  <2> QED
    BY <1>37, <2>1 DEF runningRm, TypeOK, removeRun
<1>38. ASSUME NEW c \in Cmd, stopWait(c) PROVE TypeOK'
  <2>1. pc' \in [Cmd -> Steps]
    BY <1>38 DEF stopWait, killContext, GoTo, TypeOK, Steps, CleanSteps, StopSteps
  <2> QED
    BY <1>38, <2>1 DEF stopWait, killContext, TypeOK
<1>39. ASSUME NEW c \in Cmd, stopKill(c) PROVE TypeOK'
  <2>1. pc' \in [Cmd -> Steps]
    BY <1>39 DEF stopKill, killContext, TypeOK, Steps, CleanSteps, StopSteps
  <2> QED
    BY <1>39, <2>1 DEF stopKill, killContext, TypeOK
<1>40. ASSUME NEW c \in Cmd, NEW v \in AllVerbs, give(c, v) PROVE TypeOK'
  <2>1. pc' \in [Cmd -> Steps]
    BY <1>40, <1>a DEF give, FirstStep, AllVerbs, Steps, StartSteps, StopSteps
  <2> QED
    BY <1>40, <2>1 DEF give, TypeOK
<1>41. ASSUME NEW c \in Cmd, interrupt(c) PROVE TypeOK'
  <2>1. pc' \in [Cmd -> Steps]
    BY <1>41, <1>a DEF interrupt, Steps, CleanSteps, StopSteps
  <2>2. Locks
    BY <1>41, LockTypes DEF interrupt
  <2> QED
    BY <1>41, <2>1, <2>2 DEF interrupt, TypeOK, AllVerbs
<1>42. ASSUME NEW c \in Cmd, helperSpawns(c) PROVE TypeOK'
  <2>1. pc' \in [Cmd -> Steps]
    BY <1>42, <1>a DEF helperSpawns, FirstStep, Steps, StopSteps
  <2>2. verb' \in [Cmd -> AllVerbs] /\ done' \in [Cmd -> SUBSET Flags]
    BY <1>42 DEF helperSpawns, TypeOK, AllVerbs
  <2> QED
    BY <1>42, <2>1, <2>2 DEF helperSpawns, TypeOK
<1>43. CASE helperGivesUp
  BY <1>43 DEF helperGivesUp, TypeOK
<1>44. CASE helperAsync
  <2>1. pc' \in [Cmd -> Steps]
    BY <1>44 DEF helperAsync, killContext, TypeOK, Steps, CleanSteps
  <2> QED
    BY <1>44, <2>1 DEF helperAsync, killContext, TypeOK
<1>45. CASE helperKills
  <2>1. pc' \in [Cmd -> Steps]
    BY <1>45 DEF helperKills, killContext, TypeOK, Steps, CleanSteps
  <2> QED
    BY <1>45, <2>1 DEF helperKills, killContext, TypeOK
<1>46. CASE guestExit
  BY <1>46 DEF guestExit, TypeOK
<1>47. CASE \E a \in {"restart", "halt"} : guestReboot(a)
  BY <1>47 DEF guestReboot, TypeOK
<1> QED
  BY <1>1, <1>2, <1>3, <1>4, <1>5, <1>6, <1>7, <1>8, <1>9, <1>10, <1>11, <1>12,
     <1>13, <1>14, <1>15, <1>16, <1>17, <1>18, <1>19, <1>20, <1>21, <1>22, <1>23,
     <1>24, <1>25, <1>26, <1>27, <1>28, <1>29, <1>30, <1>31, <1>32, <1>33, <1>34,
     <1>35, <1>36, <1>37, <1>38, <1>39, <1>40, <1>41, <1>42, <1>43, <1>44, <1>45,
     <1>46, <1>47 DEF Step, HelperStep, CmdStep, StartStep, StopStep

-----------------------------------------------------------------------------
(* Exclusion.                                                              *)

\* What a step of process c leaves alone: the locks of the others, and where
\* they are, but for a start whose chain was killed.
OthersStay(c) ==
    \A d \in Cmd \ {c} :
        /\ locks'[d] = locks[d]
        /\ pc'[d] = pc[d] \/ (pc[d] = "start.save" /\ pc'[d] = "clean.umount")

\* A process enters its critical steps only when nobody has the startup lock.
LEMMA StackFrame ==
    ASSUME TypeOK, StackInv, OneAtATime, setup' = setup, NEW c \in Cmd, OthersStay(c),
           NoTimeouts => StackOf(c)',
           NoTimeouts /\ pc[c] \notin Critical /\ pc'[c] \in Critical => ~Locked("startup")
    PROVE  StackInv' /\ OneAtATime'
<1> SUFFICES ASSUME NoTimeouts PROVE (\A d \in Cmd : StackOf(d)') /\ OneAtATime'
  BY DEF StackInv, OneAtATime, NoTimeouts
<1>1. \A d \in Cmd : StackOf(d)
  BY DEF StackInv
<1>2. "start.save" \in Critical /\ "start.save" \notin IfsHeld
  BY DEF Critical, StartSteps, CleanSteps, IfsHeld
<1>3. "clean.umount" \in Critical /\ "clean.umount" \notin IfsHeld
  BY DEF Critical, CleanSteps, IfsHeld
<1>4. \A d \in Cmd \ {c} : StackOf(d)' /\ (pc'[d] \in Critical <=> pc[d] \in Critical)
  BY <1>1, <1>2, <1>3 DEF OthersStay, StackOf
<1>5. \A d \in Cmd : pc[d] \in Critical => Locked("startup")
  <2> SUFFICES ASSUME NEW d \in Cmd, pc[d] \in Critical
               PROVE  \E i \in 1 .. Len(locks[d]) : locks[d][i] = "startup"
    BY DEF Locked
  <2>1. CASE locks[d] = <<"startup">>
    BY <2>1
  <2>2. CASE locks[d] = <<"interfaces", "startup">>
    BY <2>2
  <2> QED
    BY <1>1, <2>1, <2>2 DEF StackOf
<1>6. \A d, e \in Cmd : pc'[d] \in Critical /\ pc'[e] \in Critical => d = e
  BY <1>4, <1>5 DEF OneAtATime
<1> QED
  BY <1>4, <1>6 DEF OneAtATime

\* A step that takes no lock and drops none, between two steps that need the
\* same ones.
LEMMA StackKept ==
    ASSUME TypeOK, StackInv, NEW c \in Cmd, UNCHANGED locks,
           pc'[c] \in Critical <=> pc[c] \in Critical, pc'[c] \in IfsHeld => pc[c] \in IfsHeld
    PROVE  NoTimeouts => StackOf(c)'
BY DEF StackInv, StackOf, NoTimeouts

\* Both locks of a start or a stop on one stack.
LEMMA TwoLocks == <<"interfaces">> \o <<"startup">> = <<"interfaces", "startup">>
<1> DEFINE s == <<"interfaces">> \o <<"startup">>
           t == <<"interfaces", "startup">>
<1>1. s \in Seq(Names) /\ t \in Seq(Names)
  BY DEF Names
<1>2. Len(s) = 2 /\ Len(t) = 2 /\ s[1] = t[1] /\ s[2] = t[2]
  OBVIOUS
<1>3. 1 .. 2 = {1, 2}
  OBVIOUS
<1> HIDE DEF s, t
<1>4. s = t
  BY <1>1, <1>2, <1>3, SeqEqual
<1> QED
  BY <1>4 DEF s, t

\* lock and unlock 1 with the locks a script has at these steps.
LEMMA StackChanges ==
    ASSUME TypeOK, StackInv, NoTimeouts, NEW c \in Cmd
    PROVE  /\ pc[c] \notin Critical /\ lock(c, "startup", "lock") =>
                 ~Locked("startup") /\ locks' = [locks EXCEPT ![c] = <<"startup">>]
           /\ pc[c] \in Critical /\ lock(c, "interfaces", "iflock") =>
                 locks' = [locks EXCEPT ![c] = <<"interfaces", "startup">>]
           /\ pc[c] \in IfsHeld /\ unlock1(c) => locks' = [locks EXCEPT ![c] = <<"startup">>]
<1>1. ~Can("lock") /\ ~Can("iflock")
  BY DEF NoTimeouts, Can
<1>2. StackOf(c) /\ locks \in [Cmd -> Seq(Names)]
  BY DEF StackInv, TypeOK, Names
<1>3. <<"startup">> \o << >> = <<"startup">>
  OBVIOUS
<1>4. ASSUME locks[c] = <<"interfaces", "startup">> PROVE Locked("interfaces")
  <2>1. 1 \in 1 .. Len(locks[c]) /\ locks[c][1] = "interfaces"
    BY <1>4
  <2> QED
    BY <2>1 DEF Locked
<1>5. Tail(<<"interfaces", "startup">>) = <<"startup">> /\ <<"interfaces", "startup">> # << >>
  OBVIOUS
<1>6. ASSUME pc[c] \notin Critical, lock(c, "startup", "lock")
      PROVE  ~Locked("startup") /\ locks' = [locks EXCEPT ![c] = <<"startup">>]
  BY <1>1, <1>2, <1>3, <1>6 DEF lock, StackOf
<1>7. ASSUME pc[c] \in Critical, lock(c, "interfaces", "iflock")
      PROVE  locks' = [locks EXCEPT ![c] = <<"interfaces", "startup">>]
  BY <1>1, <1>2, <1>4, <1>7, TwoLocks DEF lock, StackOf
<1>8. ASSUME pc[c] \in IfsHeld, unlock1(c)
      PROVE  locks' = [locks EXCEPT ![c] = <<"startup">>]
  <2>1. locks[c] = <<"interfaces", "startup">>
    BY <1>2, <1>8 DEF StackOf
  <2>2. locks' = [locks EXCEPT ![c] = Tail(locks[c])]
    BY <1>5, <1>8, <2>1 DEF unlock1
  <2> QED
    BY <1>5, <2>1, <2>2
<1> QED
  BY <1>6, <1>7, <1>8

\* Every step leaves on _VS_LOCKS what its script has come to.
LEMMA StackStep ==
    ASSUME TypeOK, TypeOK', StackInv, OneAtATime, Step, setup' = setup
    PROVE  StackInv' /\ OneAtATime'
<1> DEFINE Goal(c) == /\ OthersStay(c) /\ (NoTimeouts => StackOf(c)')
                      /\ NoTimeouts /\ pc[c] \notin Critical /\ pc'[c] \in Critical
                            => ~Locked("startup")
<1> USE DEF At, GoTo
<1>1. ASSUME NEW c \in Cmd, startRm(c) PROVE Goal(c)
  BY <1>1, StackKept DEF startRm, TypeOK, OthersStay, Critical, IfsHeld, StartSteps,
        CleanSteps, StopSteps
<1>2. ASSUME NEW c \in Cmd, startPrep(c) PROVE Goal(c)
  BY <1>2, StackKept DEF startPrep, TypeOK, OthersStay, Critical, IfsHeld, StartSteps,
        CleanSteps, StopSteps
<1>3. ASSUME NEW c \in Cmd, startIfs(c) PROVE Goal(c)
  BY <1>3, StackKept DEF startIfs, TypeOK, OthersStay, Critical, IfsHeld, StartSteps,
        CleanSteps, StopSteps
<1>4. ASSUME NEW c \in Cmd, startMount(c) PROVE Goal(c)
  BY <1>4, StackKept DEF startMount, TypeOK, OthersStay, Critical, IfsHeld, StartSteps,
        CleanSteps, StopSteps
<1>5. ASSUME NEW c \in Cmd, startPre(c) PROVE Goal(c)
  BY <1>5, StackKept DEF startPre, TypeOK, OthersStay, Critical, IfsHeld, StartSteps,
        CleanSteps, StopSteps
<1>6. ASSUME NEW c \in Cmd, startExec(c) PROVE Goal(c)
  BY <1>6, StackKept DEF startExec, TypeOK, OthersStay, Critical, IfsHeld, StartSteps,
        CleanSteps, StopSteps
<1>7. ASSUME NEW c \in Cmd, startSave(c) PROVE Goal(c)
  BY <1>7, StackKept DEF startSave, TypeOK, OthersStay, Critical, IfsHeld, StartSteps,
        CleanSteps, StopSteps
<1>8. ASSUME NEW c \in Cmd, startPost(c) PROVE Goal(c)
  BY <1>8, StackKept DEF startPost, TypeOK, OthersStay, Critical, IfsHeld, StartSteps,
        CleanSteps, StopSteps
<1>9. ASSUME NEW c \in Cmd, startInit(c) PROVE Goal(c)
  BY <1>9, StackKept DEF startInit, TypeOK, OthersStay, Critical, IfsHeld, StartSteps,
        CleanSteps, StopSteps
<1>10. ASSUME NEW c \in Cmd, cleanUmount(c) PROVE Goal(c)
  BY <1>10, StackKept DEF cleanUmount, TypeOK, OthersStay, Critical, IfsHeld, StartSteps,
        CleanSteps, StopSteps
<1>11. ASSUME NEW c \in Cmd, cleanIfs(c) PROVE Goal(c)
  BY <1>11, StackKept DEF cleanIfs, TypeOK, OthersStay, Critical, IfsHeld, StartSteps,
        CleanSteps, StopSteps
<1>12. ASSUME NEW c \in Cmd, stopProbe(c) PROVE Goal(c)
  BY <1>12, StackKept DEF stopProbe, TypeOK, OthersStay, Critical, IfsHeld, StartSteps,
        CleanSteps, StopSteps
<1>13. ASSUME NEW c \in Cmd, stopProbeRm(c) PROVE Goal(c)
  BY <1>13, StackKept DEF stopProbeRm, TypeOK, OthersStay, Critical, IfsHeld, StartSteps,
        CleanSteps, StopSteps
<1>14. ASSUME NEW c \in Cmd, stopCheck(c) PROVE Goal(c)
  BY <1>14, StackKept DEF stopCheck, TypeOK, OthersStay, Critical, IfsHeld, StartSteps,
        CleanSteps, StopSteps
<1>15. ASSUME NEW c \in Cmd, stopRm(c) PROVE Goal(c)
  BY <1>15, StackKept DEF stopRm, TypeOK, OthersStay, Critical, IfsHeld, StartSteps,
        CleanSteps, StopSteps
<1>16. ASSUME NEW c \in Cmd, stopGen(c) PROVE Goal(c)
  BY <1>16, StackKept DEF stopGen, TypeOK, OthersStay, Critical, IfsHeld, StartSteps,
        CleanSteps, StopSteps
<1>17. ASSUME NEW c \in Cmd, stopSync(c) PROVE Goal(c)
  BY <1>17, StackKept DEF stopSync, TypeOK, OthersStay, Critical, IfsHeld, StartSteps,
        CleanSteps, StopSteps
<1>18. ASSUME NEW c \in Cmd, stopSignal(c) PROVE Goal(c)
  BY <1>18, StackKept DEF stopSignal, TypeOK, OthersStay, Critical, IfsHeld, StartSteps,
        CleanSteps, StopSteps
<1>19. ASSUME NEW c \in Cmd, stopDoSync(c) PROVE Goal(c)
  BY <1>19, StackKept DEF stopDoSync, TypeOK, OthersStay, Critical, IfsHeld, StartSteps,
        CleanSteps, StopSteps
<1>20. ASSUME NEW c \in Cmd, stopRunning(c) PROVE Goal(c)
  BY <1>20, StackKept DEF stopRunning, TypeOK, OthersStay, Critical, IfsHeld, StartSteps,
        CleanSteps, StopSteps
<1>21. ASSUME NEW c \in Cmd, stopRunningRm(c) PROVE Goal(c)
  BY <1>21, StackKept DEF stopRunningRm, TypeOK, OthersStay, Critical, IfsHeld, StartSteps,
        CleanSteps, StopSteps
<1>22. ASSUME NEW c \in Cmd, stopUmount(c) PROVE Goal(c)
  BY <1>22, StackKept DEF stopUmount, TypeOK, OthersStay, Critical, IfsHeld, StartSteps,
        CleanSteps, StopSteps
<1>23. ASSUME NEW c \in Cmd, stopIfs(c) PROVE Goal(c)
  BY <1>23, StackKept DEF stopIfs, TypeOK, OthersStay, Critical, IfsHeld, StartSteps,
        CleanSteps, StopSteps
<1>24. ASSUME NEW c \in Cmd, runningCheck(c) PROVE Goal(c)
  BY <1>24, StackKept DEF runningCheck, TypeOK, OthersStay, Critical, IfsHeld, StartSteps,
        CleanSteps, StopSteps
<1>25. ASSUME NEW c \in Cmd, runningRm(c) PROVE Goal(c)
  BY <1>25, StackKept DEF runningRm, TypeOK, OthersStay, Critical, IfsHeld, StartSteps,
        CleanSteps, StopSteps
<1>26. ASSUME NEW c \in Cmd, startLock(c) PROVE Goal(c)
  <2>1. pc[c] \notin Critical /\ pc'[c] \in Critical \ IfsHeld
    BY <1>26 DEF startLock, TypeOK, Critical, IfsHeld, StartSteps, CleanSteps, StopSteps
  <2>2. \A d \in Cmd \ {c} : pc'[d] = pc[d] /\ locks'[d] = locks[d]
    BY <1>26 DEF startLock, lock, TypeOK
  <2> QED
    BY <1>26, <2>1, <2>2, StackChanges DEF startLock, TypeOK, OthersStay, StackOf, NoTimeouts
<1>27. ASSUME NEW c \in Cmd, stopLock(c) PROVE Goal(c)
  <2>1. pc[c] \notin Critical /\ pc'[c] \in Critical \ IfsHeld
    BY <1>27 DEF stopLock, TypeOK, Critical, IfsHeld, StartSteps, CleanSteps, StopSteps
  <2>2. \A d \in Cmd \ {c} : pc'[d] = pc[d] /\ locks'[d] = locks[d]
    BY <1>27 DEF stopLock, lock, TypeOK
  <2> QED
    BY <1>27, <2>1, <2>2, StackChanges DEF stopLock, TypeOK, OthersStay, StackOf, NoTimeouts
<1>28. ASSUME NEW c \in Cmd, startIfsLock(c) PROVE Goal(c)
  <2>1. pc[c] \in Critical /\ pc'[c] \in Critical
    BY <1>28 DEF startIfsLock, TypeOK, Critical, IfsHeld, StartSteps, CleanSteps, StopSteps
  <2>2. \A d \in Cmd \ {c} : pc'[d] = pc[d] /\ locks'[d] = locks[d]
    BY <1>28 DEF startIfsLock, lock, TypeOK
  <2> QED
    BY <1>28, <2>1, <2>2, StackChanges DEF startIfsLock, TypeOK, OthersStay, StackOf, NoTimeouts
<1>29. ASSUME NEW c \in Cmd, cleanIfsLock(c) PROVE Goal(c)
  <2>1. pc[c] \in Critical /\ pc'[c] \in Critical
    BY <1>29 DEF cleanIfsLock, TypeOK, Critical, IfsHeld, StartSteps, CleanSteps, StopSteps
  <2>2. \A d \in Cmd \ {c} : pc'[d] = pc[d] /\ locks'[d] = locks[d]
    BY <1>29 DEF cleanIfsLock, lock, TypeOK
  <2> QED
    BY <1>29, <2>1, <2>2, StackChanges DEF cleanIfsLock, TypeOK, OthersStay, StackOf, NoTimeouts
<1>30. ASSUME NEW c \in Cmd, stopIfsLock(c) PROVE Goal(c)
  <2>1. pc[c] \in Critical /\ pc'[c] \in Critical
    BY <1>30 DEF stopIfsLock, TypeOK, Critical, IfsHeld, StartSteps, CleanSteps, StopSteps
  <2>2. \A d \in Cmd \ {c} : pc'[d] = pc[d] /\ locks'[d] = locks[d]
    BY <1>30 DEF stopIfsLock, lock, TypeOK
  <2> QED
    BY <1>30, <2>1, <2>2, StackChanges DEF stopIfsLock, TypeOK, OthersStay, StackOf, NoTimeouts
<1>31. ASSUME NEW c \in Cmd, startIfsUnlock(c) PROVE Goal(c)
  <2>1. pc[c] \in IfsHeld /\ pc[c] \in Critical /\ pc'[c] \in Critical \ IfsHeld
    BY <1>31 DEF startIfsUnlock, TypeOK, Critical, IfsHeld, StartSteps, CleanSteps, StopSteps
  <2>2. \A d \in Cmd \ {c} : pc'[d] = pc[d] /\ locks'[d] = locks[d]
    BY <1>31 DEF startIfsUnlock, unlock1, TypeOK
  <2> QED
    BY <1>31, <2>1, <2>2, StackChanges DEF startIfsUnlock, TypeOK, OthersStay, StackOf, NoTimeouts
<1>32. ASSUME NEW c \in Cmd, cleanIfsUnlock(c) PROVE Goal(c)
  <2>1. pc[c] \in IfsHeld /\ pc[c] \in Critical /\ pc'[c] \in Critical \ IfsHeld
    BY <1>32 DEF cleanIfsUnlock, TypeOK, Critical, IfsHeld, StartSteps, CleanSteps, StopSteps
  <2>2. \A d \in Cmd \ {c} : pc'[d] = pc[d] /\ locks'[d] = locks[d]
    BY <1>32 DEF cleanIfsUnlock, unlock1, TypeOK
  <2> QED
    BY <1>32, <2>1, <2>2, StackChanges DEF cleanIfsUnlock, TypeOK, OthersStay, StackOf, NoTimeouts
<1>33. ASSUME NEW c \in Cmd, stopIfsUnlock(c) PROVE Goal(c)
  <2>1. pc[c] \in IfsHeld /\ pc[c] \in Critical /\ pc'[c] \in Critical \ IfsHeld
    BY <1>33 DEF stopIfsUnlock, TypeOK, Critical, IfsHeld, StartSteps, CleanSteps, StopSteps
  <2>2. \A d \in Cmd \ {c} : pc'[d] = pc[d] /\ locks'[d] = locks[d]
    BY <1>33 DEF stopIfsUnlock, unlock1, TypeOK
  <2> QED
    BY <1>33, <2>1, <2>2, StackChanges DEF stopIfsUnlock, TypeOK, OthersStay, StackOf, NoTimeouts
<1>34. ASSUME NEW c \in Cmd, startCheck(c) PROVE Goal(c)
  BY <1>34 DEF startCheck, unlock, NoTimeouts, TypeOK, OthersStay, StackInv, StackOf, Critical,
        IfsHeld, StartSteps, CleanSteps, StopSteps
<1>35. ASSUME NEW c \in Cmd, startEnd(c) PROVE Goal(c)
  BY <1>35 DEF startEnd, unlock, NoTimeouts, TypeOK, OthersStay, StackInv, StackOf, Critical,
        IfsHeld, StartSteps, CleanSteps, StopSteps
<1>36. ASSUME NEW c \in Cmd, cleanUnlock(c) PROVE Goal(c)
  BY <1>36 DEF cleanUnlock, unlock, NoTimeouts, TypeOK, OthersStay, StackInv, StackOf,
        Critical, IfsHeld, StartSteps, CleanSteps, StopSteps
<1>37. ASSUME NEW c \in Cmd, stopUnlock(c) PROVE Goal(c)
  BY <1>37 DEF stopUnlock, unlock, NoTimeouts, TypeOK, OthersStay, StackInv, StackOf, Critical,
        IfsHeld, StartSteps, CleanSteps, StopSteps
<1>38. ASSUME NEW c \in Cmd, stopWait(c) PROVE Goal(c)
  BY <1>38, StackKept DEF stopWait, killContext, TypeOK, OthersStay, Critical, IfsHeld,
        StartSteps, CleanSteps, StopSteps
<1>39. ASSUME NEW c \in Cmd, stopKill(c) PROVE Goal(c)
  BY <1>39, StackKept DEF stopKill, killContext, TypeOK, OthersStay, Critical, IfsHeld,
        StartSteps, CleanSteps, StopSteps
<1>40. ASSUME NEW c \in Cmd, NEW v \in AllVerbs, give(c, v) PROVE Goal(c)
  BY <1>40, StackKept DEF give, FirstStep, AllVerbs, TypeOK, OthersStay, Critical, IfsHeld,
        StartSteps, CleanSteps, StopSteps
<1>41. ASSUME NEW c \in Cmd, helperSpawns(c) PROVE Goal(c)
  BY <1>41, StackKept DEF helperSpawns, FirstStep, TypeOK, OthersStay, Critical, IfsHeld,
        StartSteps, CleanSteps, StopSteps
<1>42. ASSUME NEW c \in Cmd, interrupt(c) PROVE Goal(c)
  <2>1. \A d \in Cmd \ {c} : pc'[d] = pc[d] /\ locks'[d] = locks[d]
    BY <1>42 DEF interrupt, unlock, TypeOK
  <2>2. CASE pc[c] \in Untrapped
    <3>1. pc'[c] \notin Critical /\ pc'[c] \notin IfsHeld /\ locks'[c] = << >>
      BY <1>42, <2>2 DEF interrupt, unlock, TypeOK, Critical, IfsHeld, StartSteps, CleanSteps,
            StopSteps
    <3> QED
      BY <2>1, <3>1 DEF OthersStay, StackOf
  <2>3. CASE pc[c] \notin Untrapped
    <3>1. UNCHANGED locks /\ pc'[c] = IF pc[c] \in StartSteps THEN "clean.umount" ELSE "stop.unlock"
      BY <1>42, <2>3 DEF interrupt, TypeOK
    <3>2. pc[c] \in Critical /\ pc'[c] \in Critical /\ pc'[c] \notin IfsHeld
      BY <1>42, <2>3, <3>1 DEF interrupt, TypeOK, Steps, Untrapped, Critical, IfsHeld,
            StartSteps, CleanSteps, StopSteps
    <3> QED
      BY <2>1, <3>1, <3>2, StackKept DEF OthersStay
  <2> QED
    BY <2>2, <2>3
<1>43. ASSUME NEW c \in Cmd, Goal(c) PROVE StackInv' /\ OneAtATime'
  BY <1>43, StackFrame
<1>44. CASE helperAsync \/ helperKills
  <2>1. \A c \in Cmd : Goal(c)
    <3>1. \A c \in Cmd : OthersStay(c)
      BY <1>44 DEF helperAsync, helperKills, killContext, OthersStay, TypeOK
    <3>2. \A c \in Cmd : /\ pc'[c] \in Critical <=> pc[c] \in Critical
                         /\ pc'[c] \in IfsHeld => pc[c] \in IfsHeld
      BY <1>44 DEF helperAsync, helperKills, killContext, TypeOK, Critical, IfsHeld,
            StartSteps, CleanSteps, StopSteps
    <3> QED
      BY <1>44, <3>1, <3>2, StackKept DEF helperAsync, helperKills
  <2>2. CASE Cmd = {}
    BY <2>2 DEF StackInv, OneAtATime
  <2> QED
    BY <1>43, <2>1, <2>2
<1>45. CASE helperGivesUp \/ guestExit \/ \E a \in {"restart", "halt"} : guestReboot(a)
  <2>1. UNCHANGED <<pc, locks>>
    BY <1>45 DEF helperGivesUp, guestExit, guestReboot
  <2> QED
    BY <2>1 DEF StackInv, StackOf, OneAtATime, NoTimeouts
<1> HIDE DEF Goal
<1> QED
  BY <1>1, <1>2, <1>3, <1>4, <1>5, <1>6, <1>7, <1>8, <1>9, <1>10, <1>11, <1>12,
     <1>13, <1>14, <1>15, <1>16, <1>17, <1>18, <1>19, <1>20, <1>21, <1>22, <1>23,
     <1>24, <1>25, <1>26, <1>27, <1>28, <1>29, <1>30, <1>31, <1>32, <1>33, <1>34,
     <1>35, <1>36, <1>37, <1>38, <1>39, <1>40, <1>41, <1>42, <1>43, <1>44, <1>45
     DEF Step, HelperStep, CmdStep, StartStep, StopStep

-----------------------------------------------------------------------------
(* The context, the run file, the interfaces and the mounts.               *)

\* What the process at work knows, when nobody else is at work.
RoomAt(l) ==
    /\ ctx \in {"up", "halting"} => run
    /\ ctx = "setup" => l = "start.save"
    /\ Room(l)

CompleteAt(l) ==
    setup.faults \cap {"post", "int"} = {} =>
        /\ ctx # "none" => net # "down" /\ mnt = AvoidNamespace
        /\ Complete(l)

\* One process at work: what holds of it is what holds.
LEMMA Alone ==
    ASSUME TypeOK, OneAtATime, NoTimeouts, NoProbes, NEW c \in Cmd, pc[c] \in Critical
    PROVE  /\ RoomInv => RoomAt(pc[c])
           /\ CompleteInv => CompleteAt(pc[c])
           /\ RoomInv /\ OneAtATime => \A d \in Cmd \ {c} : Room(pc[d]) /\ pc[d] \notin Critical
<1>1. \A d \in Cmd : pc[d] = "start.save" => d = c
  BY DEF OneAtATime, Critical, StartSteps
<1> QED
  BY <1>1 DEF RoomInv, CompleteInv, RoomAt, CompleteAt, OneAtATime

\* What a step between lock and unlock keeps of what is said of the others.
LEMMA WorkFrame ==
    ASSUME TypeOK, TypeOK', OneAtATime, RoomInv, setup' = setup, NoTimeouts, NoProbes,
           NEW c \in Cmd, pc[c] \in Critical, \A d \in Cmd \ {c} : pc'[d] = pc[d],
           RoomAt(pc[c])', CompleteAt(pc[c])'
    PROVE  RoomInv' /\ CompleteInv'
<1>1. \A d \in Cmd \ {c} : /\ pc[d] \in Steps /\ pc[d] \notin Critical
                           /\ pc[d] \notin {"running.check", "running.rm", "stop.probe",
                                            "stop.proberm"}
  BY Alone DEF TypeOK, Room
<1>2. \A d \in Cmd \ {c} : Room(pc[d])' /\ Complete(pc[d])'
  BY <1>1 DEF Room, Complete, Critical, Steps, StartSteps, CleanSteps, StopSteps
<1> QED
  BY <1>2 DEF RoomInv, CompleteInv, RoomAt, CompleteAt

\* A step of the process at work, one action after the other.
LEMMA WorkStep ==
    ASSUME TypeOK, TypeOK', OneAtATime, RoomInv, CompleteInv, setup' = setup,
           NoTimeouts, NoProbes, NEW c \in Cmd, CmdStep(c), pc[c] \in Critical
    PROVE  RoomInv' /\ CompleteInv'
<1> DEFINE Goal == /\ \A d \in Cmd \ {c} : pc'[d] = pc[d]
                   /\ RoomAt(pc[c])' /\ CompleteAt(pc[c])'
<1>a. RoomAt(pc[c]) /\ CompleteAt(pc[c])
  BY Alone
<1>b. \A d \in Cmd \ {c} : pc[d] # "start.save"
  BY Alone DEF Critical, StartSteps
<1> USE DEF At, GoTo, shared, RoomAt, CompleteAt, Room, Complete, CleanSteps
<1>1. ASSUME startCheck(c) PROVE Goal
  BY <1>1, <1>a DEF startCheck, TypeOK, AvoidNamespace, isVserverRunning
<1>2. ASSUME startRm(c) PROVE Goal
  BY <1>2, <1>a DEF startRm, TypeOK, AvoidNamespace, removeRun
<1>3. ASSUME startPrep(c) PROVE Goal
  BY <1>3, <1>a DEF startPrep, TypeOK, AvoidNamespace, Can
<1>4. ASSUME startIfsLock(c) PROVE Goal
  BY <1>4, <1>a DEF startIfsLock, TypeOK, AvoidNamespace
<1>5. ASSUME startIfs(c) PROVE Goal
  BY <1>5, <1>a DEF startIfs, TypeOK, AvoidNamespace
<1>6. ASSUME startIfsUnlock(c) PROVE Goal
  BY <1>6, <1>a DEF startIfsUnlock, TypeOK, AvoidNamespace
<1>7. ASSUME startMount(c) PROVE Goal
  BY <1>7, <1>a DEF startMount, TypeOK, AvoidNamespace
<1>8. ASSUME startPre(c) PROVE Goal
  BY <1>8, <1>a DEF startPre, TypeOK, AvoidNamespace, Can
<1>9. ASSUME startExec(c) PROVE Goal
  BY <1>9, <1>a DEF startExec, TypeOK, AvoidNamespace
<1>10. ASSUME startSave(c) PROVE Goal
  BY <1>10, <1>a DEF startSave, TypeOK, AvoidNamespace
<1>11. ASSUME startPost(c) PROVE Goal
  BY <1>11, <1>a DEF startPost, TypeOK, AvoidNamespace, Can
<1>12. ASSUME startInit(c) PROVE Goal
  BY <1>12, <1>a DEF startInit, TypeOK, AvoidNamespace
<1>13. ASSUME startEnd(c) PROVE Goal
  BY <1>13, <1>a DEF startEnd, TypeOK, AvoidNamespace
<1>14. ASSUME cleanUmount(c) PROVE Goal
  BY <1>14, <1>a DEF cleanUmount, TypeOK, AvoidNamespace
<1>15. ASSUME cleanIfsLock(c) PROVE Goal
  BY <1>15, <1>a DEF cleanIfsLock, TypeOK, AvoidNamespace
<1>16. ASSUME cleanIfs(c) PROVE Goal
  BY <1>16, <1>a DEF cleanIfs, TypeOK, AvoidNamespace
<1>17. ASSUME cleanIfsUnlock(c) PROVE Goal
  BY <1>17, <1>a DEF cleanIfsUnlock, TypeOK, AvoidNamespace
<1>18. ASSUME cleanUnlock(c) PROVE Goal
  BY <1>18, <1>a DEF cleanUnlock, TypeOK, AvoidNamespace
<1>19. ASSUME stopCheck(c) PROVE Goal
  BY <1>19, <1>a DEF stopCheck, TypeOK, AvoidNamespace, isVserverRunning
<1>20. ASSUME stopRm(c) PROVE Goal
  BY <1>20, <1>a DEF stopRm, TypeOK, AvoidNamespace, removeRun
<1>21. ASSUME stopGen(c) PROVE Goal
  BY <1>21, <1>a DEF stopGen, TypeOK, AvoidNamespace
<1>22. ASSUME stopSync(c) PROVE Goal
  BY <1>22, <1>a DEF stopSync, TypeOK, AvoidNamespace
<1>23. ASSUME stopSignal(c) PROVE Goal
  BY <1>23, <1>a DEF stopSignal, TypeOK, AvoidNamespace
<1>24. ASSUME stopDoSync(c) PROVE Goal
  BY <1>24, <1>a DEF stopDoSync, TypeOK, AvoidNamespace
<1>25. ASSUME stopWait(c) PROVE Goal
  BY <1>25, <1>a, <1>b DEF stopWait, TypeOK, AvoidNamespace, killContext
<1>26. ASSUME stopKill(c) PROVE Goal
  BY <1>26, <1>a, <1>b DEF stopKill, TypeOK, AvoidNamespace, killContext
<1>27. ASSUME stopRunning(c) PROVE Goal
  BY <1>27, <1>a DEF stopRunning, TypeOK, AvoidNamespace, isVserverRunning
<1>28. ASSUME stopRunningRm(c) PROVE Goal
  BY <1>28, <1>a DEF stopRunningRm, TypeOK, AvoidNamespace, removeRun
<1>29. ASSUME stopUmount(c) PROVE Goal
  BY <1>29, <1>a DEF stopUmount, TypeOK, AvoidNamespace
<1>30. ASSUME stopIfsLock(c) PROVE Goal
  BY <1>30, <1>a DEF stopIfsLock, TypeOK, AvoidNamespace
<1>31. ASSUME stopIfs(c) PROVE Goal
  BY <1>31, <1>a DEF stopIfs, TypeOK, AvoidNamespace
<1>32. ASSUME stopIfsUnlock(c) PROVE Goal
  BY <1>32, <1>a DEF stopIfsUnlock, TypeOK, AvoidNamespace
<1>33. ASSUME stopUnlock(c) PROVE Goal
  BY <1>33, <1>a DEF stopUnlock, TypeOK, AvoidNamespace
<1>34. Goal => RoomInv' /\ CompleteInv'
  BY WorkFrame DEF Goal
<1>35. ~(startLock(c) \/ stopLock(c) \/ stopProbe(c) \/ stopProbeRm(c) \/ runningCheck(c)
        \/ runningRm(c))
  BY DEF startLock, stopLock, stopProbe, stopProbeRm, runningCheck, runningRm, Critical,
         StartSteps, StopSteps
<1> HIDE DEF Goal
<1> QED
  BY <1>1, <1>2, <1>3, <1>4, <1>5, <1>6, <1>7, <1>8, <1>9, <1>10, <1>11, <1>12,
     <1>13, <1>14, <1>15, <1>16, <1>17, <1>18, <1>19, <1>20, <1>21, <1>22, <1>23,
     <1>24, <1>25, <1>26, <1>27, <1>28, <1>29, <1>30, <1>31, <1>32, <1>33, <1>34,
     <1>35
     DEF CmdStep, StartStep, StopStep

\* The other steps: taking the startup lock, giving a command, interrupting one,
\* and what the guest, the kernel and vshelper do, which only end the context.
LEMMA RoomStep ==
    ASSUME IInv, TypeOK', Step, setup' = setup
    PROVE  RoomInv' /\ CompleteInv'
<1> SUFFICES ASSUME NoTimeouts, NoProbes PROVE RoomInv' /\ CompleteInv'
  BY DEF RoomInv, CompleteInv, NoTimeouts, NoProbes, AvoidNamespace
<1>a. TypeOK /\ OneAtATime /\ RoomInv /\ CompleteInv
  BY DEF IInv
<1> DEFINE Outer == {"idle", "start.lock", "stop.lock", "start.check", "stop.check"}
<1>b. ASSUME NEW c \in Cmd, NEW l \in Outer, pc' = [pc EXCEPT ![c] = l], pc[c] \notin Critical,
             UNCHANGED <<run, ctx, net, mnt>>
      PROVE  RoomInv' /\ CompleteInv'
  <2>1. pc[c] # "start.save"
    BY <1>b DEF Critical, StartSteps
  <2>2. pc'[c] = l /\ \A d \in Cmd \ {c} : pc'[d] = pc[d]
    BY <1>a, <1>b DEF TypeOK
  <2> QED
    BY <1>a, <1>b, <2>1, <2>2 DEF RoomInv, CompleteInv, Room, Complete, AvoidNamespace, CleanSteps
<1>1. ASSUME NEW c \in Cmd, CmdStep(c) PROVE RoomInv' /\ CompleteInv'
  <2>1. CASE pc[c] \in Critical
    BY <1>1, <1>a, <2>1, WorkStep
  <2>2. CASE pc[c] \notin Critical
    <3>1. pc[c] \notin {"running.check", "running.rm", "stop.probe", "stop.proberm"}
      BY <1>a DEF RoomInv, Room
    <3>2. pc[c] \in {"idle", "start.lock", "stop.lock"}
      BY <1>a, <2>2, <3>1 DEF TypeOK, Steps, Critical, StartSteps, StopSteps, CleanSteps
    <3>3. startLock(c) \/ stopLock(c)
      BY <1>1, <3>2 DEF CmdStep, StartStep, StopStep, At, startLock, startCheck, startRm,
           startPrep, startIfsLock, startIfs, startIfsUnlock, startMount, startPre,
           startExec, startSave, startPost, startInit, startEnd, cleanUmount, cleanIfsLock,
           cleanIfs, cleanIfsUnlock, cleanUnlock, stopProbe, stopProbeRm, stopLock,
           stopCheck, stopRm, stopGen, stopSync, stopSignal, stopDoSync, stopWait,
           stopKill, stopRunning, stopRunningRm, stopUmount, stopIfsLock, stopIfs,
           stopIfsUnlock, stopUnlock, runningCheck, runningRm
    <3> QED
      BY <1>b, <2>2, <3>3 DEF startLock, stopLock, GoTo, shared
  <2> QED
    BY <2>1, <2>2
<1>2. ASSUME NEW c \in Cmd, NEW v \in AllVerbs, give(c, v) PROVE RoomInv' /\ CompleteInv'
  <2>1. pc[c] \notin Critical /\ FirstStep(v) \in Outer
    BY <1>2 DEF give, At, FirstStep, NoProbes, Critical, StartSteps, StopSteps, CleanSteps
  <2> QED
    BY <1>2, <1>b, <2>1 DEF give, GoTo, shared
<1>3. ASSUME NEW c \in Cmd, helperSpawns(c) PROVE RoomInv' /\ CompleteInv'
  <2>1. /\ pc[c] \notin Critical
        /\ FirstStep("restart") \in Outer /\ FirstStep("stop") \in Outer
    BY <1>3 DEF helperSpawns, At, FirstStep, NoProbes, Critical, StartSteps, StopSteps,
                CleanSteps
  <2> QED
    BY <1>3, <1>b, <2>1 DEF helperSpawns, GoTo, shared
<1>4. ASSUME NEW c \in Cmd, interrupt(c) PROVE RoomInv' /\ CompleteInv'
  <2>1. pc' = [pc EXCEPT ![c] = pc'[c]] /\ UNCHANGED <<run, net, mnt>>
    BY <1>4, <1>a DEF interrupt, GoTo, TypeOK
  <2>2. CASE pc[c] \notin Critical
    <3>1. pc'[c] = "idle" /\ UNCHANGED ctx
      BY <1>4, <1>a, <2>2 DEF interrupt, GoTo, At, TypeOK, Steps, Untrapped, Critical,
                              StartSteps, StopSteps, CleanSteps
    <3> QED
      BY <1>b, <2>1, <2>2, <3>1
  <2>3. CASE pc[c] \in Critical
    <3>1. RoomAt(pc[c]) /\ \A d \in Cmd \ {c} : pc'[d] = pc[d]
      BY <1>a, <2>1, <2>3, Alone DEF TypeOK
    <3>2. pc'[c] \in {"idle", "clean.umount", "stop.unlock"}
      BY <1>4, <1>a DEF interrupt, GoTo, TypeOK
    <3>3. RoomAt(pc[c])'
      BY <1>4, <2>1, <3>1, <3>2 DEF interrupt, At, RoomAt, Room
    <3>4. CompleteAt(pc[c])'
      BY <1>4 DEF interrupt, Can, CompleteAt
    <3> QED
      BY <1>a, <2>3, <3>1, <3>3, <3>4, WorkFrame
  <2> QED
    BY <2>2, <2>3
<1>5. CASE helperAsync \/ helperKills
  <2>1. /\ ctx' = "none" /\ UNCHANGED <<run, net, mnt>>
        /\ \A c \in Cmd : pc'[c] = IF pc[c] = "start.save" THEN "clean.umount" ELSE pc[c]
    BY <1>5 DEF helperAsync, helperKills, killContext
  <2> QED
    BY <1>a, <2>1 DEF RoomInv, CompleteInv, Room, Complete, AvoidNamespace, CleanSteps
<1>6. CASE guestExit
  <2>1. ctx' = "none" /\ ctx # "setup" /\ ctx # "none" /\ UNCHANGED <<run, net, mnt, pc>>
    BY <1>6 DEF guestExit
  <2>2. \A c \in Cmd : pc[c] # "start.save"
    BY <1>a, <2>1 DEF RoomInv, Room
  <2> QED
    BY <1>a, <2>1, <2>2 DEF RoomInv, CompleteInv, Room, Complete, AvoidNamespace, CleanSteps
<1>7. CASE helperGivesUp \/ \E a \in {"restart", "halt"} : guestReboot(a)
  <2>1. UNCHANGED <<run, ctx, net, mnt, pc>>
    BY <1>7 DEF helperGivesUp, guestReboot, shared
  <2> QED
    BY <1>a, <2>1 DEF RoomInv, CompleteInv, Room, Complete, AvoidNamespace
<1> QED
  BY <1>1, <1>2, <1>3, <1>4, <1>5, <1>6, <1>7 DEF Step, HelperStep

-----------------------------------------------------------------------------
(* The method 'async'.                                                     *)

\* Only stopSync puts it into the state file and only stopKill leaves the steps
\* at which it is in force, which removes the file; no lock is needed for that.
LEMMA AsyncStep ==
    ASSUME TypeOK, AsyncOnlyInStop, Step, setup' = setup
    PROVE  AsyncOnlyInStop'
<1> DEFINE Under == {"stop.signal", "stop.dosync", "stop.wait", "stop.kill"}
           Keeps == \A c \in Cmd : pc[c] \in Under => pc'[c] \in Under
<1> SUFFICES ASSUME "int" \notin setup.faults, state' = "async"
             PROVE  \E c \in Cmd : pc'[c] \in Under
  BY DEF AsyncOnlyInStop
<1>a. ASSUME Keeps, state' = state PROVE \E c \in Cmd : pc'[c] \in Under
  BY <1>a DEF AsyncOnlyInStop
<1>1. ASSUME NEW c \in Cmd,
             startLock(c) \/ startCheck(c) \/ startRm(c) \/ startPrep(c) \/
               startIfsLock(c) \/ startIfs(c)
      PROVE  Keeps /\ state' = state
  BY <1>1 DEF startLock, startCheck, startRm, startPrep, startIfsLock, startIfs, At,
     GoTo, TypeOK, shared
<1>2. ASSUME NEW c \in Cmd,
             startIfsUnlock(c) \/ startMount(c) \/ startPre(c) \/ startExec(c) \/
               startSave(c) \/ startPost(c)
      PROVE  Keeps /\ state' = state
  BY <1>2 DEF startIfsUnlock, startMount, startPre, startExec, startSave, startPost,
     At, GoTo, TypeOK, shared
<1>3. ASSUME NEW c \in Cmd,
             startEnd(c) \/ cleanUmount(c) \/ cleanIfsLock(c) \/ cleanIfs(c) \/
               cleanIfsUnlock(c) \/ cleanUnlock(c)
      PROVE  Keeps /\ state' = state
  BY <1>3 DEF startEnd, cleanUmount, cleanIfsLock, cleanIfs, cleanIfsUnlock,
     cleanUnlock, At, GoTo, TypeOK, shared
<1>4. ASSUME NEW c \in Cmd,
             stopProbe(c) \/ stopProbeRm(c) \/ stopLock(c) \/ stopCheck(c) \/
               stopRm(c) \/ stopRunning(c)
      PROVE  Keeps /\ state' = state
  BY <1>4 DEF stopProbe, stopProbeRm, stopLock, stopCheck, stopRm, stopRunning, At,
     GoTo, TypeOK, shared
<1>5. ASSUME NEW c \in Cmd,
             stopRunningRm(c) \/ stopUmount(c) \/ stopIfsLock(c) \/ stopIfs(c) \/
               stopIfsUnlock(c) \/ stopUnlock(c)
      PROVE  Keeps /\ state' = state
  BY <1>5 DEF stopRunningRm, stopUmount, stopIfsLock, stopIfs, stopIfsUnlock,
     stopUnlock, At, GoTo, TypeOK, shared
<1>6. ASSUME NEW c \in Cmd,
             runningCheck(c) \/ runningRm(c) \/ stopSignal(c) \/ stopDoSync(c)
      PROVE  Keeps /\ state' = state
  BY <1>6 DEF runningCheck, runningRm, stopSignal, stopDoSync, At, GoTo, TypeOK,
     shared
<1>20. ASSUME NEW c \in Cmd, startInit(c) \/ stopGen(c) \/ stopSync(c)
       PROVE  \E d \in Cmd : pc'[d] \in Under
  <2>1. Keeps
    BY <1>20 DEF startInit, stopGen, stopSync, At, GoTo, TypeOK
  <2>2. CASE state' = state
    BY <1>a, <2>1, <2>2
  <2>3. CASE state' # state
    BY <1>20, <2>3 DEF startInit, stopGen, stopSync, GoTo, TypeOK
  <2> QED
    BY <2>2, <2>3
<1>21. ASSUME NEW c \in Cmd, stopWait(c) PROVE Keeps /\ state' = state
  BY <1>21 DEF stopWait, At, GoTo, killContext, TypeOK
<1>22. ASSUME NEW c \in Cmd, stopKill(c) PROVE FALSE
  BY <1>22 DEF stopKill
<1>23. ASSUME NEW c \in Cmd, (\E v \in AllVerbs : give(c, v)) \/ helperSpawns(c)
       PROVE  Keeps /\ state' = state
  BY <1>23 DEF give, helperSpawns, At, GoTo, TypeOK, shared
<1>24. ASSUME NEW c \in Cmd, interrupt(c) PROVE FALSE
  BY <1>24 DEF interrupt, Can
<1>25. CASE helperAsync \/ helperKills
  <2>1. Keeps /\ state' = state
    BY <1>25 DEF helperAsync, helperKills, killContext
  <2> QED
    BY <1>a, <2>1
<1>26. CASE helperGivesUp \/ guestExit \/ \E a \in {"restart", "halt"} : guestReboot(a)
  <2>1. Keeps /\ state' = state
    BY <1>26 DEF helperGivesUp, guestExit, guestReboot, shared
  <2> QED
    BY <1>a, <2>1
<1> HIDE DEF Keeps, Under
<1> QED
  BY <1>a, <1>1, <1>2, <1>3, <1>4, <1>5, <1>6, <1>20, <1>21, <1>22, <1>23, <1>24,
     <1>25, <1>26
     DEF Step, HelperStep, CmdStep, StartStep, StopStep

-----------------------------------------------------------------------------
(* The theorems.                                                           *)

\* The invariant holds before the first command.
LEMMA Initially == Init => IInv
<1> SUFFICES ASSUME Init PROVE IInv
  OBVIOUS
<1>1. TypeOK
  <2>1. pc \in [Cmd -> Steps] /\ verb \in [Cmd -> AllVerbs]
    BY DEF Init, Steps, AllVerbs
  <2>2. << >> \in Seq({"startup", "interfaces"})
    OBVIOUS
  <2>3. locks \in [Cmd -> Seq({"startup", "interfaces"})]
    BY <2>2, Zenon DEF Init
  <2>4. {} \in SUBSET Flags
    OBVIOUS
  <2>5. done \in [Cmd -> SUBSET Flags]
    BY <2>4, Zenon DEF Init
  <2> QED
    BY <2>1, <2>3, <2>5 DEF Init, TypeOK
<1>2. \A c \in Cmd : pc[c] = "idle" /\ locks[c] = << >>
  BY DEF Init
<1>3. "idle" \notin Critical /\ "idle" \notin IfsHeld
  BY DEF Critical, IfsHeld, StartSteps, CleanSteps, StopSteps
<1>4. StackInv /\ OneAtATime
  BY <1>2, <1>3 DEF StackInv, StackOf, OneAtATime
<1>5. RoomInv /\ CompleteInv
  BY <1>2 DEF Init, RoomInv, CompleteInv, Room, Complete, CleanSteps
<1>6. AsyncOnlyInStop
  BY DEF Init, AsyncOnlyInStop
<1> QED
  BY <1>1, <1>4, <1>5, <1>6 DEF IInv

\* The invariant holds all the time.
LEMMA Invariance == Spec => []IInv
<1>1. IInv /\ [Next]_<<setup, vars>> => IInv'
  <2> SUFFICES ASSUME IInv, [Next]_<<setup, vars>> PROVE IInv'
    OBVIOUS
  <2>1. TypeOK'
    BY TypeStep DEF IInv
  <2>2. CASE Next
    <3>1. Step /\ setup' = setup
      BY <2>2 DEF Next
    <3>2. StackInv' /\ OneAtATime'
      BY <2>1, <3>1, StackStep DEF IInv
    <3>3. RoomInv' /\ CompleteInv'
      BY <2>1, <3>1, RoomStep
    <3>4. AsyncOnlyInStop'
      BY <3>1, AsyncStep DEF IInv
    <3> QED
      BY <2>1, <3>2, <3>3, <3>4 DEF IInv
  <2>3. CASE UNCHANGED <<setup, vars>>
    BY <2>1, <2>3 DEF IInv, vars, shared, StackInv, StackOf, OneAtATime, RoomInv, Room,
                      CompleteInv, Complete, AsyncOnlyInStop, NoTimeouts, NoProbes,
                      AvoidNamespace
  <2> QED
    BY <2>2, <2>3
<1> QED
  BY <1>1, Initially, PTL DEF Spec

\* The variables keep their types, for every set of processes and settings.
THEOREM TypesHold == Spec => []TypeOK
<1>1. IInv => TypeOK
  BY DEF IInv
<1> QED
  BY <1>1, Invariance, PTL

\* However many processes run start, stop and restart, and whatever fails or is
\* interrupted, at most one of them is between the check under the startup lock
\* and its release (vserver.start, vserver.stop, lock and unlock of
\* scripts/functions).
THEOREM Exclusion == Spec => []OneAtATime
<1>1. IInv => OneAtATime
  BY DEF IInv
<1> QED
  BY <1>1, Invariance, PTL

\* While no lock times out and nobody looks at the run file without one: a start
\* never meets a context or a run file of an earlier guest, and a stop leaves none,
\* nor mounts or interfaces (vcontext --create, save_ctxinfo, vserver.stop).
THEOREM CleanSlate == Spec => []NothingLeftOver
<1>1. IInv => NothingLeftOver
  BY DEF IInv, NothingLeftOver, SaveFindsRoom, StopLeavesNothing, RoomInv, Room
<1> QED
  BY <1>1, Invariance, PTL

\* Under the same conditions a guest that is up when no command is at work has its
\* run file, interfaces and mounts (vserver.start and its cleanup).
THEOREM Completeness == Spec => []UpIsComplete
<1>1. IInv => UpIsComplete
  BY DEF IInv, UpIsComplete, RoomInv, CompleteInv
<1> QED
  BY <1>1, Invariance, PTL

\* The method 'async' is in force only while a stop is at work, with and without
\* locks that time out (initSync of vserver.stop, vshelper.doDestroy).
THEOREM AsyncIsBounded == Spec => []AsyncOnlyInStop
<1>1. IInv => AsyncOnlyInStop
  BY DEF IInv
<1> QED
  BY <1>1, Invariance, PTL
=============================================================================
