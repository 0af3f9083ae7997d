------------------------------ MODULE Vserver -------------------------------
(***************************************************************************)
(* One vserver and the commands that work on it: 'vserver <v> start',      *)
(* 'stop', 'restart' and 'running' (scripts/vserver, vserver.start,        *)
(* vserver.stop, vserver.functions), and the vshelper the kernel calls     *)
(* when the guest reboots or halts (vshelper.pathsubst).                   *)
(*                                                                         *)
(* A command is a process Cmd; it is the sequence of its steps, and between *)
(* two steps any other process may run.  What the commands share is the    *)
(* kernel context, the run file, the mounts and interfaces of the guest,   *)
(* the vshelper state file and the two lock files.  lock and unlock are    *)
(* taken as LockFile.tla shows them to be: mutexes, with the pids of the   *)
(* helpers replaced by the name of the lock; a lock that is not granted    *)
(* before its timeout returns 1, which no caller looks at.                 *)
(*                                                                         *)
(* The context id is static, the init style is 'plain' (a fake init) and   *)
(* the kernel has vwait and migrate, the setup of current kernels.         *)
(***************************************************************************)
EXTENDS Sequences, Naturals

CONSTANTS
    Cmd,        \* processes that run a command
    Setups      \* the settings that are considered: which commands are given,
                \* which steps can fail, and whether isAvoidNamespace holds
                \* (the guest has no namespace of its own)

AllVerbs  == {"start", "stop", "restart", "running"}
AllFaults == {"lock", "iflock", "prep", "ifs", "mount", "pre", "post", "gen",
              "int"}

ASSUME VserverAssumption ==
    Setups \subseteq [verbs : SUBSET AllVerbs, faults : SUBSET AllFaults,
                      avoidNamespace : BOOLEAN]

VARIABLES
    setup,      \* the setting, which does not change
    pc,         \* pc[c]: the next step of process c
    verb,       \* verb[c]: the command process c runs
    locks,      \* locks[c]: _VS_LOCKS of process c
    done,       \* done[c]: is_mounted, have_interfaces, is_executed, and the
                \*          VSHELPER_STOP_SYNC pipe in the environment
    run,        \* the file <vserver>/run exists
    ctx,        \* the kernel context: "none", "setup", "up" or "halting"
    net,        \* the guest's interfaces: "down", "partial" or "up"
    mnt,        \* the guest's filesystems are mounted in the host's namespace
    state,      \* the first method in the vshelper state file, or "none"
    helper      \* the vshelper process: "none", or its next step

shared == <<run, ctx, net, mnt, state>>
vars   == <<pc, verb, locks, done, shared, helper>>

StartSteps == {"start.lock", "start.check", "start.rm", "start.prep",
               "start.ifs.lock", "start.ifs", "start.ifs.unlock", "start.mount",
               "start.pre", "start.exec", "start.save", "start.post",
               "start.init", "start.end"}
CleanSteps == {"clean.umount", "clean.ifs.lock", "clean.ifs",
               "clean.ifs.unlock", "clean.unlock"}
StopSteps  == {"stop.probe", "stop.proberm", "stop.lock", "stop.check",
               "stop.rm", "stop.gen", "stop.sync", "stop.signal",
               "stop.dosync", "stop.wait", "stop.kill", "stop.running",
               "stop.runningrm", "stop.umount", "stop.ifs.lock", "stop.ifs",
               "stop.ifs.unlock", "stop.unlock"}
Steps == {"idle", "running.check", "running.rm"}
            \cup StartSteps \cup CleanSteps \cup StopSteps

Flags == {"mounted", "interfaces", "executed", "stopsync"}

\* The variables have their types.
TypeOK ==
    /\ setup \in Setups
    /\ pc    \in [Cmd -> Steps]
    /\ verb  \in [Cmd -> AllVerbs]
    /\ locks \in [Cmd -> Seq({"startup", "interfaces"})]
    /\ done  \in [Cmd -> SUBSET Flags]
    /\ run \in BOOLEAN /\ mnt \in BOOLEAN
    /\ ctx \in {"none", "setup", "up", "halting"}
    /\ net \in {"down", "partial", "up"}
    /\ state \in {"none", "default", "async"}
    /\ helper \in {"none", "restart", "halt", "shutdown", "wait.restart",
                   "wait.halt", "kill"}

Init ==
    /\ setup \in Setups
    /\ pc    = [c \in Cmd |-> "idle"]
    /\ verb  = [c \in Cmd |-> "running"]
    /\ locks = [c \in Cmd |-> << >>]
    /\ done  = [c \in Cmd |-> {}]
    /\ run = FALSE /\ mnt = FALSE
    /\ ctx = "none" /\ net = "down"
    /\ state = "none" /\ helper = "none"

-----------------------------------------------------------------------------
(* What the steps are made of.                                             *)

At(c, l)   == pc[c] = l
GoTo(c, l) == pc' = [pc EXCEPT ![c] = l]
Can(f)     == f \in setup.faults
AvoidNamespace == setup.avoidNamespace
Has(c, f)  == f \in done[c]

Locked(l) == \E c \in Cmd : \E i \in 1 .. Len(locks[c]) : locks[c][i] = l

\* lock <l>: granted when nobody has it; at the timeout it returns 1, and the
\* caller goes on all the same.
lock(c, l, fault) ==
    \/ ~Locked(l)             /\ locks' = [locks EXCEPT ![c] = <<l>> \o @]
    \/ Locked(l) /\ Can(fault) /\ UNCHANGED locks

\* unlock 1
unlock1(c) ==
    locks' = [locks EXCEPT ![c] = IF @ = << >> THEN << >> ELSE Tail(@)]

\* unlock, or the end of the process
unlock(c) == locks' = [locks EXCEPT ![c] = << >>]

\* getVserverStatus: the run file names a context of this vserver that has
\* processes.
isVserverRunning == run /\ ctx # "none"

\* A run file without such a context is removed: the step after the one that
\* looked (isVserverRunning passes <do-cleanup>).
removeRun == run' = FALSE

\* killContext: every process of the context dies; a start whose chain of
\* commands was still in it sees it fail.
killContext(steps) ==
    /\ ctx' = "none"
    /\ pc'  = [d \in Cmd |-> IF steps[d] = "start.save" THEN "clean.umount"
                             ELSE steps[d]]

-----------------------------------------------------------------------------
(* Giving a command.                                                       *)

\* Where a command begins: 'stop' looks for the namespace of a running guest
\* before it takes the lock.
FirstStep(v) ==
    IF v = "start" THEN "start.lock"
    ELSE IF v = "running" THEN "running.check"
    ELSE IF AvoidNamespace THEN "stop.lock" ELSE "stop.probe"

give(c, v) ==
    /\ At(c, "idle") /\ v \in setup.verbs
    /\ GoTo(c, FirstStep(v))
    /\ verb' = [verb EXCEPT ![c] = v]
    /\ done' = [done EXCEPT ![c] = {}]
    /\ UNCHANGED <<locks, shared, helper>>

\* vserver ... running
runningCheck(c) ==
    /\ At(c, "running.check")
    /\ GoTo(c, IF run /\ ~isVserverRunning THEN "running.rm" ELSE "idle")
    /\ UNCHANGED <<verb, locks, done, shared, helper>>

runningRm(c) ==
    /\ At(c, "running.rm") /\ removeRun
    /\ GoTo(c, "idle")
    /\ UNCHANGED <<verb, locks, done, ctx, net, mnt, state, helper>>

-----------------------------------------------------------------------------
(* vserver.start                                                           *)

startLock(c) ==
    /\ At(c, "start.lock") /\ lock(c, "startup", "lock")
    /\ GoTo(c, "start.check")
    /\ UNCHANGED <<verb, done, shared, helper>>

\* Already running: exit 0, before the trap is set; the lock helper notices.
startCheck(c) ==
    /\ At(c, "start.check")
    /\ IF isVserverRunning
       THEN GoTo(c, "idle") /\ unlock(c)
       ELSE /\ GoTo(c, IF run THEN "start.rm" ELSE "start.prep")
            /\ UNCHANGED locks
    /\ UNCHANGED <<verb, done, shared, helper>>

startRm(c) ==
    /\ At(c, "start.rm") /\ removeRun
    /\ GoTo(c, "start.prep")
    /\ UNCHANGED <<verb, locks, done, ctx, net, mnt, state, helper>>

\* sanityCheck, initialize, fsckAllFS, mountRootFS, generateOptions,
\* prepre-start, setDiskLimits: any of them ends the start.
startPrep(c) ==
    /\ At(c, "start.prep")
    /\ \/ GoTo(c, "start.ifs.lock") /\ mnt' = AvoidNamespace
       \/ Can("prep") /\ GoTo(c, "clean.umount") /\ mnt' \in {mnt, AvoidNamespace}
    /\ UNCHANGED <<verb, locks, done, run, ctx, net, state, helper>>

\* enableInterfaces: lock, the commands, unlock 1.  Its result is tested with
\* &&, so neither a command that fails nor a failing last command ends the
\* start; have_interfaces depends on the result of unlock alone.
startIfsLock(c) ==
    /\ At(c, "start.ifs.lock") /\ lock(c, "interfaces", "iflock")
    /\ GoTo(c, "start.ifs")
    /\ UNCHANGED <<verb, done, shared, helper>>

startIfs(c) ==
    /\ At(c, "start.ifs")
    /\ \/ net' = "up"
       \/ Can("ifs") /\ net' = "partial"
    /\ GoTo(c, "start.ifs.unlock")
    /\ UNCHANGED <<verb, locks, done, run, ctx, mnt, state, helper>>

\* Fault: unlock instead of unlock 1.
startIfsUnlock_All(c) ==
    /\ At(c, "start.ifs.unlock") /\ unlock(c)
    /\ done' = [done EXCEPT ![c] = @ \cup {"interfaces"}]
    /\ GoTo(c, "start.mount")
    /\ UNCHANGED <<verb, shared, helper>>

startIfsUnlock(c) ==
    /\ At(c, "start.ifs.unlock") /\ unlock1(c)
    /\ done' = [done EXCEPT ![c] = @ \cup {"interfaces"}]
    /\ GoTo(c, "start.mount")
    /\ UNCHANGED <<verb, shared, helper>>

\* mountVserver, with the same && ; is_mounted is set only after a success.
startMount(c) ==
    /\ At(c, "start.mount")
    /\ mnt' = AvoidNamespace
    /\ \/ done' = [done EXCEPT ![c] = @ \cup {"mounted"}]
       \/ Can("mount") /\ UNCHANGED done
    /\ GoTo(c, "start.pre")
    /\ UNCHANGED <<verb, locks, run, ctx, net, state, helper>>

\* prepareInit, addtoCPUSET, attachToCgroup, setupNetNS, handleDeviceMap,
\* pre-start
startPre(c) ==
    /\ At(c, "start.pre")
    /\ \/ GoTo(c, "start.exec")
       \/ Can("pre") /\ GoTo(c, "clean.umount")
    /\ UNCHANGED <<verb, locks, done, shared, helper>>

\* vcontext --create: fails when the context exists.
startExec(c) ==
    /\ At(c, "start.exec")
    /\ IF ctx = "none"
       THEN ctx' = "setup" /\ GoTo(c, "start.save")
       ELSE UNCHANGED ctx  /\ GoTo(c, "clean.umount")
    /\ UNCHANGED <<verb, locks, done, run, net, mnt, state, helper>>

\* save_ctxinfo creates the run file with O_EXCL and execs the init; when it
\* cannot, the only process of the new context ends and the context with it.
startSave(c) ==
    /\ At(c, "start.save")
    /\ IF ctx = "setup" /\ ~run
       THEN /\ run' = TRUE /\ ctx' = "up"
            /\ done' = [done EXCEPT ![c] = @ \cup {"executed"}]
            /\ GoTo(c, "start.post")
       ELSE /\ ctx' = IF ctx = "setup" THEN "none" ELSE ctx
            /\ UNCHANGED <<run, done>>
            /\ GoTo(c, "clean.umount")
    /\ UNCHANGED <<verb, locks, net, mnt, state, helper>>

\* INITCMD_START_SYNC, post-start
startPost(c) ==
    /\ At(c, "start.post")
    /\ \/ GoTo(c, "start.init")
       \/ Can("post") /\ GoTo(c, "clean.umount")
    /\ UNCHANGED <<verb, locks, done, shared, helper>>

\* vshelper.doInit needs the run file; without it the start fails.
startInit(c) ==
    /\ At(c, "start.init")
    /\ IF run THEN state' = "default" /\ GoTo(c, "start.end")
              ELSE UNCHANGED state    /\ GoTo(c, "clean.umount")
    /\ UNCHANGED <<verb, locks, done, run, ctx, net, mnt, helper>>

\* is_started is set: cleanup only unlocks.
startEnd(c) ==
    /\ At(c, "start.end") /\ unlock(c)
    /\ GoTo(c, "idle")
    /\ UNCHANGED <<verb, done, shared, helper>>

\* cleanup of a start that failed
cleanUmount(c) ==
    /\ At(c, "clean.umount")
    /\ mnt' = IF Has(c, "mounted") /\ AvoidNamespace THEN FALSE ELSE mnt
    /\ GoTo(c, IF Has(c, "interfaces") THEN "clean.ifs.lock" ELSE "clean.unlock")
    /\ UNCHANGED <<verb, locks, done, run, ctx, net, state, helper>>

cleanIfsLock(c) ==
    /\ At(c, "clean.ifs.lock") /\ lock(c, "interfaces", "iflock")
    /\ GoTo(c, "clean.ifs")
    /\ UNCHANGED <<verb, done, shared, helper>>

cleanIfs(c) ==
    /\ At(c, "clean.ifs") /\ net' = "down"
    /\ GoTo(c, "clean.ifs.unlock")
    /\ UNCHANGED <<verb, locks, done, run, ctx, mnt, state, helper>>

cleanIfsUnlock(c) ==
    /\ At(c, "clean.ifs.unlock") /\ unlock1(c)
    /\ GoTo(c, "clean.unlock")
    /\ UNCHANGED <<verb, done, shared, helper>>

cleanUnlock(c) ==
    /\ At(c, "clean.unlock") /\ unlock(c)
    /\ GoTo(c, "idle")
    /\ UNCHANGED <<verb, done, shared, helper>>

-----------------------------------------------------------------------------
(* vserver.stop                                                            *)

\* scripts/vserver looks, without a lock, whether there is a namespace to enter.
stopProbe(c) ==
    /\ At(c, "stop.probe")
    /\ GoTo(c, IF run /\ ~isVserverRunning THEN "stop.proberm" ELSE "stop.lock")
    /\ UNCHANGED <<verb, locks, done, shared, helper>>

stopProbeRm(c) ==
    /\ At(c, "stop.proberm") /\ removeRun
    /\ GoTo(c, "stop.lock")
    /\ UNCHANGED <<verb, locks, done, ctx, net, mnt, state, helper>>

\* Fault: stop does not take the startup lock.
stopLock_None(c) ==
    /\ At(c, "stop.lock")
    /\ GoTo(c, "stop.check")
    /\ UNCHANGED <<verb, locks, done, shared, helper>>

stopLock(c) ==
    /\ At(c, "stop.lock") /\ lock(c, "startup", "lock")
    /\ GoTo(c, "stop.check")
    /\ UNCHANGED <<verb, done, shared, helper>>

\* Not running: only umountVserver, disableInterfaces and unlock.
stopCheck(c) ==
    /\ At(c, "stop.check")
    /\ GoTo(c, IF isVserverRunning THEN "stop.gen"
               ELSE IF run THEN "stop.rm" ELSE "stop.umount")
    /\ UNCHANGED <<verb, locks, done, shared, helper>>

stopRm(c) ==
    /\ At(c, "stop.rm") /\ removeRun
    /\ GoTo(c, "stop.umount")
    /\ UNCHANGED <<verb, locks, done, ctx, net, mnt, state, helper>>

\* generateOptions ends the stop when it fails; then vshelper.doDestroy.
stopGen(c) ==
    /\ At(c, "stop.gen")
    /\ \/ GoTo(c, "stop.sync") /\ state' = "none"
       \/ Can("gen") /\ GoTo(c, "stop.unlock") /\ UNCHANGED state
    /\ UNCHANGED <<verb, locks, done, run, ctx, net, mnt, helper>>

\* initSync: vshelper.doInit again, now with the method 'async'.
stopSync(c) ==
    /\ At(c, "stop.sync")
    /\ state' = IF run THEN "async" ELSE state
    /\ GoTo(c, "stop.signal")
    /\ UNCHANGED <<verb, locks, done, run, ctx, net, mnt, helper>>

\* pre-stop, initWait, and INT for the init process unless a vshelper called.
stopSignal(c) ==
    /\ At(c, "stop.signal")
    /\ ctx' = IF ctx = "up" /\ ~Has(c, "stopsync") THEN "halting" ELSE ctx
    /\ GoTo(c, "stop.dosync")
    /\ UNCHANGED <<verb, locks, done, run, net, mnt, state, helper>>

\* Fault: 'stopped' is written whether there is a pipe or not.
stopDoSync_Always(c) ==
    /\ At(c, "stop.dosync")
    /\ \/ helper = "wait.restart" /\ helper' = "none"
       \/ helper = "wait.halt"    /\ helper' = "kill"
    /\ done' = [done EXCEPT ![c] = @ \ {"stopsync"}]
    /\ GoTo(c, "stop.wait")
    /\ UNCHANGED <<verb, locks, shared>>

\* Fault: the pipe is removed and nothing written.
stopDoSync_Silent(c) ==
    /\ At(c, "stop.dosync")
    /\ done' = [done EXCEPT ![c] = @ \ {"stopsync"}]
    /\ GoTo(c, "stop.wait")
    /\ UNCHANGED <<verb, locks, shared, helper>>

\* vshelper.doStopSync: writing into the pipe waits for its reader.
stopDoSync(c) ==
    /\ At(c, "stop.dosync")
    /\ IF Has(c, "stopsync")
       THEN \/ helper = "wait.restart" /\ helper' = "none"
            \/ helper = "wait.halt"    /\ helper' = "kill"
       ELSE UNCHANGED helper
    /\ done' = [done EXCEPT ![c] = @ \ {"stopsync"}]
    /\ GoTo(c, "stop.wait")
    /\ UNCHANGED <<verb, locks, shared>>

\* waitForSync: vwait returns when the context is gone, or at its timeout,
\* and then the context is killed.
stopWait(c) ==
    /\ At(c, "stop.wait")
    /\ \/ ctx = "none" /\ GoTo(c, "stop.kill") /\ UNCHANGED ctx
       \/ ctx # "none" /\ killContext([pc EXCEPT ![c] = "stop.kill"])
    /\ UNCHANGED <<verb, locks, done, run, net, mnt, state, helper>>

\* Fault: the state file is not removed.
stopKill_KeepState(c) ==
    /\ At(c, "stop.kill")
    /\ killContext([pc EXCEPT ![c] = "stop.running"])
    /\ UNCHANGED <<verb, locks, done, run, net, mnt, state, helper>>

\* vshelper.doDestroy and sendKillSequence
stopKill(c) ==
    /\ At(c, "stop.kill")
    /\ killContext([pc EXCEPT ![c] = "stop.running"])
    /\ state' = "none"
    /\ UNCHANGED <<verb, locks, done, run, net, mnt, helper>>

\* Fault: no isVserverRunning at the end.
stopRunning_Skipped(c) ==
    /\ At(c, "stop.running")
    /\ GoTo(c, "stop.umount")
    /\ UNCHANGED <<verb, locks, done, shared, helper>>

\* isVserverRunning, for the sake of the stale run file
stopRunning(c) ==
    /\ At(c, "stop.running")
    /\ GoTo(c, IF run /\ ~isVserverRunning THEN "stop.runningrm" ELSE "stop.umount")
    /\ UNCHANGED <<verb, locks, done, shared, helper>>

stopRunningRm(c) ==
    /\ At(c, "stop.runningrm") /\ removeRun
    /\ GoTo(c, "stop.umount")
    /\ UNCHANGED <<verb, locks, done, ctx, net, mnt, state, helper>>

stopUmount(c) ==
    /\ At(c, "stop.umount") /\ mnt' = FALSE
    /\ GoTo(c, "stop.ifs.lock")
    /\ UNCHANGED <<verb, locks, done, run, ctx, net, state, helper>>

\* disableInterfaces
stopIfsLock(c) ==
    /\ At(c, "stop.ifs.lock") /\ lock(c, "interfaces", "iflock")
    /\ GoTo(c, "stop.ifs")
    /\ UNCHANGED <<verb, done, shared, helper>>

stopIfs(c) ==
    /\ At(c, "stop.ifs") /\ net' = "down"
    /\ GoTo(c, "stop.ifs.unlock")
    /\ UNCHANGED <<verb, locks, done, run, ctx, mnt, state, helper>>

stopIfsUnlock(c) ==
    /\ At(c, "stop.ifs.unlock") /\ unlock1(c)
    /\ GoTo(c, "stop.unlock")
    /\ UNCHANGED <<verb, done, shared, helper>>

\* saveDiskLimits ... destroyNetNS, and the trap; restart goes on with start.
stopUnlock(c) ==
    /\ At(c, "stop.unlock") /\ unlock(c)
    /\ IF verb[c] = "restart" THEN GoTo(c, "start.lock") ELSE GoTo(c, "idle")
    /\ done' = [done EXCEPT ![c] = {}]
    /\ UNCHANGED <<verb, shared, helper>>

-----------------------------------------------------------------------------
(* A command is interrupted (SIGINT, SIGTERM).                             *)

\* Where the script has not set its EXIT trap yet.
Untrapped == {"running.check", "running.rm", "start.lock", "start.check",
              "start.rm", "stop.probe", "stop.proberm", "stop.lock",
              "stop.check", "stop.rm"}

\* It ends at once, or runs its cleanup; the chain of commands of a start that
\* has not reached the init yet ends with it.
interrupt(c) ==
    /\ Can("int") /\ pc[c] \notin CleanSteps \cup {"idle", "stop.unlock"}
    /\ IF pc[c] \in Untrapped
       THEN GoTo(c, "idle") /\ unlock(c)
       ELSE /\ GoTo(c, IF pc[c] \in StartSteps THEN "clean.umount" ELSE "stop.unlock")
            /\ UNCHANGED locks
    /\ ctx' = IF At(c, "start.save") THEN "none" ELSE ctx
    /\ verb' = [verb EXCEPT ![c] = IF @ = "restart" THEN "stop" ELSE @]
    /\ UNCHANGED <<done, run, net, mnt, state, helper>>

-----------------------------------------------------------------------------
(* The guest, the kernel and vshelper.                                     *)

\* The last process of the guest ends; unless a stop removed the flag SC_HELPER
\* the kernel calls the vshelper for a 'shutdown'.
guestExit ==
    /\ ctx \in {"up", "halting"} /\ ctx' = "none"
    /\ \/ UNCHANGED helper
       \/ helper = "none" /\ helper' = "shutdown"
    /\ UNCHANGED <<pc, verb, locks, done, run, net, mnt, state>>

\* The guest calls reboot(2); the kernel runs the vshelper and waits for it.
guestReboot(action) ==
    /\ ctx \in {"up", "halting"} /\ helper = "none"
    /\ helper' = action
    /\ UNCHANGED <<pc, verb, locks, done, shared>>

\* vshelper without a state file or a run file gives up.
helperGivesUp ==
    /\ helper \in {"restart", "halt", "shutdown"}
    /\ state = "none" \/ ~run
    /\ helper' = "none"
    /\ UNCHANGED <<pc, verb, locks, done, shared>>

\* Method 'async', set by a stop in progress: killContext.
helperAsync ==
    /\ helper \in {"restart", "halt", "shutdown"}
    /\ state = "async" /\ run
    /\ killContext(pc) /\ helper' = "none"
    /\ UNCHANGED <<verb, locks, done, run, net, mnt, state>>

\* Fault: a shutdown waits on a pipe, too.
helperSpawns_Waits(c) ==
    /\ helper \in {"restart", "halt", "shutdown"} /\ At(c, "idle")
    /\ state = "default" /\ run
    /\ verb' = [verb EXCEPT ![c] = IF helper = "restart" THEN "restart" ELSE "stop"]
    /\ GoTo(c, FirstStep("stop"))
    /\ helper' = [restart |-> "wait.restart", halt |-> "wait.halt",
                  shutdown |-> "wait.shutdown"][helper]
    /\ done' = [done EXCEPT ![c] = {"stopsync"}]
    /\ UNCHANGED <<locks, shared>>

\* Method 'default' and its handler ':restart': spawn a restart or a stop with
\* the pipe in its environment and wait on the pipe; for a shutdown, a stop
\* without it.
helperSpawns(c) ==
    /\ helper \in {"restart", "halt", "shutdown"} /\ At(c, "idle")
    /\ state = "default" /\ run
    /\ LET v == IF helper = "restart" THEN "restart" ELSE "stop"
       IN  /\ verb' = [verb EXCEPT ![c] = v]
           /\ GoTo(c, FirstStep(v))
    /\ IF helper = "shutdown"
       THEN helper' = "none" /\ done' = [done EXCEPT ![c] = {}]
       ELSE /\ helper' = IF helper = "restart" THEN "wait.restart" ELSE "wait.halt"
            /\ done' = [done EXCEPT ![c] = {"stopsync"}]
    /\ UNCHANGED <<locks, shared>>

\* halt and poweroff: killContext after the stop is under way.
helperKills ==
    /\ helper = "kill" /\ helper' = "none"
    /\ killContext(pc)
    /\ UNCHANGED <<verb, locks, done, run, net, mnt, state>>

-----------------------------------------------------------------------------
StartStep(c) ==
    \/ startLock(c) \/ startCheck(c) \/ startRm(c) \/ startPrep(c)
    \/ startIfsLock(c) \/ startIfs(c) \/ startIfsUnlock(c) \/ startMount(c)
    \/ startPre(c) \/ startExec(c) \/ startSave(c) \/ startPost(c)
    \/ startInit(c) \/ startEnd(c)
    \/ cleanUmount(c) \/ cleanIfsLock(c) \/ cleanIfs(c) \/ cleanIfsUnlock(c)
    \/ cleanUnlock(c)

StopStep(c) ==
    \/ stopProbe(c) \/ stopProbeRm(c) \/ stopLock(c) \/ stopCheck(c)
    \/ stopRm(c) \/ stopGen(c) \/ stopSync(c) \/ stopSignal(c)
    \/ stopDoSync(c) \/ stopWait(c) \/ stopKill(c) \/ stopRunning(c)
    \/ stopRunningRm(c) \/ stopUmount(c) \/ stopIfsLock(c) \/ stopIfs(c)
    \/ stopIfsUnlock(c) \/ stopUnlock(c)

CmdStep(c) == StartStep(c) \/ StopStep(c) \/ runningCheck(c) \/ runningRm(c)

HelperStep == \/ helperGivesUp \/ helperAsync \/ helperKills
              \/ \E c \in Cmd : helperSpawns(c)

Step == \/ \E c \in Cmd : CmdStep(c) \/ interrupt(c) \/ \E v \in AllVerbs : give(c, v)
        \/ HelperStep
        \/ guestExit
        \/ \E a \in {"restart", "halt"} : guestReboot(a)

Next == Step /\ UNCHANGED setup

Spec == Init /\ [][Next]_<<setup, vars>>

\* Processes that can run do, and nobody is starved at a lock or when a process
\* is to be created.  Nothing is assumed of the guest or of the operator.
Fairness ==
    /\ \A c \in Cmd :
        /\ WF_vars(CmdStep(c))
        /\ SF_vars(startLock(c)) /\ SF_vars(stopLock(c))
    /\ SF_vars(HelperStep)

FairSpec == Spec /\ Fairness

-----------------------------------------------------------------------------
(* Properties.                                                             *)

\* The steps between the check under the startup lock and its release.
Critical == (StartSteps \ {"start.lock"}) \cup CleanSteps \cup
            (StopSteps \ {"stop.probe", "stop.proberm", "stop.lock"})

Quiet == \A c \in Cmd : pc[c] = "idle"

\* Every lock is waited for as long as it takes.
NoTimeouts == setup.faults \cap {"lock", "iflock"} = {}

\* Nobody looks at the run file without the lock: no command 'running', and no
\* namespace 'stop' would look for.
NoProbes == AvoidNamespace /\ "running" \notin setup.verbs

\* start and stop exclude each other for the whole of their work: taking and
\* dropping the interfaces lock inside never gives the startup lock away.
OneAtATime ==
    NoTimeouts => \A c, d \in Cmd : pc[c] \in Critical /\ pc[d] \in Critical => c = d

\* vcontext --create and the O_EXCL of save_ctxinfo never meet something left
\* by an earlier guest: the check of start removed it and nobody recreated it.
SaveFindsRoom ==
    NoTimeouts /\ NoProbes =>
        \A c \in Cmd : /\ pc[c] = "start.exec" => ctx = "none"
                       /\ pc[c] = "start.save" => ~run

\* A stop that came to its end left nothing behind, and took nothing away from
\* a guest that was started meanwhile.
StopLeavesNothing ==
    NoTimeouts /\ NoProbes =>
        \A c \in Cmd : pc[c] = "stop.ifs.unlock" =>
            ctx = "none" /\ ~run /\ ~mnt /\ net = "down"

\* Left-overs are met neither by a start nor left by a stop (vserver.start,
\* save_ctxinfo, vserver.stop).
NothingLeftOver == SaveFindsRoom /\ StopLeavesNothing

\* The method 'async', under which a reboot of the guest only kills it, is in
\* force only while a stop is at work, even when commands that did not get
\* their lock run into each other; an interrupted stop leaves it.
AsyncOnlyInStop ==
    "int" \notin setup.faults /\ state = "async" => \E c \in Cmd :
        pc[c] \in {"stop.signal", "stop.dosync", "stop.wait", "stop.kill"}

\* Once the commands are through, a running guest has its run file, at least
\* some of its interfaces and its mounts, whatever failed before the guest was
\* executed; a failure after that takes down what the guest uses.
UpIsComplete ==
    /\ NoTimeouts /\ NoProbes /\ setup.faults \cap {"post", "int"} = {}
    /\ Quiet /\ ctx = "up"
    => run /\ net # "down" /\ mnt = AvoidNamespace

\* Once the commands are through, 'running' tells the truth: "running ...
\* succeeds iff the vserver is running" (help of scripts/vserver).
RunningIffUp == Quiet => (isVserverRunning <=> ctx \in {"up", "halting"})

\* Every command ends: no lock, pipe or wait holds it for ever.
CommandEnds == \A c \in Cmd : pc[c] # "idle" ~> pc[c] = "idle"

\* A vshelper that waits for the command it spawned is released, unless that
\* came too late, or failed, and left without writing into the pipe.
HelperReleased ==
    helper \in {"wait.restart", "wait.halt"} /\ (\E c \in Cmd : Has(c, "stopsync")) ~>
        \/ helper \notin {"wait.restart", "wait.halt"}
        \/ \E c \in Cmd : pc[c] = "stop.unlock" /\ Has(c, "stopsync")
=============================================================================
