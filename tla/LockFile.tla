------------------------------ MODULE LockFile ------------------------------
(***************************************************************************)
(* The lock/unlock pair of scripts/functions together with the helper      *)
(* process src/lockfile.c that every successful lock leaves behind.        *)
(*                                                                         *)
(* A shell that calls lock <file> makes a fifo, starts 'lockfile <file>    *)
(* <fifo>' in the background and greps the fifo for "true".  The helper    *)
(* takes a POSIX record lock on the file, says so on the fifo and then     *)
(* lives on, holding the lock, until a SIGHUP reaches it or its parent     *)
(* changes.  The shell remembers the pids of its helpers, latest first, in *)
(* _VS_LOCKS; unlock sends the SIGHUP to the first one or to all of them.  *)
(*                                                                         *)
(* Time is abstract: end_time passing is the action Expire, the alarm      *)
(* going off the action alarmFunc, both at any moment at which they can    *)
(* happen.  Pids are reused as soon as a helper is gone.                   *)
(***************************************************************************)
EXTENDS Sequences, Naturals

CONSTANTS
    Shell,      \* script processes that source scripts/functions
    File,       \* lock files
    Pid,        \* process ids available to the helpers
    InitProc,   \* the process that adopts orphans
    None,       \* no process
    Nest        \* <<f, g>> \in Nest: scripts call lock for g while holding f

ASSUME ProcAssumption == /\ InitProc \notin Shell
                         /\ None \notin Shell \cup Pid \cup File
ASSUME NestAssumption == Nest \subseteq File \X File

VARIABLES
    sh,         \* sh[s]: where shell s is in lock
    job,        \* job[s]: $!, the helper lock is waiting for in shell s
    locks,      \* locks[s]: _VS_LOCKS of shell s
    reader,     \* reader[s]: somebody has s's fifo open for reading
    msg,        \* msg[s]: what the helper wrote into s's fifo
    pc,         \* pc[p]: where helper p is in main()
    owner,      \* owner[p]: the shell that started helper p
    file,       \* file[p]: the <lockfile> argument of helper p
    ppid,       \* ppid[p]: the parent helper p recorded at its start
    late,       \* late[p]: time(0) >= end_time for helper p
    alarm,      \* alarm[p]: helper p has an alarm running
    hup,        \* hup[p]: a SIGHUP is pending for helper p
    flock       \* flock[f]: the process owning the record lock on f

shellVars  == <<sh, job, locks, reader, msg>>
helperVars == <<pc, owner, file, ppid, late, alarm, hup>>
vars       == <<shellVars, helperVars, flock>>

ShellStates  == {"run", "forked", "grep", "dead"}
HelperStates == {"free", "exec", "open", "loop", "armed", "blocked",
                 "locked", "hold", "fail"}

\* The variables have their types.
TypeOK ==
    /\ sh     \in [Shell -> ShellStates]
    /\ job    \in [Shell -> Pid \cup {None}]
    /\ locks  \in [Shell -> Seq(Pid)]
    /\ reader \in [Shell -> BOOLEAN]
    /\ msg    \in [Shell -> {"none", "true", "false"}]
    /\ pc     \in [Pid -> HelperStates]
    /\ owner  \in [Pid -> Shell \cup {None}]
    /\ file   \in [Pid -> File \cup {None}]
    /\ ppid   \in [Pid -> Shell \cup {InitProc, None}]
    /\ late   \in [Pid -> BOOLEAN]
    /\ alarm  \in [Pid -> BOOLEAN]
    /\ hup    \in [Pid -> BOOLEAN]
    /\ flock  \in [File -> Pid \cup {None}]

Init ==
    /\ sh     = [s \in Shell |-> "run"]
    /\ job    = [s \in Shell |-> None]
    /\ locks  = [s \in Shell |-> << >>]
    /\ reader = [s \in Shell |-> FALSE]
    /\ msg    = [s \in Shell |-> "none"]
    /\ pc     = [p \in Pid |-> "free"]
    /\ owner  = [p \in Pid |-> None]
    /\ file   = [p \in Pid |-> None]
    /\ ppid   = [p \in Pid |-> None]
    /\ late   = [p \in Pid |-> FALSE]
    /\ alarm  = [p \in Pid |-> FALSE]
    /\ hup    = [p \in Pid |-> FALSE]
    /\ flock  = [f \in File |-> None]

-----------------------------------------------------------------------------
(* The shell: lock and unlock.                                             *)

\* Shell s believes it holds file f.
Holds(s, f) == \E i \in 1 .. Len(locks[s]) : file[locks[s][i]] = f

\* Fault: $! is read before the helper was started.
lock_StaleJob(s, f, p) ==
    /\ sh[s] = "run" /\ pc[p] = "free"
    /\ sh'    = [sh EXCEPT ![s] = "forked"]
    /\ pc'    = [pc EXCEPT ![p] = "exec"]
    /\ owner' = [owner EXCEPT ![p] = s]
    /\ file'  = [file EXCEPT ![p] = f]
    /\ UNCHANGED <<job, locks, reader, msg, ppid, late, alarm, hup, flock>>

\* lock: make the fifo and start the helper in the background.
lock(s, f, p) ==
    /\ sh[s] = "run" /\ pc[p] = "free"
    /\ \A g \in File : Holds(s, g) => <<g, f>> \in Nest
    /\ sh'     = [sh EXCEPT ![s] = "forked"]
    /\ job'    = [job EXCEPT ![s] = p]
    /\ pc'     = [pc EXCEPT ![p] = "exec"]
    /\ owner'  = [owner EXCEPT ![p] = s]
    /\ file'   = [file EXCEPT ![p] = f]
    /\ UNCHANGED <<locks, reader, msg, ppid, late, alarm, hup, flock>>

\* lock: $_GREP opens the fifo and waits for a line with "true" in it.
grep(s) ==
    /\ sh[s] = "forked"
    /\ sh'     = [sh EXCEPT ![s] = "grep"]
    /\ reader' = [reader EXCEPT ![s] = TRUE]
    /\ UNCHANGED <<job, locks, msg, helperVars, flock>>

\* Fault: the result of grep is not looked at.
lockReturns_AnyLine(s) ==
    /\ sh[s] = "grep" /\ msg[s] # "none"
    /\ sh'     = [sh EXCEPT ![s] = "run"]
    /\ reader' = [reader EXCEPT ![s] = FALSE]
    /\ locks'  = [locks EXCEPT ![s] = <<job[s]>> \o @]
    /\ job'    = [job EXCEPT ![s] = None]
    /\ msg'    = [msg EXCEPT ![s] = "none"]
    /\ UNCHANGED <<helperVars, flock>>

\* lock: grep ends at a match or at end of file; the pid is remembered only
\* after a match, otherwise lock returns 1.
lockReturns(s) ==
    /\ sh[s] = "grep" /\ msg[s] # "none"
    /\ sh'     = [sh EXCEPT ![s] = "run"]
    /\ reader' = [reader EXCEPT ![s] = FALSE]
    /\ locks'  = IF msg[s] = "true"
                 THEN [locks EXCEPT ![s] = <<job[s]>> \o @] ELSE locks
    /\ job'    = [job EXCEPT ![s] = None]
    /\ msg'    = [msg EXCEPT ![s] = "none"]
    /\ UNCHANGED <<helperVars, flock>>

\* unlock <num>: SIGHUP to the first num remembered helpers, which are
\* forgotten; without an argument num is all of them.
unlock(s, num) ==
    /\ sh[s] = "run" /\ num \in 1 .. Len(locks[s])
    /\ hup'   = [p \in Pid |-> \/ hup[p]
                               \/ \E i \in 1 .. num : locks[s][i] = p]
    /\ locks' = [locks EXCEPT ![s] = SubSeq(@, num + 1, Len(@))]
    /\ UNCHANGED <<sh, job, reader, msg, pc, owner, file, ppid, late, alarm,
                   flock>>

\* The shell exits or is killed; a grep it waits for dies with it (a signal
\* to the whole process group) or stays behind (a signal to the shell only).
die(s) ==
    /\ sh[s] # "dead"
    /\ sh'    = [sh EXCEPT ![s] = "dead"]
    /\ job'   = [job EXCEPT ![s] = None]
    /\ locks' = [locks EXCEPT ![s] = << >>]
    /\ \/ UNCHANGED reader
       \/ reader' = [reader EXCEPT ![s] = FALSE]
    /\ UNCHANGED <<msg, helperVars, flock>>

-----------------------------------------------------------------------------
(* The helper: main() of src/lockfile.c.                                   *)

getppid(p) == IF sh[owner[p]] = "dead" THEN InitProc ELSE owner[p]

\* The process ends: the kernel drops its record lock and frees the pid.
Exit(p) ==
    /\ pc'    = [pc EXCEPT ![p] = "free"]
    /\ owner' = [owner EXCEPT ![p] = None]
    /\ file'  = [file EXCEPT ![p] = None]
    /\ ppid'  = [ppid EXCEPT ![p] = None]
    /\ late'  = [late EXCEPT ![p] = FALSE]
    /\ alarm' = [alarm EXCEPT ![p] = FALSE]
    /\ hup'   = [hup EXCEPT ![p] = FALSE]
    /\ flock' = [f \in File |-> IF flock[f] = p THEN None ELSE flock[f]]

GoTo(p, l) == pc' = [pc EXCEPT ![p] = l]

\* Remember the parent and the end of the waiting time.
start(p) ==
    /\ pc[p] = "exec"
    /\ GoTo(p, "open")
    /\ ppid' = [ppid EXCEPT ![p] = getppid(p)]
    /\ UNCHANGED <<shellVars, owner, file, late, alarm, hup, flock>>

\* open(<syncpipe>) blocks until the fifo has a reader; opening the lock file,
\* removing the fifo and installing the handlers may fail.
openSyncpipe(p) ==
    /\ pc[p] = "open" /\ reader[owner[p]]
    /\ \/ GoTo(p, "loop")
       \/ GoTo(p, "fail")
    /\ UNCHANGED <<shellVars, owner, file, ppid, late, alarm, hup, flock>>

\* The condition of the while loop, and alarm().
loop(p) ==
    /\ pc[p] = "loop"
    /\ IF ~late[p] /\ getppid(p) = ppid[p]
       THEN GoTo(p, "armed") /\ alarm' = [alarm EXCEPT ![p] = TRUE]
       ELSE GoTo(p, "fail")  /\ UNCHANGED alarm
    /\ UNCHANGED <<shellVars, owner, file, ppid, late, hup, flock>>

\* Fault: the result of lockf is not looked at.
lockf_Unchecked(p) ==
    /\ pc[p] \in {"armed", "blocked"}
    /\ GoTo(p, "locked")
    /\ flock' = [flock EXCEPT ![file[p]] = IF @ = None THEN p ELSE @]
    /\ alarm' = [alarm EXCEPT ![p] = FALSE]
    /\ UNCHANGED <<shellVars, owner, file, ppid, late, hup>>

\* lockf(F_LOCK) obtains the record lock, at once or after having blocked;
\* SIGALRM is ignored from here on.
lockf(p) ==
    /\ pc[p] \in {"armed", "blocked"} /\ flock[file[p]] = None
    /\ GoTo(p, "locked")
    /\ flock' = [flock EXCEPT ![file[p]] = p]
    /\ alarm' = [alarm EXCEPT ![p] = FALSE]
    /\ UNCHANGED <<shellVars, owner, file, ppid, late, hup>>

\* lockf(F_LOCK) goes to sleep.
lockfBlocks(p) ==
    /\ pc[p] = "armed" /\ flock[file[p]] # None
    /\ GoTo(p, "blocked")
    /\ UNCHANGED <<shellVars, owner, file, ppid, late, alarm, hup, flock>>

\* lockf(F_LOCK) fails with something else than EINTR.
lockfFails(p) ==
    /\ pc[p] = "armed"
    /\ GoTo(p, "fail")
    /\ UNCHANGED <<shellVars, owner, file, ppid, late, alarm, hup, flock>>

\* SIGALRM: a lockf that sleeps returns EINTR and the loop continues; an
\* alarm that goes off before lockf is entered interrupts nothing.
alarmFunc(p) ==
    /\ alarm[p] /\ alarm' = [alarm EXCEPT ![p] = FALSE]
    /\ pc' = [pc EXCEPT ![p] = IF @ = "blocked" THEN "loop" ELSE @]
    /\ UNCHANGED <<shellVars, owner, file, ppid, late, hup, flock>>

\* Report success; without a reader SIGPIPE ends the helper.
tellTrue(p) ==
    /\ pc[p] = "locked"
    /\ IF reader[owner[p]]
       THEN /\ msg' = [msg EXCEPT ![owner[p]] = "true"]
            /\ GoTo(p, "hold")
            /\ UNCHANGED <<owner, file, ppid, late, alarm, hup, flock>>
       ELSE Exit(p) /\ UNCHANGED msg
    /\ UNCHANGED <<sh, job, locks, reader>>

\* Fault: the helper ends as soon as it reported success.
hold_EndsAtOnce(p) ==
    /\ pc[p] = "hold"
    /\ Exit(p)
    /\ UNCHANGED shellVars

\* Fault: the helper never looks at its parent again.
hold_ForEver(p) == pc[p] = "hold" /\ FALSE /\ UNCHANGED vars

\* while (getppid()==ppid) sleep(10): the helper ends once its parent changed.
hold(p) ==
    /\ pc[p] = "hold" /\ getppid(p) # ppid[p]
    /\ Exit(p)
    /\ UNCHANGED shellVars

\* Report failure (to a fifo that still has a reader) and end.
fail(p) ==
    /\ pc[p] = "fail"
    /\ msg' = IF reader[owner[p]]
              THEN [msg EXCEPT ![owner[p]] = "false"] ELSE msg
    /\ Exit(p)
    /\ UNCHANGED <<sh, job, locks, reader>>

\* SIGHUP: _exit(0), or the default action before the handler is installed.
quitFunc(p) ==
    /\ pc[p] # "free" /\ hup[p]
    /\ Exit(p)
    /\ UNCHANGED shellVars

\* Time reaches end_time.
Expire(p) ==
    /\ pc[p] # "free" /\ ~late[p]
    /\ late' = [late EXCEPT ![p] = TRUE]
    /\ UNCHANGED <<shellVars, pc, owner, file, ppid, alarm, hup, flock>>

-----------------------------------------------------------------------------
ShellStep(s) ==
    \/ \E f \in File, p \in Pid : lock(s, f, p)
    \/ grep(s)
    \/ lockReturns(s)
    \/ \E num \in 1 .. Len(locks[s]) : unlock(s, num)
    \/ die(s)

HelperStep(p) ==
    \/ start(p)
    \/ openSyncpipe(p)
    \/ loop(p)
    \/ lockf(p)
    \/ lockfBlocks(p)
    \/ lockfFails(p)
    \/ alarmFunc(p)
    \/ tellTrue(p)
    \/ hold(p)
    \/ fail(p)
    \/ quitFunc(p)
    \/ Expire(p)

Next == \/ \E s \in Shell : ShellStep(s)
        \/ \E p \in Pid : HelperStep(p)

Spec == Init /\ [][Next]_vars

\* Processes that can run do run, timers go off, the kernel does not starve a
\* process that waits for a record lock, and scripts do not keep a lock for ever.
Fairness ==
    /\ \A s \in Shell :
        /\ WF_vars(grep(s) \/ lockReturns(s))
        /\ SF_vars(\E num \in 1 .. Len(locks[s]) : unlock(s, num))
    /\ \A p \in Pid :
        /\ WF_vars(\/ start(p) \/ openSyncpipe(p) \/ loop(p) \/ lockfBlocks(p)
                   \/ tellTrue(p) \/ hold(p) \/ fail(p) \/ quitFunc(p))
        /\ WF_vars(alarmFunc(p)) /\ WF_vars(Expire(p))
        /\ SF_vars(lockf(p))

FairSpec == Spec /\ Fairness

-----------------------------------------------------------------------------
(* Properties.                                                             *)

Alive(s) == sh[s] # "dead"

\* A pid in _VS_LOCKS is that of a helper of this very shell
\* that still owns the record lock on its file and has no SIGHUP pending: what
\* unlock signals is never a stranger that got a recycled pid, and a lock a
\* script believes in is one it has.
StackSound ==
    \A s \in Shell : \A i \in 1 .. Len(locks[s]) :
        LET p == locks[s][i]
        IN  /\ pc[p] = "hold" /\ owner[p] = s /\ ~hup[p]
            /\ flock[file[p]] = p

\* lock/unlock exclude each other: no file is believed held by two shells, nor
\* twice by the same one.
MutualExclusion ==
    \A s, t \in Shell :
        \A i \in 1 .. Len(locks[s]), j \in 1 .. Len(locks[t]) :
            file[locks[s][i]] = file[locks[t][j]] => s = t /\ i = j

\* The mutexes the scripts see.
M == INSTANCE Mutex WITH
        inside <- [f \in File |-> {s \in Shell : Holds(s, f)}]

\* A helper that outlives its shell for ever: it recorded its parent when the
\* shell was already gone.
Immortal(p) == pc[p] = "hold" /\ ppid[p] = InitProc

\* A call of lock comes back, with or without the lock, even if the alarm that
\* was to wake its helper is lost: every holder lets go in the end, except an
\* immortal one.
LockComesBack ==
    \A s \in Shell :
        sh[s] = "grep" ~> sh[s] # "grep" \/ \E p \in Pid : Immortal(p)

\* The record lock of a shell that is gone is dropped, provided the helper knew
\* its parent.
OrphanLetsGo ==
    \A p \in Pid :
        pc[p] = "hold" /\ ~Alive(owner[p]) /\ ppid[p] = owner[p]
            ~> pc[p] # "hold"

\* The same for every helper: "kill -HUP $!  # (implicated by shell-exit)".
ShellExitUnlocks ==
    \A p \in Pid : pc[p] = "hold" /\ ~Alive(owner[p]) ~> pc[p] # "hold"

\* Seen from the scripts, lock and unlock are operations on mutexes.
ImplementsMutex == M!Spec
=============================================================================
