--------------------------- MODULE LockFileProofs ---------------------------
(***************************************************************************)
(* For every set of shells, files and pids and every nesting: the types,   *)
(* the soundness of _VS_LOCKS, mutual exclusion, and the refinement of     *)
(* Mutex.                                                                  *)
(***************************************************************************)
EXTENDS LockFile, TLAPS

\* A helper that runs was started by a shell for a file.
HelperInv ==
    \A p \in Pid : pc[p] # "free" => owner[p] \in Shell /\ file[p] \in File

\* The record locks belong to exactly the helpers that are past lockf.
FlockInv ==
    /\ \A p \in Pid : pc[p] \in {"locked", "hold"} => flock[file[p]] = p
    /\ \A f \in File : flock[f] # None =>
           pc[flock[f]] \in {"locked", "hold"} /\ file[flock[f]] = f

\* A helper of a live shell that has not reported yet is the one that shell
\* is waiting for.
PendingInv ==
    \A p \in Pid : pc[p] \notin {"free", "hold"} /\ Alive(owner[p]) =>
        /\ sh[owner[p]] \in {"forked", "grep"}
        /\ pc[p] \notin {"exec", "open"} => sh[owner[p]] = "grep"
        /\ job[owner[p]] = p /\ msg[owner[p]] = "none"

\* What a shell that waits may find in its fifo.
FifoInv ==
    \A s \in Shell :
        /\ sh[s] \in {"run", "forked"} => ~reader[s] /\ msg[s] = "none"
        /\ sh[s] = "grep" => job[s] \in Pid /\ reader[s]
        /\ sh[s] = "grep" /\ msg[s] = "true" =>
              /\ pc[job[s]] = "hold" /\ owner[job[s]] = s /\ ~hup[job[s]]
              /\ \A i \in 1 .. Len(locks[s]) : locks[s][i] # job[s]
        /\ sh[s] = "forked" => job[s] \in Pid

\* Only a helper that holds its lock is sent a SIGHUP, and a helper whose shell
\* lives recorded that shell as its parent.
SignalInv ==
    \A p \in Pid :
        /\ hup[p] => pc[p] = "hold"
        /\ pc[p] \notin {"free", "exec"} /\ Alive(owner[p]) => ppid[p] = owner[p]

\* No pid is remembered twice, and a dead shell remembers nothing.
StackInv ==
    \A s \in Shell :
        /\ \A i, j \in 1 .. Len(locks[s]) : locks[s][i] = locks[s][j] => i = j
        /\ ~Alive(s) => locks[s] = << >>

IInv == TypeOK /\ HelperInv /\ FlockInv /\ PendingInv /\ FifoInv /\ SignalInv
            /\ StackInv /\ StackSound

Early == {"exec", "open", "loop", "armed", "blocked", "fail"}

\* A helper that has not got the lock goes from one step of main() to another
\* and writes nothing to its fifo.
LEMMA PendingMove ==
    ASSUME IInv, TypeOK', NEW p \in Pid, pc[p] \in Early,
           NEW l \in Early, pc' = [pc EXCEPT ![p] = l],
           UNCHANGED <<sh, job, locks, reader, msg, owner, file, hup, flock>>,
           l # "exec", Alive(owner[p]) /\ l # "open" => sh[owner[p]] = "grep",
           \A q \in Pid : q # p => ppid'[q] = ppid[q],
           Alive(owner[p]) => ppid'[p] = owner[p]
    PROVE  IInv'
<1> USE DEF Early
<1>1. \A q \in Pid : pc'[q] = IF q = p THEN l ELSE pc[q]
  BY DEF IInv, TypeOK
<1>2. HelperInv'
  BY <1>1 DEF IInv, HelperInv
<1>3. FlockInv'
  BY <1>1 DEF IInv, FlockInv, TypeOK
<1>4. PendingInv'
  BY <1>1 DEF IInv, PendingInv, Alive
<1>5. FifoInv'
  BY <1>1 DEF IInv, FifoInv
<1>6. SignalInv'
  BY <1>1 DEF IInv, SignalInv, Alive
<1>7. StackInv'
  BY DEF IInv, StackInv, Alive
<1>8. StackSound'
  <2> SUFFICES ASSUME NEW s \in Shell, NEW i \in 1 .. Len(locks[s])
               PROVE  /\ pc'[locks[s][i]] = "hold" /\ owner[locks[s][i]] = s
                      /\ ~hup[locks[s][i]]
                      /\ flock[file[locks[s][i]]] = locks[s][i]
    BY DEF StackSound
  <2>1. locks[s][i] \in Pid
    BY DEF IInv, TypeOK
  <2> QED
    BY <1>1, <2>1 DEF IInv, StackSound
<1> QED
  BY <1>2, <1>3, <1>4, <1>5, <1>6, <1>7, <1>8 DEF IInv

\* A helper that is in no shell's _VS_LOCKS ends.
LEMMA ExitStep ==
    ASSUME IInv, NEW p \in Pid, Exit(p), pc[p] # "free",
           UNCHANGED <<sh, job, locks, reader>>,
           \A s \in Shell : \A i \in 1 .. Len(locks[s]) : locks[s][i] # p,
           \/ UNCHANGED msg /\ (Alive(owner[p]) => pc[p] = "hold" /\ hup[p])
           \/ /\ pc[p] = "fail" /\ msg' \in [Shell -> {"none", "true", "false"}]
              /\ \A s \in Shell : s # owner[p] => msg'[s] = msg[s]
              /\ msg'[owner[p]] \in {"false", msg[owner[p]]}
              /\ msg'[owner[p]] = msg[owner[p]] => ~Alive(owner[p])
    PROVE  IInv'
<1>1. \A q \in Pid : /\ pc'[q] = IF q = p THEN "free" ELSE pc[q]
                     /\ q # p => /\ owner'[q] = owner[q] /\ file'[q] = file[q]
                                 /\ ppid'[q] = ppid[q] 
                     /\ hup'[q] => q # p /\ hup[q]
  BY DEF IInv, TypeOK, Exit
<1>2. \A f \in File : flock'[f] = IF flock[f] = p THEN None ELSE flock[f]
  BY DEF Exit
<1>a. \A s \in Shell : Alive(s)' <=> Alive(s)
  BY DEF Alive
<1>b. \A s \in Shell : \A i \in 1 .. Len(locks[s]) : locks[s][i] \in Pid
  BY DEF IInv, TypeOK
<1>3. TypeOK'
  BY DEF IInv, TypeOK, Exit, HelperStates
<1>4. HelperInv'
  BY <1>1 DEF IInv, HelperInv
<1>5. FlockInv'
  <2>1. ASSUME NEW q \in Pid, pc'[q] \in {"locked", "hold"}
        PROVE  flock'[file'[q]] = q
    BY <1>1, <1>2, <2>1 DEF IInv, FlockInv, HelperInv
  <2>2. ASSUME NEW f \in File, flock'[f] # None
        PROVE  pc'[flock'[f]] \in {"locked", "hold"} /\ file'[flock'[f]] = f
    <3>1. flock'[f] = flock[f] /\ flock[f] \in Pid /\ flock[f] # p
      BY <1>2, <2>2 DEF IInv, TypeOK
    <3> QED
      BY <1>1, <2>2, <3>1 DEF IInv, FlockInv
  <2> QED
    BY <2>1, <2>2 DEF FlockInv
<1>6. PendingInv'
  <2> SUFFICES ASSUME NEW q \in Pid, pc'[q] \notin {"free", "hold"}, sh'[owner'[q]] # "dead"
               PROVE  /\ sh[owner[q]] \in {"forked", "grep"}
                      /\ pc[q] \notin {"exec", "open"} => sh[owner[q]] = "grep"
                      /\ job[owner[q]] = q /\ msg'[owner[q]] = "none" /\ q # p
    BY <1>1 DEF PendingInv, Alive
  <2>1. q # p /\ owner[q] \in Shell /\ pc[q] \notin {"free", "hold"} /\ Alive(owner[q])
    BY <1>1 DEF IInv, HelperInv, Alive
  <2>2. /\ job[owner[q]] = q /\ sh[owner[q]] \in {"forked", "grep"}
        /\ pc[q] \notin {"exec", "open"} => sh[owner[q]] = "grep"
        /\ msg[owner[q]] = "none"
    BY <2>1 DEF IInv, PendingInv
  <2>3. CASE owner[q] = owner[p]
    BY <2>1, <2>2, <2>3 DEF IInv, PendingInv
  <2>4. CASE owner[q] # owner[p]
    BY <2>1, <2>2, <2>4
  <2> QED
    BY <2>1, <2>2, <2>3, <2>4
<1>7. FifoInv'
  BY <1>1 DEF IInv, FifoInv, PendingInv, HelperInv, Alive, StackSound
<1>8. SignalInv'
  BY <1>1 DEF IInv, SignalInv, Alive
<1>9. StackInv'
  BY <1>a DEF IInv, StackInv
<1>10. StackSound'
  <2> SUFFICES ASSUME NEW s \in Shell, NEW i \in 1 .. Len(locks[s]), NEW q, q = locks[s][i]
               PROVE  /\ pc'[q] = "hold" /\ owner'[q] = s
                      /\ ~hup'[q]
                      /\ flock'[file'[q]] = q
    BY DEF StackSound
  <2>1. q \in Pid /\ q # p /\ pc[q] = "hold" /\ owner[q] = s /\ ~hup[q] /\ flock[file[q]] = q
    BY <1>b DEF IInv, StackSound
  <2> QED
    BY <1>1, <1>2, <2>1 DEF IInv, HelperInv
<1> QED
  BY <1>3, <1>4, <1>5, <1>6, <1>7, <1>8, <1>9, <1>10 DEF IInv

\* lock starts a helper; the shell has no other one that is still to report.
LEMMA LockStep ==
    ASSUME IInv, NEW s \in Shell, NEW f \in File, NEW p \in Pid, lock(s, f, p)
    PROVE  IInv'
<1>1. TypeOK'
  BY DEF IInv, TypeOK, lock, ShellStates, HelperStates
<1>2. /\ \A q \in Pid : /\ pc'[q] = IF q = p THEN "exec" ELSE pc[q]
                        /\ owner'[q] = IF q = p THEN s ELSE owner[q]
                        /\ file'[q] = IF q = p THEN f ELSE file[q]
      /\ \A t \in Shell : /\ sh'[t] = IF t = s THEN "forked" ELSE sh[t]
                          /\ job'[t] = IF t = s THEN p ELSE job[t]
      /\ UNCHANGED <<locks, reader, msg, ppid, hup, flock>>
      /\ sh[s] = "run" /\ pc[p] = "free"
  BY DEF IInv, TypeOK, lock
<1>3. HelperInv'
  BY <1>2 DEF IInv, HelperInv
<1>4. FlockInv'
  <2>1. \A g \in File : flock[g] # None => flock[g] \in Pid
    BY DEF IInv, TypeOK
  <2>2. \A g \in File : flock[g] # None => flock[g] # p
    BY <1>2 DEF IInv, FlockInv
  <2> QED
    BY <1>2, <2>1, <2>2 DEF IInv, FlockInv
<1>5. PendingInv'
  BY <1>2 DEF IInv, PendingInv, HelperInv, FifoInv, Alive
<1>6. FifoInv'
  BY <1>2 DEF IInv, FifoInv
<1>7. SignalInv'
  BY <1>2 DEF IInv, SignalInv, HelperInv, Alive
<1>8. StackInv'
  BY <1>2 DEF IInv, StackInv, Alive
<1>9. StackSound'
  <2> SUFFICES ASSUME NEW t \in Shell, NEW i \in 1 .. Len(locks[t]), NEW q, q = locks[t][i]
               PROVE  /\ pc'[q] = "hold" /\ owner'[q] = t /\ ~hup'[q]
                      /\ flock'[file'[q]] = q
    BY <1>2 DEF StackSound
  <2>1. q \in Pid /\ q # p
    BY <1>2 DEF IInv, TypeOK, StackSound
  <2> QED
    BY <1>2, <2>1 DEF IInv, StackSound
<1> QED
  BY <1>1, <1>3, <1>4, <1>5, <1>6, <1>7, <1>8, <1>9 DEF IInv

\* The shell opens its fifo and waits.
LEMMA GrepStep == ASSUME IInv, NEW s \in Shell, grep(s) PROVE IInv'
<1>1. TypeOK'
  BY DEF IInv, TypeOK, grep, ShellStates, helperVars
<1>2. /\ \A t \in Shell : /\ sh'[t] = IF t = s THEN "grep" ELSE sh[t]
                          /\ reader'[t] <=> t = s \/ reader[t]
      /\ UNCHANGED <<job, locks, msg, pc, owner, file, ppid, hup, flock>>
      /\ sh[s] = "forked"
  BY DEF IInv, TypeOK, grep, helperVars
<1>3. HelperInv' /\ FlockInv' /\ StackSound'
  BY <1>2 DEF IInv, HelperInv, FlockInv, StackSound
<1>4. PendingInv'
  BY <1>2 DEF IInv, PendingInv, HelperInv, Alive
<1>5. FifoInv'
  BY <1>2 DEF IInv, FifoInv
<1>6. SignalInv'
  BY <1>2 DEF IInv, SignalInv, HelperInv, Alive
<1>7. StackInv'
  BY <1>2 DEF IInv, StackInv, Alive
<1> QED
  BY <1>1, <1>3, <1>4, <1>5, <1>6, <1>7 DEF IInv

\* The shell ends and with it what it remembered; its helpers go on.
LEMMA DieStep == ASSUME IInv, NEW s \in Shell, die(s) PROVE IInv'
<1>1. TypeOK'
  <2>1. locks' \in [Shell -> Seq(Pid)]
    BY DEF IInv, TypeOK, die
  <2> QED
    BY <2>1 DEF IInv, TypeOK, die, ShellStates, helperVars
<1>2. /\ \A t \in Shell : /\ sh'[t] = IF t = s THEN "dead" ELSE sh[t]
                          /\ t # s => /\ reader'[t] <=> reader[t]
                                      /\ job'[t] = job[t]
                          /\ locks'[t] = IF t = s THEN << >> ELSE locks[t]
      /\ UNCHANGED <<msg, pc, owner, file, ppid, hup, flock>>
  BY DEF IInv, TypeOK, die, helperVars
<1>3. HelperInv' /\ FlockInv'
  BY <1>2 DEF IInv, HelperInv, FlockInv
<1>4. PendingInv'
  BY <1>2 DEF IInv, PendingInv, HelperInv, Alive
<1>5. FifoInv'
  BY <1>2 DEF IInv, FifoInv
<1>6. SignalInv'
  BY <1>2 DEF IInv, SignalInv, HelperInv, Alive
<1>7. StackInv'
  BY <1>2 DEF IInv, StackInv, Alive
<1>8. StackSound'
  BY <1>2 DEF IInv, StackSound
<1> QED
  BY <1>1, <1>3, <1>4, <1>5, <1>6, <1>7, <1>8 DEF IInv

\* lock returns; the pid it remembers is that of a helper that holds its lock.
LEMMA LockReturnsStep == ASSUME IInv, NEW s \in Shell, lockReturns(s) PROVE IInv'
<1>1. /\ \A t \in Shell : /\ sh'[t] = IF t = s THEN "run" ELSE sh[t]
                          /\ reader'[t] <=> t # s /\ reader[t]
                          /\ t # s => /\ job'[t] = job[t]
                                      /\ msg'[t] = msg[t]
                                      /\ locks'[t] = locks[t]
      /\ msg'[s] = "none"
      /\ UNCHANGED <<pc, owner, file, ppid, hup, flock>>
      /\ sh[s] = "grep" /\ msg[s] # "none"
  BY DEF IInv, TypeOK, lockReturns, helperVars
<1>2. job[s] \in Pid
  BY <1>1 DEF IInv, FifoInv
<1>3. locks'[s] = IF msg[s] = "true" THEN <<job[s]>> \o locks[s] ELSE locks[s]
  BY DEF IInv, TypeOK, lockReturns
<1>4. \A i \in 1 .. Len(locks'[s]) :
        IF msg[s] = "true"
        THEN locks'[s][i] = IF i = 1 THEN job[s] ELSE locks[s][i - 1]
        ELSE locks'[s][i] = locks[s][i]
  BY <1>2, <1>3 DEF IInv, TypeOK
<1>5. Len(locks'[s]) = IF msg[s] = "true" THEN Len(locks[s]) + 1 ELSE Len(locks[s])
  BY <1>2, <1>3 DEF IInv, TypeOK
<1>l. Len(locks[s]) \in Nat
  BY DEF IInv, TypeOK
<1>6. TypeOK'
  <2>1. locks' \in [Shell -> Seq(Pid)]
    BY <1>2 DEF IInv, TypeOK, lockReturns
  <2> QED
    BY <2>1 DEF IInv, TypeOK, lockReturns, helperVars, ShellStates
<1>7. HelperInv' /\ FlockInv'
  BY <1>1 DEF IInv, HelperInv, FlockInv
<1>8. PendingInv'
  BY <1>1 DEF IInv, PendingInv, HelperInv, Alive
<1>9. FifoInv'
  BY <1>1 DEF IInv, FifoInv
<1>10. SignalInv'
  BY <1>1 DEF IInv, SignalInv, HelperInv, Alive
<1>11. StackInv'
  <2>1. ASSUME NEW i \in 1 .. Len(locks'[s]), NEW j \in 1 .. Len(locks'[s]),
               locks'[s][i] = locks'[s][j]
        PROVE  i = j
    <3>1. CASE msg[s] = "true"
      <4>1. \A k \in 1 .. Len(locks[s]) : locks[s][k] # job[s]
        BY <1>1, <3>1 DEF IInv, FifoInv
      <4>2. \A k, m \in 1 .. Len(locks[s]) : locks[s][k] = locks[s][m] => k = m
        BY DEF IInv, StackInv
      <4>3. /\ locks'[s][i] = IF i = 1 THEN job[s] ELSE locks[s][i - 1]
            /\ locks'[s][j] = IF j = 1 THEN job[s] ELSE locks[s][j - 1]
            /\ i \in 1 .. Len(locks[s]) + 1 /\ j \in 1 .. Len(locks[s]) + 1
        BY <1>4, <1>5, <3>1
      <4>4. /\ i # 1 => i - 1 \in 1 .. Len(locks[s])
            /\ j # 1 => j - 1 \in 1 .. Len(locks[s])
            /\ i - 1 = j - 1 => i = j
        BY <1>l, <4>3
      <4> QED
        BY <2>1, <4>1, <4>2, <4>3, <4>4
    <3>2. CASE msg[s] # "true"
      BY <1>3, <2>1, <3>2 DEF IInv, StackInv
    <3> QED
      BY <3>1, <3>2
  <2>2. \A t \in Shell : ~Alive(t)' => t # s /\ locks'[t] = << >>
    BY <1>1 DEF IInv, StackInv, Alive
  <2> QED
    BY <1>1, <2>1, <2>2 DEF IInv, StackInv
<1>12. StackSound'
  <2>1. ASSUME NEW i \in 1 .. Len(locks'[s]), NEW q, q = locks'[s][i]
        PROVE  pc[q] = "hold" /\ owner[q] = s /\ ~hup[q] /\ flock[file[q]] = q
    <3>1. CASE msg[s] = "true" /\ i = 1
      <4>1. q = job[s] /\ pc[q] = "hold" /\ owner[q] = s /\ ~hup[q]
        BY <1>1, <1>4, <2>1, <3>1 DEF IInv, FifoInv
      <4> QED
        BY <1>2, <4>1 DEF IInv, FlockInv
    <3>2. CASE msg[s] = "true" /\ i # 1
      <4>1. q = locks[s][i - 1] /\ i - 1 \in 1 .. Len(locks[s])
        BY <1>4, <1>5, <1>l, <2>1, <3>2
      <4> QED
        BY <4>1 DEF IInv, StackSound
    <3>3. CASE msg[s] # "true"
      BY <1>3, <2>1, <3>3 DEF IInv, StackSound
    <3> QED
      BY <3>1, <3>2, <3>3
  <2> QED
    BY <1>1, <2>1 DEF IInv, StackSound
<1> QED
  BY <1>6, <1>7, <1>8, <1>9, <1>10, <1>11, <1>12 DEF IInv

\* unlock signals and forgets the first helpers; the rest stay as they were.
LEMMA UnlockStep ==
    ASSUME IInv, NEW s \in Shell, NEW num \in 1 .. Len(locks[s]), unlock(s, num)
    PROVE  IInv'
<1>1. /\ UNCHANGED <<sh, job, reader, msg, pc, owner, file, ppid, flock>>
      /\ \A q \in Pid : hup'[q] => hup[q] \/ \E k \in 1 .. num : locks[s][k] = q
      /\ \A t \in Shell : t # s => locks'[t] = locks[t]
      /\ locks'[s] = SubSeq(locks[s], num + 1, Len(locks[s]))
      /\ sh[s] = "run"
  BY DEF IInv, TypeOK, unlock
<1>2. Len(locks[s]) \in Nat /\ num \in Nat /\ locks[s] \in Seq(Pid)
  BY DEF IInv, TypeOK
<1>3. /\ Len(locks'[s]) = Len(locks[s]) - num
      /\ \A i \in 1 .. Len(locks'[s]) : /\ locks'[s][i] = locks[s][num + i]
                                        /\ num + i \in 1 .. Len(locks[s])
  BY <1>1, <1>2
<1>4. TypeOK'
  <2>1. locks' \in [Shell -> Seq(Pid)]
    BY <1>2 DEF IInv, TypeOK, unlock
  <2>2. hup' \in [Pid -> BOOLEAN]
    BY DEF IInv, TypeOK, unlock
  <2> QED
    BY <2>1, <2>2 DEF IInv, TypeOK, unlock
<1>5. HelperInv' /\ FlockInv' /\ PendingInv'
  BY <1>1 DEF IInv, HelperInv, FlockInv, PendingInv, Alive
<1>6. \A k \in 1 .. num : /\ pc[locks[s][k]] = "hold" /\ owner[locks[s][k]] = s
                          /\ k \in 1 .. Len(locks[s])
  BY <1>2 DEF IInv, StackSound
<1>7. FifoInv'
  <2>1. ASSUME NEW t \in Shell, sh[t] = "grep", msg[t] = "true"
        PROVE  /\ pc[job[t]] = "hold" /\ owner[job[t]] = t /\ ~hup'[job[t]]
               /\ \A i \in 1 .. Len(locks'[t]) : locks'[t][i] # job[t]
    BY <1>1, <1>6, <2>1 DEF IInv, FifoInv
  <2> QED
    BY <1>1, <2>1 DEF IInv, FifoInv
<1>8. SignalInv'
  BY <1>1, <1>6 DEF IInv, SignalInv, Alive
<1>9. StackInv'
  <2>1. ASSUME NEW i \in 1 .. Len(locks'[s]), NEW j \in 1 .. Len(locks'[s]),
               locks'[s][i] = locks'[s][j]
        PROVE  i = j
    <3>1. num + i = num + j
      BY <1>3, <2>1 DEF IInv, StackInv
    <3>2. i \in Nat /\ j \in Nat
      BY <1>2, <1>3
    <3> QED
      BY <1>2, <3>1, <3>2
  <2> QED
    BY <1>1, <2>1 DEF IInv, StackInv, Alive
<1>10. StackSound'
  <2>1. ASSUME NEW t \in Shell, t # s, NEW i \in 1 .. Len(locks[t]), NEW q, q = locks[t][i]
        PROVE  pc[q] = "hold" /\ owner[q] = t /\ ~hup'[q] /\ flock[file[q]] = q
    <3>1. q \in Pid
      BY <2>1 DEF IInv, TypeOK
    <3>2. pc[q] = "hold" /\ owner[q] = t /\ ~hup[q] /\ flock[file[q]] = q
      BY <2>1 DEF IInv, StackSound
    <3> QED
      BY <1>1, <1>6, <2>1, <3>1, <3>2
  <2>2. ASSUME NEW i \in 1 .. Len(locks'[s]), NEW q, q = locks'[s][i]
        PROVE  pc[q] = "hold" /\ owner[q] = s /\ ~hup'[q] /\ flock[file[q]] = q
    <3>1. q = locks[s][num + i] /\ num + i \in 1 .. Len(locks[s]) /\ q \in Pid
      BY <1>2, <1>3, <2>2
    <3>2. pc[q] = "hold" /\ owner[q] = s /\ ~hup[q] /\ flock[file[q]] = q
      BY <3>1 DEF IInv, StackSound
    <3>3. \A k \in 1 .. num : locks[s][k] # q
      <4> SUFFICES ASSUME NEW k \in 1 .. num, locks[s][k] = q PROVE FALSE
        OBVIOUS
      <4>1. k = num + i
        BY <1>6, <3>1 DEF IInv, StackInv
      <4>2. i \in Nat /\ i >= 1
        BY <1>2, <1>3
      <4> QED
        BY <1>2, <4>1, <4>2
    <3> QED
      BY <1>1, <3>1, <3>2, <3>3
  <2> QED
    <3> SUFFICES ASSUME NEW t \in Shell, NEW i \in 1 .. Len(locks'[t]), NEW q, q = locks'[t][i]
                 PROVE  /\ pc'[q] = "hold" /\ owner'[q] = t /\ ~hup'[q]
                        /\ flock'[file'[q]] = q
      BY DEF StackSound
    <3>1. CASE t = s
      BY <1>1, <2>2, <3>1
    <3>2. CASE t # s
      BY <1>1, <2>1, <3>2
    <3> QED
      BY <3>1, <3>2
<1> QED
  BY <1>4, <1>5, <1>7, <1>8, <1>9, <1>10 DEF IInv

\* A helper obtains the record lock, which nobody had.
LEMMA LockfStep == ASSUME IInv, NEW p \in Pid, lockf(p) PROVE IInv'
<1>1. /\ \A q \in Pid : pc'[q] = IF q = p THEN "locked" ELSE pc[q]
      /\ \A f \in File : flock'[f] = IF f = file[p] THEN p ELSE flock[f]
      /\ UNCHANGED <<sh, job, locks, reader, msg, owner, file, ppid, hup>>
      /\ pc[p] \in {"armed", "blocked"} /\ flock[file[p]] = None
  BY DEF IInv, TypeOK, lockf, GoTo, shellVars
<1>2. TypeOK'
  BY DEF IInv, TypeOK, lockf, GoTo, shellVars, HelperStates
<1>3. HelperInv'
  BY <1>1 DEF IInv, HelperInv
<1>4. file[p] \in File
  BY <1>1 DEF IInv, HelperInv
<1>5. FlockInv'
  <2>1. ASSUME NEW q \in Pid, pc'[q] \in {"locked", "hold"}
        PROVE  flock'[file'[q]] = q
    BY <1>1, <1>4, <2>1, ProcAssumption DEF IInv, FlockInv, HelperInv
  <2>2. ASSUME NEW f \in File, flock'[f] # None
        PROVE  pc'[flock'[f]] \in {"locked", "hold"} /\ file'[flock'[f]] = f
    <3>1. CASE f = file[p]
      BY <1>1, <3>1
    <3>2. CASE f # file[p]
      <4>1. flock'[f] = flock[f] /\ flock[f] \in Pid
        BY <1>1, <2>2, <3>2 DEF IInv, TypeOK
      <4> QED
        BY <1>1, <2>2, <4>1 DEF IInv, FlockInv
    <3> QED
      BY <3>1, <3>2
  <2> QED
    BY <2>1, <2>2 DEF FlockInv
<1>6. PendingInv'
  BY <1>1 DEF IInv, PendingInv, Alive
<1>7. FifoInv'
  BY <1>1 DEF IInv, FifoInv
<1>8. SignalInv'
  BY <1>1 DEF IInv, SignalInv, Alive
<1>9. StackInv'
  BY <1>1 DEF IInv, StackInv, Alive
<1>10. StackSound'
  <2> SUFFICES ASSUME NEW s \in Shell, NEW i \in 1 .. Len(locks[s]), NEW q, q = locks[s][i]
               PROVE  pc'[q] = "hold" /\ owner[q] = s /\ ~hup[q] /\ flock'[file[q]] = q
    BY <1>1 DEF StackSound
  <2>1. q \in Pid
    BY DEF IInv, TypeOK
  <2>2. pc[q] = "hold" /\ owner[q] = s /\ ~hup[q] /\ flock[file[q]] = q
    BY DEF IInv, StackSound
  <2> QED
    BY <1>1, <2>1, <2>2, ProcAssumption DEF IInv, HelperInv
<1> QED
  BY <1>2, <1>3, <1>5, <1>6, <1>7, <1>8, <1>9, <1>10 DEF IInv

\* A helper reports success to a shell that is still waiting for it, or ends.
LEMMA TellTrueStep == ASSUME IInv, NEW p \in Pid, tellTrue(p) PROVE IInv'
<1>1. owner[p] \in Shell /\ pc[p] = "locked" /\ UNCHANGED <<sh, job, locks, reader>>
  BY DEF IInv, HelperInv, tellTrue
<1>2. \A s \in Shell : \A i \in 1 .. Len(locks[s]) : locks[s][i] # p
  BY <1>1 DEF IInv, StackSound
<1>3. CASE ~reader[owner[p]]
  <2>1. ~Alive(owner[p])
    BY <1>1, <1>3 DEF IInv, PendingInv, FifoInv
  <2>2. Exit(p) /\ UNCHANGED msg
    BY <1>3 DEF tellTrue
  <2> QED
    BY <1>1, <1>2, <2>1, <2>2, ExitStep
<1>4. CASE reader[owner[p]]
  <2>1. /\ \A q \in Pid : pc'[q] = IF q = p THEN "hold" ELSE pc[q]
        /\ \A s \in Shell : msg'[s] = IF s = owner[p] THEN "true" ELSE msg[s]
        /\ UNCHANGED <<owner, file, ppid, hup, flock>>
    BY <1>4 DEF IInv, TypeOK, tellTrue, GoTo
  <2>2. TypeOK'
    BY <1>4 DEF IInv, TypeOK, tellTrue, GoTo, HelperStates
  <2>3. HelperInv'
    BY <1>1, <2>1 DEF IInv, HelperInv
  <2>4. FlockInv'
    BY <1>1, <2>1 DEF IInv, FlockInv, TypeOK
  <2>5. PendingInv'
    BY <1>1, <2>1 DEF IInv, PendingInv, HelperInv, Alive
  <2>6. FifoInv'
    <3>1. Alive(owner[p]) => job[owner[p]] = p /\ ~hup[p] /\ sh[owner[p]] = "grep"
      BY <1>1 DEF IInv, PendingInv, SignalInv
    <3> QED
      BY <1>1, <1>2, <2>1, <3>1 DEF IInv, FifoInv, Alive
  <2>7. SignalInv'
    BY <1>1, <2>1 DEF IInv, SignalInv, Alive
  <2>8. StackInv'
    BY <1>1 DEF IInv, StackInv, Alive
  <2>9. StackSound'
    <3> SUFFICES ASSUME NEW s \in Shell, NEW i \in 1 .. Len(locks[s]), NEW q, q = locks[s][i]
                 PROVE  pc'[q] = "hold" /\ owner[q] = s /\ ~hup[q] /\ flock[file[q]] = q
      BY <1>1, <2>1 DEF StackSound
    <3>1. q \in Pid
      BY DEF IInv, TypeOK
    <3> QED
      BY <2>1, <3>1 DEF IInv, StackSound
  <2> QED
    BY <2>2, <2>3, <2>4, <2>5, <2>6, <2>7, <2>8, <2>9 DEF IInv
<1> QED
  BY <1>3, <1>4

\* The other steps of a helper that keeps running.
LEMMA QuietStep ==
    ASSUME IInv, NEW p \in Pid,
           \/ start(p) \/ openSyncpipe(p) \/ loop(p) \/ lockfBlocks(p)
           \/ lockfFails(p) \/ alarmFunc(p) \/ Expire(p)
    PROVE  IInv'
<1> USE DEF shellVars, GoTo
<1>0. pc[p] # "free" => owner[p] \in Shell
  BY DEF IInv, HelperInv
<1>t. /\ Alive(owner[p]) /\ pc[p] \notin {"free", "hold", "exec", "open"} => sh[owner[p]] = "grep"
      /\ Alive(owner[p]) /\ pc[p] \notin {"free", "exec"} => ppid[p] = owner[p]
  BY DEF IInv, PendingInv, SignalInv
<1>1. CASE start(p)
  <2>1. TypeOK'
    BY <1>0, <1>1 DEF IInv, TypeOK, start, getppid, HelperStates
  <2>2. /\ \A q \in Pid : q # p => ppid'[q] = ppid[q]
        /\ ppid'[p] = getppid(p)
    BY <1>1 DEF IInv, TypeOK, start
  <2> QED
    BY <1>1, <2>1, <2>2, PendingMove DEF start, getppid, Early, Alive
<1>2. CASE openSyncpipe(p)
  <2>1. TypeOK'
    BY <1>2 DEF IInv, TypeOK, openSyncpipe, HelperStates
  <2>2. Alive(owner[p]) => sh[owner[p]] = "grep"
    BY <1>0, <1>2 DEF IInv, PendingInv, FifoInv, openSyncpipe
  <2> QED
    BY <1>2, <1>t, <2>1, <2>2, PendingMove DEF openSyncpipe, Early
<1>3. CASE loop(p)
  <2>1. TypeOK'
    BY <1>3 DEF IInv, TypeOK, loop, HelperStates
  <2> QED
    BY <1>3, <1>t, <2>1, PendingMove DEF loop, Early
<1>4. CASE lockfBlocks(p) \/ lockfFails(p)
  <2>1. TypeOK'
    BY <1>4 DEF IInv, TypeOK, lockfBlocks, lockfFails, HelperStates
  <2> QED
    BY <1>4, <1>t, <2>1, PendingMove DEF lockfBlocks, lockfFails, Early
<1>5. CASE alarmFunc(p) /\ pc[p] = "blocked"
  <2>1. TypeOK' /\ pc' = [pc EXCEPT ![p] = "loop"]
    BY <1>5 DEF IInv, TypeOK, alarmFunc, HelperStates
  <2> QED
    BY <1>5, <1>t, <2>1, PendingMove DEF alarmFunc, Early
<1>6. CASE Expire(p) \/ (alarmFunc(p) /\ pc[p] # "blocked")
  <2>1. TypeOK' /\ pc' = pc
    BY <1>6 DEF IInv, TypeOK, alarmFunc, Expire, HelperStates
  <2>2. UNCHANGED <<sh, job, locks, reader, msg, owner, file, ppid, hup, flock>>
    BY <1>6 DEF alarmFunc, Expire
  <2> QED
    BY <2>1, <2>2 DEF IInv, HelperInv, FlockInv, PendingInv, FifoInv, SignalInv,
                      StackInv, StackSound, Alive
<1> QED
  BY <1>1, <1>2, <1>3, <1>4, <1>5, <1>6

\* The steps with which a helper ends.
LEMMA EndStep ==
    ASSUME IInv, NEW p \in Pid, hold(p) \/ fail(p) \/ quitFunc(p)
    PROVE  IInv'
<1>1. pc[p] # "free" /\ owner[p] \in Shell /\ Exit(p) /\ UNCHANGED <<sh, job, locks, reader>>
  BY DEF IInv, HelperInv, hold, fail, quitFunc, shellVars
<1>2. CASE hold(p)
  <2>1. ~Alive(owner[p]) /\ UNCHANGED msg
    BY <1>1, <1>2 DEF IInv, SignalInv, hold, getppid, Alive, shellVars
  <2>2. \A s \in Shell : \A i \in 1 .. Len(locks[s]) : locks[s][i] # p
    BY <2>1 DEF IInv, StackSound, StackInv
  <2> QED
    BY <1>1, <2>1, <2>2, ExitStep
<1>3. CASE fail(p)
  <2>1. \A s \in Shell : \A i \in 1 .. Len(locks[s]) : locks[s][i] # p
    BY <1>3 DEF IInv, StackSound, fail
  <2>2. Alive(owner[p]) => reader[owner[p]] /\ msg[owner[p]] = "none"
    BY <1>1, <1>3 DEF IInv, PendingInv, FifoInv, fail
  <2>3. /\ pc[p] = "fail" /\ msg' \in [Shell -> {"none", "true", "false"}]
        /\ \A s \in Shell : s # owner[p] => msg'[s] = msg[s]
        /\ msg'[owner[p]] = IF reader[owner[p]] THEN "false" ELSE msg[owner[p]]
    BY <1>1, <1>3 DEF IInv, TypeOK, fail
  <2> QED
    BY <1>1, <2>1, <2>2, <2>3, ExitStep
<1>4. CASE quitFunc(p)
  <2>1. hup[p] /\ UNCHANGED msg
    BY <1>4 DEF quitFunc, shellVars
  <2>2. \A s \in Shell : \A i \in 1 .. Len(locks[s]) : locks[s][i] # p
    BY <2>1 DEF IInv, StackSound
  <2>3. pc[p] = "hold"
    BY <2>1 DEF IInv, SignalInv
  <2> QED
    BY <1>1, <2>1, <2>2, <2>3, ExitStep
<1> QED
  BY <1>2, <1>3, <1>4

\* The inductive invariant holds when no shell has called lock yet.
LEMMA InvInit == Init => IInv
<1> SUFFICES ASSUME Init PROVE IInv
  OBVIOUS
<1>1. TypeOK
  BY DEF Init, TypeOK, ShellStates, HelperStates
<1> QED
  BY <1>1, ProcAssumption DEF Init, IInv, HelperInv, FlockInv, PendingInv, FifoInv,
        SignalInv, StackInv, StackSound, Alive

\* Every step of a shell or of a helper keeps the inductive invariant.
LEMMA InvNext == IInv /\ [Next]_vars => IInv'
<1> SUFFICES ASSUME IInv, [Next]_vars PROVE IInv'
  OBVIOUS
<1>1. ASSUME NEW s \in Shell, ShellStep(s) PROVE IInv'
  BY <1>1, LockStep, GrepStep, LockReturnsStep, UnlockStep, DieStep DEF ShellStep
<1>2. ASSUME NEW p \in Pid, HelperStep(p) PROVE IInv'
  BY <1>2, QuietStep, LockfStep, TellTrueStep, EndStep DEF HelperStep
<1>3. CASE UNCHANGED vars
  BY <1>3 DEF vars, shellVars, helperVars, IInv, TypeOK, HelperInv, FlockInv, PendingInv,
        FifoInv, SignalInv, StackInv, StackSound, Alive
<1> QED
  BY <1>1, <1>2, <1>3 DEF Next

\* The inductive invariant holds in every reachable state.
THEOREM Invariance == Spec => []IInv
<1> QED
  BY InvInit, InvNext, PTL DEF Spec

\* Types.
THEOREM TypeCorrect == Spec => []TypeOK
<1>1. IInv => TypeOK
  BY DEF IInv
<1> QED
  BY <1>1, Invariance, PTL

\* _VS_LOCKS names only helpers of this shell that hold their lock.
THEOREM StackCorrect == Spec => []StackSound
<1>1. IInv => StackSound
  BY DEF IInv
<1> QED
  BY <1>1, Invariance, PTL

\* No file is believed held twice.
LEMMA Exclusion == IInv => MutualExclusion
<1> SUFFICES ASSUME IInv, NEW s \in Shell, NEW t \in Shell,
                    NEW i \in 1 .. Len(locks[s]), NEW j \in 1 .. Len(locks[t]),
                    file[locks[s][i]] = file[locks[t][j]]
             PROVE  s = t /\ i = j
  BY DEF MutualExclusion
<1>1. locks[s][i] = locks[t][j] /\ s = t
  BY DEF IInv, StackSound
<1> QED
  BY <1>1 DEF IInv, StackInv

\* lock/unlock exclude each other: in no reachable state do two shells have
\* helpers for the same file in their _VS_LOCKS, nor one shell two of them.
THEOREM ExclusionCorrect == Spec => []MutualExclusion
<1> QED
  BY Exclusion, Invariance, PTL

-----------------------------------------------------------------------------
(* The refinement of Mutex.                                                *)

inside == [f \in File |-> {s \in Shell : Holds(s, f)}]

\* A step that leaves _VS_LOCKS and the files of its helpers alone is none of
\* the mutexes.
LEMMA SameInside ==
    ASSUME \A s \in Shell : \A f \in File : Holds(s, f)' <=> Holds(s, f)
    PROVE  inside' = inside
<1> QED
  BY DEF inside

\* As long as no _VS_LOCKS changes and helpers that hold keep their file, so do
\* the mutexes.
LEMMA HelperKeeps ==
    ASSUME IInv, IInv', UNCHANGED locks,
           \A p \in Pid : pc[p] = "hold" /\ pc'[p] = "hold" => file'[p] = file[p]
    PROVE  inside' = inside
<1> SUFFICES ASSUME NEW s \in Shell, NEW f \in File
             PROVE  Holds(s, f)' <=> Holds(s, f)
  BY SameInside
<1>1. \A i \in 1 .. Len(locks[s]) : file'[locks[s][i]] = file[locks[s][i]]
  <2> TAKE i \in 1 .. Len(locks[s])
  <2>1. locks[s][i] \in Pid
    BY DEF IInv, TypeOK
  <2>2. pc[locks[s][i]] = "hold" /\ pc'[locks[s][i]] = "hold"
    BY DEF IInv, StackSound
  <2> QED
    BY <2>1, <2>2
<1> QED
  BY <1>1 DEF Holds

\* A shell that only forgets locks leaves the mutexes it forgot.
LEMMA Forgets ==
    ASSUME NEW s \in Shell,
           \A t \in Shell \ {s} : \A f \in File : Holds(t, f)' <=> Holds(t, f),
           \A f \in File : Holds(s, f)' => Holds(s, f)
    PROVE  \E F \in SUBSET File : M!Leave(s, F)
<1> DEFINE F == {f \in File : Holds(s, f) /\ ~Holds(s, f)'}
<1>1. \A f \in F : s \in inside[f]
  BY DEF inside
<1>2. inside' = [f \in File |-> IF f \in F THEN inside[f] \ {s} ELSE inside[f]]
  <2> SUFFICES ASSUME NEW f \in File
               PROVE  {t \in Shell : Holds(t, f)'} =
                        IF f \in F THEN {t \in Shell : Holds(t, f)} \ {s}
                                   ELSE {t \in Shell : Holds(t, f)}
    BY DEF inside
  <2> QED
    OBVIOUS
<1> QED
  BY <1>1, <1>2 DEF M!Leave, inside

\* unlock is a Leave of Mutex.
LEMMA UnlockRefines ==
    ASSUME IInv, NEW s \in Shell, NEW num \in 1 .. Len(locks[s]), unlock(s, num)
    PROVE  \E F \in SUBSET File : M!Leave(s, F)
<1>1. /\ \A t \in Shell \ {s} : locks'[t] = locks[t]
      /\ locks'[s] = SubSeq(locks[s], num + 1, Len(locks[s]))
      /\ locks[s] \in Seq(Pid) /\ num \in Nat /\ file' = file
  BY DEF IInv, TypeOK, unlock
<1>2. \A i \in 1 .. Len(locks'[s]) : /\ locks'[s][i] = locks[s][num + i]
                                     /\ num + i \in 1 .. Len(locks[s])
  BY <1>1
<1>3. \A t \in Shell \ {s} : \A f \in File : Holds(t, f)' <=> Holds(t, f)
  BY <1>1 DEF Holds
<1>4. \A f \in File : Holds(s, f)' => Holds(s, f)
  BY <1>1, <1>2 DEF Holds
<1> QED
  BY <1>3, <1>4, Forgets

\* The death of a shell is a Leave of everything it held.
LEMMA DieRefines ==
    ASSUME IInv, NEW s \in Shell, die(s)
    PROVE  \E F \in SUBSET File : M!Leave(s, F)
<1>1. /\ \A t \in Shell \ {s} : locks'[t] = locks[t]
      /\ locks'[s] = << >> /\ file' = file
  BY DEF IInv, TypeOK, die, helperVars
<1>2. \A t \in Shell \ {s} : \A f \in File : Holds(t, f)' <=> Holds(t, f)
  BY <1>1 DEF Holds
<1>3. \A f \in File : ~Holds(s, f)'
  BY <1>1 DEF Holds
<1> QED
  BY <1>2, <1>3, Forgets

\* The return of lock is an Enter when grep matched, and no step otherwise.
LEMMA LockReturnsRefines ==
    ASSUME IInv, IInv', NEW s \in Shell, lockReturns(s)
    PROVE  inside' = inside \/ \E f \in File : M!Enter(s, f)
<1>1. /\ \A t \in Shell \ {s} : locks'[t] = locks[t]
      /\ locks'[s] = IF msg[s] = "true" THEN <<job[s]>> \o locks[s] ELSE locks[s]
      /\ locks[s] \in Seq(Pid) /\ file' = file /\ sh[s] = "grep"
  BY DEF IInv, TypeOK, lockReturns, helperVars
<1>2. \A t \in Shell \ {s} : \A f \in File : Holds(t, f)' <=> Holds(t, f)
  BY <1>1 DEF Holds
<1>3. CASE msg[s] # "true"
  <2>1. \A f \in File : Holds(s, f)' <=> Holds(s, f)
    BY <1>1, <1>3 DEF Holds
  <2> QED
    BY <1>2, <2>1, SameInside
<1>4. CASE msg[s] = "true"
  <2>1. PICK p \in Pid : p = job[s] /\ pc[p] = "hold" /\ owner[p] = s
    BY <1>1, <1>4 DEF IInv, FifoInv
  <2>2. PICK g \in File : g = file[p] /\ flock[g] = p
    BY <2>1 DEF IInv, HelperInv, FlockInv
  <2>3. \A t \in Shell : ~Holds(t, g)
    <3> SUFFICES ASSUME NEW t \in Shell, NEW i \in 1 .. Len(locks[t]), file[locks[t][i]] = g
                 PROVE  FALSE
      BY DEF Holds
    <3>1. locks[t][i] = p /\ t = s
      BY <2>1, <2>2 DEF IInv, StackSound
    <3> QED
      BY <1>1, <1>4, <2>1, <3>1 DEF IInv, FifoInv
  <2>4. /\ Len(locks'[s]) = Len(locks[s]) + 1 /\ locks'[s][1] = p
        /\ \A i \in 1 .. Len(locks[s]) : locks'[s][i + 1] = locks[s][i]
        /\ \A i \in 1 .. Len(locks'[s]) : i # 1 => /\ locks'[s][i] = locks[s][i - 1]
                                                   /\ i - 1 \in 1 .. Len(locks[s])
        /\ 1 \in 1 .. Len(locks'[s])
        /\ \A i \in 1 .. Len(locks[s]) : i + 1 \in 1 .. Len(locks'[s])
    BY <1>1, <1>4, <2>1
  <2>5. Holds(s, g)'
    BY <1>1, <2>2, <2>4 DEF Holds
  <2>6. \A f \in File \ {g} : Holds(s, f)' <=> Holds(s, f)
    <3> TAKE f \in File \ {g}
    <3>1. ASSUME Holds(s, f)' PROVE Holds(s, f)
      <4>1. PICK i \in 1 .. Len(locks'[s]) : file[locks'[s][i]] = f
        BY <1>1, <3>1 DEF Holds
      <4>2. i # 1
        BY <2>2, <2>4, <4>1
      <4> QED
        BY <2>4, <4>1, <4>2 DEF Holds
    <3>2. ASSUME Holds(s, f) PROVE Holds(s, f)'
      BY <1>1, <2>4, <3>2 DEF Holds
    <3> QED
      BY <3>1, <3>2
  <2>7. inside' = [inside EXCEPT ![g] = {s}]
    <3>1. \A f \in File \ {g} : {t \in Shell : Holds(t, f)'} = {t \in Shell : Holds(t, f)}
      BY <1>2, <2>6, Zenon
    <3>2. {t \in Shell : Holds(t, g)'} = {s}
      BY <1>2, <2>2, <2>3, <2>5
    <3> QED
      BY <2>2, <3>1, <3>2 DEF inside
  <2>8. inside[g] = {}
    BY <2>2, <2>3 DEF inside
  <2> QED
    BY <2>2, <2>7, <2>8 DEF M!Enter, inside
<1> QED
  BY <1>3, <1>4

\* Every step of the helpers, and the other steps of a shell, leave the mutexes
\* alone.
LEMMA OthersRefine ==
    ASSUME IInv, IInv',
           \/ UNCHANGED vars
           \/ \E p \in Pid : HelperStep(p)
           \/ \E s \in Shell : grep(s) \/ \E f \in File, p \in Pid : lock(s, f, p)
    PROVE  inside' = inside
<1>1. UNCHANGED locks
  BY DEF vars, shellVars, HelperStep, start, openSyncpipe, loop, lockf, lockfBlocks,
         lockfFails, alarmFunc, tellTrue, hold, fail, quitFunc, Expire, grep, lock
<1>2. \A q \in Pid : pc[q] = "hold" /\ pc'[q] = "hold" => file'[q] = file[q]
  <2>1. CASE UNCHANGED vars \/ \E s \in Shell : grep(s)
    BY <2>1 DEF vars, helperVars, grep
  <2>2. ASSUME NEW p \in Pid, HelperStep(p)
        PROVE  \A q \in Pid : pc[q] = "hold" /\ pc'[q] = "hold" => file'[q] = file[q]
    <3>1. file' = file \/ Exit(p)
      BY <2>2 DEF HelperStep, start, openSyncpipe, loop, lockf, lockfBlocks,
         lockfFails, alarmFunc, tellTrue, hold, fail, quitFunc, Expire, shellVars
    <3> QED
      BY <2>2, <3>1 DEF Exit, IInv, TypeOK
  <2>3. ASSUME NEW s \in Shell, NEW f \in File, NEW p \in Pid, lock(s, f, p)
        PROVE  \A q \in Pid : pc[q] = "hold" /\ pc'[q] = "hold" => file'[q] = file[q]
    BY <2>3 DEF lock, IInv, TypeOK
  <2> QED
    BY <2>1, <2>2, <2>3
<1> QED
  BY <1>1, <1>2, HelperKeeps

\* lock and unlock implement the mutexes of Mutex.tla.
THEOREM Refinement == Spec => ImplementsMutex
<1>1. Init => M!Init
  BY DEF Init, M!Init, Holds
<1>2. IInv /\ IInv' /\ [Next]_vars => [M!Next]_inside
  <2> SUFFICES ASSUME IInv, IInv', [Next]_vars PROVE M!Next \/ inside' = inside
    OBVIOUS
  <2>1. ASSUME NEW s \in Shell, ShellStep(s) PROVE M!Next \/ inside' = inside
    <3>1. CASE lockReturns(s)
      BY <3>1, LockReturnsRefines DEF M!Next
    <3>2. CASE \E num \in 1 .. Len(locks[s]) : unlock(s, num)
      BY <3>2, UnlockRefines DEF M!Next
    <3>3. CASE die(s)
      BY <3>3, DieRefines DEF M!Next
    <3>4. CASE grep(s) \/ \E f \in File, p \in Pid : lock(s, f, p)
      BY <3>4, OthersRefine
    <3> QED
      BY <2>1, <3>1, <3>2, <3>3, <3>4 DEF ShellStep
  <2>2. CASE UNCHANGED vars \/ \E p \in Pid : HelperStep(p)
    BY <2>2, OthersRefine
  <2> QED
    BY <2>1, <2>2 DEF Next
<1> QED
  BY <1>1, <1>2, Invariance, PTL DEF Spec, ImplementsMutex, M!Spec, inside

=============================================================================
