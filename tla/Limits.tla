------------------------------- MODULE Limits -------------------------------
(***************************************************************************)
(* The tools that change one thing of a context in the kernel: vdlimit,    *)
(* two instances of it on one context, vkill while processes of contexts   *)
(* come and go, and vdevmap.                                               *)
(***************************************************************************)
EXTENDS Integers, Sequences, SequencesExt, FiniteSets

CONSTANTS
    Jobs,       \* pairs of command lines: [tool, opts, args, xid, sig, ...]
    Fs,         \* filesystems
    Modulus,    \* 2^32: the values of a limit
    Pid, Xid,   \* processes, and the contexts they may be in
    MaxSteps    \* failures of the kernel, kills, and changes of a process

VARIABLES
    job,        \* [1..2 -> command line]
    pc,         \* [1..2 -> position]
    i,          \* [1..2 -> index of the argument: optind]
    added,      \* [1..2 -> was_added]
    dl,         \* [Fs -> NoEntry or [used, total]]: the limits in the kernel
    owner,      \* history: [Fs -> the instances whose limits are there: the last setter]
    task,       \* [Pid -> [xid, gen]]: gen counts the processes that had the pid
    seen,       \* vkill: the context that it asked for, before it sends
    hit,        \* the processes <<pid, gen>> that got the signal
    mapped,     \* the device mappings <<device, flags>> of the context
    result,     \* [1..2 -> "none", "ok" or "fail"]
    steps

vars == <<job, pc, i, added, dl, owner, task, seen, hit, mapped, result, steps>>

Proc == 1 .. 2
NOCTX == -1
NoEntry == [used |-> -1, total |-> -1]
Bad == NoEntry
INFINITY == Modulus - 1
KEEP == Modulus - 2
NewEntry == [used |-> 0, total |-> INFINITY]

Init ==
    /\ job \in Jobs
    /\ pc = [p \in Proc |-> IF job[p].tool = "no" THEN "end" ELSE "opts"]
    /\ i = [p \in Proc |-> 1] /\ added = [p \in Proc |-> FALSE]
    /\ dl \in [Fs -> IF job[1].tool \in {"kill", "devmap"} THEN {NoEntry} ELSE {NoEntry, [used |-> 1, total |-> 2]}]
    /\ owner = [f \in Fs |-> 0]
    /\ task \in [Pid -> {[xid |-> x, gen |-> 0] : x \in IF job[1].tool = "kill" THEN Xid ELSE {0}}]
    /\ seen = <<NOCTX, 0>> /\ hit = {} /\ mapped = {} /\ result = [p \in Proc |-> "none"] /\ steps = 0

Goto(p, at) == pc' = [pc EXCEPT ![p] = at]
End(p, r) == Goto(p, "end") /\ result' = [result EXCEPT ![p] = r]
Arg(p) == job[p].args[i[p]]

\* The kernel refuses, out of memory or for lack of a capability
Refused(p) ==
    /\ steps < MaxSteps /\ steps' = steps + 1

-----------------------------------------------------------------------------
(* vdlimit                                                                 *)

\* setDLimitField: Bad when the option is not taken; the value is an unsigned
\* number, whatever its sign was.
setDLimitField(l, o) ==
    IF o.field \notin DOMAIN l \/ ~o.number \/ l[o.field] # KEEP THEN Bad
    ELSE [l EXCEPT ![o.field] = o.val % Modulus]

Given(opts) ==
    FoldLeft(LAMBDA l, o : IF l = Bad THEN l ELSE setDLimitField(l, o),
             [used |-> KEEP, total |-> KEEP], opts)

isHigherLimit(a, b) == a # KEEP /\ b # KEEP /\ a > b

\* main: a command line that is refused changes nothing
vdlimitMain(p) ==
    /\ job[p].tool \in {"set", "rem", "print"} /\ pc[p] = "opts"
    /\ LET l == Given(job[p].opts)
       IN  IF l = Bad \/ job[p].args = << >> \/ job[p].xid = NOCTX THEN End(p, "fail")
           ELSE IF isHigherLimit(l.used, l.total) THEN End(p, "fail")
           ELSE Goto(p, IF job[p].tool = "set" THEN "get" ELSE job[p].tool) /\ UNCHANGED result
    /\ UNCHANGED <<job, i, added, dl, owner, task, seen, hit, mapped, steps>>

Next1(p) ==
    IF i[p] = Len(job[p].args) THEN End(p, "ok") /\ UNCHANGED i
    ELSE i' = [i EXCEPT ![p] = @ + 1] /\ Goto(p, IF job[p].tool = "set" THEN "get" ELSE job[p].tool) /\ UNCHANGED result

\* setDlimit: the entry is looked for, and added when it is not found
getDlimit(p) ==
    /\ pc[p] = "get" /\ added' = [added EXCEPT ![p] = FALSE]
    /\ \/ Goto(p, IF dl[Arg(p)] = NoEntry THEN "add" ELSE "put") /\ UNCHANGED steps
       \/ Refused(p) /\ Goto(p, "add")
    /\ UNCHANGED <<job, i, dl, owner, task, seen, hit, mapped, result>>

addDlimit(p) ==
    /\ pc[p] = "add"
    /\ \/ /\ dl[Arg(p)] = NoEntry /\ dl' = [dl EXCEPT ![Arg(p)] = NewEntry] /\ owner' = [owner EXCEPT ![Arg(p)] = 0]
          /\ added' = [added EXCEPT ![p] = TRUE] /\ Goto(p, "put") /\ UNCHANGED <<result, steps>>
       \/ /\ \/ dl[Arg(p)] # NoEntry /\ UNCHANGED steps
             \/ Refused(p)
          /\ End(p, "fail") /\ UNCHANGED <<dl, added, owner>>
    /\ UNCHANGED <<job, i, task, seen, hit, mapped>>

\* What vc_set_dlimit leaves of the old values
Put(old, l) == [f \in DOMAIN old |-> IF l[f] = KEEP THEN old[f] ELSE l[f]]

\* Fault: an entry that was added is left there when its limits cannot be set.
Undo_Not(p) == FALSE

\* the entry goes again when this instance has added it
Undo(p) == added[p]

setDlimit(p) ==
    /\ pc[p] = "put"
    /\ LET f == Arg(p)
       IN  \/ /\ dl[f] # NoEntry /\ dl' = [dl EXCEPT ![f] = Put(@, Given(job[p].opts))]
              /\ owner' = [owner EXCEPT ![f] = p] /\ Next1(p) /\ UNCHANGED steps
           \/ /\ \/ dl[f] = NoEntry /\ UNCHANGED steps
                 \/ Refused(p)
              /\ IF Undo(p) THEN Goto(p, "undo") /\ UNCHANGED result ELSE End(p, "fail")
              /\ UNCHANGED <<i, dl, owner>>
    /\ UNCHANGED <<job, added, task, seen, hit, mapped>>

undoDlimit(p) ==
    /\ pc[p] = "undo" /\ End(p, "fail")
    /\ \/ dl' = [dl EXCEPT ![Arg(p)] = NoEntry] /\ owner' = [owner EXCEPT ![Arg(p)] = -p] /\ UNCHANGED steps
       \/ Refused(p) /\ UNCHANGED <<dl, owner>>
    /\ UNCHANGED <<job, i, added, task, seen, hit, mapped>>

\* remDlimit and printDlimit
remDlimit(p) ==
    /\ pc[p] \in {"rem", "print"}
    /\ LET f == Arg(p)
       IN  \/ /\ dl[f] # NoEntry /\ Next1(p) /\ UNCHANGED steps
              /\ IF pc[p] = "rem" THEN dl' = [dl EXCEPT ![f] = NoEntry] /\ owner' = [owner EXCEPT ![f] = -p]
                 ELSE UNCHANGED <<dl, owner>>
           \/ /\ \/ dl[f] = NoEntry /\ UNCHANGED steps
                 \/ Refused(p)
              /\ End(p, "fail") /\ UNCHANGED <<i, dl, owner>>
    /\ UNCHANGED <<job, added, task, seen, hit, mapped>>

killed(p) ==
    /\ pc[p] \in {"get", "add", "put", "undo", "rem"} /\ Refused(p) /\ End(p, "killed")
    /\ UNCHANGED <<job, i, added, dl, owner, task, seen, hit, mapped>>

-----------------------------------------------------------------------------
(* vkill                                                                   *)

\* str2sig: a number as it is, a name with or without SIG
str2sig(s) == IF s.form = "number" THEN s.num ELSE IF s.known THEN s.num ELSE -1

vkillMain ==
    /\ job[1].tool = "kill" /\ pc[1] = "opts"
    /\ IF str2sig(job[1].sig) = -1 \/ (job[1].xid = NOCTX /\ job[1].args = << >>) THEN End(1, "fail")
       ELSE Goto(1, "xid") /\ UNCHANGED result
    /\ UNCHANGED <<job, i, added, dl, owner, task, seen, hit, mapped, steps>>

\* The pid of an argument: any when it is not a number, 0 without arguments
Named == IF job[1].args = << >> THEN {0} ELSE IF Arg(1) \in Pid THEN {Arg(1)} ELSE Pid \cup {0}

\* kill_wrapper: the context that is given, or that of the process
Context(pid) == IF job[1].xid # NOCTX THEN job[1].xid ELSE task[pid].xid

getXid ==
    /\ pc[1] = "xid"
    /\ \E pid \in Named :
          /\ seen' = <<IF pid = 0 THEN job[1].xid ELSE Context(pid), pid>>
          /\ Goto(1, "kill")
    /\ UNCHANGED <<job, i, added, dl, owner, task, hit, mapped, result, steps>>

\* vc_ctx_kill: a process that is in the context, or all of them
Targets == {q \in Pid : task[q].xid = seen[1] /\ seen[2] \in {0, q}}

\* fail: an argument has failed before. On a kernel without the system call the
\* legacy vkill is executed, whose success is counted as a failure, too.
Failed == result[1] = "failed"

kill_wrapper ==
    /\ pc[1] = "kill"
    /\ LET ok   == Targets # {}
           last == i[1] >= Len(job[1].args)
           bad  == Failed \/ ~ok
       IN  /\ hit' = hit \cup {<<q, task[q].gen>> : q \in Targets}
           /\ IF last THEN End(1, IF bad THEN "fail" ELSE "ok") /\ UNCHANGED i
              ELSE /\ i' = [i EXCEPT ![1] = @ + 1] /\ Goto(1, "xid")
                   /\ result' = [result EXCEPT ![1] = IF bad THEN "failed" ELSE "none"]
    /\ UNCHANGED <<job, added, dl, owner, task, seen, mapped, steps>>

\* A process ends, and another one gets its number
reused ==
    /\ job[1].tool = "kill" /\ steps < MaxSteps /\ steps' = steps + 1
    /\ \E q \in Pid, x \in Xid : task' = [task EXCEPT ![q] = [xid |-> x, gen |-> @.gen + 1]]
    /\ UNCHANGED <<job, pc, i, added, dl, owner, seen, hit, mapped, result>>

-----------------------------------------------------------------------------
(* vdevmap                                                                 *)

\* main: the last of -s and -u
Sets(opts) == Last(opts).set

vdevmapMain ==
    /\ job[1].tool = "devmap" /\ pc[1] = "opts"
    /\ LET o    == job[1]
           flags == {x.flag : x \in ToSet(o.opts)}
           dev  == <<o.sig.device, o.sig.target, flags>>
       IN  IF (o.sig.target = "" /\ "remap" \in flags) \/ o.xid = NOCTX \/ (o.sig.device = "" /\ o.sig.target = "")
           THEN End(1, "fail") /\ UNCHANGED <<mapped, steps>>
           ELSE \/ End(1, "ok") /\ mapped' = (IF Sets(o.opts) THEN {dev} ELSE {}) /\ UNCHANGED steps
                \/ Refused(1) /\ End(1, "fail") /\ UNCHANGED mapped
    /\ UNCHANGED <<job, i, added, dl, owner, task, seen, hit>>

-----------------------------------------------------------------------------
vdlimit(p) ==
    \/ vdlimitMain(p) \/ getDlimit(p) \/ addDlimit(p) \/ setDlimit(p) \/ undoDlimit(p) \/ remDlimit(p) \/ killed(p)

Next ==
    \/ \E p \in Proc : vdlimit(p)
    \/ vkillMain \/ getXid \/ kill_wrapper \/ reused \/ vdevmapMain

Spec == Init /\ [][Next]_vars

-----------------------------------------------------------------------------
\* The variables have their types.
TypeOK ==
    /\ \A p \in Proc : result[p] \in {"none", "ok", "fail", "failed", "killed"}
    /\ \A f \in Fs : dl[f] = NoEntry \/ dl[f] \in [used : 0 .. INFINITY, total : 0 .. INFINITY]
    /\ steps \in 0 .. MaxSteps

Ended == \A p \in Proc : pc[p] = "end"
Told(p, f) == \E o \in ToSet(job[p].opts) : o.field = f

\* When all instances of vdlimit have ended, there is no entry that one of them added
\* and could not set, so that a context gets a limit of zero used out of infinitely
\* many: except by an instance that was killed, or refused twice.
NoHalfLimit ==
    Ended /\ (\A p \in Proc : result[p] # "killed") /\ steps < 2 =>
        \A f \in Fs : dl[f] # NoEntry => owner[f] # 0 \/ dl[f] # NewEntry

\* A vdlimit that reports success has set what it was told on all its filesystems:
\* each is as it was told, unless the other instance set or removed it, or had added
\* the entry that this one found and removes it because it cannot set it.
SuccessIsSet ==
    \A p \in Proc : job[p].tool = "set" /\ result[p] = "ok" =>
        \A k \in DOMAIN job[p].args :
            LET f == job[p].args[k] IN
            \/ owner[f] = 3 - p \/ owner[f] = p - 3
            \/ /\ dl[f] # NoEntry
               /\ \A o \in ToSet(job[p].opts) : o.val >= 0 /\ o.val < KEEP => dl[f][o.field] = o.val

\* No call of vdlimit makes the kernel hold a usage above the total where it gives
\* both, whatever the values for "infinite" and "keep" are.
UsedBelowTotal ==
    \A p \in Proc : job[p].tool = "set" /\ result[p] = "ok" /\ Told(p, "used") /\ Told(p, "total") =>
        \A f \in ToSet(job[p].args) : owner[f] = p =>
            \/ dl[f].used <= dl[f].total
            \/ \E o \in ToSet(job[p].opts) : o.val % Modulus = KEEP

HitsAreAsked ==
    \A t \in hit' \ hit :
        /\ job[1].xid # NOCTX => task[t[1]].xid = job[1].xid
        /\ job[1].args # << >> /\ ToSet(job[1].args) \subseteq Pid => t[1] \in ToSet(job[1].args)

\* vkill with a context signals nobody outside of it, whoever got the pid meanwhile;
\* without one, nobody but who has the pid. An argument that is no number may stand
\* for any process.
OnlyAsked == [][HitsAreAsked]_vars

\* A vkill that succeeds has sent a signal for each of its arguments, and a signal
\* that can be named is accepted under both of its names.
SuccessIsSent ==
    job[1].tool = "kill" /\ pc[1] = "end" =>
        /\ result[1] = "ok" => \A k \in DOMAIN job[1].args : job[1].args[k] \in Pid => \E t \in hit : t[1] = job[1].args[k]
        /\ steps = 0 /\ result[1] = "fail" => ~job[1].sig.known \/ job[1].args = << >> \/ job[1].xid # NOCTX \/ ~(ToSet(job[1].args) \subseteq Pid)

\* vdevmap leaves the mapping that the last of --set and --unset asks for.
MappedAsTold ==
    job[1].tool = "devmap" /\ result[1] = "ok" => (mapped # {} <=> Last(job[1].opts).set)
=============================================================================
