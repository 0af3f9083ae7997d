---------------------------- MODULE StartProgram ----------------------------
(***************************************************************************)
(* vserver-start, the C program that is to take the place of the script    *)
(* vserver.start (vserver-start/).  The parent takes the lock, checks, and *)
(* clones a child with a namespace of its own; the child sets the guest up *)
(* and undoes at its exit what it had done so far; over a socket pair, of  *)
(* which both processes keep both ends, the child sends the context id and *)
(* the parent answers with a dot when its scriptlets are through.          *)
(*                                                                         *)
(* Calls whose name begins with E exit with wrapper_exit_code when they    *)
(* fail, which is 0 here.  A process forked to execute secure-mount that   *)
(* cannot execute it returns, and goes on as a copy of the child.  Adding  *)
(* an interface echoes the command so far, and removing one does nothing:  *)
(* added and undone are the calls.                                         *)
(***************************************************************************)
EXTENDS Naturals, Sequences, SequencesExt, FiniteSets

CONSTANTS
    Configs,    \* configurations: flags (they can be parsed), dmask (a default
                \* mask is given), ifs (the directories below interfaces/)
    MaxCopies   \* copies of the child

VARIABLES
    cfg,        \* the configuration
    parent,     \* where the parent is, or "ended"
    proc,       \* the child, 0, and its copies: where they are
    waits,      \* copy -> the process that waits for it
    toParent,   \* context ids in the socket
    toChild,    \* dots in the socket
    interfaces, \* cfg.interfaces
    tasks,      \* undo_data of the child, "detached" after Undo_detach
    added, undone,  \* interfaces that were added and those that were removed
    mounted,    \* what the child has mounted
    ran,        \* the scriptlets that were executed, in order
    fault       \* what went wrong: in the parent, in the child, unnoticed

vars == <<cfg, parent, proc, waits, toParent, toChild, interfaces, tasks, added, undone,
          mounted, ran, fault>>

Procs == 0 .. MaxCopies

Init ==
    /\ cfg \in Configs
    /\ parent = "lock" /\ proc = [p \in Procs |-> "none"] /\ waits = [p \in Procs |-> 0]
    /\ toParent = 0 /\ toChild = 0 /\ interfaces = << >>
    /\ tasks = [on |-> FALSE, list |-> << >>] /\ added = << >> /\ undone = << >>
    /\ mounted = {} /\ ran = << >> /\ fault = {}

-----------------------------------------------------------------------------
(* The configuration.                                                      *)

\* The test adds up what is missing, but ?: binds weaker than +: a missing ip or
\* dev, or a default mask, makes it succeed; only the mask is ever asked for.
assumeNonNull(e) ==
    (e.ip /\ e.dev # "none" /\ ~cfg.dmask) => (e.mask \/ e.prefix # "none")

\* Iface_read of one directory; a prefix of 0 is refused
Iface_read(e) ==
    \/ e.disabled
    \/ assumeNonNull(e) /\ ~(e.mask /\ e.prefix # "none") /\ e.prefix # "0"

\* getInterfaces: directories that cannot be read, are disabled or have no ip
\* are left out
getInterfaces ==
    LET taken(e) == Iface_read(e) /\ ~e.disabled /\ e.ip
    IN  SelectSeq(cfg.ifs, taken)

\* getConfiguration; nobody looks at its result
getConfiguration == IF cfg.flags THEN getInterfaces ELSE << >>

-----------------------------------------------------------------------------
(* The parent.                                                             *)

ParentEnds(why) == parent' = "ended" /\ fault' = fault \cup why

\* initGlobals, initLock
initLock ==
    /\ parent = "lock"
    /\ \/ parent' = "check" /\ UNCHANGED fault
       \/ ParentEnds({"parent"})
    /\ UNCHANGED <<cfg, proc, waits, toParent, toChild, interfaces, tasks, added, undone, mounted, ran>>

\* checkConstraints, then the sockets, the configuration and the clone
checkConstraints ==
    /\ parent = "check"
    /\ \/ /\ parent' = "recv" /\ interfaces' = getConfiguration
          /\ proc' = [proc EXCEPT ![0] = "prepre-start"]
          /\ tasks' = [on |-> TRUE, list |-> << >>] /\ UNCHANGED fault
       \/ ParentEnds({"parent"}) /\ UNCHANGED <<interfaces, proc, tasks>>
    /\ UNCHANGED <<cfg, waits, toParent, toChild, added, undone, mounted, ran>>

\* recv of the context id
parentRecv ==
    /\ parent = "recv" /\ toParent > 0
    /\ parent' = "pre-start.parent" /\ toParent' = toParent - 1
    /\ UNCHANGED <<cfg, proc, waits, toChild, interfaces, tasks, added, undone, mounted, ran, fault>>

\* the scriptlets, and the dot
parentScriptlets ==
    /\ parent = "pre-start.parent" /\ ran' = Append(ran, "pre-start.parent")
    /\ \/ parent' = "ended" /\ toChild' = toChild + 1 /\ UNCHANGED fault
       \/ ParentEnds({"parent"}) /\ UNCHANGED toChild
    /\ UNCHANGED <<cfg, proc, waits, toParent, interfaces, tasks, added, undone, mounted>>

-----------------------------------------------------------------------------
(* The child and its copies.                                               *)

\* atexitHandler: "skip 'exit()' from forked processes"
Undoes(p) == p = 0 /\ tasks.on

\* Fault: the first task is forgotten.
atexitHandler_OffByOne == Reverse(SubSeq(tasks.list, 2, Len(tasks.list)))

\* atexitHandler: the last task first
atexitHandler == Reverse(tasks.list)

\* exit runs the handler; _exit, abort and signals do not.
Ends(p, how) ==
    /\ proc' = [proc EXCEPT ![p] = IF how = "exit 0" THEN "ended" ELSE "failed"]
    /\ undone' = IF how # "abort" /\ Undoes(p) THEN undone \o atexitHandler ELSE undone
    /\ fault' = fault \cup (IF p = 0 THEN {"child"} ELSE {"copy"})
                      \cup (IF p = 0 /\ how = "abort" THEN {"noundo"} ELSE {})

Goes(p, l) == proc' = [proc EXCEPT ![p] = l] /\ UNCHANGED <<undone, fault>>

\* execScriptlets: struct Command is not initialised in visitFile, anything may
\* come of it
childScriptlets(p) ==
    /\ proc[p] \in {"prepre-start", "pre-start"} /\ ran' = Append(ran, proc[p])
    /\ \/ Goes(p, IF proc[p] = "prepre-start" THEN "interfaces" ELSE "detach")
       \/ Ends(p, "exit 1") \/ Ends(p, "abort")
    /\ UNCHANGED <<cfg, parent, waits, toParent, toChild, interfaces, tasks, added, mounted>>

\* activateInterfaces: one interface; VLANs and indirect interfaces abort, and
\* an interface without a device is a null pointer
activateInterface(p) ==
    /\ proc[p] = "interfaces" /\ Len(tasks.list) < Len(interfaces)
    /\ LET e == interfaces[Len(tasks.list) + 1]
           plain == e.dev = "eth0" /\ ~e.indirect
       IN  \/ /\ e.nodev \/ plain
              /\ added' = Append(added, e) /\ tasks' = [tasks EXCEPT !.list = Append(@, e)]
              /\ UNCHANGED <<proc, undone, fault>>
           \/ ~e.nodev /\ plain /\ Ends(p, "exit 1") /\ UNCHANGED <<added, tasks>>
           \/ ~e.nodev /\ ~plain /\ Ends(p, "abort") /\ UNCHANGED <<added, tasks>>
    /\ UNCHANGED <<cfg, parent, waits, toParent, toChild, interfaces, mounted, ran>>

\* vc_ctx_create, setCFlag
ctxCreate(p) ==
    /\ proc[p] = "interfaces" /\ Len(tasks.list) = Len(interfaces)
    /\ Goes(p, "mtab") \/ Ends(p, "exit 0")
    /\ UNCHANGED <<cfg, parent, waits, toParent, toChild, interfaces, tasks, added, mounted, ran>>

\* initMtab: a helper writes the mtab in the guest's root.  It may fail with 1;
\* with 0, which is not noticed; before it has read, which kills the writer;
\* and a read error is an _exit.
initMtab(p) ==
    /\ proc[p] = "mtab"
    /\ \/ Goes(p, "fstab") /\ mounted' = mounted \cup {"mtab"}
       \/ /\ proc' = [proc EXCEPT ![p] = "fstab"] /\ fault' = fault \cup {"mtab"}
          /\ UNCHANGED <<undone, mounted>>
       \/ (Ends(p, "exit 1") \/ Ends(p, "abort")) /\ UNCHANGED mounted
    /\ UNCHANGED <<cfg, parent, waits, toParent, toChild, interfaces, tasks, added, ran>>

Wait(l) == IF l = "fstab" THEN "wait fstab" ELSE "wait fstab.local"

After(l) == IF l = "fstab" THEN "fstab.local" ELSE "send"

\* mountVserverInternal: the helper's exit code is 0 when it mounted, and also
\* when it could not change to the directory
mountVserver(p) ==
    /\ proc[p] \in {"fstab", "fstab.local"}
    /\ \/ Goes(p, After(proc[p])) /\ mounted' = mounted \cup {proc[p]}
       \/ /\ proc' = [proc EXCEPT ![p] = After(proc[p])] /\ fault' = fault \cup {proc[p]}
          /\ UNCHANGED <<undone, mounted>>
       \/ Ends(p, "exit 1") /\ UNCHANGED mounted
    /\ UNCHANGED <<cfg, parent, waits, toParent, toChild, interfaces, tasks, added, ran>>

\* secure-mount cannot be executed
mountCopies(p) ==
    /\ proc[p] \in {"fstab", "fstab.local"}
    /\ \E c \in Procs :
         /\ proc[c] = "none" /\ \A d \in Procs : proc[d] = "none" => c <= d
         /\ proc' = [proc EXCEPT ![c] = After(proc[p]), ![p] = Wait(proc[p])]
         /\ waits' = [waits EXCEPT ![c] = p]
         /\ fault' = fault \cup {"copy", proc[p]}
    /\ UNCHANGED <<cfg, parent, toParent, toChild, interfaces, tasks, added, undone, mounted, ran>>

\* wait4 of a copy
copyEnded(p) ==
    /\ \E c \in Procs \ {0}, l \in {"fstab", "fstab.local"} :
         /\ proc[p] = Wait(l) /\ waits[c] = p /\ proc[c] \in {"ended", "failed"}
         /\ waits' = [waits EXCEPT ![c] = c]
         /\ IF proc[c] = "ended" THEN Goes(p, After(l)) ELSE Ends(p, "exit 1")
    /\ UNCHANGED <<cfg, parent, toParent, toChild, interfaces, tasks, added, mounted, ran>>

Sent == toParent + 1

\* send of the context id; the process has the other end open itself, so that
\* it does not fail
send(p) ==
    /\ proc[p] = "send" /\ Goes(p, "recv") /\ toParent' = Sent
    /\ UNCHANGED <<cfg, parent, waits, toChild, interfaces, tasks, added, mounted, ran>>

\* 'pre-start.parent' will be executed now in the parent-context
HasDot == toChild > 0

recv(p) ==
    /\ proc[p] = "recv" /\ HasDot /\ Goes(p, "pre-start")
    /\ toChild' = (IF toChild > 0 THEN toChild - 1 ELSE 0)
    /\ UNCHANGED <<cfg, parent, waits, toParent, interfaces, tasks, added, mounted, ran>>

\* nice and setDefaultTTY, which may fail, and Undo_detach
detach(p) ==
    /\ proc[p] = "detach"
    /\ \/ /\ tasks' = (IF p = 0 THEN [on |-> FALSE, list |-> << >>] ELSE tasks)
          /\ Goes(p, "ended")
       \/ Ends(p, "exit 0") /\ UNCHANGED tasks
    /\ UNCHANGED <<cfg, parent, waits, toParent, toChild, interfaces, added, mounted, ran>>

Parent == initLock \/ checkConstraints \/ parentRecv \/ parentScriptlets
Child(p) == \/ childScriptlets(p) \/ activateInterface(p) \/ ctxCreate(p) \/ initMtab(p)
            \/ mountVserver(p) \/ mountCopies(p) \/ copyEnded(p) \/ send(p) \/ recv(p) \/ detach(p)

Next == Parent \/ \E p \in Procs : Child(p)

Spec == Init /\ [][Next]_vars
FairSpec == Spec /\ WF_vars(Parent) /\ \A p \in Procs : WF_vars(Child(p))

-----------------------------------------------------------------------------
\* The variables have their types.
TypeOK ==
    /\ parent \in {"lock", "check", "recv", "pre-start.parent", "ended"}
    /\ \A p \in Procs : proc[p] \in {"none", "prepre-start", "interfaces", "mtab", "fstab",
           "fstab.local", "wait fstab", "wait fstab.local", "send", "recv", "pre-start", "detach",
           "ended", "failed"}
    /\ toParent \in 0 .. MaxCopies + 1 /\ toChild \in 0 .. 1
    /\ Len(tasks.list) <= Len(interfaces)
    /\ mounted \subseteq {"mtab", "fstab", "fstab.local"}

Over(p) == proc[p] \in {"ended", "failed"}

\* A child that exits before the end has removed what it had added, the last
\* first; one that comes through has removed nothing.  abort, _exit and signals
\* remove nothing either.
UndoIsComplete ==
    Over(0) =>
        IF "child" \notin fault THEN undone = << >>
        ELSE "noundo" \notin fault => undone = Reverse(added)

\* Nothing is removed while the child is at work, whatever becomes of the
\* processes it forks.
UndoIsLast == ~Over(0) => undone = << >>

\* The scriptlets of the parent come before pre-start, in every copy.
ParentFirst ==
    \A k \in DOMAIN ran : ran[k] = "pre-start" =>
        \E j \in 1 .. k - 1 : ran[j] = "pre-start.parent"

\* An interface that is added has an address, is not disabled, and has a mask of
\* its own or by default; the last is not asked of one that names no device.
OnlyConfigured ==
    \A k \in DOMAIN added :
        LET e == added[k]
        IN  e.ip /\ ~e.disabled /\ (e.mask \/ e.prefix # "none" \/ cfg.dmask \/ e.dev = "none")

\* The parent and the child come to their end unless the other one failed: both
\* keep both ends of the socket open and wait for ever then, the parent with the
\* startup lock.
StartEnds ==
    /\ parent = "recv" ~> (parent = "ended" \/ fault \cap {"child", "copy"} # {})
    /\ proc[0] = "recv" ~> (Over(0) \/ fault \cap {"parent", "copy"} # {})

\* pre-start runs with the mtab and the mounts in place, unless a helper failed
\* with the exit code 0.
MountedFirst ==
    \A p \in Procs : proc[p] = "pre-start" =>
        \A m \in {"mtab", "fstab", "fstab.local"} : m \in mounted \cup fault
=============================================================================
