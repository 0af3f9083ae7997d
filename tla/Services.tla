------------------------------ MODULE Services ------------------------------
(***************************************************************************)
(* The tools that run as a process of their own, side by side: a behaviour *)
(* is a behaviour of the component "which", and the variables are those of *)
(* that component, in the order of its declarations.                       *)
(***************************************************************************)
EXTENDS Naturals, Sequences

CONSTANTS
    Faults,                                     \* ContextSync
    Vserver, Client, Requests, MaxHandles,      \* Rebootmgr
    Timeout, MaxTime,                           \* Waiting
    MaxOutput, MaxSignals,                      \* Vlogin
    Fstabs, Opts, FsOpts,                       \* Mounts; options of file systems
    MaxGuest,                                   \* Unification
    Configs, MaxCopies,                         \* StartProgram
    KnownNames, Long, MaxCalls, PageSize, Pages \* RpmFake

ASSUME ServicesAssumption == Timeout \in Nat /\ MaxTime \in Nat

VARIABLES which, s1, s2, s3, s4, s5, s6, s7, s8, s9, s10, s11, s12, s13

all == <<which, s1, s2, s3, s4, s5, s6, s7, s8, s9, s10, s11, s12, s13>>

CS == INSTANCE ContextSync WITH
        args <- s1, exists <- s2, parent <- s3, worker <- s4, code <- s5, wcode <- s6,
        down <- s7, up <- s8, open <- s9, sock <- s10

RB == INSTANCE Rebootmgr WITH
        pc <- s1, i <- s2, fdin <- s3, handles <- s4, dst <- s5, conn <- s6,
        client <- s7, backlog <- s8, commands <- s9, overloaded <- s10

\* A table of a single connection, in which the overload and another accept come
\* together in a round.
RB1 == INSTANCE Rebootmgr WITH MaxHandles <- 1,
        pc <- s1, i <- s2, fdin <- s3, handles <- s4, dst <- s5, conn <- s6,
        client <- s7, backlog <- s8, commands <- s9, overloaded <- s10

WT == INSTANCE Waiting WITH
        tool <- s1, args <- s2, at <- s3, clock <- s4, end <- s5, alarm <- s6,
        other <- s7, missed <- s8, result <- s9

VL == INSTANCE Vlogin WITH
        at <- s1, tty <- s2, state <- s3, atexit <- s4, handled <- s5, pid <- s6,
        child <- s7, output <- s8, pending <- s9, sent <- s10, torn <- s11,
        stray <- s12, how <- s13

MT == INSTANCE Mounts WITH
        opt <- s1, bme <- s2, fstab <- s3, i <- s4, pc <- s5, mnt <- s6, root <- s7,
        cwd <- s8, curdir <- s9, mounts <- s10, mtab <- s11, failed <- s12, code <- s13

\* FsOpts are options that are no beginning of a name in FSTAB_OPTIONS, of the beginnings
\* only those of Begins are looked at.
ASSUME MountsAssumption ==
    /\ Opts \subseteq [all : BOOLEAN, chroot : BOOLEAN, mtab : BOOLEAN, trigger : BOOLEAN,
                      rootfs : {"yes", "no", "only"}]
    /\ Fstabs \subseteq Seq([src : {"dir", "file"}, dst : {"/", "/d", "/d/e"}, type : STRING,
                            opts : Seq(MT!Known \cup DOMAIN MT!Begins \cup FsOpts)])
    /\ FsOpts \cap (MT!Known \cup DOMAIN MT!Begins) = {}

UN == INSTANCE Unification WITH
        tool <- s1, conf <- s2, pc <- s3, result <- s4, name <- s5, content <- s6,
        flag <- s7, writer <- s8, fd <- s9, existed <- s10, want <- s11, raced <- s12,
        steps <- s13

SP == INSTANCE StartProgram WITH
        cfg <- s1, parent <- s2, proc <- s3, waits <- s4, toParent <- s5, toChild <- s6,
        interfaces <- s7, tasks <- s8, added <- s9, undone <- s10, mounted <- s11, ran <- s12,
        fault <- s13

RF == INSTANCE RpmFake WITH Known <- KnownNames,
        rpm <- s1, res <- s2, ctx <- s3, sync <- s4, requests <- s5, replies <- s6,
        call <- s7, answer <- s8, calls <- s9, chrooted <- s10, script <- s11, past <- s12

-----------------------------------------------------------------------------
Rest10 == s11 = "unused" /\ s12 = "unused" /\ s13 = "unused"
Rest9  == s10 = "unused" /\ Rest10

Init ==
    \/ which = "vcontext"  /\ CS!Init /\ Rest10
    \/ which = "rebootmgr" /\ RB!Init /\ Rest10
    \/ which = "rebootmgr1" /\ RB1!Init /\ Rest10
    \/ which = "waiting"   /\ WT!Init /\ Rest9
    \/ which = "vlogin"    /\ VL!Init
    \/ which = "mount"     /\ MT!Init
    \/ which = "unify"     /\ UN!Init
    \/ which = "start"     /\ SP!Init
    \/ which = "rpm"       /\ RF!Init /\ s13 = "unused"

Keep10 == UNCHANGED <<which, s11, s12, s13>>
Keep9  == UNCHANGED <<which, s10, s11, s12, s13>>

Next ==
    \/ which = "vcontext"  /\ CS!Next /\ Keep10
    \/ which = "rebootmgr" /\ RB!Next /\ Keep10
    \/ which = "rebootmgr1" /\ RB1!Next /\ Keep10
    \/ which = "waiting"   /\ WT!Next /\ Keep9
    \/ which = "vlogin"    /\ VL!Next /\ UNCHANGED which
    \/ which = "mount"     /\ MT!Next /\ UNCHANGED which
    \/ which = "unify"     /\ UN!Next /\ UNCHANGED which
    \/ which = "start"     /\ SP!Next /\ UNCHANGED which
    \/ which = "rpm"       /\ RF!Next /\ UNCHANGED <<which, s13>>

Reboots == which \in {"rebootmgr", "rebootmgr1"}

\* The processes of vcontext and its peer go on, as do the manager, a client that
\* has connected, the processes of vserver-start, the resolver, and rpm within a
\* call.
Spec ==
    /\ Init /\ [][Next]_all
    /\ WF_all(which = "vcontext" /\ CS!ParentStep /\ Keep10)
    /\ WF_all(which = "vcontext" /\ CS!WorkerStep /\ Keep10)
    /\ WF_all(which = "vcontext" /\ CS!peer /\ Keep10)
    /\ WF_all(((which = "rebootmgr" /\ RB!Manager) \/ (which = "rebootmgr1" /\ RB1!Manager)) /\ Keep10)
    /\ \A c \in Client : WF_all(Reboots /\ RB!vrebootWrite(c) /\ Keep10)
    /\ WF_all(which = "start" /\ SP!Parent /\ UNCHANGED which)
    /\ \A p \in 0 .. MaxCopies : WF_all(which = "start" /\ SP!Child(p) /\ UNCHANGED which)
    /\ WF_all(which = "rpm" /\ RF!Resolver /\ UNCHANGED <<which, s13>>)
    /\ WF_all(which = "rpm" /\ RF!Rpm /\ UNCHANGED <<which, s13>>)

-----------------------------------------------------------------------------
(* The properties of the components, for the behaviours that are theirs.   *)

\* vcontext (vcontext.c doit, context-sync.hc): --disconnect reports a success
\* exactly when the program was executed, 254 exactly when the context existed; the
\* worker does nothing to the context before its parent is in the deathrow directory,
\* nor executes the program before the peer of --syncsock let it; the parent ends, and
\* the worker does not wait for ever for a parent that gave up.
HandshakeHolds ==
    /\ [](which = "vcontext" =>
            CS!TypeOK /\ CS!SuccessIffExecuted /\ CS!Exits254IffExists /\ CS!ParentInDeathrow /\ CS!PeerFirst)
    /\ (which = "vcontext" /\ s1.disconnect) ~> (which = "vcontext" /\ s3 = "ended")
    /\ (which = "vcontext" /\ s4 = "stage0") ~> (which = "vcontext" /\ s4 # "stage0")

\* rebootmgr (rebootmgr.c main, rebootmgr_process): what a client asked for is done to
\* the vserver the client is in, although descriptors are used again within a round;
\* compaction and overload lose and leak no connection; read blocks only after an
\* overload in the same round; what was sent is carried out unless the overload threw
\* the client out.
RebootsAreServed ==
    /\ [](Reboots => RB!TypeOK /\ RB!RightVserver /\ RB!TableIsComplete /\ RB!ReadBlocksOnlyAfterOverload)
    /\ \A c \in Client : (Reboots /\ RB!Sent(c)) ~> (Reboots /\ RB!Served(c))

\* vwait, vshelper-sync and keep-ctx-alive: a timeout is not prolonged by calls that
\* return early or data in drops; vwait reports the end of a context that has ended,
\* and that it killed one that will not survive; a success is an answer, never a timeout.
WaitingIsExact ==
    which = "waiting" => WT!TypeOK /\ WT!InTime /\ WT!NothingLeft /\ WT!SuccessIsAnswer

\* vlogin (terminal_reset, terminal_end, terminal_kill): the terminal comes back as it
\* was, what the program wrote before it ended is shown, and no signal that is passed
\* on hits vlogin's own process group while the program runs.
LoginIsTransparent ==
    /\ [](which = "vlogin" => VL!TypeOK /\ VL!TerminalRestored /\ VL!OutputShown)
    /\ [][which = "vlogin" /\ s7 \in {"session", "running"} => s12' = s12]_all

\* secure-mount (mountFstab, secureChdir, restoreRoot, mountSingle, updateMtab): with
\* --chroot nothing is looked up outside of the guest and the next entry starts in the
\* root of the host; mounts are nodev unless asked otherwise, up to what mount(8) and
\* the kernel make of it; the mtab is the guest's and true; what follows a mount on
\* "/" is mounted on it; a success means that every line has had its turn.
MountsAreSafe ==
    which = "mount" =>
        MT!TypeOK /\ MT!StaysInside /\ MT!NodevUnlessAsked /\ MT!MtabIsTrue /\ MT!OnNewRoot /\ MT!AllTried

\* Unify_unify, Unify_deUnify and vclone's handleDirEntry: a file that two guests share
\* has its flags, the guest's file is kept whatever fails and wherever the tool is
\* killed, and de-unification leaves a file of the guest's own and no temporary one.
SharingIsSafe ==
    which = "unify" => UN!TypeOK /\ UN!SharedIsProtected /\ UN!FileIsKept /\ UN!Separated

\* vserver-start (main.c, undo.c, mount.c, interface-read.c): a start that fails removes
\* what it had added and one that comes through nothing, the processes it forks remove
\* nothing; the parent's scriptlets come first, pre-start has its mounts, interfaces are
\* complete and enabled; parent and child end unless the other one failed.
StartIsUndone ==
    /\ [](which = "start" =>
            /\ SP!TypeOK /\ SP!UndoIsComplete /\ SP!UndoIsLast
            /\ SP!ParentFirst /\ SP!OnlyConfigured /\ SP!MountedFirst)
    /\ (which = "start" /\ s2 = "recv") ~>
           (which = "start" /\ (s2 = "ended" \/ s13 \cap {"child", "copy"} # {}))
    /\ (which = "start" /\ s3[0] = "recv") ~>
           (which = "start" /\ (s3[0] \in {"ended", "failed"} \/ s13 \cap {"parent", "copy"} # {}))

\* rpm-fake (doPwStringRequest, execvWorker, initPwSocket, endpwent) and its resolver:
\* rpm gets the id of the name it asked for, nothing is left of the handshake when
\* rpm begins, and rpm comes through its initialisation and gets its answers unless
\* the dots of endpwent filled the pipe.
RpmIsAnswered ==
    /\ [](which = "rpm" => RF!TypeOK /\ RF!AnswersMatch /\ RF!HandshakeIsOver)
    /\ (which = "rpm" /\ s1 \in {"xid", "dot", "hello"}) ~> (which = "rpm" /\ s1 \in {"ready", "ended"})
    /\ (which = "rpm" /\ s1 = "answer") ~> (which = "rpm" /\ (s1 # "answer" \/ ~RF!Room \/ "long" \in s12))
=============================================================================
