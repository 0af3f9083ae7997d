-------------------------------- MODULE Chain -------------------------------
(***************************************************************************)
(* The chains of exec tools (src/*.c) that scripts/vserver.start and       *)
(* scripts/vserver.suexec build.  Every tool does one thing to the process *)
(* or to the context it is in and executes the rest of its command line;   *)
(* one that fails ends the chain.  The last executes a program of the      *)
(* guest.  A chain of a start, of a visitor (suexec) and a daemon of the   *)
(* guest run side by side; "vserver stop" ends all processes of the        *)
(* context.                                                                *)
(*                                                                         *)
(* Contexts and network contexts are numbered by their incarnations: the   *)
(* ids on the command lines stay the same, what they stand for does not.   *)
(* A context is there as long as a process is in it.                       *)
(***************************************************************************)
EXTENDS Naturals, Sequences, FiniteSets

CONSTANTS
    MaxStarts,      \* starts that happen
    MaxVisits,      \* visitors that come
    ExitCodes,      \* exit codes of the programs of the guest
    Broken          \* the tools whose system calls can fail

ASSUME ChainAssumption ==
    MaxStarts \in Nat /\ MaxVisits \in Nat /\ ExitCodes \subseteq 0 .. 255

VARIABLES
    kernel,     \* what the kernel supports, a set of features
    proc,       \* the processes
    ctx,        \* the latest incarnation of the context
    net,        \* the latest incarnation of the network context
    runfile,    \* the incarnation that save_ctxinfo wrote, or 0
    starts,     \* starts so far
    visits,     \* visitors so far
    outlived    \* a visitor went on when the guest it had found was gone

vars == <<kernel, proc, ctx, net, runfile, starts, visits, outlived>>

Process == {"start", "visit", "daemon"}

\* What a process is confined by; 0, 0, FALSE: as on the host.
Host == [nid |-> 0, xid |-> 0, tag |-> FALSE, ns |-> 0, root |-> FALSE, env |-> FALSE]

\* mode: "chain" while tools are executed, "guest" in a program of the guest;
\* script: the chbind script waits for the process; found: what the visitor
\* found; execs: programs executed so far; rc: the exit code
Idle == [mode |-> "idle", todo |-> << >>, script |-> FALSE, is |-> Host,
         found |-> 0, execs |-> 0, rc |-> 0]

\* The tools that configure a context; the guest is to see none of it undone.
\* vlimit and vsysctl go on when they cannot do what they are told.
Tolerant  == {"vlimit", "vsysctl"}
Configure == {"vspace-set", "vlimit", "vsched", "vsysctl", "vuname-dir", "vmemctrl",
              "vuname-context", "vattribute"}
NetConfigure == {"nattribute", "naddress"}

Init ==
    /\ kernel \in SUBSET {"migrate", "vnet", "pptag"}
    /\ "vnet" \in kernel => "migrate" \in kernel
    /\ "pptag" \in kernel => "vnet" \in kernel
    /\ proc = [p \in Process |-> Idle]
    /\ ctx = [gen |-> 0, setup |-> FALSE, conf |-> {}, spaces |-> 0]
    /\ net = [gen |-> 0, conf |-> {}]
    /\ runfile = 0 /\ starts = 0 /\ visits = 0 /\ outlived = FALSE

-----------------------------------------------------------------------------
InCtx(g) == {p \in Process : proc[p].is.xid = g}
CtxThere == ctx.gen # 0 /\ InCtx(ctx.gen) # {}
NetThere == net.gen # 0 /\ \E p \in Process : proc[p].is.nid = net.gen

NetTools ==
    IF "vnet" \in kernel THEN <<"ncontext-create", "nattribute", "naddress">>
                         ELSE <<"chbind-compat">>

StartTools ==
    IF "migrate" \in kernel
    THEN <<"exec-ulimit", "vtag-create", "vspace-new", "vcontext-create", "vspace-set",
           "exec-remount", "vlimit", "vsched", "vsysctl", "vuname-dir", "vmemctrl",
           "vuname-context", "vattribute", "save_ctxinfo", "env", "vcontext-self">>
    ELSE <<"exec-ulimit", "chcontext-compat", "save_ctxinfo", "env", "chain-echo",
           "capchroot">>

VisitTools ==
    <<"exec-ulimit", "vspace-enter", "vtag-migrate", "vcontext-migrate">>

ToolsOf(p) == IF p = "start" THEN StartTools ELSE VisitTools

-----------------------------------------------------------------------------
(* What the tools have in common.                                          *)

At(p, tool) == proc[p].mode = "chain" /\ proc[p].todo # << >> /\ Head(proc[p].todo) = tool

\* The tool executes the next one; the last one executes the program.
Exec(p, is) ==
    LET pr   == proc[p]
        rest == Tail(pr.todo)
    IN  proc' = [proc EXCEPT ![p] =
                   [pr EXCEPT !.todo = rest, !.is = is,
                              !.mode = IF rest = << >> THEN "guest" ELSE "chain",
                              !.execs = IF rest = << >> THEN pr.execs + 1 ELSE pr.execs]]

\* Fault: every exit code is taken for it.
Ended_AnyCode(pr, p, c) ==
    IF pr.script
    THEN [pr EXCEPT !.mode = "chain", !.script = FALSE, !.is = Host,
                    !.todo = <<"ncontext-migrate">> \o ToolsOf(p)]
    ELSE [Idle EXCEPT !.rc = c]

\* Fault: the script tries to create the network context again.
Ended_Again(pr, p, c) ==
    IF pr.script /\ c = 254
    THEN [pr EXCEPT !.mode = "chain", !.is = Host, !.todo = NetTools \o ToolsOf(p)]
    ELSE [Idle EXCEPT !.rc = c]

\* The chbind script takes 254 for "the network context exists" and executes
\* the command once more, in the network context that exists.
Ended(pr, p, c) ==
    IF pr.script /\ c = 254
    THEN [pr EXCEPT !.mode = "chain", !.script = FALSE, !.is = Host,
                    !.todo = <<"ncontext-migrate">> \o ToolsOf(p)]
    ELSE [Idle EXCEPT !.rc = c]

Exit(p, c) ==
    /\ proc' = [proc EXCEPT ![p] = Ended(@, p, c)]
    /\ UNCHANGED <<ctx, net, runfile>>

\* A system call fails: the E* wrappers and perror, exit(wrapper_exit_code).
Fails(p) == Head(proc[p].todo) \in Broken /\ Exit(p, 255)

Is(p) == proc[p].is
GoesOn(p) == Exec(p, Is(p)) /\ UNCHANGED <<ctx, net, runfile>>

Applies(p, tool) ==
    /\ Exec(p, Is(p)) /\ ctx' = [ctx EXCEPT !.conf = @ \cup {tool}]
    /\ UNCHANGED <<net, runfile>>

Joins(p, is) == Exec(p, is) /\ UNCHANGED <<ctx, net, runfile>>

-----------------------------------------------------------------------------
(* The network context: the chbind script and its tools.                   *)

\* ncontext --create --silentexist: 254 iff the network context is there
ncontextCreate(p) ==
    /\ At(p, "ncontext-create")
    /\ IF NetThere THEN Exit(p, 254)
       ELSE \/ /\ net' = [gen |-> net.gen + 1, conf |-> {}]
               /\ Exec(p, [Is(p) EXCEPT !.nid = net.gen + 1]) /\ UNCHANGED <<ctx, runfile>>
            \/ Fails(p)

\* ncontext --migrate
ncontextMigrate(p) ==
    /\ At(p, "ncontext-migrate")
    /\ IF NetThere THEN Joins(p, [Is(p) EXCEPT !.nid = net.gen]) ELSE Exit(p, 255)

NetApplies(p, tool) ==
    /\ Exec(p, Is(p)) /\ net' = [net EXCEPT !.conf = @ \cup {tool}]
    /\ UNCHANGED <<ctx, runfile>>

\* vc_set_ncaps, then vc_set_nflags; a failure of either is EXIT_FAILURE
nattribute(p) ==
    /\ At(p, "nattribute")
    /\ NetApplies(p, "nattribute") \/ ("nattribute" \in Broken /\ Exit(p, 1))

\* vc_net_add for every address
naddress(p) ==
    /\ At(p, "naddress") /\ (NetApplies(p, "naddress") \/ Fails(p))

\* chbind-compat: vc_set_ipv4root gives the process addresses of its own
chbindCompat(p) ==
    /\ At(p, "chbind-compat")
    /\ \/ /\ net' = [gen |-> net.gen + 1, conf |-> NetConfigure]
          /\ Exec(p, [Is(p) EXCEPT !.nid = net.gen + 1]) /\ UNCHANGED <<ctx, runfile>>
       \/ Fails(p)

-----------------------------------------------------------------------------
(* The tools of both chains.                                               *)

\* Limits of the process; a directory that is not there is no error.
execUlimit(p) == At(p, "exec-ulimit") /\ (GoesOn(p) \/ Fails(p))

\* --silent: without the feature, or with a dynamic tag, the tool does nothing
vtag(p) ==
    /\ At(p, "vtag-create") \/ At(p, "vtag-migrate")
    /\ IF "pptag" \in kernel THEN Joins(p, [Is(p) EXCEPT !.tag = TRUE]) \/ Fails(p)
                             ELSE GoesOn(p)

\* clone(2): the child goes on in new spaces, vspace ends like it
newSpaces(p) ==
    /\ At(p, "vspace-new")
    /\ Joins(p, [Is(p) EXCEPT !.ns = starts]) \/ Fails(p)

\* vcontext --create: 254 iff the context is there
vcontextCreate(p) ==
    /\ At(p, "vcontext-create")
    /\ IF CtxThere THEN Exit(p, 254)
       ELSE \/ /\ ctx' = [gen |-> ctx.gen + 1, setup |-> TRUE, conf |-> {}, spaces |-> 0]
               /\ Exec(p, [Is(p) EXCEPT !.xid = ctx.gen + 1]) /\ UNCHANGED <<net, runfile>>
            \/ Fails(p)

\* The spaces of the process become those of the context.
setSpaces(p) ==
    /\ At(p, "vspace-set")
    /\ \/ /\ ctx' = [ctx EXCEPT !.spaces = Is(p).ns, !.conf = @ \cup {"vspace-set"}]
          /\ Exec(p, Is(p)) /\ UNCHANGED <<net, runfile>>
       \/ Fails(p)

\* Fault: the chain goes on outside of the spaces.
enterSpaces_GoesOn(p) ==
    /\ At(p, "vspace-enter")
    /\ IF CtxThere /\ ctx.spaces # 0 THEN Joins(p, [Is(p) EXCEPT !.ns = ctx.spaces]) \/ GoesOn(p)
                                      ELSE GoesOn(p)

\* Spaces of a context that is not there, or has none, cannot be entered.
enterSpaces(p) ==
    /\ At(p, "vspace-enter")
    /\ IF CtxThere /\ ctx.spaces # 0
       THEN Joins(p, [Is(p) EXCEPT !.ns = ctx.spaces]) \/ Fails(p)
       ELSE Exit(p, 255)

\* vcFEATURE_PIDSPACE is never there, so nothing is mounted again.
execRemount(p) == At(p, "exec-remount") /\ GoesOn(p)

-----------------------------------------------------------------------------
(* The tools that configure the context they are in.                       *)

\* setLimits prints what went wrong
vlimit(p) == At(p, "vlimit") /\ (Applies(p, "vlimit") \/ ("vlimit" \in Broken /\ GoesOn(p)))

vsched(p) == At(p, "vsched") /\ (Applies(p, "vsched") \/ Fails(p))

\* without /proc/sys nothing is set; a setting that cannot be read or written
\* ends the chain
vsysctl(p) ==
    /\ At(p, "vsysctl")
    /\ Applies(p, "vsysctl") \/ Fails(p) \/ ("vsysctl" \in Broken /\ GoesOn(p))

vunameDir(p) == At(p, "vuname-dir") /\ (Applies(p, "vuname-dir") \/ Fails(p))
vunameSet(p) == At(p, "vuname-context") /\ (Applies(p, "vuname-context") \/ Fails(p))
vmemctrl(p)  == At(p, "vmemctrl") /\ (Applies(p, "vmemctrl") \/ Fails(p))

\* capabilities, flags, umask; the first that fails is EXIT_FAILURE
vattribute(p) ==
    /\ At(p, "vattribute")
    /\ Applies(p, "vattribute") \/ ("vattribute" \in Broken /\ Exit(p, 1))

\* O_EXCL: a file that is there ends the chain
saveCtxinfo(p) ==
    /\ At(p, "save_ctxinfo")
    /\ IF runfile # 0 THEN Exit(p, 255)
       ELSE \/ runfile' = Is(p).xid /\ Exec(p, Is(p)) /\ UNCHANGED <<ctx, net>>
            \/ Fails(p)

env(p) == At(p, "env") /\ Joins(p, [Is(p) EXCEPT !.env = TRUE])

-----------------------------------------------------------------------------
(* The last tools.                                                         *)

\* vcontext --migrate-self --endsetup: chroot, then VC_VXF_STATE_SETUP is
\* cleared, then the program is executed
vcontextSelf(p) ==
    /\ At(p, "vcontext-self")
    /\ \/ /\ ctx' = [ctx EXCEPT !.setup = FALSE]
          /\ Exec(p, [Is(p) EXCEPT !.root = TRUE]) /\ UNCHANGED <<net, runfile>>
       \/ Fails(p)

\* vcontext --migrate --xid --uid: chroot, vc_ctx_migrate, setuid
vcontextMigrate(p) ==
    /\ At(p, "vcontext-migrate")
    /\ IF CtxThere THEN Joins(p, [Is(p) EXCEPT !.root = TRUE, !.xid = ctx.gen]) \/ Fails(p)
                   ELSE Exit(p, 255)

\* chcontext-compat: vc_new_s_context enters the context or makes it
chcontextCompat(p) ==
    /\ At(p, "chcontext-compat")
    /\ \/ CtxThere /\ Joins(p, [Is(p) EXCEPT !.xid = ctx.gen])
       \/ /\ ~CtxThere
          /\ ctx' = [gen |-> ctx.gen + 1, setup |-> FALSE, conf |-> {}, spaces |-> 0]
          /\ Exec(p, [Is(p) EXCEPT !.xid = ctx.gen + 1]) /\ UNCHANGED <<net, runfile>>
       \/ Fails(p)

\* without a fifo it writes nothing
chainEcho(p) == At(p, "chain-echo") /\ GoesOn(p)

capchroot(p) ==
    /\ At(p, "capchroot")
    /\ Joins(p, [Is(p) EXCEPT !.root = TRUE]) \/ ("capchroot" \in Broken /\ Exit(p, 1))

Tool(p) ==
    \/ ncontextCreate(p) \/ ncontextMigrate(p) \/ nattribute(p) \/ naddress(p)
    \/ chbindCompat(p) \/ execUlimit(p) \/ vtag(p) \/ newSpaces(p) \/ vcontextCreate(p)
    \/ setSpaces(p) \/ enterSpaces(p) \/ execRemount(p) \/ vlimit(p) \/ vsched(p)
    \/ vsysctl(p) \/ vunameDir(p) \/ vunameSet(p) \/ vmemctrl(p) \/ vattribute(p)
    \/ saveCtxinfo(p) \/ env(p) \/ vcontextSelf(p) \/ vcontextMigrate(p)
    \/ chcontextCompat(p) \/ chainEcho(p) \/ capchroot(p)

-----------------------------------------------------------------------------
(* The scripts and the guest.                                              *)

\* The run file is there and the context has processes and the guest's name.
isVserverRunning == runfile # 0 /\ CtxThere /\ "vuname-context" \in ctx.conf

\* A run file that is out of date is removed by the check.
startVserver ==
    /\ proc["start"].mode = "idle" /\ starts < MaxStarts /\ ~isVserverRunning
    /\ starts' = starts + 1 /\ runfile' = 0
    /\ proc' = [proc EXCEPT !["start"] =
                  [Idle EXCEPT !.mode = "chain", !.script = "vnet" \in kernel,
                               !.todo = NetTools \o StartTools]]
    /\ UNCHANGED <<ctx, net, visits>>

\* "'vserver ... suexec' is supported for running vservers only"
suexecVserver ==
    /\ proc["visit"].mode = "idle" /\ visits < MaxVisits /\ isVserverRunning
    /\ visits' = visits + 1
    /\ proc' = [proc EXCEPT !["visit"] =
                  [Idle EXCEPT !.mode = "chain", !.script = "vnet" \in kernel,
                               !.todo = NetTools \o VisitTools, !.found = ctx.gen]]
    /\ UNCHANGED <<ctx, net, runfile, starts>>

\* A visitor that finds a run file which is out of date removes it and ends.
suexecRefused ==
    /\ proc["visit"].mode = "idle" /\ visits < MaxVisits
    /\ runfile # 0 /\ ~isVserverRunning
    /\ visits' = visits + 1 /\ runfile' = 0
    /\ UNCHANGED <<proc, ctx, net, starts>>

\* A program of the guest starts a daemon.
fork ==
    /\ proc["daemon"].mode = "idle"
    /\ \E p \in {"start", "visit"} :
         /\ proc[p].mode = "guest"
         /\ proc' = [proc EXCEPT !["daemon"] = [proc[p] EXCEPT !.script = FALSE]]
    /\ UNCHANGED <<ctx, net, runfile, starts, visits>>

\* A program of the guest ends.
programEnds ==
    /\ \E p \in Process, c \in ExitCodes : proc[p].mode = "guest" /\ Exit(p, c)
    /\ UNCHANGED <<starts, visits>>

\* vserver stop: every process of the context is killed; a chain that is not in
\* the context yet is not.
stopVserver ==
    /\ isVserverRunning
    /\ proc' = [p \in Process |-> IF p \in InCtx(ctx.gen) THEN Ended(proc[p], p, 137) ELSE proc[p]]
    /\ UNCHANGED <<ctx, net, runfile, starts, visits>>

Step ==
    \/ startVserver \/ suexecVserver \/ suexecRefused \/ fork \/ programEnds \/ stopVserver
    \/ \E p \in {"start", "visit"} : Tool(p) /\ UNCHANGED <<starts, visits>>

\* The visitor is on its way and what it found has ended.
Late == /\ proc["visit"].mode = "chain"
        /\ InCtx(proc["visit"].found) = {}

Next ==
    /\ Step
    /\ outlived' = (outlived \/ Late')
    /\ UNCHANGED kernel

Spec == Init /\ [][Next]_vars

\* A chain goes on; programs of the guest need not end, and nobody has to start,
\* stop or visit.
FairSpec == Spec /\ \A p \in {"start", "visit"} : WF_vars(Next /\ Tool(p))

-----------------------------------------------------------------------------
(* Properties.                                                             *)

Tools == {"ncontext-create", "ncontext-migrate", "nattribute", "naddress", "chbind-compat",
          "exec-ulimit", "vtag-create", "vtag-migrate", "vspace-new", "vspace-enter",
          "vcontext-create", "exec-remount", "save_ctxinfo", "env", "vcontext-self",
          "vcontext-migrate", "chcontext-compat", "chain-echo", "capchroot"} \cup Configure

\* The variables have their types.
TypeOK ==
    /\ kernel \subseteq {"migrate", "vnet", "pptag"}
    /\ \A p \in Process :
         /\ proc[p].mode \in {"idle", "chain", "guest"} /\ proc[p].todo \in Seq(Tools)
         /\ proc[p].script \in BOOLEAN /\ proc[p].rc \in 0 .. 255
         /\ proc[p].is.nid \in 0 .. net.gen /\ proc[p].is.xid \in 0 .. ctx.gen
         /\ proc[p].is.ns \in 0 .. starts /\ proc[p].found \in 0 .. ctx.gen
         /\ {proc[p].is.tag, proc[p].is.root, proc[p].is.env} \subseteq BOOLEAN
         /\ proc[p].execs \in Nat
    /\ ctx.gen \in Nat /\ ctx.conf \subseteq Configure /\ ctx.spaces \in 0 .. starts
    /\ net.gen \in Nat /\ net.conf \subseteq NetConfigure
    /\ runfile \in 0 .. ctx.gen /\ starts \in 0 .. MaxStarts /\ visits \in 0 .. MaxVisits
    /\ outlived \in BOOLEAN

Guest == {p \in Process : proc[p].mode = "guest"}

\* Whatever fails and whoever comes in between, a program of the guest runs in
\* the latest incarnation of the context, in a network context, in the guest's
\* root, with its tag, and in spaces made by a start; one that a start executed
\* has a clean environment and a context whose setup has ended.
Confined ==
    \A p \in Guest :
        /\ proc[p].is.xid = ctx.gen /\ proc[p].is.root
        /\ proc[p].is.nid # 0 /\ ("vnet" \in kernel => proc[p].is.nid = net.gen)
        /\ "migrate" \in kernel => proc[p].is.ns # 0
        /\ proc[p].found = 0 => proc[p].is.env /\ ~ctx.setup
        /\ "pptag" \in kernel => proc[p].is.tag

\* The program is the guest's own, or that of a visitor whose guest did not end.
InTime(p) == proc[p].found \in {0, proc[p].is.xid}

\* No program of the guest runs in a context that a tool which must not fail
\* has not configured: neither the guest's own, nor a visitor's, which may come
\* as soon as the run file is there.  A visitor that is late can end up in the
\* next incarnation before its first attribute is set.
ConfiguredFirst ==
    \A p \in Guest : "migrate" \in kernel /\ InTime(p) =>
        Configure \ Tolerant \subseteq ctx.conf

\* A guest has the addresses and the flags of its network context, even when
\* that was there before, unless a visitor outlived the guest it had found.
NetConfiguredFirst == Guest # {} /\ ~outlived => net.conf = NetConfigure

\* A visitor whose guest did not end is in one incarnation with all its parts.
OneIncarnation == \A p \in Guest : InTime(p) => proc[p].is.ns = ctx.spaces

\* What runs in a guest is confined and configured, and in one incarnation of it
\* (vcontext, ncontext, vspace and the tools that follow them).
Guarded == TypeOK /\ Confined /\ ConfiguredFirst /\ NetConfiguredFirst /\ OneIncarnation

\* One start executes the guest's program once although chbind may run the
\* chain twice, as long as that program does not exit with 254 itself.
ExecutedOnce == proc["start"].execs <= 1

\* The run file names an incarnation whose configuration is complete.
RunFileIsLate ==
    "migrate" \in kernel /\ runfile # 0 /\ runfile = ctx.gen =>
        Configure \ Tolerant \subseteq ctx.conf

\* While the guest runs, its run file is not replaced: two starts never share
\* one context.
OneRunFile == [][runfile # 0 /\ CtxThere /\ "migrate" \in kernel => runfile' = runfile]_vars

\* A start executes the guest once, and its run file comes late and stays
\* (scripts/chbind, save_ctxinfo).
StartedOnce == []ExecutedOnce /\ []RunFileIsLate /\ OneRunFile

\* "'ncontext --create' exits with code 254 iff the context exists already"
\* (help of ncontext), which the chbind script relies on: it runs the command
\* again only when the network context was there.
RunAgainIffExists ==
    [][\A p \in {"start", "visit"} :
         proc[p].script /\ ~proc'[p].script /\ proc'[p].mode = "chain" =>
             At(p, "ncontext-create") /\ NetThere]_vars

\* A chain comes to its end.
ChainEnds == \A p \in {"start", "visit"} : proc[p].mode = "chain" ~> proc[p].mode # "chain"
=============================================================================
