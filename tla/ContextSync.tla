----------------------------- MODULE ContextSync ----------------------------
(***************************************************************************)
(* vcontext (src/vcontext.c) and the handshake of src/context-sync.hc,     *)
(* which chcontext and ncontext share.  With --disconnect the process      *)
(* forks: the child, here the worker, creates or enters the context and    *)
(* executes the program, the parent waits until it knows what became of    *)
(* that and exits accordingly.  p[0] carries one byte to the child, when   *)
(* the parent has put itself into an empty root ("deathrow"); p[1] carries *)
(* a dot just before the exec and an X after an exec that failed, and is   *)
(* closed by an exec that succeeded.  Without --disconnect the one process *)
(* is the worker.  --syncsock adds a second handshake, with a peer outside.*)
(*                                                                         *)
(* A pipe is what is in it and who has its ends open.  A process that      *)
(* ends closes all it has open; writing to a pipe nobody reads ends the    *)
(* writer with SIGPIPE.                                                    *)
(***************************************************************************)
EXTENDS Naturals, Sequences

CONSTANT Faults     \* "jail", "fail": calls that can fail; "kill": a signal
                    \* ends the worker

VARIABLES
    args,       \* struct Arguments
    exists,     \* the context exists when vc_ctx_create is called
    parent,     \* where the parent is
    worker,     \* where the worker is
    code,       \* exit status of the parent
    wcode,      \* exit status of the worker
    down,       \* bytes in p[0]
    up,         \* bytes in p[1]
    open,       \* the pipe ends that are open: <<process, pipe, end>>
    sock        \* the connection to the peer: not there, "open", "sent" (the
                \* message), "shut" or "data" by the peer, "gone" too early

vars == <<args, exists, parent, worker, code, wcode, down, up, open, sock>>

Process == {"parent", "worker"}
Ends    == Process \X {"down", "up"} \X {"r", "w"}

Args == [create : BOOLEAN, migrate : {"no", "other", "self"}, dynamic : BOOLEAN,
         initpid : BOOLEAN, disconnect : BOOLEAN, sync : BOOLEAN]

\* The parent: before, in and after waitOnSync.
ParentSteps == {"main", "doit", "jail", "write", "read1", "read2", "wait", "ended"}

\* The worker: "ran" once it has become the program.
WorkerSteps == {"none", "connect", "stage0", "create", "migrate", "sync", "recv",
                "stage1", "exec", "stage2", "running", "ran", "dead"}

\* Exit status: an exit code, 128 and a signal, or none yet.
NoStatus == 256
SIGPIPE  == 128 + 13
SIGKILL  == 128 + 9
SIGTERM  == 128 + 15
Status   == {NoStatus, SIGPIPE, SIGKILL, SIGTERM, 0, 1, 254, 255}

\* The variables have their types.
TypeOK ==
    /\ args \in Args /\ exists \in BOOLEAN
    /\ parent \in ParentSteps /\ worker \in WorkerSteps
    /\ code \in Status /\ wcode \in Status
    /\ down \in 0 .. 1
    /\ up \in {<< >>, <<".">>, <<"X">>, <<".", "X">>}
    /\ open \in SUBSET Ends
    /\ sock \in {"none", "open", "sent", "shut", "data", "gone"}

Init ==
    /\ args \in Args /\ exists \in BOOLEAN
    /\ parent = "main" /\ worker = "none"
    /\ code = NoStatus /\ wcode = NoStatus
    /\ down = 0 /\ up = << >> /\ open = {}
    /\ sock = "none"

-----------------------------------------------------------------------------
Can(f) == f \in Faults

\* Somebody can still write to a pipe.
HasWriter(pipe) == \E p \in Process : <<p, pipe, "w">> \in open
Of(p) == {e \in Ends : e[1] = p}

ParentEnds(c) ==
    /\ parent' = "ended" /\ code' = c
    /\ open' = open \ Of("parent")

\* Without --disconnect the exit status of the worker is that of vcontext.
WorkerEnds(c, as) ==
    /\ worker' = as /\ wcode' = c
    /\ code' = IF args.disconnect THEN code ELSE c
    /\ parent' = IF args.disconnect THEN parent ELSE "ended"
    /\ open' = open \ Of("worker")

WorkerGoes(l) ==
    worker' = l /\ UNCHANGED <<parent, code, wcode>>

-----------------------------------------------------------------------------
(* main                                                                    *)

\* The combinations of options that are refused; --migrate-self implies
\* --migrate and takes the xid of the caller.
BadArgs ==
    \/ ~args.create /\ args.migrate = "no"
    \/ args.create /\ args.migrate # "no"
    \/ args.migrate = "no" /\ args.initpid
    \/ ~args.create /\ args.dynamic /\ args.migrate # "self"

main ==
    /\ parent = "main"
    /\ IF BadArgs THEN ParentEnds(255)
                  ELSE parent' = "doit" /\ UNCHANGED <<code, open>>
    /\ UNCHANGED <<args, exists, worker, wcode, down, up, sock>>

\* The parent is put into an empty root when the context is a known one that
\* is entered.
IsPreventRace ==
    ~(args.dynamic /\ args.migrate # "self") /\ args.migrate # "no"

initSync ==
    /\ parent = "doit" /\ worker = "none"
    /\ worker' = "connect"
    /\ IF args.disconnect
       THEN open' = Ends /\ parent' = IF IsPreventRace THEN "jail" ELSE "write"
       ELSE UNCHANGED <<open, parent>>
    /\ UNCHANGED <<args, exists, code, wcode, down, up, sock>>

-----------------------------------------------------------------------------
(* waitOnSync                                                              *)

jail ==
    /\ parent = "jail"
    /\ \/ parent' = "write" /\ UNCHANGED <<code, open>>
       \/ Can("jail") /\ ParentEnds(255)
    /\ UNCHANGED <<args, exists, worker, wcode, down, up, sock>>

\* Eclose(p[0][0]), Ewrite, Eclose(p[0][1]), Eclose(p[1][1])
waitOnSyncWrites ==
    /\ parent = "write"
    /\ IF <<"worker", "down", "r">> \in open
       THEN /\ parent' = "read1" /\ down' = 1 /\ UNCHANGED code
            /\ open' = open \ {<<"parent", "down", "r">>, <<"parent", "down", "w">>,
                               <<"parent", "up", "w">>}
       ELSE ParentEnds(SIGPIPE) /\ UNCHANGED down
    /\ UNCHANGED <<args, exists, worker, wcode, up, sock>>

\* The first read: a dot, or nothing when the worker ended before.
waitOnSyncReads1 ==
    /\ parent = "read1"
    /\ \/ up # << >> /\ parent' = "read2" /\ up' = Tail(up)
       \/ up = << >> /\ ~HasWriter("up") /\ parent' = "wait" /\ UNCHANGED up
    /\ UNCHANGED <<args, exists, worker, code, wcode, down, open, sock>>

\* Fault: the second read is left out.
waitOnSyncReads2_Skipped ==
    /\ parent = "read2"
    /\ ParentEnds(0)
    /\ UNCHANGED <<args, exists, worker, wcode, down, up, sock>>

\* The second read: nothing after a successful exec, an X otherwise.
waitOnSyncReads2 ==
    /\ parent = "read2"
    /\ \/ up # << >> /\ parent' = "wait" /\ up' = Tail(up) /\ UNCHANGED <<code, open>>
       \/ up = << >> /\ ~HasWriter("up") /\ ParentEnds(0) /\ UNCHANGED up
    /\ UNCHANGED <<args, exists, worker, wcode, down, sock>>

\* vc_exitLikeProcess has a handler for every signal, so the signal it sends
\* itself to end like the child ends it only when none can be caught; it exits
\* with 1 otherwise.
LikeProcess(c) == IF c \in {SIGPIPE, SIGTERM} THEN 1 ELSE c

exitLikeProcess ==
    /\ parent = "wait" /\ wcode # NoStatus
    /\ ParentEnds(LikeProcess(wcode))
    /\ UNCHANGED <<args, exists, worker, wcode, down, up, sock>>

-----------------------------------------------------------------------------
(* The worker: doit of vcontext.c                                          *)

connectExternalSync ==
    /\ worker = "connect"
    /\ \/ WorkerGoes("stage0") /\ sock' = (IF args.sync THEN "open" ELSE "none") /\ UNCHANGED open
       \/ args.sync /\ Can("fail") /\ WorkerEnds(255, "dead") /\ UNCHANGED sock
    /\ UNCHANGED <<args, exists, down, up>>

\* Wait for the byte of the parent, or for its end.
doSyncStage0 ==
    /\ worker = "stage0"
    /\ args.disconnect => down = 1 \/ <<"parent", "down", "w">> \notin open
    /\ WorkerGoes("create") /\ down' = 0
    /\ open' = open \ {<<"worker", "down", "r">>, <<"worker", "down", "w">>}
    /\ UNCHANGED <<args, exists, up, sock>>

\* vc_ctx_create: EEXIST is reported with 254, everything else with 255.
ctxCreate ==
    /\ worker = "create"
    /\ IF args.create /\ exists
       THEN WorkerEnds(254, "dead")
       ELSE \/ WorkerGoes("migrate") /\ UNCHANGED open
            \/ args.create /\ Can("fail") /\ WorkerEnds(255, "dead")
    /\ UNCHANGED <<args, exists, down, up, sock>>

\* chroot or pivot_root, setFlags, vc_ctx_migrate, setuid, personality
migrate ==
    /\ worker = "migrate"
    /\ \/ WorkerGoes("sync") /\ UNCHANGED open
       \/ Can("fail") /\ WorkerEnds(255, "dead")
    /\ UNCHANGED <<args, exists, down, up, sock>>

\* doExternalSync: the message, and the end of what is sent; without a peer
\* send fails.
externalSyncSends ==
    /\ worker = "sync"
    /\ CASE sock = "none" -> WorkerGoes("stage1") /\ UNCHANGED <<sock, open>>
         [] sock = "open" -> WorkerGoes("recv") /\ sock' = "sent" /\ UNCHANGED open
         [] sock = "gone" -> WorkerEnds(255, "dead") /\ UNCHANGED sock
    /\ UNCHANGED <<args, exists, down, up>>

\* recv must see the end of the connection and nothing else.
externalSyncWaits ==
    /\ worker = "recv"
    /\ \/ sock = "shut" /\ WorkerGoes("stage1") /\ UNCHANGED open
       \/ sock = "data" /\ WorkerEnds(255, "dead")
    /\ UNCHANGED <<args, exists, down, up, sock>>

doSyncStage1 ==
    /\ worker = "stage1"
    /\ IF ~args.disconnect THEN WorkerGoes("exec") /\ UNCHANGED <<open, up>>
       ELSE IF <<"parent", "up", "r">> \in open
       THEN /\ WorkerGoes("exec") /\ up' = Append(up, ".")
            /\ open' = open \ {<<"worker", "up", "r">>}
       ELSE WorkerEnds(SIGPIPE, "dead") /\ UNCHANGED up
    /\ UNCHANGED <<args, exists, down, sock>>

\* execvp closes p[1][1] when it succeeds.
execvp ==
    /\ worker = "exec"
    /\ \/ WorkerGoes("running") /\ open' = open \ Of("worker")
       \/ Can("fail") /\ WorkerGoes("stage2") /\ UNCHANGED open
    /\ UNCHANGED <<args, exists, down, up, sock>>

\* An X after an exec that failed.
doSyncStage2 ==
    /\ worker = "stage2"
    /\ IF args.disconnect /\ <<"parent", "up", "r">> \notin open
       THEN WorkerEnds(SIGPIPE, "dead") /\ UNCHANGED up
       ELSE /\ up' = IF args.disconnect THEN Append(up, "X") ELSE up
            /\ WorkerEnds(255, "dead")
    /\ UNCHANGED <<args, exists, down, sock>>

\* The program ends, with any exit status.
programEnds ==
    /\ worker = "running"
    /\ \E c \in {0, 1, 254} : WorkerEnds(c, "ran")
    /\ UNCHANGED <<args, exists, down, up, sock>>

\* Somebody kills the processes of the context.
killed ==
    /\ Can("kill") /\ worker \notin {"none", "dead", "ran"}
    /\ \E s \in {SIGKILL, SIGTERM} : WorkerEnds(s, IF worker = "running" THEN "ran" ELSE "dead")
    /\ UNCHANGED <<args, exists, down, up, sock>>

\* The peer got the message: it ends the connection, or answers; or it goes
\* away before.
peer ==
    /\ \/ sock = "sent" /\ sock' = "shut"
       \/ sock = "sent" /\ Can("fail") /\ sock' = "data"
       \/ sock = "open" /\ Can("fail") /\ sock' = "gone"
    /\ UNCHANGED <<args, exists, parent, worker, code, wcode, down, up, open>>

-----------------------------------------------------------------------------
ParentStep == \/ main \/ initSync \/ jail \/ waitOnSyncWrites
              \/ waitOnSyncReads1 \/ waitOnSyncReads2 \/ exitLikeProcess

WorkerStep == \/ connectExternalSync \/ doSyncStage0 \/ ctxCreate \/ migrate
              \/ externalSyncSends \/ externalSyncWaits \/ doSyncStage1
              \/ execvp \/ doSyncStage2

Next == ParentStep \/ WorkerStep \/ programEnds \/ killed \/ peer

Spec == Init /\ [][Next]_vars

\* The two processes go on and the peer answers; the program need not end.
FairSpec == Spec /\ WF_vars(ParentStep) /\ WF_vars(WorkerStep) /\ WF_vars(peer)

-----------------------------------------------------------------------------
(* Properties.                                                             *)

Disconnected == args.disconnect /\ parent = "ended"
Executed     == worker \in {"running", "ran"}
Signalled    == worker = "dead" /\ wcode \in {SIGKILL, SIGTERM}

\* vcontext --disconnect reports a success exactly when the program was
\* executed, unless a signal came between: the dot, the X and the close-on-exec
\* end of p[1] cannot be mistaken for each other.
SuccessIffExecuted == Disconnected /\ ~Signalled => (code = 0 <=> Executed)

\* "'vcontext --create' exits with code 254 iff the context exists already"
\* (help of vcontext): the code comes through to the caller of --disconnect,
\* and neither another failure nor the program's own exit code is taken for it.
Exits254IffExists ==
    Disconnected /\ ~Signalled /\ ~BadArgs /\ args.create /\ ~args.sync =>
        (code = 254 <=> exists)

\* "child waits till parent is in deathrow": nothing is done to the context
\* while the parent is still outside of its empty root.
ParentInDeathrow ==
    worker \notin {"none", "connect", "stage0", "dead"} /\ args.disconnect =>
        parent \notin {"main", "doit", "jail"}

\* With --syncsock the program is executed only after the peer let it.
PeerFirst == Executed /\ args.sync => sock = "shut"

\* The parent ends, however the worker ends and although nobody waits for the
\* program.
ParentEndsAlways == args.disconnect ~> parent = "ended"

\* A worker whose parent gave up does not wait for it for ever.
WorkerGoesOn == worker = "stage0" ~> worker # "stage0"
=============================================================================
