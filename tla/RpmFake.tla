------------------------------- MODULE RpmFake ------------------------------
(***************************************************************************)
(* rpm-fake.so and its resolver (src/rpm-fake.c, src/rpm-fake-resolver.c). *)
(* rpm asks a process inside of the guest, over a socket, for the ids of   *)
(* users and groups; the resolver writes a dot to a pipe whenever it is    *)
(* ready for a request, and rpm takes one before each.  Scriptlets are     *)
(* executed in the context of the resolver.                                *)
(*                                                                         *)
(* The pipe consists of pages: a page is written up to its end once, and   *)
(* is free again when all of it has been read.                             *)
(***************************************************************************)
EXTENDS Naturals, Sequences, SequencesExt

CONSTANTS
    Known,      \* names the guest knows
    Long,       \* names of MAX_RQSIZE bytes and more
    MaxCalls,   \* calls of rpm
    PageSize, Pages     \* of the pipe

VARIABLES
    rpm,        \* rpm: "start", "xid", "dot", "hello", "ready", "answer", "ended"
    res,        \* the resolver: "none", "setup", "exec", "dot", "read", "dead"
    ctx,        \* "none"; one that exists: "given", "entered"; one that was created: "setup", "active"
    sync,       \* the pages of the pipe: bytes left and bytes written
    requests,   \* to the resolver
    replies,    \* from the resolver, byte by byte
    call,       \* the request that waits for its answer
    answer,     \* the last one that was answered, with its answer
    calls,      \* calls so far
    chrooted,   \* chroot_seen
    script,     \* the last scriptlet: where it was executed, or "none"
    past        \* what went wrong or was unusual so far

vars == <<rpm, res, ctx, sync, requests, replies, call, answer, calls, chrooted, script, past>>

None == [style |-> "", name |-> ""]
NoAnswer == [of |-> None, id |-> "none"]

Init ==
    /\ rpm = "start" /\ res = "none" /\ ctx \in {"none", "given"}
    /\ sync = << >> /\ requests = << >> /\ replies = << >>
    /\ call = None /\ answer = NoAnswer
    /\ calls = 0 /\ chrooted = FALSE /\ script = "none" /\ past = {}

-----------------------------------------------------------------------------
(* The pipe and the bytes.                                                 *)

Room == IF Len(sync) < Pages THEN TRUE ELSE Last(sync).used < PageSize

Put == IF sync # << >> /\ Last(sync).used < PageSize
       THEN [sync EXCEPT ![Len(sync)] = [left |-> @.left + 1, used |-> @.used + 1]]
       ELSE Append(sync, [left |-> 1, used |-> 1])

Take == IF Head(sync).left = 1 THEN Tail(sync) ELSE [sync EXCEPT ![1].left = @ - 1]

\* The end of the pipe: the resolver is gone and everything was read.
AtEnd == sync = << >> /\ res = "dead"

Byte(b)  == [style |-> b, name |-> ""]
Bytes(c) == <<Byte("yes"), c, c, c, c>>         \* the code and the four bytes of the id
NoBytes  == [k \in 1 .. 5 |-> Byte("no")]
AnswerBytes(c) == IF c.name \in Known THEN Bytes(c) ELSE NoBytes

-----------------------------------------------------------------------------
(* The resolver.                                                           *)

ResolverDies == res' = "dead" /\ past' = past \cup {"died"}

\* setupContext: a context is created, or the one that is given is used; the
\* context id goes into the pipe
setupContext ==
    /\ res = "setup"
    /\ \/ /\ res' = "exec" /\ sync' = Put
          /\ ctx' = (IF ctx = "none" THEN "setup" ELSE ctx) /\ UNCHANGED past
       \/ ResolverDies /\ UNCHANGED <<ctx, sync>>
    /\ UNCHANGED <<rpm, requests, replies, call, answer, calls, chrooted, script>>

\* A context that was created is activated, one that is there is entered.
Activated == IF ctx = "setup" THEN "active" ELSE "entered"

\* A context that was created ends with the resolver.
Left == IF ctx \in {"given", "entered"} THEN "given" ELSE "none"

\* chroot, activateContext, setuid, daemonize
activateContext ==
    /\ res = "exec"
    /\ \/ res' = "dot" /\ ctx' = Activated /\ UNCHANGED past
       \/ ResolverDies /\ ctx' = Left
    /\ UNCHANGED <<rpm, sync, requests, replies, call, answer, calls, chrooted, script>>

\* run: the dot; a full pipe blocks
runDot ==
    /\ res = "dot" /\ Room /\ sync' = Put /\ res' = "read"
    /\ UNCHANGED <<rpm, ctx, requests, replies, call, answer, calls, chrooted, script, past>>

\* Fault: groups are looked up among the users.
Reply_Users(q) ==
    CASE q.cmd \in {"P", "G"} /\ q.name \notin Long -> AnswerBytes([style |-> "P", name |-> q.name])
      [] q.cmd = "." -> <<Byte(".")>>
      [] OTHER -> << >>

\* What is answered: nothing to a request that is too long, whose name is taken
\* for commands then
Reply(q) ==
    CASE q.cmd \in {"P", "G"} /\ q.name \in Long -> << >>
      [] q.cmd \in {"P", "G"} -> AnswerBytes([style |-> q.cmd, name |-> q.name])
      [] q.cmd = "." -> <<Byte(".")>>
      [] q.cmd = "byte" -> <<Byte("?")>>
      [] OTHER -> << >>

\* run: one command; do_getpwnam, do_getgrnam, do_closenss
runCommand ==
    /\ res = "read" /\ requests # << >>
    /\ LET q == Head(requests)
       IN  /\ requests' = Tail(requests)
           /\ replies' = replies \o Reply(q)
           /\ IF q.cmd = "Q" THEN res' = "dead" /\ ctx' = Left ELSE res' = "dot" /\ UNCHANGED ctx
    /\ UNCHANGED <<rpm, sync, call, answer, calls, chrooted, script, past>>

\* rpm is gone: EreadAll finds the end
runEnds ==
    /\ res = "read" /\ requests = << >> /\ rpm = "ended"
    /\ res' = "dead" /\ ctx' = Left
    /\ UNCHANGED <<rpm, sync, requests, replies, call, answer, calls, chrooted, script, past>>

resolverKilled ==
    /\ res \in {"dot", "read"} /\ "died" \notin past /\ ResolverDies /\ ctx' = Left
    /\ UNCHANGED <<rpm, sync, requests, replies, call, answer, calls, chrooted, script>>

-----------------------------------------------------------------------------
(* rpm                                                                     *)

\* initRPMFake: capabilities, symbols, environment, initPwSocket up to fork
initRPMFake ==
    /\ rpm = "start" /\ rpm' = "xid" /\ res' = "setup"
    /\ UNCHANGED <<ctx, sync, requests, replies, call, answer, calls, chrooted, script, past>>

\* the handshake of initPwSocket; every failure is an exit
initPwSocket ==
    /\ \/ rpm = "xid" /\ sync # << >> /\ rpm' = "dot" /\ sync' = Take /\ UNCHANGED <<requests, replies>>
       \/ /\ rpm = "dot" /\ sync # << >> /\ rpm' = "hello" /\ sync' = Take
          /\ requests' = Append(requests, [cmd |-> ".", name |-> ""]) /\ UNCHANGED replies
       \/ /\ rpm = "hello" /\ replies # << >>
          /\ rpm' = (IF Head(replies) = Byte(".") THEN "ready" ELSE "ended")
          /\ replies' = Tail(replies) /\ UNCHANGED <<sync, requests>>
       \/ /\ \/ rpm \in {"xid", "dot"} /\ AtEnd
             \/ rpm = "hello" /\ res = "dead" /\ replies = << >>
          /\ rpm' = "ended" /\ UNCHANGED <<sync, requests, replies>>
    /\ UNCHANGED <<res, ctx, call, answer, calls, chrooted, script, past>>

Calls == calls < MaxCalls /\ calls' = calls + 1

\* doPwStringRequest up to its writes; a resolver that is gone knows no name
request ==
    /\ rpm = "ready" /\ Calls
    /\ \E c \in [style : {"P", "G"}, name : Known \cup Long \cup {"unknown"}] :
         \/ /\ sync # << >> /\ sync' = Take
            /\ rpm' = "answer" /\ call' = c /\ UNCHANGED answer
            /\ requests' = Append(requests, [cmd |-> c.style, name |-> c.name])
                           \o (IF c.name \in Long THEN [k \in 1 .. 6 |-> [cmd |-> "byte", name |-> ""]]
                               ELSE << >>)
            /\ past' = past \cup (IF c.name \in Long THEN {"long"} ELSE {})
         \/ AtEnd /\ answer' = [of |-> c, id |-> "null"] /\ UNCHANGED <<sync, rpm, call, requests, past>>
    /\ UNCHANGED <<res, ctx, replies, chrooted, script>>

\* doPwStringRequest: the code and the id
getAnswer ==
    /\ rpm = "answer" /\ rpm' = "ready" /\ call' = None
    /\ \/ /\ Len(replies) >= 5 /\ replies' = SubSeq(replies, 6, Len(replies))
          /\ answer' = [of |-> call,
                        id |-> IF replies[1] = Byte("no") THEN "null"
                               ELSE IF \A k \in 2 .. 5 : replies[k] = call THEN "right"
                               ELSE "wrong"]
       \/ Len(replies) < 5 /\ res = "dead" /\ replies' = << >> /\ answer' = [of |-> call, id |-> "null"]
    /\ UNCHANGED <<res, ctx, sync, requests, calls, chrooted, script, past>>

\* endpwent, endgrent: no dot is taken
endent ==
    /\ rpm = "ready" /\ Calls
    /\ requests' = (IF res = "dead" THEN requests ELSE Append(requests, [cmd |-> "C", name |-> ""]))
    /\ UNCHANGED <<rpm, res, ctx, sync, replies, call, answer, chrooted, script, past>>

doChroot ==
    /\ rpm = "ready" /\ ~chrooted /\ chrooted' = TRUE
    /\ UNCHANGED <<rpm, res, ctx, sync, requests, replies, call, answer, calls, script, past>>

\* vc_ctx_migrate in execvWorker
Migrated == ctx \in {"active", "entered", "given"}

\* execv before a chroot is not changed; execv after it and rpm_execcon clone a
\* process, remove the mounts, clear the environment and enter the context
execv ==
    /\ rpm = "ready" /\ Calls
    /\ \/ ~chrooted /\ script' = "plain"
       \/ Migrated /\ script' = "context"
       \/ script' = "failed"
    /\ UNCHANGED <<rpm, res, ctx, sync, requests, replies, call, answer, chrooted, past>>

\* exitRPMFake: the dot, and Q.  ctx_created was set in the forked process only,
\* so that nobody waits for the context.
exitRPMFake ==
    /\ rpm = "ready" /\ (sync # << >> \/ AtEnd) /\ rpm' = "ended"
    /\ sync' = (IF sync # << >> THEN Take ELSE sync)
    /\ requests' = (IF res = "dead" THEN requests ELSE Append(requests, [cmd |-> "Q", name |-> ""]))
    /\ UNCHANGED <<res, ctx, replies, call, answer, calls, chrooted, script, past>>

Resolver == setupContext \/ activateContext \/ runDot \/ runCommand \/ runEnds
Rpm == initRPMFake \/ initPwSocket \/ getAnswer
Next == Resolver \/ Rpm \/ request \/ endent \/ doChroot \/ execv \/ exitRPMFake \/ resolverKilled

Spec == Init /\ [][Next]_vars
FairSpec == Spec /\ WF_vars(Resolver) /\ WF_vars(Rpm)

-----------------------------------------------------------------------------
\* The variables have their types.
TypeOK ==
    /\ rpm \in {"start", "xid", "dot", "hello", "ready", "answer", "ended"}
    /\ res \in {"none", "setup", "exec", "dot", "read", "dead"}
    /\ ctx \in {"none", "given", "entered", "setup", "active"}
    /\ Len(sync) <= Pages /\ \A k \in DOMAIN sync : sync[k].left \in 1 .. sync[k].used
    /\ calls \in 0 .. MaxCalls

\* An answer is about the name that was asked for, as the guest knows it, however
\* many calls of endpwent came between; after a name that was too long the two
\* sides disagree about what a request is.
AnswersMatch ==
    "long" \notin past =>
        /\ answer.id # "wrong"
        /\ answer.id = "null" => answer.of.name \notin Known \/ "died" \in past
        /\ answer.id = "right" => answer.of.name \in Known

\* The context id and the first dot are taken before the first request: nothing
\* is left of the handshake when rpm begins.
HandshakeIsOver == rpm = "ready" /\ calls = 0 => replies = << >> /\ (res # "dead" => ctx \in {"active", "entered"})

\* rpm comes through its initialisation, and gets its answers, whatever becomes
\* of the resolver; unless the dots of endpwent have filled the pipe.
AnswerComes ==
    /\ rpm \in {"xid", "dot", "hello"} ~> rpm \in {"ready", "ended"}
    /\ rpm = "answer" ~> (rpm # "answer" \/ ~Room \/ "long" \in past)
=============================================================================
