------------------------------- MODULE Waiting ------------------------------
(***************************************************************************)
(* Three tools that wait for one event with a timeout: vwait for the end   *)
(* of a context (src/vwait.c), vshelper-sync for the end of what is        *)
(* written to a pipe (src/vshelper-sync.c), keep-ctx-alive, which keeps a  *)
(* context while it waits, for a message on its socket                     *)
(* (src/keep-ctx-alive.c).  Time passes in seconds; a timer that is due    *)
(* goes off before time goes on.                                           *)
(***************************************************************************)
EXTENDS Naturals

CONSTANTS
    Timeout,    \* the timeout, when one is given
    MaxTime     \* seconds that are looked at

VARIABLES
    tool,       \* the tool that runs
    args,       \* timed: a timeout was given; terminate: vwait --terminate
    at,         \* where it is
    clock, end, alarm,  \* the time, end_time, when SIGALRM comes (0: never)
    other,      \* the other side: the context, the writer, the caller with --quit
    missed,     \* SIGALRM came while nothing was there to be interrupted
    result      \* what the tool reported, or "none"

vars == <<tool, args, at, clock, end, alarm, other, missed, result>>

Init ==
    /\ tool \in {"vwait", "vshelper-sync", "keep-ctx-alive"}
    /\ args \in [timed : BOOLEAN, terminate : BOOLEAN]
    /\ tool = "vshelper-sync" => args.timed
    /\ tool = "vwait" /\ args.timed => Timeout > 0
    /\ tool # "vwait" => ~args.terminate
    /\ at = "main" /\ clock = 0 /\ end = 0 /\ alarm = 0
    /\ other = IF tool = "vwait" THEN "running" ELSE "silent"
    /\ missed = FALSE /\ result = "none"

Goes(l)    == at' = l /\ UNCHANGED result
Reports(r) == at' = "ended" /\ result' = r

-----------------------------------------------------------------------------
(* vwait                                                                   *)

\* signal and alarm, when there is a timeout
vwaitDoit ==
    /\ tool = "vwait" /\ at = "main" /\ Goes("call")
    /\ end' = (IF args.timed THEN clock + Timeout ELSE 0)
    /\ alarm' = (IF args.timed THEN clock + Timeout ELSE 0)
    /\ UNCHANGED <<tool, args, clock, other, missed>>

\* vc_wait_exit is entered; the context must be there
vc_wait_exit ==
    /\ tool = "vwait" /\ at = "call"
    /\ IF other = "running" THEN Goes("blocked") ELSE Reports("ERROR")
    /\ UNCHANGED <<tool, args, clock, end, alarm, other, missed>>

vwaitFinished ==
    /\ tool = "vwait" /\ at = "blocked" /\ other = "ended" /\ Reports("FINISHED")
    /\ UNCHANGED <<tool, args, clock, end, alarm, other, missed>>

\* EAGAIN, or EINTR by a signal that is not the alarm
vwaitEagain ==
    /\ tool = "vwait" /\ at = "blocked" /\ Goes("returned")
    /\ UNCHANGED <<tool, args, clock, end, alarm, other, missed>>

\* the handler; only a system call that is being executed returns
handler ==
    /\ at # "ended" /\ alarm # 0 /\ clock >= alarm /\ alarm' = 0
    /\ IF at = "blocked" THEN Goes("returned") ELSE UNCHANGED <<at, result>>
    /\ missed' = (missed \/ at # "blocked")
    /\ UNCHANGED <<tool, args, clock, end, other>>

\* Fault: the alarm is not set again.
Rest_None == 0

\* alarm(end_time-now)
Rest == IF args.timed THEN end ELSE 0

\* vc_ctx_kill of init and of all processes, which die at some later time
Killed == IF other = "running" THEN "dying" ELSE other

\* -1 with EINTR or EAGAIN: time out, or call again
vwaitReturned ==
    /\ tool = "vwait" /\ at = "returned"
    /\ IF args.timed /\ clock >= end
       THEN /\ Reports(IF args.terminate THEN "KILLED" ELSE "TIMEOUT")
            /\ other' = IF args.terminate THEN Killed ELSE other
            /\ UNCHANGED alarm
       ELSE Goes("call") /\ alarm' = Rest /\ UNCHANGED other
    /\ UNCHANGED <<tool, args, clock, end, missed>>

-----------------------------------------------------------------------------
(* vshelper-sync                                                           *)

syncOpen ==
    /\ tool = "vshelper-sync" /\ at = "main" /\ Goes("select")
    /\ end' = clock + Timeout
    /\ UNCHANGED <<tool, args, clock, alarm, other, missed>>

\* "timeout holds remaining time"
Remaining == end

\* read returns 0
SyncDone == other = "closed"

\* select finds something: data is read and forgotten, the end is a success
syncRead ==
    /\ tool = "vshelper-sync" /\ at = "select"
    /\ \/ other = "data" /\ ~SyncDone /\ other' = "silent" /\ end' = Remaining /\ Goes("select")
       \/ SyncDone /\ Reports("success") /\ UNCHANGED <<other, end>>
    /\ UNCHANGED <<tool, args, clock, alarm, missed>>

syncTimeout ==
    /\ tool = "vshelper-sync" /\ at = "select"
    /\ other = "silent" /\ clock >= end /\ Reports("failure")
    /\ UNCHANGED <<tool, args, clock, end, alarm, other, missed>>

\* select or read fails, by a signal, too
syncFails ==
    /\ tool = "vshelper-sync" /\ at = "select" /\ Reports("error")
    /\ UNCHANGED <<tool, args, clock, end, alarm, other, missed>>

-----------------------------------------------------------------------------
(* keep-ctx-alive                                                          *)

\* socket, bind, listen, printXid, fork: from here on the child is alive
keepDoit ==
    /\ tool = "keep-ctx-alive" /\ at = "main" /\ Goes("select")
    /\ end' = (IF args.timed THEN clock + Timeout ELSE 0)
    /\ UNCHANGED <<tool, args, clock, alarm, other, missed>>

keepSelect ==
    /\ tool = "keep-ctx-alive" /\ at = "select"
    /\ \/ other # "silent" /\ Goes("recv")
       \/ other = "silent" /\ args.timed /\ clock >= end /\ Reports("1")
    /\ UNCHANGED <<tool, args, clock, end, alarm, other, missed>>

\* handleMessage: recv has no timeout
handleMessage ==
    /\ tool = "keep-ctx-alive" /\ at = "recv"
    /\ \/ other = "data"   /\ Reports("0")
       \/ other = "closed" /\ Reports("1")
    /\ UNCHANGED <<tool, args, clock, end, alarm, other, missed>>

\* Eselect, Eaccept or Erecv fails
keepFails ==
    /\ tool = "keep-ctx-alive" /\ at \in {"select", "recv"} /\ Reports("error")
    /\ UNCHANGED <<tool, args, clock, end, alarm, other, missed>>

-----------------------------------------------------------------------------
\* The context ends; the writer writes and closes; sendQuitSignal connects,
\* sends its message, or an empty one, and closes.
otherSide ==
    /\ \/ tool = "vwait" /\ other \in {"running", "dying"} /\ other' = "ended"
       \/ tool = "vshelper-sync" /\ at # "main" /\ other \in {"silent", "data"} /\ other' \in {"data", "closed"}
       \/ tool = "keep-ctx-alive" /\ at # "main" /\ other = "silent" /\ other' = "connected"
       \/ tool = "keep-ctx-alive" /\ other = "connected" /\ other' \in {"data", "closed"}
    /\ UNCHANGED <<tool, args, at, clock, end, alarm, missed, result>>

\* What is due comes before time goes on; a process that does not wait may be
\* delayed by any time.
Due == \/ at # "ended" /\ alarm # 0 /\ clock >= alarm
       \/ at = "select" /\ args.timed /\ clock >= end

tick ==
    /\ clock < MaxTime /\ ~Due /\ clock' = clock + 1
    /\ UNCHANGED <<tool, args, at, end, alarm, other, missed, result>>

Step == \/ vwaitDoit \/ vc_wait_exit \/ vwaitFinished \/ vwaitReturned \/ handler
        \/ syncOpen \/ syncRead \/ syncTimeout \/ keepDoit \/ keepSelect \/ handleMessage

Next == Step \/ vwaitEagain \/ syncFails \/ keepFails \/ otherSide \/ tick

Spec == Init /\ [][Next]_vars

-----------------------------------------------------------------------------
\* The variables have their types.
TypeOK ==
    /\ tool \in {"vwait", "vshelper-sync", "keep-ctx-alive"}
    /\ at \in {"main", "call", "blocked", "returned", "select", "recv", "ended"}
    /\ {clock, end, alarm} \subseteq 0 .. MaxTime + Timeout
    /\ other \in {"running", "dying", "ended", "silent", "connected", "data", "closed"}
    /\ result \in {"none", "ERROR", "FINISHED", "KILLED", "TIMEOUT", "success", "failure", "error", "0", "1"}
    /\ (result = "none") = (at # "ended")

\* A timeout is kept: calls that return early and data that comes in drops do
\* not prolong it.  It is not when SIGALRM finds vwait outside of the system
\* call, and keep-ctx-alive has none for the message itself.
InTime ==
    args.timed /\ at \in {"blocked", "select"} /\ ~missed => clock <= end

\* When vwait reports the end of the context nothing of it is left, and when vwait
\* --terminate reports that it killed the context nothing survives: "vserver stop"
\* goes on to unmount.
NothingLeft ==
    /\ result = "FINISHED" => other = "ended"
    /\ result = "KILLED" => other \in {"dying", "ended"}

\* A success means that the other side is done: the pipe was closed, the
\* message came; a timeout is never reported as one, nor before its time.
SuccessIsAnswer ==
    /\ result = "success" => other = "closed"
    /\ result = "0" => other = "data"
    /\ result \in {"TIMEOUT", "KILLED", "failure"} => clock >= end

\* What the four of them rest on: who is who, and that the alarm of vwait, when it
\* was not missed, is set to the end of the time whenever vwait is in the system call
\* or enters it.
Inv ==
    /\ TypeOK /\ InTime /\ NothingLeft /\ SuccessIsAnswer
    /\ args \in [timed : BOOLEAN, terminate : BOOLEAN] /\ missed \in BOOLEAN
    /\ clock <= MaxTime /\ end <= MaxTime + Timeout
    /\ at \in {"call", "blocked", "returned"} => tool = "vwait"
    /\ at = "select" => tool # "vwait" /\ (tool = "vshelper-sync" => args.timed)
    /\ at = "recv" => tool = "keep-ctx-alive"
    /\ at = "main" => end = 0 /\ alarm = 0 /\ ~missed
                     /\ (tool = "vshelper-sync" => args.timed)
                     /\ (tool = "vwait" /\ args.timed => Timeout > 0)
    /\ other \in CASE tool = "vwait" -> {"running", "dying", "ended"}
                   [] tool = "vshelper-sync" -> {"silent", "data", "closed"}
                   [] OTHER -> {"silent", "connected", "data", "closed"}
    /\ tool # "vwait" => alarm = 0
    /\ result \in {"FINISHED", "KILLED"} => tool = "vwait"
    /\ result = "0" => tool = "keep-ctx-alive"
    /\ args.timed /\ at \in {"call", "blocked"} /\ ~missed => alarm = end /\ clock <= end
    /\ args.timed /\ at \in {"call", "blocked", "returned"} => end > 0
=============================================================================
