-------------------------------- MODULE Vlogin ------------------------------
(***************************************************************************)
(* vlogin (src/vlogin.c): a program is executed on a terminal of its own   *)
(* and the user's terminal, in raw mode, is connected to it.  SIGCHLD,     *)
(* SIGINT and SIGWINCH are handled wherever the main program is; the       *)
(* child, after the fork, becomes the leader of a session with the new     *)
(* terminal.  A child that ends gives up its terminal first and becomes a  *)
(* zombie then; vlogin itself keeps the slave side open, so that reading   *)
(* the master never fails.                                                 *)
(***************************************************************************)
EXTENDS Naturals

CONSTANTS MaxOutput,    \* what the program writes at most
          MaxSignals    \* signals the user and others send

VARIABLES
    at,         \* the main program
    tty,        \* the user's terminal: "cooked" or "raw"
    state,      \* t.state = TS_RAW
    atexit,     \* terminal_reset is registered
    handled,    \* signals with the handler
    pid,        \* t.pid is set
    child,      \* the child
    output,     \* what the program wrote: in the terminal, in buf, on the screen
    pending,    \* signals that are pending for vlogin
    sent,       \* signals sent so far
    torn,       \* SIGCHLD came between a read and its write
    stray,      \* a signal was sent to vlogin's own process group
    how         \* how vlogin ended

vars == <<at, tty, state, atexit, handled, pid, child, output, pending, sent, torn, stray, how>>

Init ==
    /\ at = "raw" /\ tty = "cooked" /\ state = FALSE /\ atexit = FALSE
    /\ handled = {} /\ pid = FALSE /\ child = "none"
    /\ output = [pty |-> 0, buf |-> 0, shown |-> 0, all |-> 0]
    /\ pending = {} /\ sent = 0 /\ torn = FALSE /\ stray = FALSE /\ how = "none"

-----------------------------------------------------------------------------
(* Helpers.                                                                *)

\* exit: the registered function resets the terminal when t.state says so
Exit(h) ==
    /\ at' = "ended" /\ how' = h
    /\ tty' = IF atexit /\ state THEN "cooked" ELSE tty

\* TIOCGPGRP finds the process group of the child's session; without a session it
\* finds 0, and kill(0) is for vlogin's own process group.
HasSession == child \in {"session", "running"}

\* terminal_kill: a signal to vlogin's own group comes back when it is handled,
\* and kills a child that has no session yet
terminal_kill(sig) ==
    /\ stray' = (stray \/ ~HasSession)
    /\ pending' = (pending \ {sig}) \cup (IF ~HasSession /\ sig \in handled THEN {sig} ELSE {})
    /\ child' = IF child = "forked" /\ sig # "WINCH" THEN "left" ELSE child

Running == at \notin {"ended"}

-----------------------------------------------------------------------------
(* do_vlogin                                                               *)

terminal_raw ==
    /\ at = "raw" /\ at' = "state" /\ tty' = "raw"
    /\ UNCHANGED <<state, atexit, handled, pid, child, output, pending, sent, torn, stray, how>>

\* t.state = TS_RAW, atexit(terminal_reset)
registerReset ==
    /\ at = "state" /\ at' = "openpty" /\ state' = TRUE /\ atexit' = TRUE
    /\ UNCHANGED <<tty, handled, pid, child, output, pending, sent, torn, stray, how>>

openpty ==
    /\ at = "openpty"
    /\ \/ at' = "fork" /\ handled' = {"CHLD"} /\ UNCHANGED <<tty, how>>
       \/ Exit("openpty") /\ UNCHANGED handled
    /\ UNCHANGED <<state, atexit, pid, child, output, pending, sent, torn, stray>>

fork ==
    /\ at = "fork" /\ at' = "signals" /\ child' = "forked"
    /\ UNCHANGED <<tty, state, atexit, handled, pid, output, pending, sent, torn, stray, how>>

setSignals ==
    /\ at = "signals" /\ at' = "pid" /\ handled' = {"CHLD", "WINCH", "INT"}
    /\ UNCHANGED <<tty, state, atexit, pid, child, output, pending, sent, torn, stray, how>>

setPid ==
    /\ at = "pid" /\ at' = "redraw" /\ pid' = TRUE
    /\ UNCHANGED <<tty, state, atexit, handled, child, output, pending, sent, torn, stray, how>>

terminal_redraw ==
    /\ at = "redraw" /\ at' = "select" /\ terminal_kill("WINCH")
    /\ UNCHANGED <<tty, state, atexit, handled, pid, output, sent, torn, how>>

\* terminal_copy of the terminal
readTerminal ==
    /\ at = "select" /\ output.pty > 0 /\ at' = "write"
    /\ output' = [output EXCEPT !.pty = 0, !.buf = output.pty]
    /\ UNCHANGED <<tty, state, atexit, handled, pid, child, pending, sent, torn, stray, how>>

writeUser ==
    /\ at = "write" /\ at' = "select"
    /\ output' = [output EXCEPT !.buf = 0, !.shown = @ + output.buf]
    /\ UNCHANGED <<tty, state, atexit, handled, pid, child, pending, sent, torn, stray, how>>

\* The user's side is at its end: the session gets SIGHUP, which ends vlogin
\* itself when there is none.
readUser ==
    /\ at = "select" /\ terminal_kill("HUP")
    /\ IF HasSession THEN Exit("eof") ELSE at' = "ended" /\ how' = "killed" /\ UNCHANGED tty
    /\ UNCHANGED <<state, atexit, handled, pid, output, sent, torn>>

-----------------------------------------------------------------------------
(* signal_handler                                                          *)

\* Fault: what is left in the terminal is not fetched.
Drain_Not == output

\* terminal_end: everything that is in the terminal
Drain == [output EXCEPT !.pty = 0, !.shown = @ + output.pty]

handleChld ==
    /\ Running /\ "CHLD" \in pending /\ "CHLD" \in handled
    /\ output' = Drain /\ torn' = (output.buf > 0)
    /\ at' = "ended" /\ how' = "child" /\ state' = FALSE
    /\ tty' = IF state THEN "cooked" ELSE tty
    /\ child' = "none" /\ pending' = {}
    /\ UNCHANGED <<atexit, handled, pid, sent, stray>>

handleInt ==
    /\ Running /\ "INT" \in pending /\ "INT" \in handled /\ terminal_kill("INT")
    /\ UNCHANGED <<at, tty, state, atexit, handled, pid, output, sent, torn, how>>

handleWinch ==
    /\ Running /\ "WINCH" \in pending /\ "WINCH" \in handled /\ terminal_kill("WINCH")
    /\ UNCHANGED <<at, tty, state, atexit, handled, pid, output, sent, torn, how>>

\* SIGINT without the handler ends vlogin where it is; SIGWINCH is ignored.
default ==
    /\ Running /\ \E s \in {"INT", "WINCH"} \ handled :
         /\ s \in pending /\ pending' = pending \ {s}
         /\ IF s = "INT" THEN at' = "ended" /\ how' = "killed" ELSE UNCHANGED <<at, how>>
    /\ UNCHANGED <<tty, state, atexit, handled, pid, child, output, sent, torn, stray>>

-----------------------------------------------------------------------------
(* The child and the others.                                               *)

\* setsid and TIOCSCTTY, then dup2 and execvp
childSession ==
    /\ child \in {"forked", "session"} /\ child' = (IF child = "forked" THEN "session" ELSE "running")
    /\ UNCHANGED <<at, tty, state, atexit, handled, pid, output, pending, sent, torn, stray, how>>

childWrites ==
    /\ child = "running" /\ output.all < MaxOutput
    /\ output' = [output EXCEPT !.pty = @ + 1, !.all = @ + 1]
    /\ UNCHANGED <<at, tty, state, atexit, handled, pid, child, pending, sent, torn, stray, how>>

childEnds ==
    /\ \/ child \in {"session", "running"} /\ child' = "left" /\ UNCHANGED pending
       \/ child = "left" /\ child' = "zombie" /\ pending' = pending \cup {"CHLD"}
    /\ UNCHANGED <<at, tty, state, atexit, handled, pid, output, sent, torn, stray, how>>

signal ==
    /\ Running /\ sent < MaxSignals /\ sent' = sent + 1
    /\ \E s \in {"INT", "WINCH"} : pending' = pending \cup {s}
    /\ UNCHANGED <<at, tty, state, atexit, handled, pid, child, output, torn, stray, how>>

Main == \/ terminal_raw \/ registerReset \/ openpty \/ fork \/ setSignals \/ setPid
        \/ terminal_redraw \/ readTerminal \/ writeUser
Handlers == handleChld \/ handleInt \/ handleWinch \/ default

Next == Main \/ Handlers \/ readUser \/ childSession \/ childWrites \/ childEnds \/ signal

Spec == Init /\ [][Next]_vars

-----------------------------------------------------------------------------
\* The variables have their types.
TypeOK ==
    /\ at \in {"raw", "state", "openpty", "fork", "signals", "pid", "redraw", "select", "write", "ended"}
    /\ tty \in {"cooked", "raw"} /\ {state, atexit, pid, torn, stray} \subseteq BOOLEAN
    /\ handled \subseteq {"CHLD", "INT", "WINCH"} /\ pending \subseteq {"CHLD", "INT", "WINCH"}
    /\ child \in {"none", "forked", "session", "running", "left", "zombie"}
    /\ output.all \in 0 .. MaxOutput /\ sent \in 0 .. MaxSignals
    /\ how \in {"none", "openpty", "eof", "child", "killed"}

\* However vlogin comes to its end by itself, the user gets the terminal back
\* as it was; a signal it does not handle leaves it raw, the SIGHUP it sends to
\* itself at the end of the input included.
TerminalRestored == at = "ended" /\ how # "killed" => tty = "cooked"

\* When the end of the program ends vlogin, all that the program wrote has been
\* shown, unless the signal came when a piece of it was in the buffer.
OutputShown == how = "child" /\ ~torn => output.shown = output.all

\* While the program runs, no signal that is passed on hits the process group
\* vlogin itself is in.
SignalsPassedOn == [][(child \in {"session", "running"}) => stray' = stray]_vars
=============================================================================
