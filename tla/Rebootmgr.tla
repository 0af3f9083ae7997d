------------------------------ MODULE Rebootmgr -----------------------------
(***************************************************************************)
(* rebootmgr (src/rebootmgr.c) and its clients vreboot and vhalt           *)
(* (src/vreboot.c).  The manager has one listening socket per vserver and  *)
(* a table of accepted connections; every round of its loop selects,       *)
(* accepts at most one connection per socket, and reads from the           *)
(* connections that select found ready.  A descriptor is the smallest      *)
(* number that is free, so a number that is closed comes back at once.     *)
(***************************************************************************)
EXTENDS Naturals, Sequences, SequencesExt, FiniteSets, FiniteSetsExt

CONSTANTS
    Vserver,        \* the vservers on the command line, in order
    Client,         \* the calls of vreboot and vhalt
    Requests,       \* what they may be about: client -> vserver and command
    MaxHandles      \* maxhandles, argc*2 in the code

VARIABLES
    pc,         \* "select", "accept" or "process"
    i,          \* loop counter
    fdin,       \* what select found: vservers to accept from, descriptors to read
    handles,    \* the table: descriptor and name of the vserver
    dst,        \* the part of the table that this round keeps
    conn,       \* descriptor -> client, for those that are open
    client,     \* the clients
    backlog,    \* connections that wait for accept
    commands,   \* what was passed to system(): vserver, command and client
    overloaded  \* a client that was thrown out, or the round that did it

vars == <<pc, i, fdin, handles, dst, conn, client, backlog, commands, overloaded>>

Names == Range(Vserver)

Init ==
    /\ pc = "select" /\ i = 0 /\ fdin = [accept |-> {}, read |-> {}]
    /\ handles = << >> /\ dst = << >> /\ conn = << >>
    /\ \E r \in Requests :
         client = [c \in Client |-> [at |-> "start", of |-> r[c].of, cmd |-> r[c].cmd]]
    /\ backlog = [v \in Names |-> << >>]
    /\ commands = {} /\ overloaded = [clients |-> {}, now |-> FALSE]

-----------------------------------------------------------------------------
(* The clients.                                                            *)

vrebootConnect(c) ==
    /\ client[c].at = "start"
    /\ client' = [client EXCEPT ![c].at = "connected"]
    /\ backlog' = [backlog EXCEPT ![client[c].of] = Append(@, c)]
    /\ UNCHANGED <<pc, i, fdin, handles, dst, conn, commands, overloaded>>

vrebootWrite(c) ==
    /\ client[c].at = "connected" /\ client' = [client EXCEPT ![c].at = "written"]
    /\ UNCHANGED <<pc, i, fdin, handles, dst, conn, backlog, commands, overloaded>>

\* A client that ends before it has written: its connection has nothing but an end.
vrebootDies(c) ==
    /\ client[c].at = "connected" /\ client' = [client EXCEPT ![c].at = "read"]
    /\ UNCHANGED <<pc, i, fdin, handles, dst, conn, backlog, commands, overloaded>>

-----------------------------------------------------------------------------
(* The manager.                                                            *)

\* A connection is readable once its client has written, or closed.
Readable(fd) == client[conn[fd]].at \in {"written", "read"}
Table == {handles[k].fd : k \in DOMAIN handles}

select ==
    /\ pc = "select"
    /\ fdin' = [accept |-> {v \in Names : backlog[v] # << >>},
                read   |-> {fd \in Table : Readable(fd)}]
    /\ fdin'.accept # {} \/ fdin'.read # {}
    /\ pc' = "accept" /\ i' = 1
    /\ UNCHANGED <<handles, dst, conn, client, backlog, commands, overloaded>>

\* Fault: the table is emptied, its connections stay open.
Closed_None == {}

\* "Overloaded, we close every handle"
Closed == IF Len(handles) = MaxHandles THEN Table ELSE {}

Entry(fd, v) == [fd |-> fd, vname |-> v]

\* One connection per socket.  It is accepted before the overload closes the others,
\* so that the next one in this round may get a number that was in the table, and is
\* in fdin.
accept ==
    /\ pc = "accept" /\ i <= Len(Vserver)
    /\ LET v    == Vserver[i]
           full == Len(handles) = MaxHandles
           kept == DOMAIN conn \ Closed
           fd   == Min((1 .. Cardinality(Client)) \ DOMAIN conn)
       IN  IF v \in fdin.accept
           THEN /\ handles' = Append(IF full THEN << >> ELSE handles, Entry(fd, v))
                /\ conn' = [f \in kept \cup {fd} |-> IF f = fd THEN Head(backlog[v]) ELSE conn[f]]
                /\ overloaded' = [clients |-> overloaded.clients \cup {conn[f] : f \in Closed},
                                  now |-> overloaded.now \/ full]
                /\ backlog' = [backlog EXCEPT ![v] = Tail(@)]
           ELSE UNCHANGED <<handles, conn, overloaded, backlog>>
    /\ i' = i + 1 /\ UNCHANGED <<pc, fdin, dst, client, commands>>

acceptEnds ==
    /\ pc = "accept" /\ i > Len(Vserver)
    /\ pc' = "process" /\ i' = 1
    /\ UNCHANGED <<fdin, handles, dst, conn, client, backlog, commands, overloaded>>

Handle == handles[i]

IsSet == Handle.fd \in fdin.read

Waiting == Append(dst, Handle)

Valid(c) == client[c].cmd \in {"reboot", "halt"}

\* rebootmgr_process: a command is carried out and the connection is kept; the end of
\* the connection, or another request, closes it.  A connection with nothing in it
\* blocks.
process ==
    /\ pc = "process" /\ i <= Len(handles)
    /\ LET c == conn[Handle.fd]
       IN  \/ ~IsSet /\ dst' = Waiting /\ UNCHANGED <<conn, client, commands>>
           \/ /\ IsSet /\ client[c].at = "written" /\ Valid(c)
              /\ commands' = commands \cup {<<Handle.vname, client[c].cmd, c>>}
              /\ client' = [client EXCEPT ![c].at = "read"]
              /\ dst' = Append(dst, Handle) /\ UNCHANGED conn
           \/ /\ IsSet /\ (client[c].at = "read" \/ (client[c].at = "written" /\ ~Valid(c)))
              /\ conn' = [f \in DOMAIN conn \ {Handle.fd} |-> conn[f]]
              /\ UNCHANGED <<dst, client, commands>>
    /\ i' = i + 1 /\ UNCHANGED <<pc, fdin, handles, backlog, overloaded>>

\* fdin and dst are local to a round.
processEnds ==
    /\ pc = "process" /\ i > Len(handles)
    /\ handles' = dst /\ pc' = "select"
    /\ i' = 0 /\ dst' = << >> /\ fdin' = [accept |-> {}, read |-> {}]
    /\ overloaded' = [overloaded EXCEPT !.now = FALSE]
    /\ UNCHANGED <<conn, client, backlog, commands>>

Manager == select \/ accept \/ acceptEnds \/ process \/ processEnds

Next == Manager \/ \E c \in Client : vrebootConnect(c) \/ vrebootWrite(c) \/ vrebootDies(c)

Spec == Init /\ [][Next]_vars

\* The manager goes on, and so does a client that has connected, unless it dies.
Fairness == WF_vars(Manager) /\ \A c \in Client : WF_vars(vrebootWrite(c))
FairSpec == Spec /\ Fairness

-----------------------------------------------------------------------------
\* The variables have their types.
TypeOK ==
    /\ pc \in {"select", "accept", "process"} /\ i \in Nat
    /\ fdin.accept \subseteq Names /\ fdin.read \subseteq 1 .. Cardinality(Client)
    /\ \A t \in {handles, dst} : \A k \in DOMAIN t : t[k].fd \in Nat /\ t[k].vname \in Names
    /\ Len(handles) <= MaxHandles
    /\ Range(conn) \subseteq Client /\ commands \subseteq Names \X {"reboot", "halt"} \X Client
    /\ overloaded.clients \subseteq Client /\ overloaded.now \in BOOLEAN

\* A vserver is rebooted or halted only by a client inside of it, with what that
\* client asked for, although descriptors are used again within a round.
RightVserver ==
    \A x \in commands : x[1] = client[x[3]].of /\ x[2] = client[x[3]].cmd

\* Between two rounds the table and the open connections are the same: the
\* compaction of the table and the overload lose and leak none.
TableIsComplete ==
    pc = "select" =>
        /\ Table = DOMAIN conn
        /\ Cardinality(DOMAIN conn) = Len(handles)

\* The manager waits in read for one client, and lets the others wait, only
\* when an overload in this round freed a number that was ready and another client
\* got it.
ReadBlocksOnlyAfterOverload ==
    pc = "process" /\ i <= Len(handles) /\ IsSet =>
        Readable(Handle.fd) \/ overloaded.now

Sent(c)   == client[c].at = "written" /\ Valid(c)
Served(c) == (\E x \in commands : x[3] = c) \/ c \in overloaded.clients

\* A request that was sent is carried out, unless the manager threw it out.
RequestIsServed == \A c \in Client : Sent(c) ~> Served(c)
=============================================================================
