------------------------------- MODULE Tools --------------------------------
(***************************************************************************)
(* The library and the tools that ask or change one thing, side by side: a *)
(* behaviour is a behaviour of the component "which", and the variables    *)
(* are those of that component, in the order of its declarations.          *)
(***************************************************************************)
EXTENDS Integers, Sequences

CONSTANTS
    Kernels, MaxCalls,                                        \* Dispatch
    Kinds, Lists,                                             \* TextLists
    Guest, GuestXid, Cases, MaxGuestSteps,                    \* GuestLookup
    Value, MaxCount, MaxOps,                                  \* Containers
    Reporting, ReportPid, ReportXid, Worlds, Amounts, MaxEvents, MaxFds, \* Reports
    Trees, Calls, Tag, HASH_SIZE, MaxMoves,                   \* FileTools
    Jobs, Fs, Modulus, KillPid, KillXid, MaxFailures,         \* Limits
    Configs, MaxFailing                                       \* Units

VARIABLES which, s1, s2, s3, s4, s5, s6, s7, s8, s9, s10, s11, s12, s13

all == <<which, s1, s2, s3, s4, s5, s6, s7, s8, s9, s10, s11, s12, s13>>

DI == INSTANCE Dispatch WITH
        kernel <- s1, lib <- s2, cached <- s3, kept <- s4, errno <- s5, call <- s6,
        chosen <- s7, result <- s8, calls <- s9

ASSUME KernelsAssumption == Kernels \subseteq [ver : Nat, conf : SUBSET STRING]

TL == INSTANCE TextLists WITH
        kind <- s1, parser <- s2, job <- s3, todo <- s4, done <- s5, flag <- s6, mask <- s7,
        start <- s8, names <- s9

ASSUME KindsAssumption == Kinds \subseteq DOMAIN TL!Parsers
ASSUME ListsAssumption == Lists \subseteq Seq(TL!Element)

GL == INSTANCE GuestLookup WITH Xid <- GuestXid, MaxSteps <- MaxGuestSteps,
        conf <- s1, q <- s2, ctx <- s3, run <- s4, rev <- s5, pc <- s6, res <- s7,
        name <- s8, out <- s9, was <- s10, steady <- s11, steps <- s12

CO == INSTANCE Containers WITH
        kind <- s1, cells <- s2, count <- s3, touched <- s4, root <- s5, link <- s6,
        data <- s7, abs <- s8, found <- s9, key <- s10, ops <- s11

RP == INSTANCE Reports WITH Pid <- ReportPid, Xid <- ReportXid, Tools <- Reporting, MaxSteps <- MaxEvents,
        tool <- s1, pc <- s2, procs <- s3, names <- s4, clock <- s5, at <- s6, cur <- s7,
        vec <- s8, fds <- s9, shown <- s10, was <- s11, steps <- s12

FT == INSTANCE FileTools WITH MaxSteps <- MaxMoves,
        call <- s1, pc <- s2, now <- s3, stack <- s4, cwd <- s5, st <- s6, handled <- s7,
        err <- s8, xid <- s9, ht <- s10, sum <- s11, steps <- s12, strayed <- s13

LI == INSTANCE Limits WITH Pid <- KillPid, Xid <- KillXid, MaxSteps <- MaxFailures,
        job <- s1, pc <- s2, i <- s3, added <- s4, dl <- s5, owner <- s6, task <- s7,
        seen <- s8, hit <- s9, mapped <- s10, result <- s11, steps <- s12

UN == INSTANCE Units WITH MaxSteps <- MaxFailing,
        conf <- s1, pc <- s2, g <- s3, l <- s4, rc <- s5, res <- s6, target <- s7,
        depdir <- s8, units <- s9, failed <- s10, steps <- s11

ASSUME ConfigsAssumption == \A c \in Configs : UN!Directory(c)
ASSUME MaxFailingAssumption == MaxFailing \in Nat

-----------------------------------------------------------------------------
Rest9 == s10 = "unused" /\ s11 = "unused" /\ s12 = "unused" /\ s13 = "unused"
Rest11 == s12 = "unused" /\ s13 = "unused"
Rest12 == s13 = "unused"

Init ==
    \/ which = "dispatch" /\ DI!Init /\ Rest9
    \/ which = "lists" /\ TL!Init /\ Rest9
    \/ which = "lookup" /\ GL!Init /\ Rest12
    \/ which = "containers" /\ CO!Init /\ Rest11
    \/ which = "reports" /\ RP!Init /\ Rest12
    \/ which = "files" /\ FT!Init
    \/ which = "limits" /\ LI!Init /\ Rest12
    \/ which = "units" /\ UN!Init /\ Rest11

Keep9 == UNCHANGED <<which, s10, s11, s12, s13>>
Keep11 == UNCHANGED <<which, s12, s13>>
Keep12 == UNCHANGED <<which, s13>>

Next ==
    \/ which = "dispatch" /\ DI!Next /\ Keep9
    \/ which = "lists" /\ TL!Next /\ Keep9
    \/ which = "lookup" /\ GL!Next /\ Keep12
    \/ which = "containers" /\ CO!Next /\ Keep11
    \/ which = "reports" /\ RP!Next /\ Keep12
    \/ which = "files" /\ FT!Next /\ UNCHANGED which
    \/ which = "limits" /\ LI!Next /\ Keep12
    \/ which = "units" /\ UN!Next /\ Keep11

\* A process that asks the library goes on.
Spec == Init /\ [][Next]_all /\ WF_all(which = "lookup" /\ GL!Lookup /\ Keep12)

-----------------------------------------------------------------------------
(* The properties of the components, for the behaviours that are theirs.   *)

\* libvserver and its Python binding (syscall_*.c, issupported.c, listparser.hc,
\* val2text.hc): of the versions a kernel has the newest is called, ENOSYS means that it
\* has none, what vc_isSupported says is there can be called unless the kept probe
\* failed, and Python sees a failure, but for two masks; of the words of a list the last
\* says what a bit is, and a printed value is short and reads as that value.
LibraryIsExact ==
    /\ which = "dispatch" =>
          DI!TypeOK /\ DI!NewestOne /\ DI!EnosysIffMissing /\ DI!SupportedIsCallable /\ DI!FailureIsSeen
    /\ which = "lists" => TL!TypeOK /\ TL!LastWins /\ TL!Readable /\ TL!ShortestName

\* vc_getVserverCtx and vc_getVserverByCtx, while guests stop and start: the context
\* that is reported was the guest's during the lookup, a guest that runs all the time
\* is found, a guest is named only when its run file and the context agree, and a query
\* ends but for the search of an init process that is not there (vserver-info).
GuestsAreFound ==
    /\ [](which = "lookup" => GL!TypeOK /\ GL!OwnContext /\ GL!RunningIsFound /\ GL!NameIsMutual)
    /\ <>(which = "lookup" => GL!Answered)

\* ensc_vector: a vector or a list holds what the calls put there, in the order they
\* promise; no call touches memory that is not allocated, the cell behind the end
\* included; a search finds exactly what is there.
ContainersHold ==
    /\ [](which = "containers" => CO!TypeOK /\ CO!Holds /\ CO!InBounds)
    /\ [][which = "containers" => CO!SearchIsRight]_all

\* vserver-stat (registerXid, getUptime, get_process_info) and vps (resolveCtx), while
\* processes and guests come and go: counts and names are of what was there, no context
\* is younger than nothing, a descriptor is lost only for a process that ended between
\* open and read (cgroups left out), and amounts fit their columns.
ReportsAreTrue ==
    which = "reports" =>
        /\ RP!TypeOK /\ RP!CountsAreTrue /\ RP!UptimeIsSane /\ RP!NameWasTrue
        /\ RP!LostOnlyInRace /\ RP!FitsColumn

\* fstool (iterateFilesystem, safeChdir), its four tools, and vdu: every file is handled
\* once, none outside of the tree whatever the guest puts in the place of a directory,
\* unless fstool went on from a directory it had refused; failures are counted, unified
\* files stay with all, and an inode is counted once.
WalksAreComplete ==
    which = "files" =>
        /\ FT!TypeOK /\ FT!HandledOnce /\ FT!WalkStaysInside /\ FT!FailureIsCounted
        /\ FT!UnifiedKept /\ FT!InodesOnce

\* vdlimit (setDlimit), vkill (kill_wrapper) and vdevmap: no entry is left that was added
\* and could not be set, success means that what was told is set, sent or mapped, a
\* usage never exceeds its total, and nobody but who was asked for is signalled,
\* whoever got the pid meanwhile.
LimitsAreKept ==
    /\ [](which = "limits" =>
            /\ LI!TypeOK /\ LI!NoHalfLimit /\ LI!SuccessIsSet /\ LI!UsedBelowTotal
            /\ LI!SuccessIsSent /\ LI!MappedAsTold)
    /\ [][which = "limits" => LI!HitsAreAsked]_all

\* systemd-vserver-generator (generate_units, mark_handler, depends_handler,
\* systemd_escape): whatever fails for one guest, the others have all of their units;
\* success means that every unit is there, but for what could not be looked at; two
\* names without a backslash are never the same unit.
UnitsAreComplete ==
    which = "units" => UN!TypeOK /\ UN!OthersComplete /\ UN!SuccessIsComplete /\ UN!NamesAreKept
=============================================================================
