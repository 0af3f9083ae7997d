---------------------------- MODULE StartVservers ---------------------------
(***************************************************************************)
(* scripts/start-vservers, which starts or stops a group of vservers, and  *)
(* scripts/vserver-wrapper, the initscript around it.  The script selects  *)
(* vservers, writes a Makefile with one target per vserver and the         *)
(* dependencies of apps/init/depends as prerequisites, lets 'make -k -j'   *)
(* run it and makes an exit code of two files of dots: one gets a dot when *)
(* a vserver has to be started or stopped, the other one when a target is  *)
(* through.                                                                *)
(*                                                                         *)
(* make is external: a target is remade once its prerequisites are, is     *)
(* given up when one of them failed, and everything else goes on (-k).     *)
(* Configurations are free of cycles; make drops an edge of a cycle.       *)
(***************************************************************************)
EXTENDS Naturals, FiniteSets

CONSTANTS
    Vserver,        \* names of vservers
    Configured,     \* the ones with a configuration: vserver-info finds a VDIR
    Disabled,       \* the ones with a file 'disabled'
    Marked,         \* the ones whose apps/init/mark is not empty
    OfMark,         \* the ones whose apps/init/mark holds MARK
    DependsSet,     \* the contents of apps/init/depends that are considered
    Requests,       \* the selections that are asked for
    Flavors,        \* start or stop
    Parallel        \* -j

Kinds == {"ALL", "MARKED", "UNMARKED", "STOPPED", "RUNNING", "MARK", "!MARK"}

ASSUME StartAssumption ==
    /\ IsFiniteSet(Vserver)
    /\ Configured \subseteq Vserver /\ Disabled \subseteq Vserver
    /\ OfMark \subseteq Marked
    /\ DependsSet \subseteq [Vserver -> SUBSET Vserver]
    /\ Requests \subseteq [names : SUBSET Vserver, kinds : SUBSET Kinds]
    /\ \A r \in Requests : Cardinality(r.kinds) <= 2
    /\ Flavors \subseteq {"start", "stop"}
    /\ Parallel \in Nat \ {0}

VARIABLES
    depends,    \* depends[v]: apps/init/depends of v
    up,         \* the vservers that run
    phase,      \* "idle", "write" (the Makefile), "make"
    flavor,     \* OPTION_FLAVOR
    wrapped,    \* vserver-wrapper is the caller
    vservers,   \* the selected vservers
    rules,      \* rules[v]: the prerequisites of .v.stamp
    job,        \* job[v]: the recipe of .v.stamp
    before,     \* the vservers that ran when make was started
    passed,     \* dots in $passedfile
    ok,         \* dots in $okfile
    exit,       \* the exit code of the last run; 3: none yet
    lockfile    \* the lock file of the initscript exists

call == <<depends, flavor, wrapped, vservers>>
vars == <<call, up, phase, rules, job, before, passed, ok, exit, lockfile>>

JobStates == {"none", "test", "cmd", "echo", "built", "failed"}

\* The variables have their types.
TypeOK ==
    /\ depends \in [Vserver -> SUBSET Vserver]
    /\ up \in SUBSET Configured /\ before \in SUBSET Configured
    /\ phase \in {"idle", "write", "make"}
    /\ flavor \in {"start", "stop"} /\ wrapped \in BOOLEAN
    /\ vservers \in SUBSET Vserver
    /\ rules \in [Vserver -> SUBSET Configured]
    /\ job \in [Vserver -> JobStates]
    /\ passed \in 0 .. Cardinality(Vserver)
    /\ ok \in 0 .. Cardinality(Vserver)
    /\ exit \in 0 .. 3
    /\ lockfile \in BOOLEAN

Init ==
    /\ depends \in DependsSet
    /\ up \in SUBSET Configured /\ before = {}
    /\ phase = "idle" /\ flavor = "start" /\ wrapped = FALSE /\ vservers = {}
    /\ rules = [v \in Vserver |-> {}]
    /\ job   = [v \in Vserver |-> "none"]
    /\ passed = 0 /\ ok = 0 /\ exit = 3
    /\ lockfile = FALSE

-----------------------------------------------------------------------------
(* Selecting.                                                              *)

getAllVservers(kind) ==
    {v \in Configured \ Disabled :
        CASE kind = "ALL"      -> TRUE
          [] kind = "MARKED"   -> v \in Marked
          [] kind = "UNMARKED" -> v \notin Marked
          [] kind = "STOPPED"  -> v \notin up
          [] kind = "RUNNING"  -> v \in up
          [] kind = "MARK"     -> v \in OfMark
          [] kind = "!MARK"    -> v \notin OfMark}

\* The criteria are taken together; without any, nothing is added.  (From the
\* third criterion on, --mark takes the counter of the loop for its value;
\* requests have at most two.)
getAllVserversByArg(kinds) ==
    {v \in Vserver : kinds # {} /\ \A k \in kinds : v \in getAllVservers(k)}

\* What vserver-wrapper asks for: -m "$MARK" --all
WrapperRequest == [names |-> {}, kinds |-> {"MARK", "ALL"}]

select(r, fl) ==
    /\ phase = "idle" /\ phase' = "write"
    /\ flavor'   = fl
    /\ wrapped'  = (r = WrapperRequest)
    /\ vservers' = r.names \cup getAllVserversByArg(r.kinds)
    /\ UNCHANGED <<depends, up, rules, job, before, passed, ok, exit, lockfile>>

-----------------------------------------------------------------------------
(* The Makefile.                                                           *)

verifyVserver(V) == V \cap Configured

\* The vservers a rule is written for: the selected ones and what is mentioned
\* in their own 'depends'.
Processed == verifyVserver(vservers \cup UNION {depends[v] : v \in vservers})

\* Fault: only the 'depends' of the selected vservers are read.
StartRule_SelectedOnly(v) ==
    IF v \in vservers THEN verifyVserver(depends[v]) ELSE {}

\* .v.stamp: its dependencies
StartRule(v) == IF v \in Processed THEN verifyVserver(depends[v]) ELSE {}

\* .dep.stamp: .v.stamp for every dep in 'depends' of v
StopRule(v) == IF v \in Configured
               THEN {w \in Processed : v \in depends[w]} ELSE {}

writeMakefile ==
    /\ phase = "write" /\ phase' = "make"
    /\ rules'  = [v \in Vserver |-> IF flavor = "start" THEN StartRule(v)
                                                        ELSE StopRule(v)]
    /\ job'    = [v \in Vserver |-> "none"]
    /\ before' = up
    /\ passed' = 0 /\ ok' = 0
    /\ UNCHANGED <<call, up, exit, lockfile>>

-----------------------------------------------------------------------------
(* make                                                                    *)

Goals == verifyVserver(vservers)

\* The targets 'all' leads to: the least set with the goals and, for each of its
\* members, the prerequisites.
Needed ==
    {v \in Vserver : \A S \in SUBSET Vserver :
        Goals \subseteq S /\ (\A w \in S : rules[w] \subseteq S) => v \in S}

Busy == {v \in Vserver : job[v] \in {"test", "cmd", "echo"}}

Become(v, s) == job' = [job EXCEPT ![v] = s]

makeRuns(v) ==
    /\ phase = "make" /\ job[v] = "none" /\ v \in Needed
    /\ \A w \in rules[v] : job[w] = "built"
    /\ Cardinality(Busy) < Parallel
    /\ Become(v, "test")
    /\ UNCHANGED <<call, up, phase, rules, before, passed, ok, exit, lockfile>>

\* Fault: a prerequisite that failed is tried once more, as often as it fails.
makeGivesUp_Retries(v) ==
    /\ phase = "make" /\ job[v] = "none" /\ v \in Needed
    /\ \E w \in rules[v] : job[w] = "failed" /\ Become(w, "cmd")
    /\ UNCHANGED <<call, up, phase, rules, before, passed, ok, exit, lockfile>>

makeGivesUp(v) ==
    /\ phase = "make" /\ job[v] = "none" /\ v \in Needed
    /\ \E w \in rules[v] : job[w] = "failed"
    /\ Become(v, "failed")
    /\ UNCHANGED <<call, up, phase, rules, before, passed, ok, exit, lockfile>>

\* test_cmd, and the dot for a vserver there is something to do for
recipeTest(v) ==
    /\ job[v] = "test"
    /\ IF flavor = "start" <=> v \in up
       THEN Become(v, "echo") /\ UNCHANGED passed
       ELSE Become(v, "cmd")  /\ passed' = passed + 1
    /\ UNCHANGED <<call, up, phase, rules, before, ok, exit, lockfile>>

\* vserver --sync <v> start|stop
recipeVserver(v) ==
    /\ job[v] = "cmd"
    /\ \/ /\ up' = IF flavor = "start" THEN up \cup {v} ELSE up \ {v}
          /\ Become(v, "echo")
       \/ UNCHANGED up /\ Become(v, "failed")
    /\ UNCHANGED <<call, phase, rules, before, passed, ok, exit, lockfile>>

\* Fault: the stamp is not touched, make tries again.
recipeEcho_NoTouch(v) ==
    /\ job[v] = "echo" /\ Become(v, "none")
    /\ ok' = ok + 1
    /\ UNCHANGED <<call, up, phase, rules, before, passed, exit, lockfile>>

\* The dot for the target that is through, and touch.
recipeEcho(v) ==
    /\ job[v] = "echo" /\ Become(v, "built")
    /\ ok' = ok + 1
    /\ UNCHANGED <<call, up, phase, rules, before, passed, exit, lockfile>>

-----------------------------------------------------------------------------
(* The end.                                                                *)

\* Fault: the two files are not compared.
ExitCode_NoCmp == IF passed = 0 THEN 0 ELSE IF ok = 0 THEN 1 ELSE 0

ExitCode == IF passed = 0 THEN 0
            ELSE IF ok = 0 THEN 1
            ELSE IF passed # ok THEN 2
            ELSE 0

\* Fault: a partial success counts as a failure.
endResult_Partial(rc) == rc

\* _endResult of vserver-init.functions
endResult(rc) == IF rc = 2 THEN 0 ELSE rc

\* start of vserver-wrapper touches the lock file after a success, stop
\* removes it.
wrapper(rc) ==
    lockfile' = IF ~wrapped THEN lockfile
                ELSE IF flavor = "stop" THEN FALSE
                ELSE lockfile \/ endResult(rc) = 0

finish ==
    /\ phase = "make" /\ \A v \in Needed : job[v] \in {"built", "failed"}
    /\ phase' = "idle" /\ exit' = ExitCode
    /\ wrapper(ExitCode)
    /\ UNCHANGED <<call, up, rules, job, before, passed, ok>>

-----------------------------------------------------------------------------
MakeStep == \E v \in Vserver : \/ makeRuns(v) \/ makeGivesUp(v)
                               \/ recipeTest(v) \/ recipeVserver(v)
                               \/ recipeEcho(v)

Next == \/ \E r \in Requests, fl \in Flavors : select(r, fl)
        \/ writeMakefile
        \/ MakeStep
        \/ finish

Spec == Init /\ [][Next]_vars

\* The script, make and the commands make runs go on; nobody need ask again.
FairSpec == Spec /\ WF_vars(writeMakefile \/ MakeStep \/ finish)

-----------------------------------------------------------------------------
(* Properties.                                                             *)

Starting(v) == job[v] = "cmd" /\ flavor = "start"
Stopping(v) == job[v] = "cmd" /\ flavor = "stop"

\* "This file is used to configure vservers which must be running before the
\* current vserver can be started" (doc/configuration.xml), for the vservers a
\* rule was written for, whatever fails and however many jobs run at a time.
DependsFirst ==
    \A v \in Processed : Starting(v) => verifyVserver(depends[v]) \subseteq up

\* The same for every vserver that start-vservers starts.
DependsFirstAlways ==
    \A v \in Vserver : Starting(v) => verifyVserver(depends[v]) \subseteq up

\* "At shutdown, the current vserver will be stopped before its dependencies":
\* a vserver is not stopped while one of the group that depends on it is up.
DependentsFirst ==
    \A v \in Vserver : Stopping(v) => \A w \in Processed : v \in depends[w] => w \notin up

\* The rules that start-vservers writes keep the order of the dependencies, both
\* at start and at shutdown.
InOrder == DependsFirst /\ DependentsFirst

\* An exit code of 0 means that all selected vservers came to the state asked
\* for, provided none of the targets was in that state before; one that was
\* puts a dot into $okfile that makes up for one failure.
ZeroIsSuccess ==
    phase = "idle" /\ exit = 0 =>
        \/ \A v \in Goals : flavor = "start" <=> v \in up
        \/ \E v \in Needed : flavor = "start" <=> v \in before

\* An initscript that started a vserver is taken for started by 'status', by
\* 'condrestart' and by the shutdown, however many others failed.
StartedIsRecorded ==
    [][finish /\ wrapped /\ flavor = "start" /\ up # before => lockfile']_vars

\* After a failed dependency, too, the run comes to its end.
RunEnds == phase = "make" ~> phase = "idle"
=============================================================================
