------------------------ MODULE StartVserversProofs -------------------------
(***************************************************************************)
(* For every set of vservers, every configuration, every selection and     *)
(* every number of jobs: the order that the rules keep, what an exit code  *)
(* of 0 says, and that a start is recorded.                                *)
(***************************************************************************)
EXTENDS StartVservers, FiniteSetTheorems, TLAPS

Built  == {v \in Vserver : job[v] = "built"}
Tested == {v \in Vserver : job[v] \notin {"none", "test"}}

\* The targets that got past test_cmd and did not fail.
Through == {v \in Vserver : job[v] \in {"cmd", "echo", "built"}}

\* v is in the state that was asked for, if V are the ones that run.
Asked(v, V) == flavor = "start" <=> v \in V

\* What make and the recipe know of a target: it is one of the needed ones, its
\* prerequisites are made before it, and the vserver is as it was until the
\* command is through.
JobInv(v) ==
    /\ job[v] # "none" => v \in Needed
    /\ job[v] \in {"test", "cmd", "echo", "built"} =>
          \A w \in rules[v] : job[w] = "built"
    /\ job[v] \in {"none", "test", "cmd", "failed"} => (v \in up <=> v \in before)
    /\ job[v] \in {"echo", "built"} => Asked(v, up)

\* The dots.  When there was something to do for every target, the ones that got
\* through have their dot in $passedfile, and the first one that failed has one.
DotsInv ==
    /\ ok = Cardinality(Built)
    /\ passed <= Cardinality(Tested)
    /\ (\A v \in Needed : ~Asked(v, before)) =>
          /\ passed >= Cardinality(Through)
          /\ (\E v \in Vserver : job[v] = "failed") => passed > Cardinality(Through)

RulesInv ==
    \A v \in Vserver : rules[v] = IF flavor = "start" THEN StartRule(v) ELSE StopRule(v)

IInv ==
    /\ TypeOK
    /\ phase # "make" => \A v \in Vserver : job[v] \notin {"test", "cmd", "echo"}
    /\ phase = "make" => RulesInv /\ (\A v \in Vserver : JobInv(v)) /\ DotsInv
    /\ ZeroIsSuccess

-----------------------------------------------------------------------------
(* The targets, and counting them.                                         *)

\* What make needs is configured, the goals included.
LEMMA NeededSets ==
    ASSUME TypeOK
    PROVE  Needed \in SUBSET Configured /\ Goals \subseteq Needed
<1>1. Configured \in SUBSET Vserver /\ Goals \subseteq Configured
  BY StartAssumption DEF Goals, verifyVserver
<1>2. \A w \in Configured : rules[w] \subseteq Configured
  BY <1>1 DEF TypeOK
<1>3. Needed \subseteq Configured
  BY <1>1, <1>2 DEF Needed
<1>4. Goals \subseteq Needed
  BY <1>1 DEF Needed
<1> QED
  BY <1>3, <1>4

\* Cardinalities of sets of guests.
LEMMA Counting ==
    ASSUME NEW S \in SUBSET Vserver
    PROVE  /\ IsFiniteSet(S) /\ Cardinality(S) \in Nat
           /\ Cardinality(Vserver) \in Nat /\ Cardinality(S) <= Cardinality(Vserver)
           /\ \A v \in Vserver \ S : Cardinality(S \cup {v}) = Cardinality(S) + 1
           /\ \A v \in S : Cardinality(S \ {v}) = Cardinality(S) - 1
<1>1. IsFiniteSet(Vserver)
  BY StartAssumption
<1>2. IsFiniteSet(S) /\ Cardinality(S) <= Cardinality(Vserver)
  BY <1>1, FS_Subset
<1>3. Cardinality(S) \in Nat /\ Cardinality(Vserver) \in Nat
  BY <1>1, <1>2, FS_CardinalityType
<1>4. \A v \in Vserver \ S : Cardinality(S \cup {v}) = Cardinality(S) + 1
  BY <1>2, FS_AddElement
<1>5. \A v \in S : Cardinality(S \ {v}) = Cardinality(S) - 1
  BY <1>2, FS_RemoveElement
<1> QED
  BY <1>2, <1>3, <1>4, <1>5

\* One target changes its state: what that does to the three sets.
LEMMA OneTarget ==
    ASSUME TypeOK, NEW v \in Vserver, NEW s \in JobStates, Become(v, s)
    PROVE  /\ job' \in [Vserver -> JobStates]
           /\ job'[v] = s /\ \A w \in Vserver \ {v} : job'[w] = job[w]
           /\ Built' = IF s = "built" THEN Built \cup {v} ELSE Built \ {v}
           /\ Tested' = IF s \notin {"none", "test"} THEN Tested \cup {v} ELSE Tested \ {v}
           /\ Through' = IF s \in {"cmd", "echo", "built"} THEN Through \cup {v}
                         ELSE Through \ {v}
<1>1. /\ job' \in [Vserver -> JobStates]
      /\ job'[v] = s /\ \A w \in Vserver \ {v} : job'[w] = job[w]
  BY DEF TypeOK, Become
<1>2. Built' = IF s = "built" THEN Built \cup {v} ELSE Built \ {v}
  BY <1>1 DEF Built
<1>3. Tested' = IF s \notin {"none", "test"} THEN Tested \cup {v} ELSE Tested \ {v}
  BY <1>1 DEF Tested
<1>4. Through' = IF s \in {"cmd", "echo", "built"} THEN Through \cup {v} ELSE Through \ {v}
  BY <1>1 DEF Through
<1> QED
  BY <1>1, <1>2, <1>3, <1>4

\* What a step of make that leaves up alone keeps of the other targets.
LEMMA Targets ==
    ASSUME IInv, phase = "make", UNCHANGED <<call, phase, rules, before, exit>>,
           NEW v \in Vserver, NEW s \in JobStates, Become(v, s), job[v] # "built",
           \A w \in Vserver \ {v} : w \in up' <=> w \in up
    PROVE  /\ Needed' = Needed /\ RulesInv'
           /\ \A w \in Vserver \ {v} : JobInv(w)'
           /\ \A w \in Vserver : Asked(w, before)' <=> Asked(w, before)
           /\ ZeroIsSuccess'
           /\ phase' = "make"
<1>a. rules' = rules /\ vservers' = vservers /\ flavor' = flavor /\ before' = before
  BY DEF call
<1>b. Goals' = Goals
  BY <1>a DEF Goals, verifyVserver
<1>c. Needed' = Needed
  BY <1>a, <1>b DEF Needed
<1>1. /\ Needed' = Needed
      /\ \A w \in Vserver : Asked(w, before)' <=> Asked(w, before)
  BY <1>a, <1>c DEF Asked
<1>2. RulesInv'
  <2>1. Processed' = Processed /\ depends' = depends
    BY DEF Processed, verifyVserver, call
  <2>2. \A w \in Vserver : StartRule(w)' = StartRule(w) /\ StopRule(w)' = StopRule(w)
    BY <2>1 DEF StartRule, StopRule, verifyVserver
  <2> QED
    BY <1>a, <2>2 DEF RulesInv, IInv
<1>3. job'[v] = s /\ \A w \in Vserver \ {v} : job'[w] = job[w]
  BY OneTarget DEF IInv
<1>4. ASSUME NEW w \in Vserver \ {v} PROVE JobInv(w)'
  <2>1. JobInv(w) /\ rules[w] \in SUBSET Vserver
    BY StartAssumption DEF IInv, TypeOK
  <2>2. \A x \in rules[w] : job[x] = "built" => job'[x] = "built"
    BY <1>3, <2>1
  <2> QED
    BY <1>1, <1>3, <2>1, <2>2 DEF JobInv, Asked, call
<1> QED
  BY <1>1, <1>2, <1>4 DEF ZeroIsSuccess

-----------------------------------------------------------------------------
(* The steps.                                                              *)

\* A step of make or of a recipe.
LEMMA MakeKeeps == ASSUME IInv, MakeStep PROVE IInv'
<1>1. PICK v \in Vserver : \/ makeRuns(v) \/ makeGivesUp(v) \/ recipeTest(v)
                           \/ recipeVserver(v) \/ recipeEcho(v)
  BY DEF MakeStep
<1>2. phase = "make" /\ TypeOK /\ JobInv(v) /\ RulesInv /\ DotsInv
  BY <1>1 DEF makeRuns, makeGivesUp, recipeTest, recipeVserver, recipeEcho, IInv
<1>3. /\ Built \in SUBSET Vserver /\ Tested \in SUBSET Vserver
      /\ Through \in SUBSET Vserver /\ Built \subseteq Through
  BY DEF Built, Tested, Through
<1>4. /\ Cardinality(Built) \in Nat /\ Cardinality(Tested) \in Nat
      /\ Cardinality(Through) \in Nat /\ passed \in Nat
  BY <1>2, <1>3, Counting DEF TypeOK
<1>5. Needed \subseteq Configured /\ Configured \subseteq Vserver
  BY <1>2, NeededSets, StartAssumption
<1>6. ASSUME DotsInv', passed' \in Nat
      PROVE  passed' \in 0 .. Cardinality(Vserver) /\ ok' \in 0 .. Cardinality(Vserver)
  <2>1. Built' \in SUBSET Vserver /\ Tested' \in SUBSET Vserver
    BY DEF Built, Tested
  <2>2. /\ Cardinality(Built') \in Nat /\ Cardinality(Built') <= Cardinality(Vserver)
        /\ Cardinality(Tested') \in Nat /\ Cardinality(Tested') <= Cardinality(Vserver)
        /\ Cardinality(Vserver) \in Nat
    BY <2>1, Counting
  <2> QED
    BY <1>6, <2>2 DEF DotsInv
\* It is enough to look at the target itself and at the dots.
<1>7. ASSUME NEW s \in JobStates, Become(v, s), job[v] # "built",
             UNCHANGED <<call, phase, rules, before, exit, lockfile>>,
             up' \in SUBSET Configured, \A w \in Vserver \ {v} : w \in up' <=> w \in up,
             Needed' = Needed => JobInv(v)', passed' \in Nat,
             /\ Needed' = Needed /\ \A w \in Vserver : Asked(w, before)' <=> Asked(w, before)
             => DotsInv'
      PROVE  IInv'
  <2>1. /\ Needed' = Needed /\ RulesInv' /\ ZeroIsSuccess' /\ phase' = "make"
        /\ \A w \in Vserver : Asked(w, before)' <=> Asked(w, before)
        /\ \A w \in Vserver \ {v} : JobInv(w)'
    BY <1>2, <1>7, Targets
  <2>2. DotsInv' /\ \A w \in Vserver : JobInv(w)'
    BY <1>7, <2>1
  <2>3. passed' \in 0 .. Cardinality(Vserver) /\ ok' \in 0 .. Cardinality(Vserver)
    BY <1>6, <1>7, <2>2
  <2>4. job' \in [Vserver -> JobStates]
    BY <1>2, <1>7, OneTarget
  <2>5. TypeOK'
    BY <1>2, <1>7, <2>3, <2>4 DEF TypeOK, call
  <2> QED
    BY <2>1, <2>2, <2>5 DEF IInv
<1>8. CASE makeRuns(v)
  <2>1. /\ Become(v, "test") /\ job[v] = "none" /\ "test" \in JobStates
        /\ UNCHANGED <<call, up, phase, rules, before, passed, ok, exit, lockfile>>
    BY <1>8 DEF makeRuns, JobStates
  <2>2. /\ job'[v] = "test" /\ \A w \in Vserver \ {v} : job'[w] = job[w]
        /\ Built' = Built \ {v} /\ Tested' = Tested \ {v} /\ Through' = Through \ {v}
    BY <1>2, <2>1, OneTarget
  <2>3. Built' = Built /\ Tested' = Tested /\ Through' = Through
    BY <2>1, <2>2 DEF Built, Tested, Through
  <2>4. ASSUME Needed' = Needed PROVE JobInv(v)'
    <3>1. \A w \in rules[v] : w # v /\ job[w] = "built" /\ w \in Vserver
      BY <1>2, <1>5, <1>8, <2>1 DEF makeRuns, TypeOK
    <3> QED
      BY <1>2, <1>8, <2>1, <2>2, <2>4, <3>1 DEF JobInv, makeRuns
  <2>5. ASSUME Needed' = Needed, \A w \in Vserver : Asked(w, before)' <=> Asked(w, before)
        PROVE  DotsInv'
    BY <1>2, <1>5, <2>1, <2>2, <2>3, <2>5 DEF DotsInv
  <2> QED
    BY <1>2, <1>4, <1>7, <2>1, <2>4, <2>5 DEF TypeOK
<1>9. CASE makeGivesUp(v)
  <2>1. /\ Become(v, "failed") /\ job[v] = "none" /\ "failed" \in JobStates
        /\ UNCHANGED <<call, up, phase, rules, before, passed, ok, exit, lockfile>>
    BY <1>9 DEF makeGivesUp, JobStates
  <2>2. /\ job'[v] = "failed" /\ \A w \in Vserver \ {v} : job'[w] = job[w]
        /\ Built' = Built \ {v} /\ Tested' = Tested \cup {v} /\ Through' = Through \ {v}
    BY <1>2, <2>1, OneTarget
  <2>3. Built' = Built /\ Through' = Through /\ v \notin Tested
    BY <2>1, <2>2 DEF Built, Tested, Through
  <2>4. Cardinality(Tested') = Cardinality(Tested) + 1
    BY <1>3, <2>2, <2>3, Counting
  <2>5. ASSUME Needed' = Needed PROVE JobInv(v)'
    BY <1>2, <1>9, <2>1, <2>2, <2>5 DEF JobInv, makeGivesUp
  <2>6. ASSUME Needed' = Needed, \A w \in Vserver : Asked(w, before)' <=> Asked(w, before)
        PROVE  DotsInv'
    <3>1. \E w \in Vserver : job[w] = "failed"
      BY <1>2, <1>5, <1>9 DEF makeGivesUp, TypeOK
    <3> QED
      BY <1>2, <1>4, <1>5, <2>1, <2>3, <2>4, <2>6, <3>1 DEF DotsInv
  <2> QED
    BY <1>2, <1>4, <1>7, <2>1, <2>5, <2>6 DEF TypeOK
<1>10. CASE recipeTest(v)
  <2>1. PICK s \in {"cmd", "echo"} :
             /\ Become(v, s) /\ (s = "echo" <=> Asked(v, up))
             /\ passed' = IF s = "echo" THEN passed ELSE passed + 1
    BY <1>10 DEF recipeTest, Asked
  <2>2. /\ job[v] = "test" /\ s \in JobStates
        /\ UNCHANGED <<call, up, phase, rules, before, ok, exit, lockfile>>
    BY <1>10 DEF recipeTest, JobStates
  <2>3. /\ job'[v] = s /\ \A w \in Vserver \ {v} : job'[w] = job[w]
        /\ Built' = Built \ {v} /\ Tested' = Tested \cup {v} /\ Through' = Through \cup {v}
    BY <1>2, <2>1, <2>2, OneTarget
  <2>4. Built' = Built /\ v \notin Through /\ v \notin Tested
    BY <2>2, <2>3 DEF Built, Tested, Through
  <2>5. /\ Cardinality(Tested') = Cardinality(Tested) + 1
        /\ Cardinality(Through') = Cardinality(Through) + 1
    BY <1>3, <2>3, <2>4, Counting
  <2>6. ASSUME Needed' = Needed PROVE JobInv(v)'
    <3>1. \A w \in rules[v] : job[w] = "built" /\ job'[w] = "built"
      <4>1. \A w \in rules[v] : w \in Vserver /\ w # v /\ job[w] = "built"
        BY <1>2, <1>5, <2>2 DEF JobInv, TypeOK
      <4> QED
        BY <2>3, <4>1
    <3> QED
      BY <1>2, <2>1, <2>2, <2>3, <2>6, <3>1 DEF JobInv, Asked, call
  <2>7. ASSUME Needed' = Needed, \A w \in Vserver : Asked(w, before)' <=> Asked(w, before)
        PROVE  DotsInv'
    <3>1. v \in Needed /\ (Asked(v, up) <=> Asked(v, before))
      BY <1>2, <2>2 DEF JobInv, Asked
    <3>2. (\A w \in Needed : ~Asked(w, before)) => passed' = passed + 1
      BY <2>1, <3>1
    <3>3. (\A w \in Needed : ~Asked(w, before))' => \A w \in Needed : ~Asked(w, before)
      BY <1>5, <2>7
    <3>4. (\E w \in Vserver : job'[w] = "failed") => \E w \in Vserver : job[w] = "failed"
      BY <2>1, <2>3
    <3>5. passed' <= passed + 1 /\ passed' \in Nat
      BY <1>4, <2>1
    <3>6. ok' = Cardinality(Built')
      BY <1>2, <2>2, <2>4 DEF DotsInv
    <3>7. passed' <= Cardinality(Tested')
      BY <1>2, <1>4, <2>5, <3>5 DEF DotsInv
    <3> QED
      BY <1>2, <1>4, <2>5, <3>2, <3>3, <3>4, <3>6, <3>7 DEF DotsInv
  <2> QED
    BY <1>2, <1>4, <1>7, <2>1, <2>2, <2>6, <2>7 DEF TypeOK
<1>11. CASE recipeVserver(v)
  <2>1. PICK s \in {"echo", "failed"} :
             /\ Become(v, s)
             /\ IF s = "failed" THEN up' = up
                ELSE up' = IF flavor = "start" THEN up \cup {v} ELSE up \ {v}
    BY <1>11 DEF recipeVserver
  <2>2. /\ job[v] = "cmd" /\ s \in JobStates
        /\ UNCHANGED <<call, phase, rules, before, passed, ok, exit, lockfile>>
    BY <1>11 DEF recipeVserver, JobStates
  <2>3. /\ job'[v] = s /\ \A w \in Vserver \ {v} : job'[w] = job[w]
        /\ Built' = Built \ {v} /\ Tested' = Tested \cup {v}
        /\ Through' = IF s = "echo" THEN Through \cup {v} ELSE Through \ {v}
    BY <1>2, <2>1, <2>2, OneTarget
  <2>4. Built' = Built /\ Tested' = Tested /\ v \in Through
    BY <2>2, <2>3 DEF Built, Tested, Through
  <2>5. /\ s = "echo" => Cardinality(Through') = Cardinality(Through)
        /\ s = "failed" => Cardinality(Through') = Cardinality(Through) - 1
    <3>1. s = "echo" => Through' = Through
      BY <2>3, <2>4
    <3>2. s = "failed" => Through' = Through \ {v}
      BY <2>3
    <3> QED
      BY <1>3, <2>4, <3>1, <3>2, Counting
  <2>6. v \in Configured /\ up' \in SUBSET Configured
    BY <1>2, <1>5, <2>1, <2>2 DEF JobInv, TypeOK
  <2>7. ASSUME Needed' = Needed PROVE JobInv(v)'
    <3>1. \A w \in rules[v] : job[w] = "built" /\ job'[w] = "built"
      <4>1. \A w \in rules[v] : w \in Vserver /\ w # v /\ job[w] = "built"
        BY <1>2, <1>5, <2>2 DEF JobInv, TypeOK
      <4> QED
        BY <2>3, <4>1
    <3>2. s = "echo" => Asked(v, up)'
      BY <1>2, <2>1, <2>2 DEF Asked, call, TypeOK
    <3> QED
      BY <1>2, <2>1, <2>2, <2>3, <2>7, <3>1, <3>2 DEF JobInv
  <2>8. ASSUME Needed' = Needed, \A w \in Vserver : Asked(w, before)' <=> Asked(w, before)
        PROVE  DotsInv'
    <3>1. (\A w \in Needed : ~Asked(w, before))' => \A w \in Needed : ~Asked(w, before)
      BY <1>5, <2>8
    <3>2. ok' = Cardinality(Built') /\ passed' <= Cardinality(Tested')
      BY <1>2, <2>2, <2>4 DEF DotsInv
    <3>3. s = "echo" /\ (\E w \in Vserver : job'[w] = "failed") =>
             \E w \in Vserver : job[w] = "failed"
      BY <2>3
    <3>4. CASE s = "echo"
      BY <1>2, <1>4, <2>2, <2>5, <3>1, <3>2, <3>3, <3>4 DEF DotsInv
    <3>5. CASE s = "failed"
      BY <1>2, <1>4, <2>2, <2>5, <3>1, <3>2, <3>5 DEF DotsInv
    <3> QED
      BY <2>1, <3>4, <3>5
  <2>9. \A w \in Vserver \ {v} : w \in up' <=> w \in up
    BY <2>1
  <2> QED
    BY <1>4, <1>7, <2>1, <2>2, <2>6, <2>7, <2>8, <2>9
<1>12. CASE recipeEcho(v)
  <2>1. /\ Become(v, "built") /\ job[v] = "echo" /\ "built" \in JobStates /\ ok' = ok + 1
        /\ UNCHANGED <<call, up, phase, rules, before, passed, exit, lockfile>>
    BY <1>12 DEF recipeEcho, JobStates
  <2>2. /\ job'[v] = "built" /\ \A w \in Vserver \ {v} : job'[w] = job[w]
        /\ Built' = Built \cup {v} /\ Tested' = Tested \cup {v} /\ Through' = Through \cup {v}
    BY <1>2, <2>1, OneTarget
  <2>3. Through' = Through /\ Tested' = Tested /\ v \notin Built
    BY <2>1, <2>2 DEF Built, Tested, Through
  <2>4. Cardinality(Built') = Cardinality(Built) + 1
    BY <1>3, <2>2, <2>3, Counting
  <2>5. ASSUME Needed' = Needed PROVE JobInv(v)'
    <3>1. \A w \in rules[v] : job'[w] = "built"
      <4>1. \A w \in rules[v] : w \in Vserver /\ w # v /\ job[w] = "built"
        BY <1>2, <1>5, <2>1 DEF JobInv, TypeOK
      <4> QED
        BY <2>2, <4>1
    <3> QED
      BY <1>2, <2>1, <2>2, <2>5, <3>1 DEF JobInv, Asked, call
  <2>6. ASSUME Needed' = Needed, \A w \in Vserver : Asked(w, before)' <=> Asked(w, before)
        PROVE  DotsInv'
    BY <1>2, <1>4, <1>5, <2>1, <2>2, <2>3, <2>4, <2>6 DEF DotsInv
  <2> QED
    BY <1>2, <1>4, <1>7, <2>1, <2>5, <2>6 DEF TypeOK
<1> QED
  BY <1>1, <1>8, <1>9, <1>10, <1>11, <1>12

\* The script selects its vservers; the targets of the last run are at rest.
LEMMA SelectKeeps ==
    ASSUME IInv, NEW r \in Requests, NEW fl \in Flavors, select(r, fl) PROVE IInv'
<1>1. r.names \subseteq Vserver /\ fl \in {"start", "stop"}
  BY StartAssumption
<1>2. vservers' \in SUBSET Vserver
  BY <1>1 DEF select, getAllVserversByArg
<1>3. TypeOK'
  BY <1>1, <1>2 DEF IInv, TypeOK, select
<1> QED
  BY <1>3 DEF IInv, select, ZeroIsSuccess

\* Writing the makefile keeps the invariant.
LEMMA WriteKeeps == ASSUME IInv, writeMakefile PROVE IInv'
<1>1. TypeOK /\ phase' = "make" /\ job' = [v \in Vserver |-> "none"]
  BY DEF IInv, writeMakefile
<1>2. Configured \subseteq Vserver /\ Processed \subseteq Configured
  BY StartAssumption DEF Processed, verifyVserver
<1>3. \A v \in Vserver : StartRule(v) \subseteq Configured /\ StopRule(v) \subseteq Configured
  BY <1>2 DEF StartRule, StopRule, verifyVserver
<1>4. rules' \in [Vserver -> SUBSET Configured]
  BY <1>3 DEF writeMakefile
<1>5. Cardinality(Vserver) \in Nat
  BY Counting
<1>6. TypeOK'
  BY <1>1, <1>4, <1>5 DEF writeMakefile, TypeOK, JobStates, call
<1>7. RulesInv'
  <2>1. Processed' = Processed /\ depends' = depends /\ flavor' = flavor
    BY DEF Processed, verifyVserver, call, writeMakefile
  <2>2. \A w \in Vserver : StartRule(w)' = StartRule(w) /\ StopRule(w)' = StopRule(w)
    BY <2>1 DEF StartRule, StopRule, verifyVserver
  <2> QED
    BY <2>1, <2>2 DEF RulesInv, writeMakefile
<1>8. ASSUME NEW v \in Vserver PROVE JobInv(v)'
  BY <1>1, <1>8 DEF JobInv, writeMakefile
<1>9. DotsInv'
  <2>1. Built' = {} /\ Tested' = {} /\ Through' = {}
    BY <1>1 DEF Built, Tested, Through
  <2>2. Cardinality({}) = 0
    BY FS_EmptySet
  <2>3. \A v \in Vserver : job'[v] # "failed"
    BY <1>1
  <2>4. passed' = 0 /\ ok' = 0
    BY DEF writeMakefile
  <2> QED
    BY <2>1, <2>2, <2>3, <2>4 DEF DotsInv
<1> QED
  BY <1>1, <1>6, <1>7, <1>8, <1>9 DEF IInv, ZeroIsSuccess

\* The exit code, from the dots.
LEMMA FinishKeeps == ASSUME IInv, finish PROVE IInv'
<1>1. /\ TypeOK /\ DotsInv /\ \A v \in Vserver : JobInv(v)
      /\ \A v \in Needed : job[v] \in {"built", "failed"}
      /\ UNCHANGED <<call, up, rules, job, before, passed, ok>>
      /\ phase' = "idle" /\ exit' = ExitCode
  BY DEF IInv, finish
<1>2. Needed \subseteq Vserver /\ Goals \subseteq Needed
  BY <1>1, NeededSets, StartAssumption
<1>3. \A v \in Vserver : job'[v] \notin {"test", "cmd", "echo"}
  BY <1>1, <1>2 DEF JobInv
<1>4. Goals' = Goals /\ Needed' = Needed
  <2>1. Goals' = Goals
    BY <1>1 DEF Goals, verifyVserver, call
  <2> QED
    BY <1>1, <2>1 DEF Needed
<1>5. lockfile' \in BOOLEAN
  BY <1>1 DEF finish, wrapper, TypeOK
<1>6. TypeOK'
  <2>1. ExitCode \in 0 .. 3
    BY DEF ExitCode
  <2> QED
    BY <1>1, <1>5, <2>1 DEF TypeOK, call
<1>7. ASSUME ExitCode = 0, \A v \in Needed : ~Asked(v, before)
      PROVE  \A v \in Goals : Asked(v, up)
  <2>1. Built \in SUBSET Vserver /\ Through \in SUBSET Vserver /\ Through = Built
    BY <1>1, <1>3 DEF Built, Through
  <2>2. Cardinality(Through) \in Nat /\ passed \in Nat
    BY <1>1, <2>1, Counting DEF TypeOK
  <2>3. passed = 0 \/ passed = ok
    BY <1>7 DEF ExitCode
  <2>4. \A v \in Vserver : job[v] # "failed"
    BY <1>1, <1>7, <2>1, <2>2, <2>3 DEF DotsInv
  <2>5. \A v \in Goals : job[v] = "built" /\ v \in Vserver
    BY <1>1, <1>2, <2>4
  <2> QED
    BY <1>1, <2>5 DEF JobInv
<1>8. ZeroIsSuccess'
  BY <1>1, <1>4, <1>7 DEF ZeroIsSuccess, Asked, call
<1> QED
  BY <1>1, <1>3, <1>6, <1>8 DEF IInv

\* The invariant holds before the makefile is written.
LEMMA Initially == Init => IInv
<1> SUFFICES ASSUME Init PROVE IInv
  OBVIOUS
<1>1. Cardinality(Vserver) \in Nat
  BY Counting
<1>2. TypeOK
  <2>1. depends \in [Vserver -> SUBSET Vserver]
    BY StartAssumption DEF Init
  <2>2. job \in [Vserver -> JobStates]
    BY DEF Init, JobStates
  <2>3. {} \in SUBSET Configured
    OBVIOUS
  <2>4. rules \in [Vserver -> SUBSET Configured]
    BY <2>3, Zenon DEF Init
  <2>5. up \in SUBSET Configured /\ before = {} /\ vservers = {}
    BY DEF Init
  <2>6. passed = 0 /\ ok = 0 /\ exit = 3
    BY DEF Init
  <2>7. /\ phase = "idle" /\ flavor = "start" /\ wrapped \in BOOLEAN /\ lockfile \in BOOLEAN
    BY DEF Init
  <2> QED
    BY <1>1, <2>1, <2>2, <2>4, <2>5, <2>6, <2>7 DEF TypeOK
<1>3. ZeroIsSuccess /\ phase = "idle" /\ \A v \in Vserver : job[v] = "none"
  BY DEF Init, ZeroIsSuccess
<1> QED
  BY <1>2, <1>3 DEF IInv

\* The invariant holds all the time.
LEMMA Invariance == Spec => []IInv
<1>1. IInv /\ [Next]_vars => IInv'
  <2> SUFFICES ASSUME IInv, [Next]_vars PROVE IInv'
    OBVIOUS
  <2>1. CASE UNCHANGED vars
    <3>1. /\ UNCHANGED <<call, up, phase, rules, job, before, passed, ok, exit, lockfile>>
          /\ UNCHANGED <<depends, flavor, wrapped, vservers>>
      BY <2>1 DEF vars, call
    <3>2. Goals' = Goals /\ Processed' = Processed
      BY <3>1 DEF Goals, Processed, verifyVserver
    <3>3. Needed' = Needed /\ (RulesInv => RulesInv')
      BY <3>1, <3>2 DEF Needed, RulesInv, StartRule, StopRule, verifyVserver
    <3>4. Built' = Built /\ Tested' = Tested /\ Through' = Through
      BY <3>1 DEF Built, Tested, Through
    <3>5. DotsInv => DotsInv'
      BY <3>1, <3>3, <3>4 DEF DotsInv, Asked
    <3>6. (\A v \in Vserver : JobInv(v)) => (\A v \in Vserver : JobInv(v))'
      BY <3>1, <3>3 DEF JobInv, Asked
    <3>7. ZeroIsSuccess'
      BY <3>1, <3>2, <3>3 DEF IInv, ZeroIsSuccess
    <3>8. TypeOK'
      BY <3>1 DEF IInv, TypeOK
    <3> QED
      BY <3>1, <3>3, <3>5, <3>6, <3>7, <3>8 DEF IInv
  <2> QED
    BY <2>1, SelectKeeps, WriteKeeps, MakeKeeps, FinishKeeps DEF Next
<1> QED
  BY <1>1, Initially, PTL DEF Spec

-----------------------------------------------------------------------------
(* The theorems.                                                           *)

\* The variables keep their types; the two files have at most a dot for each
\* vserver, and only vservers with a configuration are started.
THEOREM TypesHold == Spec => []TypeOK
<1>1. IInv => TypeOK
  BY DEF IInv
<1> QED
  BY <1>1, Invariance, PTL

\* The rules that start-vservers writes into its Makefile keep the order of
\* apps/init/depends at start and at shutdown, whatever the configuration, the
\* selection, the failures and the number of jobs.
THEOREM OrderIsKept == Spec => []InOrder
<1>1. ASSUME IInv PROVE InOrder
  <2>1. TypeOK /\ Needed \subseteq Configured /\ Configured \subseteq Vserver
    BY <1>1, NeededSets, StartAssumption DEF IInv
  <2>2. ASSUME NEW v \in Vserver, job[v] = "cmd"
        PROVE  /\ RulesInv /\ v \in Configured
               /\ \A w \in rules[v] : w \in Vserver /\ Asked(w, up)
    <3>1. RulesInv /\ \A w \in Vserver : JobInv(w)
      BY <1>1, <2>2 DEF IInv
    <3>2. v \in Needed /\ \A w \in rules[v] : w \in Vserver /\ job[w] = "built"
      BY <2>1, <2>2, <3>1 DEF JobInv, TypeOK
    <3> QED
      BY <2>1, <3>1, <3>2 DEF JobInv
  <2>3. ASSUME NEW v \in Processed, Starting(v) PROVE verifyVserver(depends[v]) \subseteq up
    <3>1. v \in Vserver
      BY <2>1 DEF Processed, verifyVserver
    <3>2. rules[v] = verifyVserver(depends[v]) /\ \A w \in rules[v] : Asked(w, up)
      BY <2>2, <2>3, <3>1 DEF RulesInv, StartRule, Starting
    <3> QED
      BY <2>3, <3>2 DEF Asked, Starting
  <2>4. ASSUME NEW v \in Vserver, Stopping(v), NEW w \in Processed, v \in depends[w]
        PROVE  w \notin up
    <3>1. w \in rules[v] /\ \A x \in rules[v] : Asked(x, up)
      BY <2>2, <2>4 DEF RulesInv, StopRule, Stopping
    <3> QED
      BY <2>4, <3>1 DEF Asked, Stopping
  <2> QED
    BY <2>3, <2>4 DEF InOrder, DependsFirst, DependentsFirst
<1> QED
  BY <1>1, Invariance, PTL

\* start-vservers returns 0 only when all selected vservers are in the state
\* asked for, unless one of the targets was in it before.
THEOREM ExitIsHonest == Spec => []ZeroIsSuccess
<1>1. IInv => ZeroIsSuccess
  BY DEF IInv
<1> QED
  BY <1>1, Invariance, PTL

\* vserver-wrapper touches its lock file whenever its start-vservers changed
\* what runs: the dot in $okfile keeps the exit code from being 1.
THEOREM StartIsRecorded == Spec => StartedIsRecorded
<1>1. ASSUME IInv, finish, wrapped, flavor = "start", up # before PROVE lockfile'
  <2>1. TypeOK /\ DotsInv /\ \A v \in Vserver : JobInv(v)
    BY <1>1 DEF IInv, finish
  <2>2. PICK v \in Vserver : ~(v \in up <=> v \in before)
    <3>1. PICK v : ~(v \in up <=> v \in before)
      BY <1>1
    <3> QED
      BY <2>1, <3>1, StartAssumption DEF TypeOK
  <2>3. job[v] \in {"echo", "built"} /\ v \in Needed
    BY <2>1, <2>2 DEF JobInv, TypeOK, JobStates
  <2>4. v \in Built /\ Built \in SUBSET Vserver
    BY <1>1, <2>3 DEF finish, Built
  <2>5. ok # 0
    BY <2>1, <2>4, Counting, FS_EmptySet DEF DotsInv
  <2>6. endResult(ExitCode) = 0
    BY <2>5 DEF ExitCode, endResult
  <2> QED
    BY <1>1, <2>6 DEF finish, wrapper
<1>2. IInv /\ [Next]_vars =>
         [finish /\ wrapped /\ flavor = "start" /\ up # before => lockfile']_vars
  BY <1>1
<1> QED
  BY <1>2, Invariance, PTL DEF Spec, StartedIsRecorded
=============================================================================
