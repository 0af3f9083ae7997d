---------------------------- MODULE ToolsProofs ----------------------------
(***************************************************************************)
(* systemd-vserver-generator, for every configuration and any number of    *)
(* calls that fail.                                                        *)
(***************************************************************************)
EXTENDS LibraryProofs, FiniteSetTheorems

\* The finite sets of Units are those of the theorems.
LEMMA SameFinite == \A S : UN!IsFiniteSet(S) <=> IsFiniteSet(S)
BY DEF UN!IsFiniteSet, IsFiniteSet

\* And so are their cardinalities.
LEMMA SameCardinality == \A S : UN!Cardinality(S) = Cardinality(S)
BY DEF UN!Cardinality, Cardinality

Guests == UN!Guests
\* What the guests are to have.
AllWanted == UNION {UN!Wanted(k) : k \in Guests}

\* What the guests are to have depends on the configuration alone.
LEMMA SameConf ==
    ASSUME s1' = s1
    PROVE  /\ Guests' = Guests /\ AllWanted' = AllWanted
           /\ \A k : UN!Wanted(k)' = UN!Wanted(k)
           /\ \A k, S : UN!Marks(k, S)' = UN!Marks(k, S) /\ UN!Dependencies(k, S)' = UN!Dependencies(k, S)
BY DEF Guests, AllWanted, UN!Guests, UN!Wanted, UN!Marks, UN!Dependencies

\* The configuration and the types of the variables.
LEMMA ConfIs ==
    ASSUME UN!Inv
    PROVE  /\ UN!Directory(s1) /\ s1 \in Seq([name : Seq(STRING), type : STRING, disabled : BOOLEAN, vdir : BOOLEAN,
                                             mark : UN!TextFile, depends : UN!TextFile])
           /\ DOMAIN s1 = 1 .. Len(s1) /\ Len(s1) \in Nat /\ Guests \subseteq 1 .. Len(s1)
           /\ s3 \in 1 .. Len(s1) + 1 /\ s4 \in Nat \ {0}
           /\ s5 \in BOOLEAN /\ s6 \in BOOLEAN /\ s7 \in BOOLEAN /\ s11 \in Nat
<1>1. UN!Directory(s1)
  BY ConfigsAssumption DEF UN!Inv
<1>2. s1 \in Seq([name : Seq(STRING), type : STRING, disabled : BOOLEAN, vdir : BOOLEAN,
                  mark : UN!TextFile, depends : UN!TextFile])
  BY <1>1 DEF UN!Directory
<1>3. Guests \subseteq DOMAIN s1
  BY DEF Guests, UN!Guests
<1> QED
  BY <1>1, <1>2, <1>3, MaxFailingAssumption DEF UN!Inv, UN!TypeOK

\* What is made is added, what is lost was the failed guest's.
Step(made, lost) ==
    /\ s1' = s1 /\ s10 \subseteq s10' /\ s10' \subseteq DOMAIN s1
    /\ s5' \in BOOLEAN /\ (s5' => s5)
    /\ s9' = (s9 \ lost) \cup made
    /\ made \subseteq AllWanted
    /\ lost # {} => s3 \in Guests /\ s3 \in s10' /\ lost \subseteq UN!Wanted(s3) /\ ~s5'
    /\ \A k \in Guests \ s10' : UN!Linked(k)' \subseteq UN!Linked(k) \cup made

\* After such a step all that was linked is there, but for what a failed guest shares.
LEMMA StepKeeps ==
    ASSUME UN!Inv, NEW made, NEW lost, Step(made, lost)
    PROVE  /\ s9' \subseteq AllWanted
           /\ \A k \in Guests \ s10' : UN!Linked(k)' \subseteq s9' \cup UN!Lost' /\ (s5' => UN!Linked(k)' \subseteq s9')
<1>1. s9 \subseteq AllWanted
  BY DEF UN!Inv, AllWanted, Guests
<1>2. s9' \subseteq AllWanted
  BY <1>1 DEF Step
<1>3. \A x : x \in UN!Lost' <=> \E j \in Guests \cap s10' : x \in UN!Wanted(j)
  BY SameConf DEF UN!Lost, Step, Guests
<1>4. \A x : x \in UN!Lost <=> \E j \in Guests \cap s10 : x \in UN!Wanted(j)
  BY DEF UN!Lost, Guests
<1>5. UN!Lost \subseteq UN!Lost' /\ lost \subseteq UN!Lost'
  BY <1>3, <1>4 DEF Step
<1>6. \A k \in Guests \ s10' : UN!Linked(k) \subseteq s9 \cup UN!Lost /\ (s5 => UN!Linked(k) \subseteq s9)
  BY DEF UN!Inv, Guests, Step
<1>7. ASSUME NEW k \in Guests \ s10'
      PROVE  UN!Linked(k)' \subseteq s9' \cup UN!Lost' /\ (s5' => UN!Linked(k)' \subseteq s9')
  <2>1. UN!Linked(k)' \subseteq UN!Linked(k) \cup made /\ s9' = (s9 \ lost) \cup made /\ (s5' => s5 /\ lost = {})
    BY <1>7 DEF Step
  <2>2. UN!Linked(k) \subseteq s9 \cup UN!Lost /\ (s5 => UN!Linked(k) \subseteq s9)
    BY <1>6
  <2>3. UN!Linked(k)' \subseteq s9' \cup UN!Lost'
    BY <1>5, <2>1, <2>2
  <2>4. s5' => UN!Linked(k)' \subseteq s9'
    BY <2>1, <2>2
  <2> QED
    BY <2>3, <2>4
<1> QED
  BY <1>2, <1>7

\* The rest of the invariant.
Rest ==
    /\ s1 \in Configs /\ UN!TypeOK /\ s4 \in Nat \ {0} /\ UN!IsFiniteSet(s9)
    /\ s2 = "unitdir" => ~s7
    /\ s2 \in {"mark", "depends"} => s3 \in Guests /\ (s6 \/ s3 \in s10)
    /\ s2 = "end" /\ (s7 \/ s5) => \A k \in DOMAIN s1 : k < s3 \/ k \in s10
    /\ s5 /\ s11 = 0 => s10 = {}

\* A step of that kind with the rest of the invariant keeps the whole.
LEMMA InvFollows ==
    ASSUME UN!Inv, NEW made, NEW lost, Step(made, lost), Rest'
    PROVE  UN!Inv'
<1>1. s1' = s1
  BY DEF Step
<1>2. Guests' = Guests /\ AllWanted' = AllWanted
  BY <1>1, SameConf
<1>3. s9' \subseteq AllWanted'
  BY <1>2, StepKeeps
<1>4. \A k \in Guests' \ s10' : UN!Linked(k)' \subseteq s9' \cup UN!Lost' /\ (s5' => UN!Linked(k)' \subseteq s9')
  BY <1>2, StepKeeps
<1>5. Guests' = UN!Guests'
  BY DEF Guests
<1>6. s9' \subseteq UNION {UN!Wanted(k)' : k \in UN!Guests'}
  BY <1>3 DEF AllWanted, Guests
<1>7. \A k \in UN!Guests' \ s10' : UN!Linked(k)' \subseteq s9' \cup UN!Lost' /\ (s5' => UN!Linked(k)' \subseteq s9')
  BY <1>4, <1>5
<1>8. /\ s1' \in Configs /\ UN!TypeOK' /\ s4' \in Nat \ {0} /\ UN!IsFiniteSet(s9')
      /\ s2' = "unitdir" => ~s7'
      /\ s2' \in {"mark", "depends"} => s3' \in UN!Guests' /\ (s6' \/ s3' \in s10')
  BY <1>5 DEF Rest
<1>9. /\ s2' = "end" /\ (s7' \/ s5') => \A k \in DOMAIN s1' : k < s3' \/ k \in s10'
      /\ s5' /\ s11' = 0 => s10' = {}
  BY DEF Rest
<1> QED
  BY <1>6, <1>7, <1>8, <1>9 DEF UN!Inv

-----------------------------------------------------------------------------
\* Only the guest that is looked at can have more links after a step.
LEMMA LinkedElsewhere ==
    ASSUME UN!Inv, s1' = s1, s3' = s3 \/ (s3' = s3 + 1 /\ s2' = "entry"), NEW k \in Guests, k # s3
    PROVE  UN!Linked(k)' = UN!Linked(k)
<1>1. k \in Nat /\ s3 \in Nat /\ s4 \in Nat
  BY ConfIs
<1>2. UN!Wanted(k)' = UN!Wanted(k)
  BY SameConf
<1>3. CASE k < s3
  <2>1. k < s3' /\ s3' \in Nat
    BY <1>1, <1>3
  <2>2. UN!Linked(k)' = UN!Wanted(k)'
    BY <1>1, <2>1 DEF UN!Linked
  <2>3. UN!Linked(k) = UN!Wanted(k)
    BY <1>1, <1>3 DEF UN!Linked
  <2> QED
    BY <1>2, <2>2, <2>3
<1>4. CASE k > s3
  <2>1. UN!Linked(k) = {}
    BY <1>1, <1>4 DEF UN!Linked
  <2>2. ~(k < s3') /\ (k = s3' => s2' = "entry") /\ s3' \in Nat
    BY <1>1, <1>4
  <2>3. UN!Linked(k)' = {}
    BY <1>1, <2>2 DEF UN!Linked
  <2> QED
    BY <2>1, <2>3
<1> QED
  BY <1>1, <1>3, <1>4

\* The files and the name of a guest.
LEMMA FilesAre ==
    ASSUME UN!Inv, NEW k \in 1 .. Len(s1)
    PROVE  s1[k].mark \in UN!TextFile /\ s1[k].depends \in UN!TextFile /\ s1[k].name \in Seq(STRING)
<1> DEFINE Entry == [name : Seq(STRING), type : STRING, disabled : BOOLEAN, vdir : BOOLEAN,
                     mark : UN!TextFile, depends : UN!TextFile]
<1>1. \A e \in Entry : e.mark \in UN!TextFile /\ e.depends \in UN!TextFile /\ e.name \in Seq(STRING)
  OBVIOUS
<1>2. s1 \in Seq(Entry) /\ DOMAIN s1 = 1 .. Len(s1)
  BY ConfIs
<1> HIDE DEF Entry
<1>3. s1[k] \in Entry
  BY <1>2
<1> QED
  BY <1>1, <1>3

\* Nothing is linked, and no file is read.
LEMMA QuietStep ==
    ASSUME UN!Inv, s1' = s1, s3' = s3, s2' \notin {"mark", "depends"} \/ (s2' = "mark" /\ s4' = 1),
           s9' = s9, s10 \subseteq s10', s10' \subseteq DOMAIN s1, s5' \in BOOLEAN, s5' => s5
    PROVE  Step({}, {})
<1>1. ASSUME NEW k \in Guests, k = s3 PROVE UN!Linked(k)' = {}
  <2>1. s3 \in Nat /\ k \in Nat /\ ~(k < s3') /\ k = s3'
    BY <1>1, ConfIs
  <2>2. CASE s2' = "mark"
    <3>1. UN!NamedSoFar(s1[k].mark)' = {}
      <4>1. s1[k].mark \in UN!TextFile
        BY <1>1, ConfIs, FilesAre
      <4>2. {x \in DOMAIN s1[k].mark.lines : x < s4'} = {}
        <5>1. DOMAIN s1[k].mark.lines \subseteq Nat \ {0} /\ s4' = 1
          BY <2>2, <4>1 DEF UN!TextFile
        <5> QED
          BY <5>1
      <4> QED
        BY <4>2 DEF UN!NamedSoFar
    <3>2. UN!Linked(k)' = UN!Marks(k, UN!NamedSoFar(s1[k].mark))'
      BY <2>1, <2>2 DEF UN!Linked
    <3> QED
      BY <3>1, <3>2 DEF UN!Marks
  <2>3. CASE s2' \notin {"mark", "depends"}
    BY <2>1, <2>3 DEF UN!Linked
  <2> QED
    BY <2>2, <2>3
<1>2. ASSUME NEW k \in Guests, k # s3 PROVE UN!Linked(k)' = UN!Linked(k)
  <2>1. s3' = s3 \/ (s3' = s3 + 1 /\ s2' = "entry")
    OBVIOUS
  <2> QED
    BY <1>2, <2>1, LinkedElsewhere, Zenon
<1>3. \A k \in Guests : UN!Linked(k)' \subseteq UN!Linked(k)
  BY <1>1, <1>2
<1> QED
  BY <1>3 DEF Step

\* A guest is left: all that it was to have is linked, unless it failed.
LEMMA SkipStep ==
    ASSUME UN!Inv, s1' = s1, s3' = s3 + 1, s2' = "entry",
           s9' = s9, s10 \subseteq s10', s10' \subseteq DOMAIN s1, s5' \in BOOLEAN, s5' => s5,
           s3 \in Guests \ s10' => UN!Wanted(s3) \subseteq UN!Linked(s3)
    PROVE  Step({}, {})
<1>1. ASSUME NEW k \in Guests \ s10', k = s3 PROVE UN!Linked(k)' \subseteq UN!Linked(k)
  <2>1. k < s3'
    BY <1>1, ConfIs
  <2>2. UN!Linked(k)' = UN!Wanted(k)'
    BY <2>1 DEF UN!Linked
  <2> QED
    BY <1>1, <2>2, SameConf
<1>2. ASSUME NEW k \in Guests, k # s3 PROVE UN!Linked(k)' = UN!Linked(k)
  <2>1. s3' = s3 \/ (s3' = s3 + 1 /\ s2' = "entry")
    OBVIOUS
  <2> QED
    BY <1>2, <2>1, LinkedElsewhere, Zenon
<1>3. \A k \in Guests \ s10' : UN!Linked(k)' \subseteq UN!Linked(k)
  BY <1>1, <1>2
<1> QED
  BY <1>3 DEF Step

-----------------------------------------------------------------------------
\* Opening the unit directory keeps the invariant.
LEMMA UnitdirKeepsInv == ASSUME UN!Inv, UN!openUnitdir PROVE UN!Inv'
<1>1. /\ s1' = s1 /\ s3' = s3 /\ s9' = s9 /\ s10' = s10 /\ s7' = s7 /\ s6' = s6 /\ s4' = s4 /\ s2 = "unitdir"
      /\ \/ s2' = "target" /\ s5' = s5 /\ s11' = s11
         \/ s2' = "end" /\ s5' = FALSE /\ s11 < MaxFailing /\ s11' = s11 + 1
  BY DEF UN!openUnitdir, UN!Works, UN!Fails
<1>2. Step({}, {})
  <2>1. s2' \notin {"mark", "depends"} /\ s10' \subseteq DOMAIN s1 /\ s10 \subseteq s10'
    BY <1>1 DEF UN!Inv, UN!TypeOK
  <2>2. s5 \in BOOLEAN
    BY ConfIs
  <2>3. s5' = s5 \/ s5' = FALSE
    BY <1>1
  <2>4. s5' \in BOOLEAN
    BY <2>2, <2>3
  <2>5. s5' => s5
    BY <2>3, Zenon
  <2> QED
    BY <1>1, <2>1, <2>4, <2>5, QuietStep
<1>3. UN!TypeOK'
  <2>1. s11' \in 0 .. MaxFailing
    BY <1>1, MaxFailingAssumption DEF UN!Inv, UN!TypeOK
  <2>2. s5' \in BOOLEAN /\ s7' \in BOOLEAN
    BY <1>1 DEF UN!Inv, UN!TypeOK
  <2> QED
    BY <1>1, <2>1, <2>2 DEF UN!Inv, UN!TypeOK
<1>4. Rest'
  BY <1>1, <1>3, SameConf, ConfIs DEF UN!Inv, Rest, UN!TypeOK
<1> QED
  BY <1>2, <1>4, InvFollows

\* Opening vserver.target.wants keeps it, whether it works or not.
LEMMA TargetKeepsInv == ASSUME UN!Inv, UN!openTarget PROVE UN!Inv'
<1>1. /\ s1' = s1 /\ s3' = s3 /\ s9' = s9 /\ s10' = s10 /\ s5' = s5 /\ s6' = s6 /\ s4' = s4 /\ s2' = "entry"
      /\ \/ s7' = TRUE /\ s11' = s11
         \/ s7' = s7 /\ s11 < MaxFailing /\ s11' = s11 + 1
  BY DEF UN!openTarget, UN!Works, UN!Fails
<1>2. Step({}, {})
  <2>1. s2' \notin {"mark", "depends"} /\ s10' \subseteq DOMAIN s1 /\ s10 \subseteq s10'
    BY <1>1 DEF UN!Inv, UN!TypeOK
  <2>2. s5' \in BOOLEAN /\ (s5' => s5)
    BY <1>1, ConfIs
  <2> QED
    BY <1>1, <2>1, <2>2, QuietStep
<1>3. UN!TypeOK'
  <2>1. s11' \in 0 .. MaxFailing
    BY <1>1, MaxFailingAssumption DEF UN!Inv, UN!TypeOK
  <2>2. s5' \in BOOLEAN /\ s7' \in BOOLEAN
    BY <1>1 DEF UN!Inv, UN!TypeOK
  <2> QED
    BY <1>1, <2>1, <2>2 DEF UN!Inv, UN!TypeOK
<1>4. Rest'
  BY <1>1, <1>3, SameConf, ConfIs DEF UN!Inv, Rest, UN!TypeOK
<1> QED
  BY <1>2, <1>4, InvFollows

\* Looking at an entry keeps it: what is skipped is no guest, or has failed.
LEMMA EntryKeepsInv == ASSUME UN!Inv, UN!entry PROVE UN!Inv'
<1>1. /\ s1' = s1 /\ s5' = s5 /\ s7' = s7 /\ s9' = s9 /\ s4' = 1 /\ s6' = TRUE
      /\ s3 <= Len(s1) /\ s2 = "entry"
  BY DEF UN!entry
<1>2. \/ /\ s2' = "entry" /\ s3' = s3 + 1 /\ s3 \notin Guests \ s10'
         /\ \/ s10' = s10 /\ s11' = s11
            \/ s10' = s10 \cup {s3} /\ s11 < MaxFailing /\ s11' = s11 + 1
            \/ s10' = s10 /\ s11 < MaxFailing /\ s11' = s11 + 1
      \/ /\ s2' = "mark" /\ s3' = s3 /\ s10' = s10 /\ s3 \in Guests
         /\ s11' = s11 \/ (s11 < MaxFailing /\ s11' = s11 + 1)
  <2>1. s3 \in DOMAIN s1
    BY <1>1, ConfIs
  <2>2. s3 \in Guests <=> UN!G.type \in {"dir", "unknown"} /\ ~UN!G.disabled /\ UN!G.vdir
    BY <2>1 DEF Guests, UN!Guests, UN!G
  <2>3. CASE UN!G.type \in {"hidden", "file"} /\ UN!Skip /\ UN!Works /\ UNCHANGED s10
    BY <2>2, <2>3 DEF UN!Skip, UN!Works
  <2>4. CASE UN!Fails /\ UN!Skip /\ s10' = s10 \cup {s3}
    BY <2>4 DEF UN!Skip, UN!Fails
  <2>5. CASE /\ UN!G.type \in {"dir", "unknown", "backup"} /\ (UN!Works \/ (UN!G.type = "unknown" /\ UN!Fails))
             /\ UNCHANGED s10
             /\ IF UN!Ignored(UN!G) THEN UN!Skip ELSE s2' = "mark" /\ UNCHANGED s3
    <3>1. UN!Ignored(UN!G) => s3 \notin Guests
      BY <2>2 DEF UN!Ignored
    <3>2. ~UN!Ignored(UN!G) => s3 \in Guests
      BY <2>2, <2>5 DEF UN!Ignored
    <3>3. s11' = s11 \/ (s11 < MaxFailing /\ s11' = s11 + 1)
      BY <2>5 DEF UN!Works, UN!Fails
    <3>4. CASE UN!Ignored(UN!G)
      BY <2>5, <3>1, <3>3, <3>4, <1>1 DEF UN!Skip
    <3>5. CASE ~UN!Ignored(UN!G)
      BY <2>5, <3>2, <3>3, <3>5
    <3> QED
      BY <3>4, <3>5
  <2> QED
    BY <2>3, <2>4, <2>5 DEF UN!entry
<1>3. s10 \subseteq DOMAIN s1 /\ s3 \in DOMAIN s1 /\ s10' \subseteq DOMAIN s1 /\ s10 \subseteq s10'
  BY <1>1, <1>2, ConfIs DEF UN!Inv, UN!TypeOK
<1>4. Step({}, {})
  <2>1. CASE s2' = "entry"
    BY <1>1, <1>2, <1>3, <2>1, SkipStep, ConfIs
  <2>2. CASE s2' # "entry"
    BY <1>1, <1>2, <1>3, <2>2, QuietStep, ConfIs
  <2> QED
    BY <2>1, <2>2
<1>5. UN!TypeOK'
  BY <1>1, <1>2, <1>3, ConfIs, MaxFailingAssumption DEF UN!Inv, UN!TypeOK
<1>6. s5' /\ s11' = 0 => s10' = {}
  BY <1>1, <1>2, ConfIs DEF UN!Inv
<1>7. Rest'
  BY <1>1, <1>2, <1>5, <1>6, SameConf DEF UN!Inv, Rest
<1> QED
  BY <1>4, <1>7, InvFollows

\* When readdir fails, all the guests behind have failed.
LEMMA ReaddirKeepsInv == ASSUME UN!Inv, UN!readdirFails PROVE UN!Inv'
<1>1. /\ s1' = s1 /\ s3' = s3 /\ s4' = s4 /\ s6' = s6 /\ s7' = s7 /\ s9' = s9
      /\ s2' = "end" /\ s5' = FALSE /\ s11 < MaxFailing /\ s11' = s11 + 1
      /\ s10' = s10 \cup {k \in DOMAIN s1 : k >= s3}
  BY DEF UN!readdirFails, UN!Fails
<1>2. s10' \subseteq DOMAIN s1 /\ s10 \subseteq s10'
  BY <1>1 DEF UN!Inv, UN!TypeOK
<1>3. Step({}, {})
  BY <1>1, <1>2, QuietStep
<1>4. UN!TypeOK'
  <2>1. s11' \in 0 .. MaxFailing
    BY <1>1, MaxFailingAssumption DEF UN!Inv, UN!TypeOK
  <2> QED
    BY <1>1, <1>2, <2>1 DEF UN!Inv, UN!TypeOK
<1>5. \A k \in DOMAIN s1' : k < s3' \/ k \in s10'
  BY <1>1, ConfIs
<1>6. Rest'
  BY <1>1, <1>4, <1>5 DEF UN!Inv, Rest
<1> QED
  BY <1>3, <1>6, InvFollows

\* At the end of the directory every guest is behind.
LEMMA EntriesEndKeepsInv == ASSUME UN!Inv, UN!entriesEnd PROVE UN!Inv'
<1>1. /\ s1' = s1 /\ s3' = s3 /\ s4' = s4 /\ s5' = s5 /\ s6' = s6 /\ s7' = s7 /\ s9' = s9
      /\ s10' = s10 /\ s11' = s11 /\ s2' = "end" /\ s3 > Len(s1)
  BY DEF UN!entriesEnd
<1>2. s10' \subseteq DOMAIN s1 /\ s10 \subseteq s10' /\ s5' \in BOOLEAN /\ (s5' => s5)
  BY <1>1 DEF UN!Inv, UN!TypeOK
<1>3. Step({}, {})
  BY <1>1, <1>2, QuietStep
<1>4. UN!TypeOK'
  BY <1>1, <1>2 DEF UN!Inv, UN!TypeOK
<1>5. \A k \in DOMAIN s1' : k < s3' \/ k \in s10'
  BY <1>1, ConfIs
<1>6. Rest'
  BY <1>1, <1>4, <1>5 DEF UN!Inv, Rest
<1> QED
  BY <1>3, <1>6, InvFollows

\* From the mark file to the depends file: all its lines are linked, unless the guest
\* failed.
LEMMA DependsStep ==
    ASSUME UN!Inv, s1' = s1, s3' = s3, s2 = "mark", s2' = "depends", s4' = 1,
           s9' = s9, s10 \subseteq s10', s10' \subseteq DOMAIN s1, s5' \in BOOLEAN, s5' => s5,
           s3 \in s10' \/ UN!NamedSoFar(UN!G.mark) = UN!Named(UN!G.mark)
    PROVE  Step({}, {})
<1>1. ASSUME NEW k \in Guests \ s10', k = s3 PROVE UN!Linked(k)' \subseteq UN!Linked(k)
  <2>1. ~(k < s3') /\ ~(k < s3) /\ k = s3'
    BY <1>1, ConfIs
  <2>2. UN!NamedSoFar(s1[k].mark) = UN!Named(s1[k].mark)
    BY <1>1 DEF UN!G
  <2>3. UN!NamedSoFar(s1[k].depends)' = {}
    <3>1. s1[k].depends \in UN!TextFile
      BY <1>1, ConfIs, FilesAre
    <3>2. {x \in DOMAIN s1[k].depends.lines : x < s4'} = {}
      <4>1. DOMAIN s1[k].depends.lines \subseteq Nat \ {0} /\ s4' = 1
        BY <3>1 DEF UN!TextFile
      <4> QED
        BY <4>1
    <3> QED
      BY <3>2 DEF UN!NamedSoFar
  <2>4. UN!Linked(k)' = UN!Marks(k, UN!Named(s1[k].mark))' \cup UN!Dependencies(k, UN!NamedSoFar(s1[k].depends))'
    BY <2>1 DEF UN!Linked
  <2>5. UN!Dependencies(k, UN!NamedSoFar(s1[k].depends))' = {}
    BY <2>3 DEF UN!Dependencies
  <2>6. UN!Marks(k, UN!Named(s1[k].mark))' = UN!Marks(k, UN!Named(s1[k].mark))
    BY DEF UN!Marks
  <2>7. UN!Linked(k) = UN!Marks(k, UN!NamedSoFar(s1[k].mark))
    BY <2>1 DEF UN!Linked
  <2> QED
    BY <2>2, <2>4, <2>5, <2>6, <2>7
<1>2. \A k \in Guests : k # s3 => UN!Linked(k)' = UN!Linked(k)
  BY LinkedElsewhere
<1>3. \A k \in Guests \ s10' : UN!Linked(k)' \subseteq UN!Linked(k)
  BY <1>1, <1>2
<1> QED
  BY <1>3 DEF Step

\* The end of a file, at which the guest has failed or all its lines are linked.
LEMMA AfterStep ==
    ASSUME UN!Inv, s1' = s1, s2 \in {"mark", "depends"}, UN!After,
           s9' = s9, s10 \subseteq s10', s10' \subseteq DOMAIN s1, s5' \in BOOLEAN, s5' => s5,
           s3 \in s10' \/ UN!NamedSoFar(UN!File) = UN!Named(UN!File)
    PROVE  /\ Step({}, {})
           /\ s4' = 1 /\ s6' = TRUE
           /\ (s2' = "depends" /\ s3' = s3) \/ (s2' = "entry" /\ s3' = s3 + 1)
<1>1. s4' = 1 /\ s6' = TRUE
  BY DEF UN!After
<1>2. CASE s2 = "mark"
  <2>1. s2' = "depends" /\ s3' = s3
    BY <1>2 DEF UN!After
  <2>2. s3 \in s10' \/ UN!NamedSoFar(UN!G.mark) = UN!Named(UN!G.mark)
    BY <1>2 DEF UN!File
  <2> QED
    BY <1>1, <1>2, <2>1, <2>2, DependsStep
<1>3. CASE s2 = "depends"
  <2>1. s2' = "entry" /\ s3' = s3 + 1
    BY <1>3 DEF UN!After, UN!Skip
  <2>2. ASSUME s3 \in Guests \ s10' PROVE UN!Wanted(s3) \subseteq UN!Linked(s3)
    <3>1. ~(s3 < s3)
      BY ConfIs
    <3>2. UN!NamedSoFar(s1[s3].depends) = UN!Named(s1[s3].depends)
      BY <1>3, <2>2 DEF UN!File, UN!G
    <3>3. UN!Linked(s3) = UN!Marks(s3, UN!Named(s1[s3].mark)) \cup UN!Dependencies(s3, UN!NamedSoFar(s1[s3].depends))
      BY <1>3, <3>1 DEF UN!Linked
    <3> QED
      BY <3>2, <3>3 DEF UN!Wanted
  <2> QED
    BY <1>1, <2>1, <2>2, SkipStep
<1> QED
  BY <1>2, <1>3

\* A file that is not read keeps it: it names nothing, or the guest has failed.
LEMMA NoFileKeepsInv == ASSUME UN!Inv, UN!NoFile PROVE UN!Inv'
<1>1. /\ s1' = s1 /\ s7' = s7 /\ s9' = s9 /\ s2 \in {"mark", "depends"} /\ UN!After /\ s4 = 1
  BY DEF UN!NoFile
<1>2. s3 \in Guests /\ s3 \in 1 .. Len(s1) /\ UN!File \in UN!TextFile
  BY <1>1, ConfIs, FilesAre DEF UN!Inv, Guests, UN!File, UN!G
<1>3. \/ /\ UN!File.kind = "none" /\ s11' = s11 /\ s5' = s5 /\ s10' = s10
      \/ /\ s11' = s11 /\ s5' = FALSE /\ s10' = s10 \cup {s3}
      \/ /\ s11 < MaxFailing /\ s11' = s11 + 1 /\ s10' = s10 \cup {s3} /\ (s5' = s5 \/ s5' = FALSE)
  BY DEF UN!NoFile, UN!Works, UN!Fails, UN!Fail
<1>4. s10 \subseteq DOMAIN s1 /\ s10 \subseteq s10' /\ s10' \subseteq DOMAIN s1
  BY <1>2, <1>3, ConfIs DEF UN!Inv, UN!TypeOK
<1>5. s5' = s5 \/ s5' = FALSE
  BY <1>3
<1>6. s5' \in BOOLEAN
  BY <1>5 DEF UN!Inv, UN!TypeOK
<1>7. s5' => s5
  BY <1>5, Zenon
<1>8. s3 \in s10' \/ UN!NamedSoFar(UN!File) = UN!Named(UN!File)
  <2>1. UN!File.kind = "none" => UN!NamedSoFar(UN!File) = UN!Named(UN!File)
    BY DEF UN!NamedSoFar, UN!Named
  <2> QED
    BY <1>3, <2>1
<1>9. /\ Step({}, {}) /\ s4' = 1 /\ s6' = TRUE
      /\ (s2' = "depends" /\ s3' = s3) \/ (s2' = "entry" /\ s3' = s3 + 1)
  BY <1>1, <1>4, <1>6, <1>7, <1>8, AfterStep
<1>10. UN!TypeOK'
  <2>1. s11' \in 0 .. MaxFailing
    BY <1>3, MaxFailingAssumption DEF UN!Inv, UN!TypeOK
  <2>2. s3' \in 1 .. Len(s1') + 1
    BY <1>1, <1>2, <1>9, ConfIs
  <2> QED
    BY <1>1, <1>4, <1>6, <1>9, <2>1, <2>2 DEF UN!Inv, UN!TypeOK
<1>11. s5' /\ s11' = 0 => s10' = {}
  <2>1. CASE s11' = s11 /\ s5' = s5 /\ s10' = s10
    BY <2>1 DEF UN!Inv
  <2>2. CASE s5' = FALSE
    BY <2>2
  <2>3. CASE s11' = s11 + 1
    BY <2>3, ConfIs
  <2> QED
    BY <1>3, <2>1, <2>2, <2>3
<1>12. Rest'
  BY <1>1, <1>2, <1>9, <1>10, <1>11, SameConf DEF UN!Inv, Rest
<1> QED
  BY <1>9, <1>12, InvFollows

\* The end of a file keeps it: all its lines are linked, or the guest has failed.
LEMMA FileEndKeepsInv == ASSUME UN!Inv, UN!fileEnd PROVE UN!Inv'
<1>1. /\ s1' = s1 /\ s5' = s5 /\ s7' = s7 /\ s9' = s9 /\ s10' = s10 /\ s11' = s11
      /\ s2 \in {"mark", "depends"} /\ UN!File.kind = "regular" /\ (s4 > Len(UN!File.lines) \/ ~s6)
      /\ UN!After \/ (s2' = "crashed" /\ s3' = s3 /\ s4' = s4 /\ s6' = s6)
  BY DEF UN!fileEnd, UN!Works
<1>2. s3 \in Guests /\ s3 \in 1 .. Len(s1) /\ UN!File \in UN!TextFile /\ (s6 \/ s3 \in s10)
  BY <1>1, ConfIs, FilesAre DEF UN!Inv, Guests, UN!File, UN!G
<1>3. s10 \subseteq DOMAIN s1 /\ s5' \in BOOLEAN /\ (s5' => s5)
  BY <1>1 DEF UN!Inv, UN!TypeOK
<1>4. s3 \in s10' \/ UN!NamedSoFar(UN!File) = UN!Named(UN!File)
  <2>1. s4 \in Nat
    BY ConfIs
  <2>2. s4 > Len(UN!File.lines) => UN!NamedSoFar(UN!File) = UN!Named(UN!File)
    <3>1. DOMAIN UN!File.lines = 1 .. Len(UN!File.lines) /\ Len(UN!File.lines) \in Nat
      BY <1>2 DEF UN!TextFile
    <3>2. s4 > Len(UN!File.lines) => {x \in DOMAIN UN!File.lines : x < s4} = DOMAIN UN!File.lines
      BY <2>1, <3>1
    <3> QED
      BY <1>1, <3>2 DEF UN!NamedSoFar, UN!Named, UN!ToSet
  <2> QED
    BY <1>1, <1>2, <2>2
<1>5. CASE UN!After
  <2>1. /\ Step({}, {}) /\ s4' = 1 /\ s6' = TRUE
        /\ (s2' = "depends" /\ s3' = s3) \/ (s2' = "entry" /\ s3' = s3 + 1)
    BY <1>1, <1>3, <1>4, <1>5, AfterStep
  <2>2. UN!TypeOK'
    <3>1. s3' \in 1 .. Len(s1') + 1
      BY <1>1, <1>2, <2>1, ConfIs
    <3> QED
      BY <1>1, <1>3, <2>1, <3>1 DEF UN!Inv, UN!TypeOK
  <2>3. Rest'
    BY <1>1, <1>2, <2>1, <2>2, SameConf DEF UN!Inv, Rest
  <2> QED
    BY <2>1, <2>3, InvFollows
<1>6. CASE s2' = "crashed" /\ s3' = s3 /\ s4' = s4 /\ s6' = s6
  <2>1. Step({}, {})
    BY <1>1, <1>3, <1>6, QuietStep
  <2>2. UN!TypeOK'
    BY <1>1, <1>6 DEF UN!Inv, UN!TypeOK
  <2>3. Rest'
    BY <1>1, <1>6, <2>2 DEF UN!Inv, Rest
  <2> QED
    BY <2>1, <2>3, InvFollows
<1> QED
  BY <1>1, <1>5, <1>6

\* A line makes all its links, or the guest has failed and some may be lost.
LEMMA LineKeepsInv ==
    ASSUME UN!Inv, s1' = s1, s2' = s2, s2 \in {"mark", "depends"}, s3' = s3, s4' = s4 + 1, s7' = s7,
           NEW every, IsFiniteSet(every), every \subseteq UN!Wanted(s3),
           NEW made \in SUBSET every, NEW lost \in SUBSET every, s9' = (s9 \ lost) \cup made,
           \/ lost = {} /\ made = every /\ s5' = s5 /\ s6' = s6 /\ s10' = s10
           \/ s5' = FALSE /\ s6' = FALSE /\ s10' = s10 \cup {s3},
           s11' = s11 \/ (s11 < MaxFailing /\ s11' = s11 + 1),
           \A k \in Guests : k = s3 => UN!Linked(k)' \subseteq UN!Linked(k) \cup every
    PROVE  UN!Inv'
<1>1. s3 \in Guests /\ s3 \in DOMAIN s1 /\ (s6 \/ s3 \in s10)
  BY ConfIs DEF UN!Inv, Guests
<1>2. s10 \subseteq DOMAIN s1 /\ s10' \subseteq DOMAIN s1 /\ s10 \subseteq s10'
  BY <1>1 DEF UN!Inv, UN!TypeOK
<1>3. s5' = s5 \/ s5' = FALSE
  OBVIOUS
<1>4. s5' \in BOOLEAN
  BY <1>3 DEF UN!Inv, UN!TypeOK
<1>5. s5' => s5
  BY <1>3, Zenon
<1>6. made \subseteq AllWanted
  BY <1>1 DEF AllWanted
<1>7. lost # {} => s3 \in Guests /\ s3 \in s10' /\ lost \subseteq UN!Wanted(s3) /\ ~s5'
  BY <1>1
<1>8. \A k \in Guests : k # s3 => UN!Linked(k)' = UN!Linked(k)
  BY LinkedElsewhere
<1>9. \A k \in Guests \ s10' : UN!Linked(k)' \subseteq UN!Linked(k) \cup made
  <2> TAKE k \in Guests \ s10'
  <2>1. CASE k = s3
    <3>1. made = every
      BY <2>1
    <3> QED
      BY <2>1, <3>1
  <2>2. CASE k # s3
    BY <1>8, <2>2
  <2> QED
    BY <2>1, <2>2
<1>10. Step(made, lost)
  BY <1>2, <1>4, <1>5, <1>6, <1>7, <1>9 DEF Step
<1>11. UN!IsFiniteSet(s9')
  <2>1. IsFiniteSet(s9)
    BY SameFinite DEF UN!Inv
  <2>2. IsFiniteSet(s9 \cup every) /\ s9' \subseteq s9 \cup every
    BY <2>1, FS_Union
  <2>3. IsFiniteSet(s9')
    BY <2>2, FS_Subset
  <2> QED
    BY <2>3, SameFinite
<1>12. s11' \in 0 .. MaxFailing /\ s6' \in BOOLEAN /\ s4' \in Nat \ {0}
  <2>1. s11' \in 0 .. MaxFailing
    BY MaxFailingAssumption DEF UN!Inv, UN!TypeOK
  <2>2. s6' \in BOOLEAN
    BY DEF UN!Inv, UN!TypeOK
  <2>3. s4' \in Nat \ {0}
    BY ConfIs
  <2> QED
    BY <2>1, <2>2, <2>3
<1>13. UN!TypeOK'
  BY <1>2, <1>4, <1>12 DEF UN!Inv, UN!TypeOK
<1>14. s6' \/ s3' \in s10'
  BY <1>1
<1>15. s5' /\ s11' = 0 => s10' = {}
  <2>1. s11' = 0 => s11 = 0
    BY ConfIs
  <2> QED
    BY <2>1 DEF UN!Inv
<1>16. Rest'
  BY <1>1, <1>11, <1>12, <1>13, <1>14, <1>15, SameConf DEF UN!Inv, Rest
<1> QED
  BY <1>10, <1>16, InvFollows

\* What a line is for a file that is read.
LEMMA LineIs ==
    ASSUME UN!Inv, s2 \in {"mark", "depends"}, UN!File.kind = "regular", s4 <= Len(UN!File.lines)
    PROVE  /\ s3 \in Guests /\ s3 \in 1 .. Len(s1) /\ UN!File \in UN!TextFile /\ s4 \in DOMAIN UN!File.lines
           /\ ~UN!Empty(UN!File.lines[s4]) => UN!File.lines[s4] \in UN!Named(UN!File)
           /\ s4 \in Nat
<1>1. s3 \in Guests /\ s3 \in 1 .. Len(s1) /\ UN!File \in UN!TextFile
  BY ConfIs, FilesAre DEF UN!Inv, Guests, UN!File, UN!G
<1>2. DOMAIN UN!File.lines = 1 .. Len(UN!File.lines) /\ Len(UN!File.lines) \in Nat
  BY <1>1 DEF UN!TextFile
<1>3. s4 \in DOMAIN UN!File.lines /\ s4 \in Nat
  BY <1>2, ConfIs
<1> QED
  BY <1>1, <1>3 DEF UN!Named, UN!ToSet, UN!Empty

\* A line of the mark file keeps it.
LEMMA MarkLineKeepsInv == ASSUME UN!Inv, UN!markLine PROVE UN!Inv'
<1> DEFINE m == UN!G.mark.lines[s4]
           both == {<<UN!All, UN!Target(m)>>, <<UN!Wants(m), UN!Service(UN!G.name)>>}
           every == IF UN!Empty(m) THEN {} ELSE both
<1>1. /\ s1' = s1 /\ s2' = s2 /\ s3' = s3 /\ s7' = s7 /\ s4' = s4 + 1 /\ s2 = "mark"
      /\ UN!File = UN!G.mark /\ UN!File.kind = "regular" /\ s4 <= Len(UN!File.lines)
  BY DEF UN!markLine, UN!File
<1>2. /\ s3 \in Guests /\ s3 \in 1 .. Len(s1) /\ UN!G.mark \in UN!TextFile /\ s4 \in DOMAIN UN!G.mark.lines
      /\ ~UN!Empty(m) => m \in UN!Named(UN!G.mark)
      /\ s4 \in Nat
  BY <1>1, LineIs
<1>3. both \subseteq UN!Wanted(s3) \/ UN!Empty(m)
  BY <1>2 DEF UN!Wanted, UN!Marks, UN!G
<1>4. /\ \E made \in SUBSET every, lost \in SUBSET every :
             /\ s9' = (s9 \ lost) \cup made
             /\ \/ lost = {} /\ made = every /\ s5' = s5 /\ s6' = s6 /\ s10' = s10
                \/ s5' = FALSE /\ s6' = FALSE /\ s10' = s10 \cup {s3}
      /\ s11' = s11 \/ (s11 < MaxFailing /\ s11' = s11 + 1)
  <2>1. CASE UN!Empty(m)
    BY <1>1, <2>1 DEF UN!markLine, UN!Works
  <2>2. CASE ~UN!Empty(m)
    <3>1. every = both /\ UN!mark_handler(m) = both
      BY <2>2 DEF UN!mark_handler
    <3> HIDE DEF m, both, every
    <3>2. \/ s7 /\ UN!Works /\ UN!xsymlinkat(both, {}) /\ UNCHANGED <<s6, s5, s10>>
          \/ /\ s6' = FALSE /\ UN!Fail
             /\ \/ ~s7 /\ UN!Works /\ UN!xsymlinkat({<<UN!Wants(m), UN!Service(UN!G.name)>>}, {})
                \/ ~s7 /\ UN!Fails /\ UN!xsymlinkat({}, {<<UN!Wants(m), UN!Service(UN!G.name)>>})
                \/ s7 /\ UN!Fails /\ \E u \in both : UN!xsymlinkat(both \ {u}, {u})
                \/ s7 /\ UN!Fails /\ UN!xsymlinkat({}, both)
      BY <1>1, <2>2, <3>1 DEF UN!markLine, m
    <3>3. {<<UN!Wants(m), UN!Service(UN!G.name)>>} \subseteq both
      BY DEF both
    <3>4. CASE s7 /\ UN!Works /\ UN!xsymlinkat(both, {}) /\ UNCHANGED <<s6, s5, s10>>
      BY <3>1, <3>4 DEF UN!xsymlinkat, UN!Works
    <3>5. CASE s6' = FALSE /\ UN!Fail /\ (UN!Works \/ UN!Fails)
               /\ \E made \in SUBSET both, lost \in SUBSET both : s9' = (s9 \ lost) \cup made
      BY <3>1, <3>5 DEF UN!Fail, UN!Works, UN!Fails
    <3>6. \A a \in SUBSET both, b \in SUBSET both : UN!xsymlinkat(a, b) =>
             \E made \in SUBSET both, lost \in SUBSET both : s9' = (s9 \ lost) \cup made
      BY DEF UN!xsymlinkat
    <3>7. CASE ~s7 /\ UN!Works /\ UN!xsymlinkat({<<UN!Wants(m), UN!Service(UN!G.name)>>}, {})
                  /\ s6' = FALSE /\ UN!Fail
      <4>1. \E made \in SUBSET both, lost \in SUBSET both : s9' = (s9 \ lost) \cup made
        <5>1. {<<UN!Wants(m), UN!Service(UN!G.name)>>} \in SUBSET both /\ {} \in SUBSET both
          BY <3>3
        <5> QED
          BY <3>6, <3>7, <5>1, Zenon
      <4> QED
        BY <3>5, <3>7, <4>1
    <3>8. CASE UN!Fails /\ s6' = FALSE /\ UN!Fail /\
                 (\/ UN!xsymlinkat({}, {<<UN!Wants(m), UN!Service(UN!G.name)>>})
                  \/ \E u \in both : UN!xsymlinkat(both \ {u}, {u})
                  \/ UN!xsymlinkat({}, both))
      <4>1. \E made \in SUBSET both, lost \in SUBSET both : s9' = (s9 \ lost) \cup made
        BY <3>3, <3>6, <3>8
      <4> QED
        BY <3>5, <3>8, <4>1
    <3> QED
      BY <3>2, <3>4, <3>7, <3>8
  <2> QED
    BY <2>1, <2>2
<1>5. IsFiniteSet(every)
  <2>1. IsFiniteSet({}) /\ IsFiniteSet({<<UN!All, UN!Target(m)>>})
    BY FS_EmptySet, FS_Singleton
  <2>2. IsFiniteSet({<<UN!All, UN!Target(m)>>} \cup {<<UN!Wants(m), UN!Service(UN!G.name)>>})
    BY <2>1, FS_AddElement
  <2>3. both = {<<UN!All, UN!Target(m)>>} \cup {<<UN!Wants(m), UN!Service(UN!G.name)>>}
    OBVIOUS
  <2> QED
    BY <2>1, <2>2, <2>3
<1>6. ASSUME NEW k \in Guests, k = s3 PROVE UN!Linked(k)' \subseteq UN!Linked(k) \cup every
  <2>1. ~(k < s3) /\ ~(k < s3') /\ k = s3' /\ s2' = "mark"
    BY <1>1, <1>2, <1>6
  <2>2. UN!Linked(k) = UN!Marks(k, UN!NamedSoFar(s1[k].mark))
    BY <1>1, <2>1, <1>6 DEF UN!Linked
  <2>3. UN!Linked(k)' = UN!Marks(k, UN!NamedSoFar(s1[k].mark))'
    BY <2>1 DEF UN!Linked
  <2>4. UN!NamedSoFar(s1[k].mark)' = UN!NamedSoFar(s1[k].mark) \cup (IF UN!Empty(m) THEN {} ELSE {m})
    <3>1. s1[k].mark = UN!G.mark /\ UN!G.mark.kind = "regular" /\ DOMAIN UN!G.mark.lines \subseteq Nat
      BY <1>1, <1>2, <1>6 DEF UN!G, UN!TextFile
    <3>2. {x \in DOMAIN UN!G.mark.lines : x < s4'} = {x \in DOMAIN UN!G.mark.lines : x < s4} \cup {s4}
      BY <1>1, <1>2, <3>1
    <3>3. UN!Empty(m) <=> m \in {<<"#">>, << >>}
      BY DEF UN!Empty
    <3>4. (s1[k].mark)' = UN!G.mark
      BY <1>1, <3>1
    <3> QED
      BY <3>1, <3>2, <3>3, <3>4 DEF UN!NamedSoFar
  <2>5. UN!Marks(k, UN!NamedSoFar(s1[k].mark))' =
          {<<UN!All, UN!Target(x)>> : x \in UN!NamedSoFar(s1[k].mark)'}
          \cup {<<UN!Wants(x), UN!Service(s1[k].name)>> : x \in UN!NamedSoFar(s1[k].mark)'}
    BY <1>1 DEF UN!Marks
  <2>6. UN!G.name = s1[k].name
    BY <1>6 DEF UN!G
  <2> QED
    BY <2>2, <2>3, <2>4, <2>5, <2>6 DEF UN!Marks
<1>7. every \subseteq UN!Wanted(s3)
  BY <1>3
<1> HIDE DEF m, both, every
<1>8. PICK made \in SUBSET every, lost \in SUBSET every :
             /\ s9' = (s9 \ lost) \cup made
             /\ \/ lost = {} /\ made = every /\ s5' = s5 /\ s6' = s6 /\ s10' = s10
                \/ s5' = FALSE /\ s6' = FALSE /\ s10' = s10 \cup {s3}
  BY <1>4
<1> QED
  BY <1>1, <1>4, <1>5, <1>6, <1>7, <1>8, LineKeepsInv

\* A line of the depends file keeps it.
LEMMA DependsLineKeepsInv == ASSUME UN!Inv, UN!dependsLine PROVE UN!Inv'
<1> DEFINE d == UN!G.depends.lines[s4]
           every == IF UN!Empty(d) THEN {} ELSE {<<UN!Requires(UN!G.name), UN!Service(d)>>}
<1>1. /\ s1' = s1 /\ s2' = s2 /\ s3' = s3 /\ s7' = s7 /\ s4' = s4 + 1 /\ s2 = "depends"
      /\ UN!File = UN!G.depends /\ UN!File.kind = "regular" /\ s4 <= Len(UN!File.lines)
  BY DEF UN!dependsLine, UN!File
<1>2. /\ s3 \in Guests /\ s3 \in 1 .. Len(s1) /\ UN!G.depends \in UN!TextFile /\ s4 \in DOMAIN UN!G.depends.lines
      /\ ~UN!Empty(d) => d \in UN!Named(UN!G.depends)
      /\ s4 \in Nat
  BY <1>1, LineIs
<1>3. every \subseteq UN!Wanted(s3)
  BY <1>2 DEF UN!Wanted, UN!Dependencies, UN!G
<1>4. /\ \E made \in SUBSET every, lost \in SUBSET every :
             /\ s9' = (s9 \ lost) \cup made
             /\ \/ lost = {} /\ made = every /\ s5' = s5 /\ s6' = s6 /\ s10' = s10
                \/ s5' = FALSE /\ s6' = FALSE /\ s10' = s10 \cup {s3}
      /\ s11' = s11 \/ (s11 < MaxFailing /\ s11' = s11 + 1)
  <2>1. CASE UN!Empty(d)
    BY <1>1, <2>1 DEF UN!dependsLine, UN!Works
  <2>2. CASE ~UN!Empty(d)
    <3>1. every = {<<UN!Requires(UN!G.name), UN!Service(d)>>}
      BY <2>2
    <3>2. \/ UN!Works /\ UN!xsymlinkat(every, {}) /\ UNCHANGED <<s6, s5, s10>>
          \/ UN!Fails /\ UN!xsymlinkat({}, every) /\ s6' = FALSE /\ UN!Fail
          \/ UN!Fails /\ s6' = FALSE /\ UN!Fail /\ s9' = s9
      BY <1>1, <2>2, <3>1 DEF UN!dependsLine
    <3> HIDE DEF d, every
    <3>3. CASE UN!Works /\ UN!xsymlinkat(every, {}) /\ UNCHANGED <<s6, s5, s10>>
      BY <3>3 DEF UN!xsymlinkat, UN!Works
    <3>4. CASE s6' = FALSE /\ UN!Fail /\ UN!Fails
               /\ \E made \in SUBSET every, lost \in SUBSET every : s9' = (s9 \ lost) \cup made
      BY <3>4 DEF UN!Fail, UN!Fails
    <3>5. CASE UN!Fails /\ s6' = FALSE /\ UN!Fail /\ (UN!xsymlinkat({}, every) \/ s9' = s9)
      <4>1. UN!xsymlinkat({}, every) => \E made \in SUBSET every, lost \in SUBSET every : s9' = (s9 \ lost) \cup made
        BY DEF UN!xsymlinkat
      <4>2. s9' = s9 => s9' = (s9 \ {}) \cup {} /\ {} \in SUBSET every
        OBVIOUS
      <4>3. \E made \in SUBSET every, lost \in SUBSET every : s9' = (s9 \ lost) \cup made
        BY <3>5, <4>1, <4>2
      <4> QED
        BY <3>4, <3>5, <4>3
    <3> QED
      BY <3>2, <3>3, <3>5
  <2> QED
    BY <2>1, <2>2
<1>5. IsFiniteSet(every)
  BY FS_EmptySet, FS_Singleton
<1>6. ASSUME NEW k \in Guests, k = s3 PROVE UN!Linked(k)' \subseteq UN!Linked(k) \cup every
  <2>1. ~(k < s3) /\ ~(k < s3') /\ k = s3' /\ s2' = "depends"
    BY <1>1, <1>2, <1>6
  <2>2. UN!Linked(k) = UN!Marks(k, UN!Named(s1[k].mark)) \cup UN!Dependencies(k, UN!NamedSoFar(s1[k].depends))
    BY <1>1, <2>1, <1>6 DEF UN!Linked
  <2>3. UN!Linked(k)' = UN!Marks(k, UN!Named(s1[k].mark))' \cup UN!Dependencies(k, UN!NamedSoFar(s1[k].depends))'
    BY <2>1 DEF UN!Linked
  <2>4. UN!NamedSoFar(s1[k].depends)' = UN!NamedSoFar(s1[k].depends) \cup (IF UN!Empty(d) THEN {} ELSE {d})
    <3>1. s1[k].depends = UN!G.depends /\ UN!G.depends.kind = "regular" /\ DOMAIN UN!G.depends.lines \subseteq Nat
      BY <1>1, <1>2, <1>6 DEF UN!G, UN!TextFile
    <3>2. {x \in DOMAIN UN!G.depends.lines : x < s4'} = {x \in DOMAIN UN!G.depends.lines : x < s4} \cup {s4}
      BY <1>1, <1>2, <3>1
    <3>3. UN!Empty(d) <=> d \in {<<"#">>, << >>}
      BY DEF UN!Empty
    <3>4. (s1[k].depends)' = UN!G.depends
      BY <1>1, <3>1
    <3> QED
      BY <3>1, <3>2, <3>3, <3>4 DEF UN!NamedSoFar
  <2>5. UN!Dependencies(k, UN!NamedSoFar(s1[k].depends))' =
          {<<UN!Requires(s1[k].name), UN!Service(x)>> : x \in UN!NamedSoFar(s1[k].depends)'}
    BY <1>1 DEF UN!Dependencies
  <2>6. UN!G.name = s1[k].name
    BY <1>6 DEF UN!G
  <2>7. UN!Marks(k, UN!Named(s1[k].mark))' = UN!Marks(k, UN!Named(s1[k].mark))
    BY <1>1 DEF UN!Marks
  <2> QED
    BY <2>2, <2>3, <2>4, <2>5, <2>6, <2>7 DEF UN!Dependencies
<1> HIDE DEF d, every
<1>8. PICK made \in SUBSET every, lost \in SUBSET every :
             /\ s9' = (s9 \ lost) \cup made
             /\ \/ lost = {} /\ made = every /\ s5' = s5 /\ s6' = s6 /\ s10' = s10
                \/ s5' = FALSE /\ s6' = FALSE /\ s10' = s10 \cup {s3}
  BY <1>4
<1> QED
  BY <1>1, <1>3, <1>4, <1>5, <1>6, <1>8, LineKeepsInv

-----------------------------------------------------------------------------
\* The generator starts with nothing linked.
LEMMA UnitsStart == UN!Init => UN!Inv
<1> SUFFICES ASSUME UN!Init PROVE UN!Inv
  OBVIOUS
<1>1. s1 \in Configs /\ UN!Directory(s1) /\ s1 \in Seq([name : Seq(STRING), type : STRING, disabled : BOOLEAN,
          vdir : BOOLEAN, mark : UN!TextFile, depends : UN!TextFile])
  BY ConfigsAssumption DEF UN!Init, UN!Directory
<1>2. Len(s1) \in Nat /\ DOMAIN s1 = 1 .. Len(s1) /\ Guests \subseteq 1 .. Len(s1)
  BY <1>1 DEF Guests, UN!Guests
<1>3. UN!TypeOK
  <2>1. s3 \in 1 .. Len(s1) + 1 /\ s11 \in 0 .. MaxFailing
    BY <1>2, MaxFailingAssumption DEF UN!Init
  <2>2. s5 \in BOOLEAN /\ s6 \in BOOLEAN /\ s7 \in BOOLEAN
    BY DEF UN!Init
  <2>3. s2 = "unitdir" /\ s10 \subseteq DOMAIN s1
    BY DEF UN!Init
  <2> QED
    BY <2>1, <2>2, <2>3 DEF UN!TypeOK
<1>4. \A k \in Guests : UN!Linked(k) = {}
  BY <1>2 DEF UN!Init, UN!Linked
<1>5. UN!IsFiniteSet(s9)
  BY SameFinite, FS_EmptySet DEF UN!Init
<1> QED
  BY <1>1, <1>3, <1>4, <1>5 DEF UN!Init, UN!Inv, Guests

\* A step of another component keeps the invariant.
LEMMA UnitsRest == UN!Inv /\ UNCHANGED UN!vars => UN!Inv'
<1> SUFFICES ASSUME UN!Inv, UNCHANGED UN!vars PROVE UN!Inv'
  OBVIOUS
<1>1. /\ s1' = s1 /\ s2' = s2 /\ s3' = s3 /\ s4' = s4 /\ s5' = s5 /\ s6' = s6 /\ s7' = s7 /\ s9' = s9
      /\ s10' = s10 /\ s11' = s11
  BY DEF UN!vars
<1>2. \A f : UN!NamedSoFar(f)' = UN!NamedSoFar(f)
  BY <1>1 DEF UN!NamedSoFar
<1>3. \A k \in Guests : UN!Linked(k)' = UN!Linked(k)
  <2> TAKE k \in Guests
  <2> k \in Nat /\ s3 \in Nat
    BY ConfIs
  <2>1. CASE k < s3
    <3>1. UN!Linked(k) = UN!Wanted(k)
      BY <2>1 DEF UN!Linked
    <3>2. UN!Linked(k)' = UN!Wanted(k)'
      BY <1>1, <2>1 DEF UN!Linked
    <3> QED
      BY <1>1, <3>1, <3>2, SameConf
  <2>2. CASE ~(k < s3)
    BY <1>1, <1>2, <2>2 DEF UN!Linked, UN!Marks, UN!Dependencies
  <2> QED
    BY <2>1, <2>2
<1>4. s5' \in BOOLEAN
  BY <1>1 DEF UN!Inv, UN!TypeOK
<1>5. s5' => s5
  BY <1>1, Zenon
<1>6. s9' = (s9 \ {}) \cup {}
  BY <1>1
<1>7. Step({}, {})
  BY <1>1, <1>3, <1>4, <1>5, <1>6 DEF Step, UN!Inv, UN!TypeOK
<1>8. UN!TypeOK'
  BY <1>1 DEF UN!Inv, UN!TypeOK
<1>9. Rest'
  BY <1>1, <1>8, SameConf DEF UN!Inv, Rest, Guests
<1> QED
  BY <1>7, <1>9, InvFollows

\* Every step of the generator keeps its invariant.
LEMMA UnitsGoOn == UN!Inv /\ (UN!Next \/ UNCHANGED UN!vars) => UN!Inv'
BY UnitdirKeepsInv, TargetKeepsInv, EntryKeepsInv, ReaddirKeepsInv, EntriesEndKeepsInv, NoFileKeepsInv,
   MarkLineKeepsInv, DependsLineKeepsInv, FileEndKeepsInv, UnitsRest DEF UN!Next

\* At the end every guest is behind, and all that it was to have is linked.
LEMMA CompleteFollows == UN!Inv => UN!OthersComplete /\ UN!SuccessIsComplete
<1> SUFFICES ASSUME UN!Inv, s2 = "end" PROVE UN!OthersComplete /\ UN!SuccessIsComplete
  BY DEF UN!OthersComplete, UN!SuccessIsComplete
<1>1. ASSUME s7 \/ s5, NEW k \in Guests \ s10
      PROVE  UN!Wanted(k) \subseteq s9 \cup UN!Lost /\ (s5 => UN!Wanted(k) \subseteq s9)
  <2>1. k < s3
    BY <1>1 DEF UN!Inv, Guests, UN!Guests
  <2>2. UN!Linked(k) = UN!Wanted(k)
    BY <2>1 DEF UN!Linked
  <2> QED
    BY <1>1, <2>2 DEF UN!Inv, Guests
<1>2. UN!OthersComplete
  <2>1. s7 => \A k \in Guests \ s10 : UN!Wanted(k) \ UN!Lost \subseteq s9
    BY <1>1
  <2>2. s9 \subseteq UNION {UN!Wanted(k) : k \in UN!Guests}
    BY DEF UN!Inv
  <2> QED
    BY <2>1, <2>2 DEF UN!OthersComplete, UN!Lost, Guests
<1>3. UN!SuccessIsComplete
  BY <1>1 DEF UN!SuccessIsComplete, Guests
<1> QED
  BY <1>2, <1>3

-----------------------------------------------------------------------------
\* The characters of names and of units.
Chars == STRING \cup {"-", "\\", "x", "2", "d", "0", "9"}

\* The sequences up to one, put together.
Flattened(f, seqs, n) == f = [i \in 1 .. n |-> IF i = 1 THEN seqs[i] ELSE f[i - 1] \o seqs[i]]

\* They can be put together.
LEMMA FlattenedExists ==
    ASSUME NEW seqs \in Seq(Seq(Chars)), NEW n \in 1 .. Len(seqs)
    PROVE  \E f : Flattened(f, seqs, n)
<1> DEFINE Bad == {k \in 1 .. Len(seqs) : ~ \E f : Flattened(f, seqs, k)}
<1>1. SUFFICES ASSUME Bad # {} PROVE FALSE
  OBVIOUS
<1>2. PICK m \in Bad : \A k \in Bad : m <= k
  <2>1. Bad \in SUBSET Nat
    OBVIOUS
  <2> HIDE DEF Bad
  <2> QED
    BY <1>1, <2>1, LeastNatural
<1>3. m \in 1 .. Len(seqs) /\ ~ \E f : Flattened(f, seqs, m)
  OBVIOUS
<1>4. CASE m = 1
  <2> DEFINE f == [i \in 1 .. 1 |-> seqs[1]]
  <2>1. f = [i \in 1 .. 1 |-> IF i = 1 THEN seqs[i] ELSE f[i - 1] \o seqs[i]]
    OBVIOUS
  <2> QED
    BY <1>3, <1>4, <2>1 DEF Flattened
<1>5. CASE m # 1
  <2>1. m - 1 \in 1 .. Len(seqs) /\ m - 1 \notin Bad
    <3>1. m - 1 \in 1 .. Len(seqs) /\ m \in Nat /\ ~(m <= m - 1)
      BY <1>3, <1>5
    <3> HIDE DEF Bad
    <3> QED
      BY <1>2, <3>1
  <2>2. PICK f : Flattened(f, seqs, m - 1)
    BY <2>1
  <2> DEFINE h == [i \in 1 .. m |-> IF i = m THEN f[m - 1] \o seqs[m] ELSE f[i]]
  <2>3. \A i \in 1 .. m - 1 : h[i] = f[i] /\ f[i] = IF i = 1 THEN seqs[i] ELSE f[i - 1] \o seqs[i]
    <3>1. \A i \in 1 .. m - 1 : f[i] = IF i = 1 THEN seqs[i] ELSE f[i - 1] \o seqs[i]
      BY <2>2 DEF Flattened
    <3>2. \A i \in 1 .. m - 1 : i \in 1 .. m /\ i # m
      BY <1>3
    <3> QED
      BY <3>1, <3>2
  <2>4. \A i \in 1 .. m : i # m => i \in 1 .. m - 1 /\ (i # 1 => i - 1 \in 1 .. m - 1)
    BY <1>3
  <2>5. h[m] = h[m - 1] \o seqs[m]
    <3>1. h[m] = f[m - 1] \o seqs[m]
      <4>1. m \in 1 .. m
        BY <1>3
      <4> QED
        BY <4>1, Zenon
    <3>2. m - 1 \in 1 .. m - 1 /\ m - 1 \in 1 .. m /\ m - 1 # m
      BY <1>3, <2>1
    <3>3. h[m - 1] = f[m - 1]
      BY <3>2, <2>3
    <3> QED
      BY <3>1, <3>3
  <2>6. \A i \in 1 .. m : h[i] = IF i = 1 THEN seqs[i] ELSE h[i - 1] \o seqs[i]
    BY <1>5, <2>3, <2>4, <2>5
  <2>7. h = [i \in 1 .. m |-> h[i]]
    OBVIOUS
  <2> HIDE DEF h
  <2>8. h = [i \in 1 .. m |-> IF i = 1 THEN seqs[i] ELSE h[i - 1] \o seqs[i]]
    BY <2>6, <2>7
  <2> QED
    BY <1>3, <2>8 DEF Flattened
<1> QED
  BY <1>4, <1>5

\* FlattenSeq puts all of them together.
LEMMA FlattenSeqIs ==
    ASSUME NEW seqs \in Seq(Seq(Chars)), Len(seqs) # 0
    PROVE  \E f : Flattened(f, seqs, Len(seqs)) /\ UN!FlattenSeq(seqs) = f[Len(seqs)]
<1>1. Len(seqs) \in 1 .. Len(seqs)
  OBVIOUS
<1>2. \E f : Flattened(f, seqs, Len(seqs))
  BY <1>1, FlattenedExists
<1> DEFINE fl == CHOOSE f : f = [i \in 1 .. Len(seqs) |-> IF i = 1 THEN seqs[i] ELSE f[i - 1] \o seqs[i]]
<1>3. Flattened(fl, seqs, Len(seqs))
  BY <1>2 DEF Flattened
<1>4. UN!FlattenSeq(seqs) = fl[Len(seqs)]
  BY Zenon DEF UN!FlattenSeq
<1> QED
  BY <1>3, <1>4

\* What is put together only grows.
Within(s, t) == Len(s) <= Len(t) /\ \A x \in 1 .. Len(s) : t[x] = s[x]

\* What is put together only grows.
LEMMA FlattenedGrows ==
    ASSUME NEW seqs \in Seq(Seq(Chars)), NEW f, Flattened(f, seqs, Len(seqs)), NEW n \in 1 .. Len(seqs)
    PROVE  f[n] \in Seq(Chars) /\ \A i \in 1 .. n : Within(f[i], f[n])
<1> DEFINE Fine(k) == /\ f[k] \in Seq(Chars)
                      /\ \A i \in 1 .. k : Len(f[i]) <= Len(f[k]) /\ \A x \in 1 .. Len(f[i]) : f[k][x] = f[i][x]
           Bad == {k \in 1 .. Len(seqs) : ~Fine(k)}
<1>1. SUFFICES ASSUME Bad # {} PROVE FALSE
  BY DEF Within
<1>2. PICK m \in Bad : \A k \in Bad : m <= k
  <2>1. Bad \in SUBSET Nat
    OBVIOUS
  <2> HIDE DEF Bad
  <2> QED
    BY <1>1, <2>1, LeastNatural
<1>3. m \in 1 .. Len(seqs) /\ ~Fine(m)
  OBVIOUS
<1>4. \A k \in 1 .. Len(seqs) : seqs[k] \in Seq(Chars)
  OBVIOUS
<1>5. CASE m = 1
  <2>1. f[1] = seqs[1]
    BY <1>3 DEF Flattened
  <2> QED
    BY <1>3, <1>4, <1>5, <2>1
<1>6. CASE m # 1
  <2>1. m - 1 \in 1 .. Len(seqs) /\ m - 1 \notin Bad
    <3>1. m - 1 \in 1 .. Len(seqs) /\ m \in Nat /\ ~(m <= m - 1)
      BY <1>3, <1>6
    <3> HIDE DEF Bad
    <3> QED
      BY <1>2, <3>1
  <2>2. Fine(m - 1)
    BY <2>1
  <2>3. f[m] = f[m - 1] \o seqs[m]
    BY <1>3, <1>6 DEF Flattened
  <2>4. f[m] \in Seq(Chars) /\ Len(f[m - 1]) <= Len(f[m]) /\ Len(f[m - 1]) \in Nat
        /\ \A x \in 1 .. Len(f[m - 1]) : f[m][x] = f[m - 1][x]
    <3>1. seqs[m] \in Seq(Chars) /\ f[m - 1] \in Seq(Chars)
      BY <1>3, <1>4, <2>2
    <3>2. f[m - 1] \o seqs[m] \in Seq(Chars) /\ Len(f[m - 1] \o seqs[m]) = Len(f[m - 1]) + Len(seqs[m])
          /\ \A x \in 1 .. Len(f[m - 1]) : (f[m - 1] \o seqs[m])[x] = f[m - 1][x]
      <4> DEFINE a == f[m - 1]
                 b == seqs[m]
      <4>1. a \in Seq(Chars) /\ b \in Seq(Chars)
        BY <3>1
      <4> HIDE DEF a, b
      <4>2. a \o b \in Seq(Chars) /\ Len(a \o b) = Len(a) + Len(b) /\ \A x \in 1 .. Len(a) : (a \o b)[x] = a[x]
        BY <4>1
      <4> QED
        BY <4>2 DEF a, b
    <3>3. Len(seqs[m]) \in Nat /\ Len(f[m - 1]) \in Nat
      BY <3>1
    <3>4. /\ f[m] \in Seq(Chars) /\ Len(f[m]) = Len(f[m - 1]) + Len(seqs[m])
          /\ \A x \in 1 .. Len(f[m - 1]) : f[m][x] = f[m - 1][x]
      BY <2>3, <3>2, Zenon
    <3>5. Len(f[m - 1]) <= Len(f[m])
      <4> DEFINE a == Len(f[m - 1])
                 b == Len(seqs[m])
                 c == Len(f[m])
      <4>1. a \in Nat /\ b \in Nat /\ c = a + b
        BY <3>3, <3>4
      <4> HIDE DEF a, b, c
      <4>2. a <= c
        BY <4>1
      <4> QED
        BY <4>2 DEF a, b, c
    <3> QED
      BY <3>3, <3>4, <3>5, Zenon
  <2>5. ASSUME NEW i \in 1 .. m PROVE Len(f[i]) <= Len(f[m]) /\ \A x \in 1 .. Len(f[i]) : f[m][x] = f[i][x]
    <3>1. CASE i = m
      BY <2>4, <3>1
    <3>2. CASE i # m
      <4>1. i \in 1 .. m - 1
        BY <1>3, <3>2
      <4>2. Len(f[i]) <= Len(f[m - 1]) /\ \A x \in 1 .. Len(f[i]) : f[m - 1][x] = f[i][x]
        BY <2>2, <4>1
      <4>3. Len(f[i]) \in Nat
        <5>1. i \notin Bad /\ i \in 1 .. Len(seqs)
          BY <1>2, <1>3, <4>1
        <5> QED
          BY <5>1
      <4>4. \A x \in 1 .. Len(f[i]) : x \in 1 .. Len(f[m - 1])
        BY <2>4, <4>2, <4>3
      <4> QED
        <5>1. Len(f[m]) \in Nat
          BY <2>4
        <5>2. Len(f[i]) <= Len(f[m])
          BY <2>4, <4>2, <4>3, <5>1
        <5>3. \A x \in 1 .. Len(f[i]) : f[m][x] = f[i][x]
          BY <2>4, <4>2, <4>4
        <5> QED
          BY <5>2, <5>3
    <3> QED
      BY <3>1, <3>2
  <2> QED
    BY <1>3, <2>4, <2>5
<1> QED
  BY <1>5, <1>6

-----------------------------------------------------------------------------
\* What systemd_escape writes for one character.
Code(c) == CASE c = "/" -> <<"-">>
             [] c = "-" -> <<"\\", "x", "2", "d">>
             [] c = "tab" -> <<"\\", "x", "0", "9">>
             [] OTHER -> <<c>>
Codes(a) == [k \in DOMAIN a |-> Code(a[k])]

\* One and four characters are a sequence.
LEMMA ShortSequences ==
    ASSUME NEW S, NEW a \in S, NEW b \in S, NEW c \in S, NEW d \in S
    PROVE  <<a>> \in Seq(S) /\ Len(<<a>>) = 1 /\ <<a, b, c, d>> \in Seq(S) /\ Len(<<a, b, c, d>>) = 4
OBVIOUS

\* A positive number is not below one.
LEMMA NaturalsAreNot == \A x \in Nat \ {0} : ~(x <= 0)
OBVIOUS

\* The first character of a code tells which it is, but for two, which the third tells.
LEMMA CodeIs ==
    /\ \A c \in Chars : Code(c) \in Seq(Chars) /\ Len(Code(c)) \in Nat \ {0}
    /\ \A c, d \in Chars \ {"\\"} :
          Code(c)[1] = Code(d)[1] =>
              c = d \/ (Len(Code(c)) = 4 /\ Len(Code(d)) = 4 /\ (Code(c)[3] = Code(d)[3] => c = d))
<1>1. ASSUME NEW c \in Chars
      PROVE  \/ c = "/" /\ Code(c) = <<"-">>
             \/ c = "-" /\ Code(c) = <<"\\", "x", "2", "d">>
             \/ c = "tab" /\ Code(c) = <<"\\", "x", "0", "9">>
             \/ c \notin {"/", "-", "tab"} /\ Code(c) = <<c>>
  BY DEF Code
<1>2. ASSUME NEW c \in Chars PROVE Code(c) \in Seq(Chars) /\ Len(Code(c)) \in Nat \ {0}
  <2>1. /\ <<"-">> \in Seq(Chars) /\ Len(<<"-">>) = 1 /\ <<c>> \in Seq(Chars) /\ Len(<<c>>) = 1
        /\ <<"\\", "x", "2", "d">> \in Seq(Chars) /\ Len(<<"\\", "x", "2", "d">>) = 4
        /\ <<"\\", "x", "0", "9">> \in Seq(Chars) /\ Len(<<"\\", "x", "0", "9">>) = 4
    BY ShortSequences, Zenon DEF Chars
  <2>2. 1 \in Nat \ {0} /\ 4 \in Nat \ {0}
    OBVIOUS
  <2> QED
    BY <1>1, <2>1, <2>2, Zenon
<1>3. ASSUME NEW c \in Chars \ {"\\"}, NEW d \in Chars \ {"\\"}, Code(c)[1] = Code(d)[1]
      PROVE  c = d \/ (Len(Code(c)) = 4 /\ Len(Code(d)) = 4 /\ (Code(c)[3] = Code(d)[3] => c = d))
  <2>1. \/ c = "/" /\ Code(c) = <<"-">>
        \/ c = "-" /\ Code(c) = <<"\\", "x", "2", "d">>
        \/ c = "tab" /\ Code(c) = <<"\\", "x", "0", "9">>
        \/ c \notin {"/", "-", "tab"} /\ Code(c) = <<c>>
    BY <1>1
  <2>2. \/ d = "/" /\ Code(d) = <<"-">>
        \/ d = "-" /\ Code(d) = <<"\\", "x", "2", "d">>
        \/ d = "tab" /\ Code(d) = <<"\\", "x", "0", "9">>
        \/ d \notin {"/", "-", "tab"} /\ Code(d) = <<d>>
    BY <1>1
  <2> QED
    BY <1>3, <2>1, <2>2
<1> QED
  BY <1>2, <1>3

\* systemd_escape writes the codes of the characters one after the other.
LEMMA EscapeIs ==
    ASSUME NEW a \in Seq(Chars)
    PROVE  /\ Codes(a) \in Seq(Seq(Chars)) /\ Len(Codes(a)) = Len(a)
           /\ UN!systemd_escape(a) = UN!FlattenSeq(Codes(a))
<1>1. \A k \in DOMAIN a : Code(a[k]) \in Seq(Chars)
  <2>1. \A k \in DOMAIN a : a[k] \in Chars
    OBVIOUS
  <2> QED
    BY <2>1, CodeIs, Zenon
<1>2. DOMAIN a = 1 .. Len(a) /\ Len(a) \in Nat
  OBVIOUS
<1>3. Codes(a) \in Seq(Seq(Chars)) /\ Len(Codes(a)) = Len(a)
  <2> HIDE DEF Code
  <2> QED
    BY <1>1, <1>2 DEF Codes
<1>4. UN!systemd_escape(a) = UN!FlattenSeq(Codes(a))
  BY Zenon DEF UN!systemd_escape, Codes, Code
<1> QED
  BY <1>3, <1>4

\* The unit of a name begins with that of its first characters.
LEMMA UnitGrows ==
    ASSUME NEW a \in Seq(Chars), NEW f, Flattened(f, Codes(a), Len(a)), NEW n \in 1 .. Len(a)
    PROVE  f[n] \in Seq(Chars) /\ f[Len(a)] \in Seq(Chars) /\ Within(f[n], f[Len(a)])
<1>1. Codes(a) \in Seq(Seq(Chars)) /\ Len(Codes(a)) = Len(a) /\ Len(a) \in 1 .. Len(a)
  BY EscapeIs
<1> DEFINE seqs == Codes(a)
           last == Len(a)
<1>2. seqs \in Seq(Seq(Chars)) /\ Flattened(f, seqs, Len(seqs)) /\ last \in 1 .. Len(seqs) /\ n \in 1 .. Len(seqs)
      /\ n \in 1 .. last
  BY <1>1
<1> HIDE DEF seqs, last
<1>3. f[n] \in Seq(Chars) /\ f[last] \in Seq(Chars)
  BY <1>2, FlattenedGrows, Zenon
<1>4. Within(f[n], f[last])
  BY <1>2, FlattenedGrows, Zenon
<1> QED
  BY <1>3, <1>4, Zenon DEF last

\* A name without a backslash can be read back.
Plain(a) == \A k \in DOMAIN a : a[k] # "\\"

\* Two names with the same unit have the same character at each place.
SameUnit(a, f, b, h) ==
    /\ a \in Seq(Chars) /\ Plain(a) /\ Flattened(f, Codes(a), Len(a))
    /\ b \in Seq(Chars) /\ Plain(b) /\ Flattened(h, Codes(b), Len(b))
    /\ f[Len(a)] = h[Len(b)]

\* Two names with the same unit have the same character at each place.
LEMMA SameSoFar ==
    ASSUME NEW a, NEW f, NEW b, NEW h, SameUnit(a, f, b, h), NEW n \in 1 .. Len(a), n \in 1 .. Len(b)
    PROVE  a[n] = b[n] /\ f[n] = h[n]
<1>0. /\ a \in Seq(Chars) /\ Plain(a) /\ Flattened(f, Codes(a), Len(a))
      /\ b \in Seq(Chars) /\ Plain(b) /\ Flattened(h, Codes(b), Len(b))
      /\ f[Len(a)] = h[Len(b)]
  BY DEF SameUnit
<1> DEFINE Bad == {k \in 1 .. n : ~(a[k] = b[k] /\ f[k] = h[k])}
<1>1. SUFFICES ASSUME Bad # {} PROVE FALSE
  OBVIOUS
<1>2. PICK m \in Bad : \A k \in Bad : m <= k
  <2>1. Bad \in SUBSET Nat
    OBVIOUS
  <2> HIDE DEF Bad
  <2> QED
    BY <1>1, <2>1, LeastNatural
<1>3. m \in 1 .. n /\ ~(a[m] = b[m] /\ f[m] = h[m]) /\ m \in 1 .. Len(a) /\ m \in 1 .. Len(b)
  BY <1>0
<1>4. /\ Codes(a) \in Seq(Seq(Chars)) /\ Len(Codes(a)) = Len(a)
      /\ Codes(b) \in Seq(Seq(Chars)) /\ Len(Codes(b)) = Len(b)
  BY <1>0, EscapeIs
<1>5. Codes(a)[m] = Code(a[m]) /\ Codes(b)[m] = Code(b[m])
  BY <1>0, <1>3 DEF Codes
<1>6. a[m] \in Chars \ {"\\"} /\ b[m] \in Chars \ {"\\"}
  BY <1>0, <1>3 DEF Plain
<1> DEFINE whole == f[Len(a)]
           x == Code(a[m])
           y == Code(b[m])
<1>7. whole \in Seq(Chars) /\ f[m] \in Seq(Chars) /\ h[m] \in Seq(Chars)
      /\ (\A i \in 1 .. Len(f[m]) : whole[i] = f[m][i]) /\ (\A i \in 1 .. Len(h[m]) : whole[i] = h[m][i])
  <2>1. Len(a) \in 1 .. Len(a) /\ Len(b) \in 1 .. Len(b) /\ m \in 1 .. Len(a) /\ m \in 1 .. Len(b)
    BY <1>0, <1>3
  <2>2. f[Len(a)] \in Seq(Chars) /\ f[m] \in Seq(Chars) /\ Within(f[m], f[Len(a)])
    BY <1>0, <2>1, UnitGrows
  <2>3. h[m] \in Seq(Chars) /\ Within(h[m], h[Len(b)])
    BY <1>0, <2>1, UnitGrows
  <2> QED
    BY <1>0, <2>2, <2>3 DEF Within
<1>8. PICK p \in Seq(Chars) : f[m] = p \o x /\ h[m] = p \o y
  <2>1. CASE m = 1
    <3>1. f[m] = x /\ h[m] = y
      BY <1>0, <1>3, <1>5, <2>1 DEF Flattened
    <3>2. x \in Seq(Chars) /\ y \in Seq(Chars)
      BY <1>6, CodeIs
    <3> HIDE DEF x, y
    <3>3. x = << >> \o x /\ y = << >> \o y /\ << >> \in Seq(Chars)
      BY <3>2
    <3> QED
      BY <3>1, <3>3
  <2>2. CASE m # 1
    <3>1. m - 1 \in 1 .. n /\ m - 1 \in 1 .. Len(a) /\ m - 1 \in 1 .. Len(b) /\ m \in Nat /\ ~(m <= m - 1)
      BY <1>0, <1>3, <2>2
    <3>2. f[m] = f[m - 1] \o x /\ h[m] = h[m - 1] \o y
      BY <1>0, <1>3, <1>5, <2>2 DEF Flattened
    <3>3. m - 1 \notin Bad
      <4> HIDE DEF Bad
      <4> QED
        BY <1>2, <3>1
    <3>4. f[m - 1] = h[m - 1]
      BY <3>1, <3>3
    <3>5. f[m - 1] \in Seq(Chars)
      BY <1>0, <3>1, UnitGrows
    <3> QED
      BY <3>2, <3>4, <3>5
  <2> QED
    BY <2>1, <2>2
<1>9. /\ x \in Seq(Chars) /\ y \in Seq(Chars) /\ Len(x) \in Nat \ {0} /\ Len(y) \in Nat \ {0}
      /\ x[1] = y[1] => a[m] = b[m] \/ (Len(x) = 4 /\ Len(y) = 4 /\ (x[3] = y[3] => a[m] = b[m]))
  <2> HIDE DEF Code
  <2> QED
    BY <1>6, CodeIs
<1> HIDE DEF x, y, whole
<1>10. /\ \A i \in 1 .. Len(x) : whole[Len(p) + i] = x[i]
       /\ \A i \in 1 .. Len(y) : whole[Len(p) + i] = y[i]
  <2>1. /\ Len(p \o x) = Len(p) + Len(x) /\ Len(p \o y) = Len(p) + Len(y) /\ Len(p) \in Nat
        /\ \A i \in 1 .. Len(x) : (p \o x)[Len(p) + i] = x[i]
        /\ \A i \in 1 .. Len(y) : (p \o y)[Len(p) + i] = y[i]
    BY <1>9
  <2>2. /\ \A i \in 1 .. Len(x) : Len(p) + i \in 1 .. Len(p \o x)
        /\ \A i \in 1 .. Len(y) : Len(p) + i \in 1 .. Len(p \o y)
    BY <1>9, <2>1
  <2> QED
    BY <1>7, <1>8, <2>1, <2>2
<1>11. x[1] = y[1]
  BY <1>9, <1>10
<1>12. a[m] = b[m]
  <2>1. Len(x) = 4 /\ Len(y) = 4 => x[3] = y[3]
    BY <1>10
  <2> QED
    BY <1>9, <1>11, <2>1
<1> QED
  BY <1>3, <1>8, <1>12 DEF x, y

\* So they are the same name.
LEMMA EscapeIsInjective ==
    ASSUME NEW a \in Seq(Chars), NEW b \in Seq(Chars), Plain(a), Plain(b),
           UN!systemd_escape(a) = UN!systemd_escape(b), Len(a) <= Len(b)
    PROVE  a = b
<1> HIDE DEF Codes
<1>1. /\ Codes(a) \in Seq(Seq(Chars)) /\ Len(Codes(a)) = Len(a) /\ Len(a) \in Nat
      /\ Codes(b) \in Seq(Seq(Chars)) /\ Len(Codes(b)) = Len(b) /\ Len(b) \in Nat
      /\ UN!FlattenSeq(Codes(a)) = UN!FlattenSeq(Codes(b))
  BY EscapeIs
<1>2. \A c \in Chars : Code(c) \in Seq(Chars) /\ Len(Code(c)) \in Nat \ {0}
  BY CodeIs
<1>3. CASE Len(b) = 0
  BY <1>1, <1>3
<1>4. CASE Len(b) # 0
  <2>1. PICK h : Flattened(h, Codes(b), Len(b)) /\ UN!FlattenSeq(Codes(b)) = h[Len(b)]
    BY <1>1, <1>4, FlattenSeqIs
  <2>2. Len(b) \in 1 .. Len(b)
    BY <1>1, <1>4
  <2>3. ASSUME NEW n \in 1 .. Len(b), Len(h[n]) = Len(h[Len(b)]) PROVE n = Len(b)
    <3>1. SUFFICES ASSUME n # Len(b) PROVE FALSE
      OBVIOUS
    <3>2. n + 1 \in 1 .. Len(b) /\ n \in 1 .. n + 1 /\ n + 1 # 1 /\ (n + 1) - 1 = n
      BY <1>1, <3>1
    <3>3. h[n + 1] = h[n] \o Codes(b)[n + 1]
      BY <2>1, <3>2 DEF Flattened
    <3>4. Codes(b)[n + 1] = Code(b[n + 1]) /\ b[n + 1] \in Chars
      BY <3>2 DEF Codes
    <3>5. h[n] \in Seq(Chars) /\ h[n + 1] \in Seq(Chars) /\ Len(h[n + 1]) <= Len(h[Len(b)]) /\ h[Len(b)] \in Seq(Chars)
      <4>1. /\ h[n] \in Seq(Chars) /\ h[n + 1] \in Seq(Chars) /\ Within(h[n + 1], h[Len(b)])
            /\ h[Len(b)] \in Seq(Chars)
        BY <2>1, <3>2, UnitGrows
      <4> QED
        BY <4>1 DEF Within
    <3> DEFINE c == Codes(b)[n + 1]
               p == h[n]
    <3>6. c \in Seq(Chars) /\ Len(c) \in Nat \ {0} /\ p \in Seq(Chars) /\ h[n + 1] = p \o c
      BY <1>2, <3>3, <3>4, <3>5
    <3>7. Len(p) = Len(h[Len(b)])
      BY <2>3
    <3> HIDE DEF c, p
    <3>8. Len(p \o c) = Len(p) + Len(c) /\ Len(p) \in Nat
      BY <3>6
    <3> QED
      BY <3>5, <3>6, <3>7, <3>8
  <2>4. CASE Len(a) = 0
    <3>1. a = << >> /\ Codes(a) = << >>
      BY <1>1, <2>4
    <3>2. UN!FlattenSeq(Codes(a)) = << >>
      BY <3>1 DEF UN!FlattenSeq
    <3>3. h[Len(b)] = << >>
      BY <1>1, <2>1, <3>2
    <3>4. h[1] = Codes(b)[1] /\ 1 \in 1 .. Len(b) /\ Codes(b)[1] = Code(b[1]) /\ b[1] \in Chars
      BY <1>1, <1>4, <2>1 DEF Flattened, Codes
    <3>5. Len(h[1]) <= Len(h[Len(b)])
      <4>1. Within(h[1], h[Len(b)])
        BY <2>1, <3>4, UnitGrows
      <4> QED
        BY <4>1 DEF Within
    <3>6. FALSE
      <4>1. Len(h[1]) \in Nat \ {0} /\ Len(h[Len(b)]) = 0
        BY <1>2, <3>3, <3>4
      <4>2. Len(h[1]) <= 0
        BY <3>5, <4>1
      <4> QED
        BY <4>1, <4>2, NaturalsAreNot
    <3> QED
      BY <3>6
  <2>5. CASE Len(a) # 0
    <3>1. PICK f : Flattened(f, Codes(a), Len(a)) /\ UN!FlattenSeq(Codes(a)) = f[Len(a)]
      BY <1>1, <2>5, FlattenSeqIs
    <3>2. f[Len(a)] = h[Len(b)]
      BY <1>1, <2>1, <3>1
    <3>3. ASSUME NEW k \in 1 .. Len(a) PROVE a[k] = b[k] /\ f[k] = h[k]
      <4>1. SameUnit(a, f, b, h)
        BY <2>1, <3>1, <3>2 DEF SameUnit
      <4>2. k \in 1 .. Len(b)
        BY <1>1
      <4> QED
        BY <4>1, <4>2, SameSoFar
    <3>4. Len(a) \in 1 .. Len(a) /\ Len(a) \in 1 .. Len(b)
      BY <1>1, <2>5
    <3>5. Len(h[Len(a)]) = Len(h[Len(b)])
      BY <3>2, <3>3, <3>4
    <3>6. Len(a) = Len(b)
      BY <2>3, <3>4, <3>5
    <3> QED
      BY <3>3, <3>6
  <2> QED
    BY <2>4, <2>5
<1> QED
  BY <1>3, <1>4

\* A sequence over a set is one over a larger set.
LEMMA SequencesWiden == ASSUME NEW S, NEW T, S \subseteq T, NEW a \in Seq(S) PROVE a \in Seq(T)
OBVIOUS

\* Two names without a backslash are never the same unit (systemd_escape).
LEMMA EscapesDiffer ==
    ASSUME NEW a \in Seq(STRING), NEW b \in Seq(STRING), "\\" \notin UN!ToSet(a), "\\" \notin UN!ToSet(b),
           UN!systemd_escape(a) = UN!systemd_escape(b)
    PROVE  a = b
<1>1. a \in Seq(Chars) /\ b \in Seq(Chars)
  <2>1. STRING \subseteq Chars
    BY DEF Chars
  <2> HIDE DEF Chars
  <2> QED
    BY <2>1, SequencesWiden, Zenon
<1>2. Plain(a) /\ Plain(b)
  BY DEF Plain, UN!ToSet
<1>3. Len(a) \in Nat /\ Len(b) \in Nat
  BY <1>1
<1>4. CASE Len(a) <= Len(b)
  BY <1>1, <1>2, <1>4, EscapeIsInjective
<1>5. CASE Len(b) <= Len(a)
  BY <1>1, <1>2, <1>5, EscapeIsInjective
<1> QED
  BY <1>3, <1>4, <1>5

\* Every dependency and every guest has a unit of its own.
LEMMA NamesFollow == UN!Inv => UN!NamesAreKept
<1> DEFINE names == {n \in {s1[k].name : k \in DOMAIN s1} \cup UNION {UN!Named(s1[k].depends) : k \in DOMAIN s1} :
                       "\\" \notin UN!ToSet(n)}
<1> SUFFICES ASSUME UN!Inv, s2 = "end" /\ s11 = 0 /\ s5, NEW k \in Guests, "\\" \notin UN!ToSet(s1[k].name)
             PROVE  /\ UN!Cardinality({u \in s9 : u[1] = UN!Requires(s1[k].name)})
                         >= UN!Cardinality({d \in UN!Named(s1[k].depends) : d \in names})
                    /\ \A j \in Guests \ {k} : s1[j].name \in names => UN!Requires(s1[j].name) # UN!Requires(s1[k].name)
  BY DEF UN!NamesAreKept, Guests
<1>1. s1[k].name \in Seq(STRING) /\ s1[k].depends \in UN!TextFile /\ k \in DOMAIN s1
  BY ConfIs, FilesAre
<1>2. \A n \in names : "\\" \notin UN!ToSet(n)
  OBVIOUS
<1> HIDE DEF names
<1> DEFINE S == {d \in UN!Named(s1[k].depends) : d \in names}
           T == {u \in s9 : u[1] = UN!Requires(s1[k].name)}
           F == [d \in S |-> <<UN!Requires(s1[k].name), UN!Service(d)>>]
<1>3. UN!Named(s1[k].depends) \subseteq Seq(STRING)
  BY <1>1 DEF UN!Named, UN!ToSet, UN!TextFile
<1>4. UN!Wanted(k) \subseteq s9
  <2>1. s10 = {} /\ k < s3
    BY <1>1 DEF UN!Inv
  <2>2. UN!Linked(k) = UN!Wanted(k)
    BY <2>1 DEF UN!Linked
  <2> QED
    BY <2>1, <2>2 DEF UN!Inv, Guests
<1>5. \A d \in S : F[d] \in T
  <2> TAKE d \in S
  <2>1. <<UN!Requires(s1[k].name), UN!Service(d)>> \in UN!Wanted(k)
    BY DEF UN!Wanted, UN!Dependencies
  <2> QED
    BY <1>4, <2>1
<1>6. \A d, e \in S : F[d] = F[e] => d = e
  <2> TAKE d \in S, e \in S
  <2> HAVE F[d] = F[e]
  <2>1. UN!systemd_escape(d) = UN!systemd_escape(e)
    BY DEF UN!Service
  <2>2. d \in Seq(STRING) /\ e \in Seq(STRING) /\ "\\" \notin UN!ToSet(d) /\ "\\" \notin UN!ToSet(e)
    BY <1>2, <1>3
  <2> QED
    BY <2>1, <2>2, EscapesDiffer, Zenon
<1>7. UN!Cardinality(T) >= UN!Cardinality(S)
  <2>1. IsFiniteSet(T)
    <3>1. IsFiniteSet(s9) /\ T \subseteq s9
      BY SameFinite DEF UN!Inv
    <3> QED
      BY <3>1, FS_Subset
  <2>2. F \in Injection(S, T)
    <3>1. F \in [S -> T] /\ DOMAIN F = S
      BY <1>5
    <3> HIDE DEF F, S, T
    <3> QED
      BY <1>6, <3>1 DEF Injection, IsInjective
  <2> HIDE DEF F, S, T
  <2>3. IsFiniteSet(S) /\ Cardinality(S) <= Cardinality(T)
    BY <2>1, <2>2, FS_Injection
  <2>4. Cardinality(S) \in Nat /\ Cardinality(T) \in Nat
    BY <2>1, <2>3, FS_CardinalityType
  <2>5. Cardinality(T) >= Cardinality(S)
    BY <2>3, <2>4
  <2> QED
    BY <2>5, SameCardinality
<1>8. ASSUME NEW j \in Guests \ {k}, s1[j].name \in names
      PROVE  UN!Requires(s1[j].name) # UN!Requires(s1[k].name)
  <2>1. SUFFICES ASSUME UN!Requires(s1[j].name) = UN!Requires(s1[k].name) PROVE FALSE
    OBVIOUS
  <2>2. UN!systemd_escape(s1[j].name) = UN!systemd_escape(s1[k].name)
    BY <2>1 DEF UN!Requires
  <2>3. j \in DOMAIN s1 /\ s1[j].name \in Seq(STRING)
    BY ConfIs, FilesAre
  <2>4. "\\" \notin UN!ToSet(s1[j].name)
    BY <1>2, <1>8
  <2>5. s1[j].name = s1[k].name
    BY <1>1, <2>2, <2>3, <2>4, EscapesDiffer
  <2>6. j = k
    BY <1>1, <2>3, <2>5, ConfIs DEF UN!Directory
  <2> QED
    BY <2>6
<1> QED
  BY <1>7, <1>8

\* What the invariant says at the end of the generator.
LEMMA UnitsFollow == UN!Inv => UN!OthersComplete /\ UN!SuccessIsComplete /\ UN!NamesAreKept
BY CompleteFollows, NamesFollow

-----------------------------------------------------------------------------
\* What holds of the generator after every step.
UnitsInv == which = "units" => UN!Inv

\* It holds at the start.
LEMMA UnitsInit == Init => UnitsInv
BY UnitsStart DEF Init, UnitsInv

\* And every step keeps it, one of another component too.
LEMMA UnitsStep == UnitsInv /\ [Next]_all => UnitsInv'
<1> SUFFICES ASSUME UnitsInv, [Next]_all PROVE UnitsInv'
  OBVIOUS
<1>1. which' = which
  BY DEF Next, Keep9, Keep11, Keep12, all
<1>2. which = "units" => UN!Next \/ UNCHANGED UN!vars
  BY DEF Next, all, UN!vars
<1> QED
  BY <1>1, <1>2, UnitsGoOn DEF UnitsInv

\* The invariant of the generator is one of the whole specification.
THEOREM UnitsInvariant == Spec => []UnitsInv
BY UnitsInit, UnitsStep, PTL DEF Spec

\* systemd-vserver-generator: for every configuration and any number of calls that fail,
\* what fails for one guest is no harm to the others, success means that every unit is
\* there, and no two names without a backslash are the same unit.
THEOREM UnitsCorrect == Spec => []UnitsAreComplete
<1>1. UnitsInv => UnitsAreComplete
  <2>1. UN!Inv => UN!TypeOK
    BY DEF UN!Inv
  <2> QED
    BY <2>1, UnitsFollow DEF UnitsInv, UnitsAreComplete
<1> QED
  BY <1>1, UnitsInvariant, PTL
=============================================================================
