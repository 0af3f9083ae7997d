--------------------------- MODULE LibraryProofs ---------------------------
(***************************************************************************)
(* libvserver, for every kernel, every list of words and every value: the  *)
(* newest version of a call is chosen, and lists of flags read and print   *)
(* as their tables say.                                                    *)
(***************************************************************************)
EXTENDS Tools, TLAPS, WellFoundedInduction

\* A set of numbers that is not empty has a least one.
LEMMA LeastNatural ==
    ASSUME NEW S \in SUBSET Nat, S # {}
    PROVE  \E m \in S : \A k \in S : m <= k
<1> DEFINE R == OpToRel(<, Nat)
<1>1. IsWellFoundedOn(R, Nat)
  BY NatLessThanWellFounded
<1>2. PICK m \in S : \A k \in S : ~(<<k, m>> \in R)
  BY <1>1, WFMin
<1>3. \A k \in S : ~(k < m)
  BY <1>2 DEF OpToRel
<1> QED
  BY <1>3

-----------------------------------------------------------------------------
Versions == DOMAIN DI!Since \cup DOMAIN DI!Bit

\* A function that asks tries the newest version first; one that does not has one
\* version, or falls back to what came later.
Sound(f) ==
    /\ f.tries \in Seq(Versions) /\ f.tries # << >>
    /\ f.multi \in BOOLEAN
    /\ f.multi => \A i, j \in DOMAIN f.tries : i < j => DI!Age(f.tries[j]) <= DI!Age(f.tries[i])
    /\ ~f.multi => \/ Len(f.tries) = 1
                   \/ \A i \in DOMAIN f.tries :
                         f.tries[i] \in DOMAIN DI!Since /\ DI!Since[f.tries[1]] <= DI!Since[f.tries[i]]

\* A function with one version is sound, whether its version is checked or not.
LEMMA OnlyIsSound == \A v \in Versions : Sound(DI!Only(v)) /\ Sound(DI!Checked(DI!Only(v)))
BY DEF Sound, DI!Only, DI!Checked

\* The versions of the system calls, oldest first.
LEMMA VersionNames ==
    Versions = {"legacy", "oldproc", "olduts", "compat", "v11", "fscompat", "v13", "v13obs", "v13a", "net",
                "v13b", "v21", "v22", "v23", "v23p", "spaces", "tag", "netv2"}
BY DEF Versions, DI!Since, DI!Bit

\* So is one that tries the new version first whatever the kernel says.
LEMMA FirstIsSound == Sound(DI!First(<<"v11", "v13">>))
<1>1. <<"v11", "v13">> \in Seq(Versions)
  BY VersionNames
<1> QED
  BY <1>1 DEF Sound, DI!First, DI!Since

\* The ages of the versions that functions choose between.
Ages ==
    /\ DI!Age("legacy") = 0 /\ DI!Age("oldproc") = 0 /\ DI!Age("olduts") = 0
    /\ DI!Age("compat") = \h10000 /\ DI!Age("fscompat") = \h10000 /\ DI!Age("v13") = \h10011
    /\ DI!Age("v13obs") = \h10011 /\ DI!Age("v13a") = \h10012 /\ DI!Age("net") = \h10016
    /\ DI!Age("v13b") = \h10021 /\ DI!Age("v21") = \h20100 /\ DI!Age("v22") = \h20200
    /\ DI!Age("v23p") = \h20304 /\ DI!Age("spaces") = \h20200 /\ DI!Age("netv2") = \h20302

\* How old each version is, as the tables of the library have it.
LEMMA AgesAre == Ages
<1>1. /\ DI!Age("legacy") = 0 /\ DI!Age("oldproc") = 0 /\ DI!Age("olduts") = 0
      /\ DI!Age("compat") = \h10000 /\ DI!Age("fscompat") = \h10000 /\ DI!Age("v13") = \h10011
  BY DEF DI!Age, DI!Since
<1>2. /\ DI!Age("v13obs") = \h10011 /\ DI!Age("v13a") = \h10012 /\ DI!Age("net") = \h10016
      /\ DI!Age("v13b") = \h10021 /\ DI!Age("v21") = \h20100 /\ DI!Age("v22") = \h20200
  BY DEF DI!Age, DI!Since
<1>3. DI!Age("v23p") = \h20304 /\ DI!Age("spaces") = \h20200 /\ DI!Age("netv2") = \h20302
  BY DEF DI!Age, DI!Since
<1> QED
  BY <1>1, <1>2, <1>3 DEF Ages

\* The functions with several versions try the newer ones first.
LEMMA SeveralIsSound ==
    \A s \in {<<"compat", "legacy">>, <<"v21", "v13a">>, <<"spaces", "v13a">>, <<"v23p", "spaces">>,
              <<"v23p", "spaces", "v13">>, <<"v13", "fscompat">>, <<"v13", "oldproc">>,
              <<"v13", "olduts">>, <<"netv2", "net">>, <<"v22", "v21", "v13b", "v13obs">>} :
       Sound(DI!Several(s)) /\ Sound(DI!Checked(DI!Several(s)))
<1> SUFFICES ASSUME NEW s, s \in {<<"compat", "legacy">>, <<"v21", "v13a">>, <<"spaces", "v13a">>, <<"v23p", "spaces">>,
              <<"v23p", "spaces", "v13">>, <<"v13", "fscompat">>, <<"v13", "oldproc">>,
              <<"v13", "olduts">>, <<"netv2", "net">>, <<"v22", "v21", "v13b", "v13obs">>}
    PROVE s \in Seq(Versions) /\ s # << >> /\ \A i, j \in DOMAIN s : i < j => DI!Age(s[j]) <= DI!Age(s[i])
  BY DEF Sound, DI!Several, DI!Checked
<1>1. s \in Seq(Versions) /\ s # << >>
  <2>1. \A a, b \in Versions : <<a, b>> \in Seq(Versions) /\ <<a, b>> # << >>
    OBVIOUS
  <2>2. \A a, b, c \in Versions : <<a, b, c>> \in Seq(Versions) /\ <<a, b, c>> # << >>
    OBVIOUS
  <2>3. \A a, b, c, d \in Versions : <<a, b, c, d>> \in Seq(Versions) /\ <<a, b, c, d>> # << >>
    OBVIOUS
  <2>4. {"legacy", "oldproc", "olduts", "compat", "fscompat", "v13", "v13obs", "v13a", "net", "v13b", "v21",
         "v22", "v23p", "spaces", "netv2"} \subseteq Versions
    BY VersionNames
  <2>5. CASE s = <<"v23p", "spaces", "v13">>
    BY <2>2, <2>4, <2>5
  <2>6. CASE s = <<"v22", "v21", "v13b", "v13obs">>
    BY <2>3, <2>4, <2>6
  <2>7. CASE s \in {<<"compat", "legacy">>, <<"v21", "v13a">>, <<"spaces", "v13a">>, <<"v23p", "spaces">>}
    BY <2>1, <2>4, <2>7
  <2>8. CASE s \in {<<"v13", "fscompat">>, <<"v13", "oldproc">>, <<"v13", "olduts">>, <<"netv2", "net">>}
    BY <2>1, <2>4, <2>8
  <2> QED
    BY <2>5, <2>6, <2>7, <2>8
<1>2. \A i, j \in DOMAIN s : i < j => DI!Age(s[j]) <= DI!Age(s[i])
  BY AgesAre DEF Ages
<1> QED
  BY <1>1, <1>2

\* Every function of the library is sound.
LEMMA LibraryIsSound == \A n \in DOMAIN DI!Library : Sound(DI!Library[n])
<1>1. \A v \in {"v13b", "v13", "v21", "v22", "v23", "v13a", "net", "v23p", "tag"} :
          Sound(DI!Only(v)) /\ Sound(DI!Checked(DI!Only(v)))
  BY OnlyIsSound, VersionNames
<1>2. /\ Sound(DI!vc_new_s_context)
      /\ Sound(DI!vc_add_dlimit)
      /\ Sound(DI!vc_cleanup_namespace)
      /\ Sound(DI!vc_ctx_create)
      /\ Sound(DI!vc_ctx_migrate)
      /\ Sound(DI!vc_ctx_stat)
  BY <1>1, FirstIsSound, SeveralIsSound DEF DI!vc_new_s_context, DI!vc_add_dlimit, DI!vc_cleanup_namespace, DI!vc_ctx_create, DI!vc_ctx_migrate, DI!vc_ctx_stat
<1>3. /\ Sound(DI!vc_enter_namespace)
      /\ Sound(DI!vc_fget_iattr)
      /\ Sound(DI!vc_fset_iattr)
      /\ Sound(DI!vc_get_badness)
      /\ Sound(DI!vc_get_ccaps)
      /\ Sound(DI!vc_get_cflags)
  BY <1>1, FirstIsSound, SeveralIsSound DEF DI!vc_enter_namespace, DI!vc_fget_iattr, DI!vc_fset_iattr, DI!vc_get_badness, DI!vc_get_ccaps, DI!vc_get_cflags
<1>4. /\ Sound(DI!vc_get_dlimit)
      /\ Sound(DI!vc_get_iattr)
      /\ Sound(DI!vc_get_ncaps)
      /\ Sound(DI!vc_get_nflags)
      /\ Sound(DI!vc_get_nx_info)
      /\ Sound(DI!vc_get_sched)
  BY <1>1, FirstIsSound, SeveralIsSound DEF DI!vc_get_dlimit, DI!vc_get_iattr, DI!vc_get_ncaps, DI!vc_get_nflags, DI!vc_get_nx_info, DI!vc_get_sched
<1>5. /\ Sound(DI!vc_get_space_default)
      /\ Sound(DI!vc_get_space_mask)
      /\ Sound(DI!vc_get_task_nid)
      /\ Sound(DI!vc_get_task_xid)
      /\ Sound(DI!vc_get_umask)
      /\ Sound(DI!vc_get_vci)
  BY <1>1, FirstIsSound, SeveralIsSound DEF DI!vc_get_space_default, DI!vc_get_space_mask, DI!vc_get_task_nid, DI!vc_get_task_xid, DI!vc_get_umask, DI!vc_get_vci
<1>6. /\ Sound(DI!vc_get_vhi_name)
      /\ Sound(DI!vc_get_vx_info)
      /\ Sound(DI!vc_ctx_kill)
      /\ Sound(DI!vc_net_add)
      /\ Sound(DI!vc_net_create)
      /\ Sound(DI!vc_net_migrate)
  BY <1>1, FirstIsSound, SeveralIsSound DEF DI!vc_get_vhi_name, DI!vc_get_vx_info, DI!vc_ctx_kill, DI!vc_net_add, DI!vc_net_create, DI!vc_net_migrate
<1>7. /\ Sound(DI!vc_net_remove)
      /\ Sound(DI!vc_rem_dlimit)
      /\ Sound(DI!vc_reset_minmax)
      /\ Sound(DI!vc_get_rlimit)
      /\ Sound(DI!vc_rlimit_stat)
      /\ Sound(DI!vc_sched_info)
  BY <1>1, FirstIsSound, SeveralIsSound DEF DI!vc_net_remove, DI!vc_rem_dlimit, DI!vc_reset_minmax, DI!vc_get_rlimit, DI!vc_rlimit_stat, DI!vc_sched_info
<1>8. /\ Sound(DI!vc_set_badness)
      /\ Sound(DI!vc_set_ccaps)
      /\ Sound(DI!vc_set_cflags)
      /\ Sound(DI!vc_set_dlimit)
      /\ Sound(DI!vc_set_iattr)
      /\ Sound(DI!vc_set_mapping)
  BY <1>1, FirstIsSound, SeveralIsSound DEF DI!vc_set_badness, DI!vc_set_ccaps, DI!vc_set_cflags, DI!vc_set_dlimit, DI!vc_set_iattr, DI!vc_set_mapping
<1>9. /\ Sound(DI!vc_set_namespace)
      /\ Sound(DI!vc_set_ncaps)
      /\ Sound(DI!vc_set_nflags)
      /\ Sound(DI!vc_set_sched)
      /\ Sound(DI!vc_set_umask)
      /\ Sound(DI!vc_set_vhi_name)
  BY <1>1, FirstIsSound, SeveralIsSound DEF DI!vc_set_namespace, DI!vc_set_ncaps, DI!vc_set_nflags, DI!vc_set_sched, DI!vc_set_umask, DI!vc_set_vhi_name
<1>10. /\ Sound(DI!vc_tag_create)
      /\ Sound(DI!vc_tag_migrate)
      /\ Sound(DI!vc_get_task_tag)
      /\ Sound(DI!vc_unset_mapping)
      /\ Sound(DI!vc_virt_stat)
      /\ Sound(DI!vc_wait_exit)
  BY <1>1, FirstIsSound, SeveralIsSound DEF DI!vc_tag_create, DI!vc_tag_migrate, DI!vc_get_task_tag, DI!vc_unset_mapping, DI!vc_virt_stat, DI!vc_wait_exit
<1> QED
  BY <1>2, <1>3, <1>4, <1>5, <1>6, <1>7, <1>8, <1>9, <1>10 DEF DI!Library

-----------------------------------------------------------------------------
\* Min is the least number of a set.
LEMMA MinIs ==
    ASSUME NEW S \in SUBSET Nat, S # {}
    PROVE  DI!Min(S) \in S /\ \A k \in S : DI!Min(S) <= k
BY LeastNatural DEF DI!Min

\* Every version came with a version of the kernel.
LEMMA SinceIsNat == \A v \in DOMAIN DI!Since : DI!Since[v] \in Nat
BY DEF DI!Since

\* Every version has an age.
LEMMA AgeIsNat == \A v \in Versions : DI!Age(v) \in Nat
<1>1. \A v \in Versions \ {"spaces", "tag", "netv2"} : v \in DOMAIN DI!Since
  BY VersionNames DEF DI!Since
<1> QED
  BY <1>1, SinceIsNat DEF DI!Age

\* The kernel has one of the versions of the function.
HasOne(f) == \E v \in DI!ToSet(f.tries) : DI!Has(v)

\* A function that asks for the version gets the newest one that the kernel has.
LEMMA NewestIsChosen ==
    ASSUME NEW f, Sound(f), f.multi
    PROVE  LET c == DI!CALL_VC(f, s1.ver)
           IN  /\ c = "none" <=> ~HasOne(f)
               /\ c \in Versions \cup {"none"}
               /\ c # "none" => DI!Has(c) /\ \A v \in DI!ToSet(f.tries) : DI!Has(v) => DI!Age(v) <= DI!Age(c)
<1> DEFINE fits == {i \in DOMAIN f.tries : ~f.multi \/ DI!Selected(f.tries[i], s1.ver, s1.conf)}
           c == DI!CALL_VC(f, s1.ver)
<1>1. fits \in SUBSET Nat /\ \A i \in DOMAIN f.tries : f.tries[i] \in Versions
  BY DEF Sound
<1>2. \A i \in DOMAIN f.tries : i \in fits <=> DI!Has(f.tries[i])
  BY DEF DI!Has
<1>3. "none" \notin Versions
  BY VersionNames
<1>4. CASE fits = {}
  <2>1. c = "none"
    BY <1>4 DEF DI!CALL_VC
  <2>2. ~HasOne(f)
    BY <1>2, <1>4 DEF HasOne, DI!ToSet
  <2> QED
    BY <2>1, <2>2
<1>5. CASE fits # {}
  <2> DEFINE m == DI!Min(fits)
  <2>1. m \in fits /\ \A k \in fits : m <= k
    BY <1>1, <1>5, MinIs
  <2>2. c = f.tries[m]
    BY <1>5 DEF DI!CALL_VC
  <2> HIDE DEF m, c, fits
  <2>3. m \in DOMAIN f.tries /\ DI!Has(c)
    BY <1>2, <2>1, <2>2 DEF fits
  <2>4. c \in Versions /\ HasOne(f)
    BY <1>1, <2>2, <2>3 DEF HasOne, DI!ToSet
  <2>5. ASSUME NEW v \in DI!ToSet(f.tries), DI!Has(v)
        PROVE  DI!Age(v) <= DI!Age(c)
    <3>1. PICK k \in DOMAIN f.tries : v = f.tries[k]
      BY <2>5 DEF DI!ToSet
    <3>2. DI!Has(f.tries[k])
      BY <2>5, <3>1
    <3>3. k \in fits
      BY <1>2, <3>1, <3>2
    <3>4. m <= k /\ m \in Nat /\ k \in Nat
      BY <1>1, <2>1, <3>3
    <3>5. m = k \/ m < k
      BY <3>4
    <3>6. DI!Age(c) \in Nat
      BY <2>4, AgeIsNat
    <3>7. CASE m < k
      BY <2>2, <2>3, <3>1, <3>7 DEF Sound
    <3>8. CASE m = k
      BY <2>2, <3>1, <3>6, <3>8
    <3> QED
      BY <3>5, <3>7, <3>8
  <2> QED
    BY <1>3, <2>3, <2>4, <2>5 DEF c
<1> QED
  BY <1>4, <1>5

\* A function that does not has one version, or its first is the oldest.
LEMMA FirstIsChosen ==
    ASSUME NEW f, Sound(f), ~f.multi, s1.ver \in Nat, NEW ver
    PROVE  LET c == DI!CALL_VC(f, ver)
           IN  c \in Versions /\ c # "none" /\ (HasOne(f) <=> DI!Has(c))
<1> DEFINE fits == {i \in DOMAIN f.tries : ~f.multi \/ DI!Selected(f.tries[i], ver, s1.conf)}
<1>1. fits = DOMAIN f.tries /\ 1 \in DOMAIN f.tries /\ DOMAIN f.tries = 1 .. Len(f.tries)
  BY DEF Sound
<1>2. DI!Min(fits) = 1
  <2>1. fits \in SUBSET Nat
    BY <1>1
  <2>2. DI!Min(fits) \in fits /\ \A k \in fits : DI!Min(fits) <= k
    BY <1>1, <2>1, MinIs
  <2> HIDE DEF fits
  <2> QED
    BY <1>1, <2>2 DEF Sound
<1>3. DI!CALL_VC(f, ver) = f.tries[1] /\ f.tries[1] \in Versions
  <2>1. DI!CALL_VC(f, ver) = IF fits = {} THEN "none" ELSE f.tries[DI!Min(fits)]
    BY DEF DI!CALL_VC
  <2> HIDE DEF fits
  <2>2. DI!CALL_VC(f, ver) = f.tries[1]
    BY <1>1, <1>2, <2>1
  <2> QED
    BY <1>1, <2>2 DEF Sound
<1>4. "none" \notin Versions
  BY VersionNames
<1>5. DI!Has(f.tries[1]) => HasOne(f)
  BY <1>1 DEF HasOne, DI!ToSet
<1>6. ASSUME HasOne(f)
      PROVE  DI!Has(f.tries[1])
  <2>1. PICK k \in DOMAIN f.tries : DI!Has(f.tries[k])
    BY <1>6 DEF HasOne, DI!ToSet
  <2>2. CASE Len(f.tries) = 1
    BY <1>1, <2>1, <2>2
  <2>3. CASE \A i \in DOMAIN f.tries :
                f.tries[i] \in DOMAIN DI!Since /\ DI!Since[f.tries[1]] <= DI!Since[f.tries[i]]
    <3>1. DOMAIN DI!Since \cap DOMAIN DI!Bit = {}
      BY DEF DI!Since, DI!Bit
    <3>2. s1.ver >= DI!Since[f.tries[k]]
      BY <2>1, <2>3, <3>1 DEF DI!Has, DI!Selected
    <3>3. DI!Since[f.tries[1]] \in Nat /\ DI!Since[f.tries[k]] \in Nat
      BY <1>1, <2>1, <2>3, SinceIsNat
    <3>4. s1.ver >= DI!Since[f.tries[1]]
      BY <2>1, <2>3, <3>2, <3>3
    <3> QED
      BY <1>1, <2>3, <3>1, <3>4 DEF DI!Has, DI!Selected
  <2> QED
    BY <2>2, <2>3 DEF Sound
<1> QED
  BY <1>3, <1>4, <1>5, <1>6

\* Python is told of every failure but for those of two functions.
Told(t) ==
    \A m \in DOMAIN t :
        /\ t[m] \in {"raised", "false", "value"}
        /\ t[m] = "value" => m \in {"vc_get_space_mask", "vc_get_space_default"}

\* Two parts of the Python binding that tell of failures do so together.
LEMMA MergedIsTold == ASSUME NEW a, NEW b, Told(a), Told(b) PROVE Told(DI!Merge(a, b))
BY DEF Told, DI!Merge

\* A method that raises tells of its failures.
LEMMA RaisedIsTold == ASSUME NEW S PROVE Told(DI!Raise(S))
BY DEF Told, DI!Raise

\* So every method of the binding tells, but for the two masks.
LEMMA PythonIsTold == Told(DI!python)
<1>1. Told(DI!pyContexts) /\ Told(DI!pyNet) /\ Told(DI!pyAttributes) /\ Told(DI!pyScheduling)
  BY RaisedIsTold DEF DI!pyContexts, DI!pyNet, DI!pyAttributes, DI!pyScheduling
<1>2. Told([vc_wait_exit |-> "false"])
  BY DEF Told
<1>3. Told([m \in {"vc_get_space_mask", "vc_get_space_default"} |-> "value"])
  BY DEF Told
<1>4. Told(DI!pyInfo)
  BY <1>2, RaisedIsTold, MergedIsTold DEF DI!pyInfo
<1>5. Told(DI!pySpaces)
  BY <1>3, RaisedIsTold, MergedIsTold DEF DI!pySpaces
<1> QED
  BY <1>1, <1>4, <1>5, MergedIsTold DEF DI!python

-----------------------------------------------------------------------------
\* The versions that a supported feature stands for.
LEMMA SupportedVersions ==
    ASSUME s1.ver \in Nat
    PROVE  /\ DI!isSupported("MIGRATE") => DI!Has("v13a")
           /\ DI!isSupported("VWAIT") => DI!Has("v13b")
           /\ DI!isSupported("VINFO") => DI!Has("oldproc")
           /\ DI!isSupported("VHI") => DI!Has("olduts")
           /\ DI!isSupported("VSTAT") => DI!Has("v21")
           /\ DI!isSupported("PPTAG") => DI!Has("tag")
           /\ DI!isSupported("VKILL") => DI!Has("v11")
           /\ DI!isSupported("RLIMIT") => DI!Has("v11")
           /\ DI!isSupported("IATTR") => DI!Has("v13")
           /\ DI!isSupported("NAMESPACE") => DI!Has("v13")
           /\ DI!isSupported("VNET") => DI!Has("net")
           /\ DI!isSupported("SCHED") => DI!Has("v13obs")
           /\ DI!isSupported("SPACES") => DI!Has("spaces")
<1>1. /\ s1.ver >= \h10010 => DI!Has("oldproc") /\ DI!Has("olduts")
      /\ s1.ver >= \h10004 => DI!Has("v11")
      /\ s1.ver >= \h10011 => DI!Has("v13")
      /\ s1.ver >= \h10012 => DI!Has("v13") /\ DI!Has("v13a")
      /\ s1.ver >= \h10025 => DI!Has("v13b")
      /\ s1.ver >= \h20000 => DI!Has("v13obs")
      /\ s1.ver >= \h20001 => DI!Has("net")
      /\ s1.ver >= \h20103 => DI!Has("v21")
      /\ "PPTAG" \in s1.conf => DI!Has("tag")
      /\ "SPACES" \in s1.conf => DI!Has("spaces")
  BY DEF DI!Has, DI!Selected, DI!Since, DI!Bit
<1>2. DI!isSupported("MIGRATE") => DI!Has("v13a")
  BY <1>1 DEF DI!isSupported
<1>3. DI!isSupported("VWAIT") => DI!Has("v13b")
  BY <1>1 DEF DI!isSupported
<1>4. DI!isSupported("VINFO") => DI!Has("oldproc")
  BY <1>1 DEF DI!isSupported
<1>5. DI!isSupported("VHI") => DI!Has("olduts")
  BY <1>1 DEF DI!isSupported
<1>6. DI!isSupported("VSTAT") => DI!Has("v21")
  BY <1>1 DEF DI!isSupported
<1>7. DI!isSupported("PPTAG") => DI!Has("tag")
  BY <1>1 DEF DI!isSupported
<1>8. DI!isSupported("VKILL") => DI!Has("v11")
  BY <1>1 DEF DI!isSupported
<1>9. DI!isSupported("RLIMIT") => DI!Has("v11")
  BY <1>1 DEF DI!isSupported
<1>10. DI!isSupported("IATTR") => DI!Has("v13")
  BY <1>1 DEF DI!isSupported
<1>11. DI!isSupported("NAMESPACE") => DI!Has("v13")
  BY <1>1 DEF DI!isSupported
<1>12. DI!isSupported("VNET") => DI!Has("net")
  BY <1>1 DEF DI!isSupported
<1>13. DI!isSupported("SCHED") => DI!Has("v13obs")
  BY <1>1 DEF DI!isSupported
<1>14. DI!isSupported("SPACES") => DI!Has("spaces")
  BY <1>1 DEF DI!isSupported
<1> QED
  BY <1>2, <1>3, <1>4, <1>5, <1>6, <1>7, <1>8, <1>9, <1>10, <1>11, <1>12, <1>13, <1>14

\* The function is there and the kernel has one of its versions.
Callable(n) == n \in DOMAIN DI!Library /\ HasOne(DI!Library[n])

\* A function one of whose versions the kernel has can be called.
LEMMA TriedIsCallable ==
    ASSUME NEW n, NEW f, NEW v, n \in DOMAIN DI!Library, DI!Library[n] = f,
           \E k \in DOMAIN f.tries : f.tries[k] = v,
           DI!Has(v)
    PROVE  Callable(n)
BY DEF HasOne, DI!ToSet, Callable

\* What vc_isSupported says is there has a version that the kernel has.
LEMMA SupportedHasOne ==
    ASSUME s1.ver \in Nat, NEW u \in DI!Uses, DI!isSupported(u[1])
    PROVE  Callable(u[2])
<1>1. ASSUME DI!isSupported("MIGRATE") PROVE Callable("vc_ctx_migrate") /\ Callable("vc_ctx_create") /\ Callable("vc_get_cflags")
  <2>1. "vc_ctx_migrate" \in DOMAIN DI!Library /\ DI!Library["vc_ctx_migrate"] = DI!vc_ctx_migrate
    BY DEF DI!Library
  <2>2. \E k \in DOMAIN DI!vc_ctx_migrate.tries : DI!vc_ctx_migrate.tries[k] = "v13a"
    <3>1. 2 \in DOMAIN DI!vc_ctx_migrate.tries /\ DI!vc_ctx_migrate.tries[2] = "v13a"
      BY DEF DI!vc_ctx_migrate, DI!Several, DI!Checked
    <3> QED
      BY <3>1
  <2>3. "vc_ctx_create" \in DOMAIN DI!Library /\ DI!Library["vc_ctx_create"] = DI!vc_ctx_create
    BY DEF DI!Library
  <2>4. \E k \in DOMAIN DI!vc_ctx_create.tries : DI!vc_ctx_create.tries[k] = "v13a"
    <3>1. 2 \in DOMAIN DI!vc_ctx_create.tries /\ DI!vc_ctx_create.tries[2] = "v13a"
      BY DEF DI!vc_ctx_create, DI!Several, DI!Checked
    <3> QED
      BY <3>1
  <2>5. "vc_get_cflags" \in DOMAIN DI!Library /\ DI!Library["vc_get_cflags"] = DI!vc_get_cflags
    BY DEF DI!Library
  <2>6. \E k \in DOMAIN DI!vc_get_cflags.tries : DI!vc_get_cflags.tries[k] = "v13a"
    <3>1. 1 \in DOMAIN DI!vc_get_cflags.tries /\ DI!vc_get_cflags.tries[1] = "v13a"
      BY DEF DI!vc_get_cflags, DI!Only, DI!Checked
    <3> QED
      BY <3>1
  <2> QED
    BY <1>1, <2>1, <2>2, <2>3, <2>4, <2>5, <2>6, SupportedVersions, TriedIsCallable
<1>2. ASSUME DI!isSupported("VWAIT") PROVE Callable("vc_wait_exit")
  <2>1. "vc_wait_exit" \in DOMAIN DI!Library /\ DI!Library["vc_wait_exit"] = DI!vc_wait_exit
    BY DEF DI!Library
  <2>2. \E k \in DOMAIN DI!vc_wait_exit.tries : DI!vc_wait_exit.tries[k] = "v13b"
    <3>1. 1 \in DOMAIN DI!vc_wait_exit.tries /\ DI!vc_wait_exit.tries[1] = "v13b"
      BY DEF DI!vc_wait_exit, DI!Only, DI!Checked
    <3> QED
      BY <3>1
  <2> QED
    BY <1>2, <2>1, <2>2, SupportedVersions, TriedIsCallable
<1>3. ASSUME DI!isSupported("VINFO") PROVE Callable("vc_get_vx_info")
  <2>1. "vc_get_vx_info" \in DOMAIN DI!Library /\ DI!Library["vc_get_vx_info"] = DI!vc_get_vx_info
    BY DEF DI!Library
  <2>2. \E k \in DOMAIN DI!vc_get_vx_info.tries : DI!vc_get_vx_info.tries[k] = "oldproc"
    <3>1. 2 \in DOMAIN DI!vc_get_vx_info.tries /\ DI!vc_get_vx_info.tries[2] = "oldproc"
      BY DEF DI!vc_get_vx_info, DI!Several, DI!Checked
    <3> QED
      BY <3>1
  <2> QED
    BY <1>3, <2>1, <2>2, SupportedVersions, TriedIsCallable
<1>4. ASSUME DI!isSupported("VHI") PROVE Callable("vc_get_vhi_name")
  <2>1. "vc_get_vhi_name" \in DOMAIN DI!Library /\ DI!Library["vc_get_vhi_name"] = DI!vc_get_vhi_name
    BY DEF DI!Library
  <2>2. \E k \in DOMAIN DI!vc_get_vhi_name.tries : DI!vc_get_vhi_name.tries[k] = "olduts"
    <3>1. 2 \in DOMAIN DI!vc_get_vhi_name.tries /\ DI!vc_get_vhi_name.tries[2] = "olduts"
      BY DEF DI!vc_get_vhi_name, DI!Several, DI!Checked
    <3> QED
      BY <3>1
  <2> QED
    BY <1>4, <2>1, <2>2, SupportedVersions, TriedIsCallable
<1>5. ASSUME DI!isSupported("VSTAT") PROVE Callable("vc_virt_stat") /\ Callable("vc_rlimit_stat") /\ Callable("vc_ctx_stat")
  <2>1. "vc_virt_stat" \in DOMAIN DI!Library /\ DI!Library["vc_virt_stat"] = DI!vc_virt_stat
    BY DEF DI!Library
  <2>2. \E k \in DOMAIN DI!vc_virt_stat.tries : DI!vc_virt_stat.tries[k] = "v21"
    <3>1. 1 \in DOMAIN DI!vc_virt_stat.tries /\ DI!vc_virt_stat.tries[1] = "v21"
      BY DEF DI!vc_virt_stat, DI!Only, DI!Checked
    <3> QED
      BY <3>1
  <2>3. "vc_rlimit_stat" \in DOMAIN DI!Library /\ DI!Library["vc_rlimit_stat"] = DI!vc_rlimit_stat
    BY DEF DI!Library
  <2>4. \E k \in DOMAIN DI!vc_rlimit_stat.tries : DI!vc_rlimit_stat.tries[k] = "v21"
    <3>1. 1 \in DOMAIN DI!vc_rlimit_stat.tries /\ DI!vc_rlimit_stat.tries[1] = "v21"
      BY DEF DI!vc_rlimit_stat, DI!Only, DI!Checked
    <3> QED
      BY <3>1
  <2>5. "vc_ctx_stat" \in DOMAIN DI!Library /\ DI!Library["vc_ctx_stat"] = DI!vc_ctx_stat
    BY DEF DI!Library
  <2>6. \E k \in DOMAIN DI!vc_ctx_stat.tries : DI!vc_ctx_stat.tries[k] = "v21"
    <3>1. 1 \in DOMAIN DI!vc_ctx_stat.tries /\ DI!vc_ctx_stat.tries[1] = "v21"
      BY DEF DI!vc_ctx_stat, DI!Only, DI!Checked
    <3> QED
      BY <3>1
  <2> QED
    BY <1>5, <2>1, <2>2, <2>3, <2>4, <2>5, <2>6, SupportedVersions, TriedIsCallable
<1>6. ASSUME DI!isSupported("PPTAG") PROVE Callable("vc_tag_migrate")
  <2>1. "vc_tag_migrate" \in DOMAIN DI!Library /\ DI!Library["vc_tag_migrate"] = DI!vc_tag_migrate
    BY DEF DI!Library
  <2>2. \E k \in DOMAIN DI!vc_tag_migrate.tries : DI!vc_tag_migrate.tries[k] = "tag"
    <3>1. 1 \in DOMAIN DI!vc_tag_migrate.tries /\ DI!vc_tag_migrate.tries[1] = "tag"
      BY DEF DI!vc_tag_migrate, DI!Only, DI!Checked
    <3> QED
      BY <3>1
  <2> QED
    BY <1>6, <2>1, <2>2, SupportedVersions, TriedIsCallable
<1>7. ASSUME DI!isSupported("VKILL") PROVE Callable("vc_ctx_kill")
  <2>1. "vc_ctx_kill" \in DOMAIN DI!Library /\ DI!Library["vc_ctx_kill"] = DI!vc_ctx_kill
    BY DEF DI!Library
  <2>2. \E k \in DOMAIN DI!vc_ctx_kill.tries : DI!vc_ctx_kill.tries[k] = "v11"
    <3>1. 1 \in DOMAIN DI!vc_ctx_kill.tries /\ DI!vc_ctx_kill.tries[1] = "v11"
      BY DEF DI!vc_ctx_kill, DI!First, DI!Checked
    <3> QED
      BY <3>1
  <2> QED
    BY <1>7, <2>1, <2>2, SupportedVersions, TriedIsCallable
<1>8. ASSUME DI!isSupported("RLIMIT") PROVE Callable("vc_get_rlimit")
  <2>1. "vc_get_rlimit" \in DOMAIN DI!Library /\ DI!Library["vc_get_rlimit"] = DI!vc_get_rlimit
    BY DEF DI!Library
  <2>2. \E k \in DOMAIN DI!vc_get_rlimit.tries : DI!vc_get_rlimit.tries[k] = "v11"
    <3>1. 1 \in DOMAIN DI!vc_get_rlimit.tries /\ DI!vc_get_rlimit.tries[1] = "v11"
      BY DEF DI!vc_get_rlimit, DI!First, DI!Checked
    <3> QED
      BY <3>1
  <2> QED
    BY <1>8, <2>1, <2>2, SupportedVersions, TriedIsCallable
<1>9. ASSUME DI!isSupported("IATTR") PROVE Callable("vc_get_iattr")
  <2>1. "vc_get_iattr" \in DOMAIN DI!Library /\ DI!Library["vc_get_iattr"] = DI!vc_get_iattr
    BY DEF DI!Library
  <2>2. \E k \in DOMAIN DI!vc_get_iattr.tries : DI!vc_get_iattr.tries[k] = "v13"
    <3>1. 1 \in DOMAIN DI!vc_get_iattr.tries /\ DI!vc_get_iattr.tries[1] = "v13"
      BY DEF DI!vc_get_iattr, DI!Several, DI!Checked
    <3> QED
      BY <3>1
  <2> QED
    BY <1>9, <2>1, <2>2, SupportedVersions, TriedIsCallable
<1>10. ASSUME DI!isSupported("NAMESPACE") PROVE Callable("vc_enter_namespace")
  <2>1. "vc_enter_namespace" \in DOMAIN DI!Library /\ DI!Library["vc_enter_namespace"] = DI!vc_enter_namespace
    BY DEF DI!Library
  <2>2. \E k \in DOMAIN DI!vc_enter_namespace.tries : DI!vc_enter_namespace.tries[k] = "v13"
    <3>1. 3 \in DOMAIN DI!vc_enter_namespace.tries /\ DI!vc_enter_namespace.tries[3] = "v13"
      BY DEF DI!vc_enter_namespace, DI!Several, DI!Checked
    <3> QED
      BY <3>1
  <2> QED
    BY <1>10, <2>1, <2>2, SupportedVersions, TriedIsCallable
<1>11. ASSUME DI!isSupported("VNET") PROVE Callable("vc_net_create")
  <2>1. "vc_net_create" \in DOMAIN DI!Library /\ DI!Library["vc_net_create"] = DI!vc_net_create
    BY DEF DI!Library
  <2>2. \E k \in DOMAIN DI!vc_net_create.tries : DI!vc_net_create.tries[k] = "net"
    <3>1. 1 \in DOMAIN DI!vc_net_create.tries /\ DI!vc_net_create.tries[1] = "net"
      BY DEF DI!vc_net_create, DI!Only, DI!Checked
    <3> QED
      BY <3>1
  <2> QED
    BY <1>11, <2>1, <2>2, SupportedVersions, TriedIsCallable
<1>12. ASSUME DI!isSupported("SCHED") PROVE Callable("vc_set_sched")
  <2>1. "vc_set_sched" \in DOMAIN DI!Library /\ DI!Library["vc_set_sched"] = DI!vc_set_sched
    BY DEF DI!Library
  <2>2. \E k \in DOMAIN DI!vc_set_sched.tries : DI!vc_set_sched.tries[k] = "v13obs"
    <3>1. 4 \in DOMAIN DI!vc_set_sched.tries /\ DI!vc_set_sched.tries[4] = "v13obs"
      BY DEF DI!vc_set_sched, DI!Several, DI!Checked
    <3> QED
      BY <3>1
  <2> QED
    BY <1>12, <2>1, <2>2, SupportedVersions, TriedIsCallable
<1>13. ASSUME DI!isSupported("SPACES") PROVE Callable("vc_get_space_mask")
  <2>1. "vc_get_space_mask" \in DOMAIN DI!Library /\ DI!Library["vc_get_space_mask"] = DI!vc_get_space_mask
    BY DEF DI!Library
  <2>2. \E k \in DOMAIN DI!vc_get_space_mask.tries : DI!vc_get_space_mask.tries[k] = "spaces"
    <3>1. 2 \in DOMAIN DI!vc_get_space_mask.tries /\ DI!vc_get_space_mask.tries[2] = "spaces"
      BY DEF DI!vc_get_space_mask, DI!Several, DI!Checked
    <3> QED
      BY <3>1
  <2> QED
    BY <1>13, <2>1, <2>2, SupportedVersions, TriedIsCallable
<1>14. \/ u = <<"MIGRATE", "vc_ctx_migrate">>
      \/ u = <<"MIGRATE", "vc_ctx_create">>
      \/ u = <<"MIGRATE", "vc_get_cflags">>
      \/ u = <<"VWAIT", "vc_wait_exit">>
      \/ u = <<"VINFO", "vc_get_vx_info">>
      \/ u = <<"VHI", "vc_get_vhi_name">>
      \/ u = <<"VSTAT", "vc_virt_stat">>
      \/ u = <<"VSTAT", "vc_rlimit_stat">>
      \/ u = <<"VSTAT", "vc_ctx_stat">>
      \/ u = <<"PPTAG", "vc_tag_migrate">>
      \/ u = <<"VKILL", "vc_ctx_kill">>
      \/ u = <<"RLIMIT", "vc_get_rlimit">>
      \/ u = <<"IATTR", "vc_get_iattr">>
      \/ u = <<"NAMESPACE", "vc_enter_namespace">>
      \/ u = <<"VNET", "vc_net_create">>
      \/ u = <<"SCHED", "vc_set_sched">>
      \/ u = <<"SPACES", "vc_get_space_mask">>
  BY DEF DI!Uses
<1>15. CASE u = <<"MIGRATE", "vc_ctx_migrate">>
  BY <1>1, <1>15
<1>16. CASE u = <<"MIGRATE", "vc_ctx_create">>
  BY <1>1, <1>16
<1>17. CASE u = <<"MIGRATE", "vc_get_cflags">>
  BY <1>1, <1>17
<1>18. CASE u = <<"VWAIT", "vc_wait_exit">>
  BY <1>2, <1>18
<1>19. CASE u = <<"VINFO", "vc_get_vx_info">>
  BY <1>3, <1>19
<1>20. CASE u = <<"VHI", "vc_get_vhi_name">>
  BY <1>4, <1>20
<1>21. CASE u = <<"VSTAT", "vc_virt_stat">>
  BY <1>5, <1>21
<1>22. CASE u = <<"VSTAT", "vc_rlimit_stat">>
  BY <1>5, <1>22
<1>23. CASE u = <<"VSTAT", "vc_ctx_stat">>
  BY <1>5, <1>23
<1>24. CASE u = <<"PPTAG", "vc_tag_migrate">>
  BY <1>6, <1>24
<1>25. CASE u = <<"VKILL", "vc_ctx_kill">>
  BY <1>7, <1>25
<1>26. CASE u = <<"RLIMIT", "vc_get_rlimit">>
  BY <1>8, <1>26
<1>27. CASE u = <<"IATTR", "vc_get_iattr">>
  BY <1>9, <1>27
<1>28. CASE u = <<"NAMESPACE", "vc_enter_namespace">>
  BY <1>10, <1>28
<1>29. CASE u = <<"VNET", "vc_net_create">>
  BY <1>11, <1>29
<1>30. CASE u = <<"SCHED", "vc_set_sched">>
  BY <1>12, <1>30
<1>31. CASE u = <<"SPACES", "vc_get_space_mask">>
  BY <1>13, <1>31
<1> QED
  BY <1>14, <1>15, <1>16, <1>17, <1>18, <1>19, <1>20, <1>21, <1>22, <1>23, <1>24, <1>25, <1>26, <1>27, <1>28, <1>29, <1>30, <1>31

-----------------------------------------------------------------------------
\* What is supported is so as long as the kernel is the same.
LEMMA SupportIsKept ==
    ASSUME s1' = s1
    PROVE  \A u \in DI!Uses : DI!isSupported(u[1])' <=> DI!isSupported(u[1])
<1>1. s1.ver' = s1.ver /\ s1.conf' = s1.conf
  OBVIOUS
<1> TAKE u \in DI!Uses
<1>2. u[1] \in {"MIGRATE", "VWAIT", "VINFO", "VHI", "VSTAT", "PPTAG", "VKILL", "RLIMIT", "IATTR", "NAMESPACE",
                "VNET", "SCHED", "SPACES"}
  BY DEF DI!Uses
<1> QED
  BY <1>1, <1>2 DEF DI!isSupported

\* A call of the library, from C or Python, keeps the invariant.
LEMMA CallKeepsInv ==
    ASSUME DI!Inv, NEW n \in DOMAIN DI!Functions, NEW via \in {"C", "python"}, NEW null \in BOOLEAN,
           DI!Call(n, via, null)
    PROVE  DI!Inv'
<1> DEFINE f == DI!Library[n]
           c == [name |-> n, via |-> via, null |-> null]
<1>1. /\ s1 \in Kernels /\ s2 = [c |-> DI!Library, python |-> DI!python]
      /\ DI!Functions = DI!Library /\ n \in DOMAIN DI!Library
  BY DEF DI!Inv, DI!Functions
<1>2. s1' = s1 /\ s2' = s2 /\ DI!Functions' = DI!Library
  BY <1>1 DEF DI!Call, DI!Functions
<1>3. s1.ver \in Nat
  BY <1>1, KernelsAssumption
<1>4. Sound(f)
  BY <1>1, LibraryIsSound
<1>5. s6' = c
  BY DEF DI!Call
<1>6. s3 \in {0, DI!Failed, s1.ver}
  BY DEF DI!Inv, DI!TypeOK
<1>7. PICK failed \in BOOLEAN : s8' = DI!Result(c, failed)
  BY DEF DI!Call
<1>8. via = "python" => n \in DOMAIN DI!python
  BY <1>1 DEF DI!Call
<1>9. /\ s8'.failed = failed /\ s8'.shown \in {"value", "raised", "false"}
      /\ failed /\ via = "python" /\ s8'.shown = "value" => n \in {"vc_get_space_mask", "vc_get_space_default"}
  <2>1. s8'.failed = failed
        /\ s8'.shown = (IF via = "C" \/ ~failed THEN "value" ELSE DI!python[n])
    BY <1>1, <1>7 DEF DI!Result, DI!pyResult
  <2>2. via = "python" => DI!python[n] \in {"raised", "false", "value"}
           /\ (DI!python[n] = "value" => n \in {"vc_get_space_mask", "vc_get_space_default"})
    BY <1>8, PythonIsTold DEF Told
  <2> QED
    BY <2>1, <2>2
<1>10. null \/ (/\ ~null
                /\ IF f.multi THEN DI!checkCompatVersion ELSE UNCHANGED <<s3, s4>>
                /\ s7' = (IF f.multi /\ s3' = DI!Failed THEN "none" ELSE DI!CALL_VC(f, s3'))
                /\ IF f.multi /\ s3' = DI!Failed THEN s8'.failed /\ s5' = s4'
                   ELSE IF s7' = "none" THEN s8'.failed /\ s5' = "ENOSYS"
                   ELSE DI!KernelAnswers(s7'))
  BY <1>1 DEF DI!Call
<1>11. null => s7' = "none" /\ s3' = s3
  BY DEF DI!Call
<1>12. /\ s3' \in {0, DI!Failed, s1.ver}
       /\ ~null /\ f.multi => s3' \in {DI!Failed, s1.ver}
  <2>1. CASE null
    BY <1>6, <1>11, <2>1
  <2>2. CASE ~null /\ f.multi
    BY <1>6, <1>10, <2>2 DEF DI!checkCompatVersion
  <2>3. CASE ~null /\ ~f.multi
    BY <1>6, <1>10, <2>3
  <2> QED
    BY <2>1, <2>2, <2>3
<1>13. n # "none"
  BY <1>1 DEF DI!Library
<1>14. DI!Known' <=> ~null /\ ~(f.multi /\ s3' = DI!Failed)
  BY <1>2, <1>5, <1>13 DEF DI!Known, DI!Failed
<1>15. \A v : DI!Has(v)' <=> DI!Has(v)
  BY <1>2 DEF DI!Has
<1>16. ASSUME DI!Known'
       PROVE  /\ s7' = DI!CALL_VC(f, s3') /\ s7' \in Versions \cup {"none"}
              /\ s7' = "none" => ~HasOne(f) /\ failed /\ s5' = "ENOSYS"
              /\ s7' # "none" => /\ HasOne(f) <=> DI!Has(s7')
                                 /\ f.multi => DI!Has(s7') /\ \A v \in DI!ToSet(f.tries) :
                                                     DI!Has(v) => DI!Age(v) <= DI!Age(s7')
                                 /\ failed /\ s5' = "ENOSYS" <=> ~DI!Has(s7')
  <2> HIDE DEF f, c
  <2>1. ~null /\ ~(f.multi /\ s3' = DI!Failed)
    BY <1>14, <1>16
  <2>2. s7' = DI!CALL_VC(f, s3')
    BY <1>10, <2>1
  <2>3. s7' = "none" => failed /\ s5' = "ENOSYS"
    BY <1>9, <1>10, <2>1
  <2>4. s7' # "none" => DI!KernelAnswers(s7')
    BY <1>10, <2>1
  <2>5. CASE f.multi
    <3>1. s7' = DI!CALL_VC(f, s1.ver)
      BY <1>12, <2>1, <2>2, <2>5
    <3>2. /\ s7' = "none" <=> ~HasOne(f)
          /\ s7' \in Versions \cup {"none"}
          /\ s7' # "none" => DI!Has(s7') /\ \A v \in DI!ToSet(f.tries) : DI!Has(v) => DI!Age(v) <= DI!Age(s7')
      BY <1>4, <2>5, <3>1, NewestIsChosen
    <3>3. s7' # "none" => ~(failed /\ s5' = "ENOSYS")
      PROOF
      <4>1. s7' # "none" => (s8'.failed => s5' = "ESRCH")
        BY <2>4, <3>2 DEF DI!KernelAnswers
      <4> QED
        BY <1>9, <4>1
    <3> QED
      BY <2>2, <2>3, <3>2, <3>3
  <2>6. CASE ~f.multi
    <3>1. s7' \in Versions /\ s7' # "none" /\ (HasOne(f) <=> DI!Has(s7'))
      BY <1>3, <1>4, <2>2, <2>6, FirstIsChosen
    <3>2. failed /\ s5' = "ENOSYS" <=> ~DI!Has(s7')
      <4>1. CASE DI!Has(s7')
        BY <1>9, <2>4, <3>1, <4>1 DEF DI!KernelAnswers
      <4>2. CASE ~DI!Has(s7')
        BY <1>9, <2>4, <3>1, <4>2 DEF DI!KernelAnswers
      <4> QED
        BY <4>1, <4>2
    <3> QED
      BY <2>2, <2>6, <3>1, <3>2
  <2> QED
    BY <2>5, <2>6
<1>17. ~DI!Known' => s7' = "none"
  BY <1>10, <1>11, <1>14
<1>18. (DI!Functions[s6.name])' = f /\ s6'.name = n /\ s6'.via = via
  BY <1>2, <1>5
<1> HIDE DEF f, c
<1>19. DI!TypeOK'
  BY <1>1, <1>2, <1>9, <1>12, <1>16, <1>17, <1>18 DEF DI!TypeOK, Versions
<1>20. DI!NewestOne'
  BY <1>2, <1>15, <1>16, <1>18 DEF DI!NewestOne
<1>21. DI!EnosysIffMissing'
  BY <1>9, <1>15, <1>16, <1>18 DEF DI!EnosysIffMissing, HasOne
<1>22. DI!SupportedIsCallable'
  <2>1. ASSUME NEW u \in DI!Uses, n = u[2], DI!Known', DI!isSupported(u[1])
        PROVE  ~(failed /\ s5' = "ENOSYS")
    <3>1. HasOne(f)
      BY <1>3, <2>1, SupportedHasOne DEF Callable, f
    <3> QED
      BY <1>16, <2>1, <3>1
  <2>2. \A u \in DI!Uses : DI!isSupported(u[1])' <=> DI!isSupported(u[1])
    BY <1>2, SupportIsKept
  <2> QED
    BY <1>9, <1>18, <2>1, <2>2 DEF DI!SupportedIsCallable
<1>23. DI!FailureIsSeen'
  BY <1>9, <1>18 DEF DI!FailureIsSeen
<1> QED
  BY <1>1, <1>2, <1>19, <1>20, <1>21, <1>22, <1>23 DEF DI!Inv

\* The library starts with nothing called.
LEMMA DispatchStarts == DI!Init => DI!Inv
<1> SUFFICES ASSUME DI!Init PROVE DI!Inv
  OBVIOUS
<1>1. DI!TypeOK
  BY DEF DI!Init, DI!TypeOK
<1>2. ~DI!Known /\ ~s8.failed /\ s6.via = "C"
  BY DEF DI!Init, DI!Known
<1>3. DI!NewestOne /\ DI!EnosysIffMissing /\ DI!SupportedIsCallable /\ DI!FailureIsSeen
  BY <1>2 DEF DI!NewestOne, DI!EnosysIffMissing, DI!SupportedIsCallable, DI!FailureIsSeen
<1> QED
  BY <1>1, <1>3 DEF DI!Inv, DI!Init

\* Every step of the library keeps its invariant.
LEMMA DispatchGoesOn == DI!Inv /\ (DI!Next \/ UNCHANGED DI!vars) => DI!Inv'
<1>1. ASSUME DI!Inv, DI!Next PROVE DI!Inv'
  BY <1>1, CallKeepsInv DEF DI!Next
<1>2. ASSUME DI!Inv, UNCHANGED DI!vars PROVE DI!Inv'
  <2>1. UNCHANGED <<s1, s2, s3, s4, s5, s6, s7, s8, s9>>
    BY <1>2 DEF DI!vars
  <2>2. DI!TypeOK' /\ DI!NewestOne' /\ DI!EnosysIffMissing' /\ DI!FailureIsSeen'
    BY <1>2, <2>1 DEF DI!Inv, DI!TypeOK, DI!NewestOne, DI!EnosysIffMissing, DI!FailureIsSeen,
          DI!Known, DI!Functions, DI!Has
  <2>3. DI!SupportedIsCallable'
    BY <1>2, <2>1, SupportIsKept DEF DI!Inv, DI!SupportedIsCallable, DI!Known, DI!Functions
  <2> QED
    BY <1>2, <2>1, <2>2, <2>3 DEF DI!Inv
<1> QED
  BY <1>1, <1>2

-----------------------------------------------------------------------------
-----------------------------------------------------------------------------

\* Of a bounded set of numbers, Max is the greatest.
LEMMA MaxIs ==
    ASSUME NEW n \in Nat, NEW S \in SUBSET (0 .. n), S # {}
    PROVE  TL!Max(S) \in S /\ \A k \in S : k <= TL!Max(S)
<1> DEFINE R == {n - k : k \in S}
<1>1. R \in SUBSET Nat /\ R # {}
  <2>1. \A k \in S : n - k \in Nat
    OBVIOUS
  <2>2. PICK k \in S : TRUE
    OBVIOUS
  <2>3. n - k \in R
    OBVIOUS
  <2> QED
    BY <2>1, <2>3
<1>2. PICK r \in R : \A q \in R : r <= q
  BY <1>1, LeastNatural
<1>3. PICK m \in S : r = n - m
  BY <1>2
<1>4. \A k \in S : m >= k
  BY <1>2, <1>3
<1>5. \E x \in S : \A y \in S : x >= y
  BY <1>3, <1>4
<1>6. TL!Max(S) \in S /\ \A y \in S : TL!Max(S) >= y
  BY <1>5 DEF TL!Max
<1> QED
  BY <1>6

\* Min is the least number of a set.
LEMMA MinOfIs ==
    ASSUME NEW S \in SUBSET Nat, S # {}
    PROVE  TL!Min(S) \in S /\ \A k \in S : TL!Min(S) <= k
BY LeastNatural DEF TL!Min

-----------------------------------------------------------------------------
\* A table names bits, no name twice, and every bit of its values alone.
Good(t) ==
    /\ DOMAIN t \subseteq Nat \ {0}
    /\ \A i \in DOMAIN t : t[i][2] \subseteq TL!AllBits
    /\ \A i, j \in DOMAIN t : t[i][1] = t[j][1] => i = j
    /\ \A i \in DOMAIN t : \A b \in t[i][2] : \E j \in DOMAIN t : t[j][2] = {b}

\* The flags of a context (cflags-v13.c).
LEMMA CflagsAreGood == Good(TL!cflags)
<1>1. DOMAIN TL!cflags = 1 .. 38 /\ \A i \in 1 .. 38 : TL!cflags[i][2] \subseteq TL!AllBits
  BY DEF TL!cflags, TL!AllBits
<1>2. \A i, j \in 1 .. 38 : TL!cflags[i][1] = TL!cflags[j][1] => i = j
  BY DEF TL!cflags
<1>3. \A i \in 1 .. 38 : i # 30 => \A b \in TL!cflags[i][2] : TL!cflags[i][2] = {b}
  BY DEF TL!cflags
<1>4. TL!cflags[30][2] = {17, 36} /\ TL!cflags[12][2] = {17} /\ TL!cflags[22][2] = {36}
  BY DEF TL!cflags
<1>5. ASSUME NEW i \in 1 .. 38, NEW b \in TL!cflags[i][2]
      PROVE  \E j \in 1 .. 38 : TL!cflags[j][2] = {b}
  <2>1. CASE i = 30
    <3>1. b = 17 \/ b = 36
      BY <1>4, <2>1
    <3> QED
      BY <1>4, <3>1
  <2>2. CASE i # 30
    <3>1. TL!cflags[i][2] = {b}
      BY <1>3, <2>2
    <3> QED
      BY <3>1
  <2> QED
    BY <2>1, <2>2
<1>6. \A i \in DOMAIN TL!cflags : \A b \in TL!cflags[i][2] : \E j \in DOMAIN TL!cflags : TL!cflags[j][2] = {b}
  BY <1>1, <1>5
<1>7. \A i, j \in DOMAIN TL!cflags : TL!cflags[i][1] = TL!cflags[j][1] => i = j
  BY <1>1, <1>2
<1>8. DOMAIN TL!cflags \subseteq Nat \ {0}
  BY <1>1
<1> QED
  BY <1>1, <1>6, <1>7, <1>8 DEF Good

\* The POSIX capabilities (bcaps-v13.c).
LEMMA BcapsAreGood == Good(TL!bcaps)
<1>1. DOMAIN TL!bcaps = 1 .. 34 /\ \A i \in 1 .. 34 : TL!bcaps[i][2] \subseteq TL!AllBits
  BY DEF TL!bcaps, TL!AllBits
<1>2. \A i, j \in 1 .. 34 : TL!bcaps[i][1] = TL!bcaps[j][1] => i = j
  BY DEF TL!bcaps
<1>3. \A i \in 1 .. 34 : \A b \in TL!bcaps[i][2] : TL!bcaps[i][2] = {b}
  <2>1. \A i \in 1 .. 17 : \A b \in TL!bcaps[i][2] : TL!bcaps[i][2] = {b}
    BY DEF TL!bcaps
  <2>2. \A i \in 18 .. 34 : \A b \in TL!bcaps[i][2] : TL!bcaps[i][2] = {b}
    BY DEF TL!bcaps
  <2> QED
    BY <2>1, <2>2
<1> QED
  BY <1>1, <1>2, <1>3 DEF Good

\* The capabilities of a context (ccaps-v13.c).
LEMMA CcapsAreGood == Good(TL!ccaps)
<1>1. DOMAIN TL!ccaps = 1 .. 24 /\ \A i \in 1 .. 24 : TL!ccaps[i][2] \subseteq TL!AllBits
  BY DEF TL!ccaps, TL!AllBits
<1>2. \A i, j \in 1 .. 24 : TL!ccaps[i][1] = TL!ccaps[j][1] => i = j
  BY DEF TL!ccaps
<1>3. \A i \in 1 .. 24 : \A b \in TL!ccaps[i][2] : TL!ccaps[i][2] = {b}
  BY DEF TL!ccaps
<1> QED
  BY <1>1, <1>2, <1>3 DEF Good

\* The flags of a network context (nflags.c).
LEMMA NflagsAreGood == Good(TL!nflags)
<1>1. DOMAIN TL!nflags = 1 .. 14 /\ \A i \in 1 .. 14 : TL!nflags[i][2] \subseteq TL!AllBits
  BY DEF TL!nflags, TL!AllBits
<1>2. \A i, j \in 1 .. 14 : TL!nflags[i][1] = TL!nflags[j][1] => i = j
  BY DEF TL!nflags
<1>3. \A i \in 1 .. 14 : \A b \in TL!nflags[i][2] : TL!nflags[i][2] = {b}
  BY DEF TL!nflags
<1> QED
  BY <1>1, <1>2, <1>3 DEF Good

\* The capabilities of a network context (ncaps.c).
LEMMA NcapsAreGood == Good(TL!ncaps)
<1>1. DOMAIN TL!ncaps = 1 .. 2 /\ \A i \in 1 .. 2 : TL!ncaps[i][2] \subseteq TL!AllBits
  BY DEF TL!ncaps, TL!AllBits
<1>2. \A i, j \in 1 .. 2 : TL!ncaps[i][1] = TL!ncaps[j][1] => i = j
  BY DEF TL!ncaps
<1>3. \A i \in 1 .. 2 : \A b \in TL!ncaps[i][2] : TL!ncaps[i][2] = {b}
  BY DEF TL!ncaps
<1> QED
  BY <1>1, <1>2, <1>3 DEF Good

\* The masks of unshare (umask.c).
LEMMA UmaskAreGood == Good(TL!umask)
<1>1. DOMAIN TL!umask = 1 .. 7 /\ \A i \in 1 .. 7 : TL!umask[i][2] \subseteq TL!AllBits
  BY DEF TL!umask, TL!AllBits
<1>2. \A i, j \in 1 .. 7 : TL!umask[i][1] = TL!umask[j][1] => i = j
  BY DEF TL!umask
<1>3. \A i \in 1 .. 7 : \A b \in TL!umask[i][2] : TL!umask[i][2] = {b}
  BY DEF TL!umask
<1> QED
  BY <1>1, <1>2, <1>3 DEF Good

\* The flags of a personality (personalityflag.c).
LEMMA PersonalityflagsAreGood == Good(TL!personalityflags)
<1>1. DOMAIN TL!personalityflags = 1 .. 7 /\ \A i \in 1 .. 7 : TL!personalityflags[i][2] \subseteq TL!AllBits
  BY DEF TL!personalityflags, TL!AllBits
<1>2. \A i, j \in 1 .. 7 : TL!personalityflags[i][1] = TL!personalityflags[j][1] => i = j
  BY DEF TL!personalityflags
<1>3. \A i \in 1 .. 7 : \A b \in TL!personalityflags[i][2] : TL!personalityflags[i][2] = {b}
  BY DEF TL!personalityflags
<1> QED
  BY <1>1, <1>2, <1>3 DEF Good

\* The flags of old kernels (cflags-compat.c).
LEMMA CflagsCompatAreGood == Good(TL!cflagsCompat)
<1>1. DOMAIN TL!cflagsCompat = 1 .. 8 /\ \A i \in 1 .. 8 : TL!cflagsCompat[i][2] \subseteq TL!AllBits
  BY DEF TL!cflagsCompat, TL!AllBits
<1>2. \A i, j \in 1 .. 8 : TL!cflagsCompat[i][1] = TL!cflagsCompat[j][1] => i = j
  BY DEF TL!cflagsCompat
<1>3. \A i \in 1 .. 8 : \A b \in TL!cflagsCompat[i][2] : TL!cflagsCompat[i][2] = {b}
  BY DEF TL!cflagsCompat
<1> QED
  BY <1>1, <1>2, <1>3 DEF Good

\* The flags of old kernels are in the low byte.
LEMMA CompatBits ==
    \A i \in DOMAIN TL!cflagsCompat : TL!cflagsCompat[i][2] \subseteq 0 .. 7
<1>1. DOMAIN TL!cflagsCompat = 1 .. 8 /\ \A i \in 1 .. 8 : TL!cflagsCompat[i][2] \subseteq 0 .. 7
  BY DEF TL!cflagsCompat
<1> QED
  BY <1>1

\* So the table of every parser is good.
LEMMA ParsersAreGood ==
    ASSUME NEW k \in DOMAIN TL!Parsers
    PROVE  /\ Good(TL!Parsers[k].table)
           /\ TL!Parsers[k].masked \in BOOLEAN
           /\ k = "compat" => TL!Parsers[k].table = TL!cflagsCompat
<1>1. k \in {"cflag", "bcap", "ccap", "nflag", "ncap", "umask", "personality", "compat"}
  BY DEF TL!Parsers
<1>2. k = "cflag" => TL!Parsers[k].table = TL!cflags /\ TL!Parsers[k].masked = TRUE
  BY DEF TL!Parsers, TL!vc_list2cflag
<1>3. k = "bcap" => TL!Parsers[k].table = TL!bcaps /\ TL!Parsers[k].masked = TRUE
  BY DEF TL!Parsers, TL!vc_list2bcap
<1>4. k = "ccap" => TL!Parsers[k].table = TL!ccaps /\ TL!Parsers[k].masked = TRUE
  BY DEF TL!Parsers, TL!vc_list2ccap
<1>5. k = "nflag" => TL!Parsers[k].table = TL!nflags /\ TL!Parsers[k].masked = TRUE
  BY DEF TL!Parsers, TL!vc_list2nflag
<1>6. k = "ncap" => TL!Parsers[k].table = TL!ncaps /\ TL!Parsers[k].masked = TRUE
  BY DEF TL!Parsers, TL!vc_list2ncap
<1>7. k = "umask" => TL!Parsers[k].table = TL!umask /\ TL!Parsers[k].masked = TRUE
  BY DEF TL!Parsers, TL!vc_list2umask
<1>8. k = "personality" => TL!Parsers[k].table = TL!personalityflags /\ TL!Parsers[k].masked = FALSE
  BY DEF TL!Parsers, TL!vc_list2personalityflag
<1>9. k = "compat" => TL!Parsers[k].table = TL!cflagsCompat /\ TL!Parsers[k].masked = FALSE
  BY DEF TL!Parsers, TL!vc_list2cflag_compat
<1> QED
  BY <1>1, <1>2, <1>3, <1>4, <1>5, <1>6, <1>7, <1>8, <1>9, CflagsAreGood, BcapsAreGood, CcapsAreGood,
     NflagsAreGood, NcapsAreGood, UmaskAreGood, PersonalityflagsAreGood, CflagsCompatAreGood

-----------------------------------------------------------------------------
\* A name is found at its only place, and one that is not there at none.
LEMMA NameIsFound ==
    ASSUME Good(TL!VALUES)
    PROVE  /\ \A id : TL!value2text(id) \in DOMAIN TL!VALUES \cup {0}
           /\ \A i \in DOMAIN TL!VALUES : TL!value2text(TL!VALUES[i][1]) = i
<1> DEFINE is(id) == {i \in DOMAIN TL!VALUES : TL!VALUES[i][1] = id}
<1>1. \A id : TL!value2text(id) = IF is(id) = {} THEN 0 ELSE TL!Min(is(id))
  BY DEF TL!value2text
<1>2. \A id : is(id) \in SUBSET Nat
  BY DEF Good
<1> HIDE DEF is
<1>3. \A id : is(id) # {} => TL!Min(is(id)) \in is(id)
  BY <1>2, MinOfIs
<1>4. ASSUME NEW i \in DOMAIN TL!VALUES
      PROVE  TL!value2text(TL!VALUES[i][1]) = i
  <2>1. i \in is(TL!VALUES[i][1])
    BY DEF is
  <2>2. TL!value2text(TL!VALUES[i][1]) \in is(TL!VALUES[i][1])
    BY <1>1, <1>3, <2>1
  <2> QED
    BY <2>2 DEF is, Good
<1> QED
  BY <1>1, <1>3, <1>4 DEF is

\* A value is found where it is, and one that is not there nowhere.
LEMMA ValueIsFound ==
    ASSUME Good(TL!VALUES), NEW v
    PROVE  IF \E i \in DOMAIN TL!VALUES : TL!VALUES[i][2] = v
           THEN TL!searchValue(v) \in DOMAIN TL!VALUES /\ TL!VALUES[TL!searchValue(v)][2] = v /\ TL!searchValue(v) # 0
           ELSE TL!searchValue(v) = 0
<1> DEFINE is == {i \in DOMAIN TL!VALUES : TL!VALUES[i][2] = v}
<1>1. TL!searchValue(v) = IF is = {} THEN 0 ELSE TL!Min(is)
  BY DEF TL!searchValue
<1>2. is \in SUBSET Nat /\ 0 \notin is
  BY DEF Good
<1>3. (\E i \in DOMAIN TL!VALUES : TL!VALUES[i][2] = v) <=> is # {}
  OBVIOUS
<1>4. \A i \in is : i \in DOMAIN TL!VALUES /\ TL!VALUES[i][2] = v
  OBVIOUS
<1> HIDE DEF is
<1>5. is # {} => TL!Min(is) \in is
  BY <1>2, MinOfIs
<1> QED
  BY <1>1, <1>2, <1>3, <1>4, <1>5

\* A word means bits of the flag.
LEMMA MeaningIsBits ==
    ASSUME Good(TL!VALUES), NEW e \in TL!Element
    PROVE  TL!Meaning(e).bits \subseteq TL!AllBits
<1>1. TL!text2flag(e) \subseteq TL!AllBits
  BY NameIsFound DEF TL!text2flag, Good
<1>2. e.bits \subseteq TL!AllBits
  BY DEF TL!Element
<1> QED
  BY <1>1, <1>2 DEF TL!Meaning

\* A known bit has an entry of its own.
LEMMA BitsAreNamed ==
    ASSUME Good(TL!VALUES)
    PROVE  /\ TL!KnownBits \subseteq TL!AllBits
           /\ \A b \in TL!KnownBits : TL!searchValue({b}) # 0
           /\ \A b \in TL!AllBits : TL!searchValue({b}) # 0 => b \in TL!KnownBits
<1>1. TL!KnownBits \subseteq TL!AllBits
  BY DEF TL!KnownBits, Good
<1>2. ASSUME NEW b \in TL!KnownBits PROVE TL!searchValue({b}) # 0
  <2>1. PICK i \in DOMAIN TL!VALUES : b \in TL!VALUES[i][2]
    BY DEF TL!KnownBits
  <2>2. PICK j \in DOMAIN TL!VALUES : TL!VALUES[j][2] = {b}
    BY <2>1 DEF Good
  <2> QED
    BY <2>2, ValueIsFound
<1>3. \A b \in TL!AllBits : TL!searchValue({b}) # 0 => b \in TL!KnownBits
  BY ValueIsFound DEF TL!KnownBits
<1> QED
  BY <1>1, <1>2, <1>3

-----------------------------------------------------------------------------
\* The parser is that of the kind of flag.
TheTable ==
    /\ s1 \in DOMAIN TL!Parsers /\ s2 = TL!Parsers[s1]

\* The table in use is good, and that of old kernels has low bits.
LEMMA TableIsGood ==
    ASSUME TheTable
    PROVE  Good(TL!VALUES) /\ (s1 = "compat" => TL!KnownBits \subseteq 0 .. 7)
<1>1. TL!VALUES = TL!Parsers[s1].table
  BY DEF TheTable, TL!VALUES
<1> QED
  BY <1>1, ParsersAreGood, CompatBits DEF TheTable, TL!KnownBits

\* The elements that name a bit.
Said(d, b) == {i \in DOMAIN d : b \in TL!Meaning(d[i]).bits}

\* A word more is one place more for its bits and none for the others.
LEMMA SaidGrows ==
    ASSUME NEW d \in Seq(TL!Element), NEW e \in TL!Element, NEW b
    PROVE  /\ b \in TL!Meaning(e).bits => Said(Append(d, e), b) = Said(d, b) \cup {Len(d) + 1}
           /\ b \notin TL!Meaning(e).bits => Said(Append(d, e), b) = Said(d, b)
           /\ Said(d, b) \in SUBSET (1 .. Len(d))
<1>1. /\ DOMAIN d = 1 .. Len(d) /\ DOMAIN Append(d, e) = 1 .. Len(d) + 1
      /\ Append(d, e)[Len(d) + 1] = e /\ Len(d) \in Nat
      /\ \A i \in 1 .. Len(d) : Append(d, e)[i] = d[i]
  OBVIOUS
<1> QED
  BY <1>1 DEF Said

\* The last one that names a bit decides.
Last(d, b) == Said(d, b) # {} /\ ~(TL!Masked /\ d[TL!Max(Said(d, b))].not % 2 = 1)

\* A word more decides for its bits and for no others.
LEMMA LastGrows ==
    ASSUME NEW d \in Seq(TL!Element), NEW e \in TL!Element, NEW b
    PROVE  IF b \in TL!Meaning(e).bits
           THEN Last(Append(d, e), b) <=> ~TL!IsNeg(e)
           ELSE Last(Append(d, e), b) <=> Last(d, b)
<1>1. /\ Append(d, e)[Len(d) + 1] = e /\ Len(d) \in Nat
      /\ \A i \in 1 .. Len(d) : Append(d, e)[i] = d[i]
  OBVIOUS
<1>2. CASE b \in TL!Meaning(e).bits
  <2>1. Said(Append(d, e), b) = Said(d, b) \cup {Len(d) + 1} /\ Said(d, b) \in SUBSET (1 .. Len(d))
    BY <1>2, SaidGrows
  <2> DEFINE S == Said(Append(d, e), b)
             n == Len(d) + 1
  <2>2. S \in SUBSET (1 .. n) /\ n \in S /\ n \in Nat
    BY <1>1, <2>1
  <2>3. S # {} /\ Append(d, e)[n] = e /\ (Last(Append(d, e), b) <=>
                  S # {} /\ ~(TL!Masked /\ Append(d, e)[TL!Max(S)].not % 2 = 1))
    BY <1>1, <2>2 DEF Last
  <2> HIDE DEF S, n
  <2>4. TL!Max(S) \in S /\ \A k \in S : k <= TL!Max(S)
    <3>1. S \in SUBSET (0 .. n)
      BY <2>2
    <3> QED
      BY <2>2, <2>3, <3>1, MaxIs
  <2>5. TL!Max(S) \in 1 .. n /\ n <= TL!Max(S)
    BY <2>2, <2>4
  <2>6. TL!Max(S) = n
    BY <2>2, <2>5
  <2> QED
    BY <1>2, <2>2, <2>3, <2>6 DEF TL!IsNeg
<1>3. CASE b \notin TL!Meaning(e).bits
  <2>1. Said(Append(d, e), b) = Said(d, b) /\ Said(d, b) \in SUBSET (1 .. Len(d))
    BY <1>3, SaidGrows
  <2>2. Said(d, b) # {} => TL!Max(Said(d, b)) \in 1 .. Len(d)
    <3>1. Said(d, b) \in SUBSET (0 .. Len(d))
      BY <1>1, <2>1
    <3>2. Said(d, b) # {} => TL!Max(Said(d, b)) \in Said(d, b)
      BY <1>1, <3>1, MaxIs
    <3> QED
      BY <2>1, <3>2
  <2> QED
    BY <1>1, <1>3, <2>1, <2>2 DEF Last
<1> QED
  BY <1>2, <1>3

\* What LastWins says, of the last words.
LEMMA LastWinsIs ==
    TL!LastWins <=> (s8 = {} /\ s9 = << >> =>
        \A b \in TL!AllBits : (b \in s6 <=> Last(s5, b)) /\ (TL!Masked => (b \in s7 <=> Said(s5, b) # {})))
BY DEF TL!LastWins, Last, Said

\* A word that is parsed keeps the invariant: it decides for its bits.
LEMMA ParsingKeepsInv == ASSUME TL!Inv, TL!listparser PROVE TL!Inv'
<1> DEFINE e == Head(s4)
           m == TL!Meaning(e)
<1>1. /\ s1' = s1 /\ s2' = s2 /\ s8' = s8 /\ s9' = s9 /\ s8 = {} /\ s9 = << >>
      /\ s3 = "parse" /\ s3' \in {"parse", "failed"}
  BY DEF TL!listparser, TL!Inv
<1>2. TheTable /\ Good(TL!VALUES)
  BY TableIsGood DEF TL!Inv, TheTable
<1>3. s4 \in Seq(TL!Element) /\ s4 # << >> /\ s5 \in Seq(TL!Element)
  BY DEF TL!listparser, TL!Inv, TL!Over
<1>4. e \in TL!Element /\ s4' \in Seq(TL!Element)
  BY <1>3 DEF TL!listparser
<1>5. m.bits \subseteq TL!AllBits
  BY <1>2, <1>4, MeaningIsBits
<1> HIDE DEF e, m
<1>6. /\ \/ UNCHANGED <<s5, s6, s7>>
         \/ /\ s6' = (IF TL!IsNeg(e) THEN s6 \ m.bits ELSE s6 \cup m.bits)
            /\ s7' = TL!NewMask(e, m.bits)
            /\ s5' = Append(s5, e)
  BY DEF TL!listparser, e, m
<1>7. s6 \subseteq TL!AllBits /\ s7 \subseteq TL!AllBits
  BY DEF TL!Inv, TL!TypeOK
<1>8. s5' \in Seq(TL!Element) /\ s6' \subseteq TL!AllBits /\ s7' \subseteq TL!AllBits
  <2>1. CASE UNCHANGED <<s5, s6, s7>>
    BY <1>3, <1>7, <2>1
  <2>2. CASE /\ s6' = (IF TL!IsNeg(e) THEN s6 \ m.bits ELSE s6 \cup m.bits)
             /\ s7' = TL!NewMask(e, m.bits)
             /\ s5' = Append(s5, e)
    <3>1. s5' \in Seq(TL!Element)
      BY <1>3, <1>4, <2>2
    <3>2. s6' \subseteq TL!AllBits /\ s7' \subseteq TL!AllBits
      BY <1>5, <1>7, <2>2 DEF TL!NewMask
    <3> QED
      BY <3>1, <3>2
  <2> QED
    BY <1>6, <2>1, <2>2
<1>9. \A b \in TL!AllBits : (b \in s6 <=> Last(s5, b)) /\ (TL!Masked => (b \in s7 <=> Said(s5, b) # {}))
  BY <1>1, LastWinsIs DEF TL!Inv
<1>10. \A b \in TL!AllBits : (b \in s6' <=> Last(s5', b)) /\ (TL!Masked => (b \in s7' <=> Said(s5', b) # {}))
  <2>1. CASE UNCHANGED <<s5, s6, s7>>
    BY <1>9, <2>1
  <2>2. CASE /\ s6' = (IF TL!IsNeg(e) THEN s6 \ m.bits ELSE s6 \cup m.bits)
             /\ s7' = TL!NewMask(e, m.bits)
             /\ s5' = Append(s5, e)
    <3> TAKE b \in TL!AllBits
    <3>1. CASE b \in m.bits
      <4>1. (Last(s5', b) <=> ~TL!IsNeg(e)) /\ Said(s5', b) = Said(s5, b) \cup {Len(s5) + 1}
        BY <1>3, <1>4, <2>2, <3>1, LastGrows, SaidGrows DEF m
      <4>2. (b \in s6' <=> ~TL!IsNeg(e)) /\ (TL!Masked => b \in s7')
        BY <2>2, <3>1 DEF TL!NewMask
      <4> QED
        BY <4>1, <4>2
    <3>2. CASE b \notin m.bits
      <4>1. (Last(s5', b) <=> Last(s5, b)) /\ Said(s5', b) = Said(s5, b)
        BY <1>3, <1>4, <2>2, <3>2, LastGrows, SaidGrows DEF m
      <4>2. (b \in s6' <=> b \in s6) /\ (b \in s7' <=> b \in s7)
        BY <2>2, <3>2 DEF TL!NewMask
      <4> QED
        BY <1>9, <4>1, <4>2
    <3> QED
      BY <3>1, <3>2
  <2> QED
    BY <1>6, <2>1, <2>2
<1>11. TL!LastWins'
  <2>1. \A x : TL!Meaning(x)' = TL!Meaning(x)
    BY <1>1 DEF TL!Masked, TL!Meaning, TL!text2flag, TL!value2text, TL!VALUES, TL!IsNumber
  <2>2. TL!Masked' = TL!Masked
    BY <1>1 DEF TL!Masked
  <2> QED
    BY <1>10, <2>1, <2>2 DEF TL!LastWins, Last, Said
<1>12. TL!TypeOK'
  BY <1>1, <1>8 DEF TL!TypeOK
<1>13. TL!Readable' /\ TL!ShortestName'
  BY <1>1 DEF TL!Readable, TL!ShortestName
<1> QED
  BY <1>1, <1>4, <1>8, <1>11, <1>12, <1>13 DEF TL!Inv, TL!VALUES

\* What is not about the printing of a value.
LEMMA ListEndsKeepsInv == ASSUME TL!Inv, TL!listEnds PROVE TL!Inv'
<1>1. /\ UNCHANGED <<s1, s2, s4, s5, s6, s7, s8, s9>> /\ s3' = "end" /\ s8 = {} /\ s9 = << >>
  BY DEF TL!listEnds, TL!Inv
<1>2. TL!TypeOK' /\ TL!Readable' /\ TL!ShortestName'
  BY <1>1 DEF TL!Inv, TL!TypeOK, TL!Readable, TL!ShortestName
<1>3. TL!LastWins'
  <2>1. \A x : TL!Meaning(x)' = TL!Meaning(x)
    BY <1>1 DEF TL!Masked, TL!Meaning, TL!text2flag, TL!value2text, TL!VALUES, TL!IsNumber
  <2>2. TL!Masked' = TL!Masked
    BY <1>1 DEF TL!Masked
  <2> QED
    BY <1>1, <2>1, <2>2 DEF TL!Inv, TL!LastWins
<1> QED
  BY <1>1, <1>2, <1>3 DEF TL!Inv, TL!VALUES

\* What text2value takes of a value.
Taken == IF s1 = "compat" THEN TL!CompatChosen(s6) ELSE TL!Chosen(s6)

\* What is taken is in the value, and nothing is taken only of what has no name.
LEMMA TakenIs ==
    ASSUME TheTable, Good(TL!VALUES), s6 # {}, s6 \subseteq TL!AllBits, s6 \subseteq TL!KnownBits \cup {63}
    PROVE  /\ Taken \subseteq s6
           /\ Taken # {} /\ TL!searchValue(Taken) # 0 => /\ TL!searchValue(Taken) \in DOMAIN TL!VALUES
                                                       /\ TL!VALUES[TL!searchValue(Taken)][2] = Taken
           /\ Taken = {} \/ TL!searchValue(Taken) = 0 =>
                 IF s1 = "compat" THEN s6 \subseteq {7, 63}
                 ELSE TL!Min(s6) \notin TL!KnownBits /\ TL!searchValue(s6) = 0
           /\ s1 # "compat" /\ TL!searchValue(s6) # 0 => Taken = s6
<1>1. Taken # {} /\ TL!searchValue(Taken) # 0 => /\ TL!searchValue(Taken) \in DOMAIN TL!VALUES
                                              /\ TL!VALUES[TL!searchValue(Taken)][2] = Taken
  BY ValueIsFound
<1>2. CASE s1 = "compat"
  <2> DEFINE low == s6 \cap 0 .. 6
  <2>1. Taken = IF low = {} THEN {} ELSE {TL!Max(low)}
    BY <1>2 DEF Taken, TL!CompatChosen
  <2>2. low \subseteq s6 /\ low \subseteq 0 .. 6
    OBVIOUS
  <2>3. s6 \subseteq low \cup {7, 63}
    BY <1>2, TableIsGood
  <2> HIDE DEF low
  <2>4. low # {} => TL!Max(low) \in low
    BY <2>2, MaxIs
  <2>5. low # {} => TL!searchValue({TL!Max(low)}) # 0
    <3>1. ASSUME NEW b \in low PROVE b \in TL!KnownBits
      <4>1. b \in s6
        BY <2>2
      <4>2. b \in 0 .. 6
        BY <2>2
      <4>3. b # 63
        BY <4>2
      <4> QED
        BY <4>1, <4>3
    <3> QED
      BY <2>4, <3>1, BitsAreNamed
  <2>6. CASE low = {}
    BY <1>1, <1>2, <2>1, <2>3, <2>6
  <2>7. CASE low # {}
    <3>1. Taken \subseteq s6 /\ Taken # {} /\ TL!searchValue(Taken) # 0
      BY <2>1, <2>2, <2>4, <2>5, <2>7
    <3> QED
      BY <1>1, <1>2, <3>1
  <2> QED
    BY <2>6, <2>7
<1>3. CASE s1 # "compat"
  <2>1. TL!Min(s6) \in s6
    BY MinOfIs DEF TL!AllBits
  <2>2. Taken = IF TL!searchValue(s6) # 0 THEN s6 ELSE {TL!Min(s6)}
    BY <1>3 DEF Taken, TL!Chosen
  <2>3. TL!searchValue({TL!Min(s6)}) = 0 => TL!Min(s6) \notin TL!KnownBits
    BY BitsAreNamed
  <2> QED
    BY <1>1, <1>3, <2>1, <2>2, <2>3
<1> QED
  BY <1>2, <1>3

\* The names of the table, and what a list of them reads as.
Names == {TL!VALUES[i][1] : i \in DOMAIN TL!VALUES}
Reads(ns) == UNION {TL!VALUES[TL!value2text(ns[i])][2] : i \in DOMAIN ns}

\* A name more that is printed reads as its value more.
LEMMA ReadGrows ==
    ASSUME Good(TL!VALUES), NEW ns \in Seq(Names), NEW i \in DOMAIN TL!VALUES
    PROVE  /\ Reads(Append(ns, TL!VALUES[i][1])) = Reads(ns) \cup TL!VALUES[i][2]
           /\ Append(ns, TL!VALUES[i][1]) \in Seq(Names)
           /\ Len(Append(ns, TL!VALUES[i][1])) = Len(ns) + 1
<1> DEFINE nm == TL!VALUES[i][1]
           ms == Append(ns, nm)
<1>1. nm \in Names /\ TL!value2text(nm) = i
  BY NameIsFound DEF Names
<1> HIDE DEF nm
<1>2. /\ ms \in Seq(Names) /\ Len(ms) = Len(ns) + 1 /\ Len(ns) \in Nat
      /\ DOMAIN ns = 1 .. Len(ns) /\ DOMAIN ms = 1 .. Len(ns) + 1
      /\ ms[Len(ns) + 1] = nm
      /\ \A k \in 1 .. Len(ns) : ms[k] = ns[k]
  BY <1>1
<1> HIDE DEF ms
<1>3. \A b : b \in Reads(ms) <=> \E k \in 1 .. Len(ns) + 1 : b \in TL!VALUES[TL!value2text(ms[k])][2]
  BY <1>2 DEF Reads
<1>4. \A b : b \in Reads(ns) <=> \E k \in 1 .. Len(ns) : b \in TL!VALUES[TL!value2text(ns[k])][2]
  BY <1>2 DEF Reads
<1>5. Reads(ms) = Reads(ns) \cup TL!VALUES[i][2]
  <2>1. ASSUME NEW b, b \in Reads(ms) PROVE b \in Reads(ns) \cup TL!VALUES[i][2]
    <3>1. PICK k \in 1 .. Len(ns) + 1 : b \in TL!VALUES[TL!value2text(ms[k])][2]
      BY <1>3, <2>1
    <3>2. CASE k = Len(ns) + 1
      BY <1>1, <1>2, <3>1, <3>2
    <3>3. CASE k # Len(ns) + 1
      <4>1. k \in 1 .. Len(ns)
        BY <1>2, <3>3
      <4> QED
        BY <1>2, <1>4, <3>1, <4>1
    <3> QED
      BY <3>2, <3>3
  <2>2. ASSUME NEW b, b \in Reads(ns) PROVE b \in Reads(ms)
    <3>1. PICK k \in 1 .. Len(ns) : b \in TL!VALUES[TL!value2text(ns[k])][2]
      BY <1>4, <2>2
    <3>2. k \in 1 .. Len(ns) + 1 /\ ms[k] = ns[k]
      BY <1>2
    <3> QED
      BY <1>3, <3>1, <3>2
  <2>3. ASSUME NEW b \in TL!VALUES[i][2] PROVE b \in Reads(ms)
    <3>1. Len(ns) + 1 \in 1 .. Len(ns) + 1
      BY <1>2
    <3> QED
      BY <1>1, <1>2, <1>3, <3>1
  <2> QED
    BY <2>1, <2>2, <2>3
<1> QED
  BY <1>2, <1>5 DEF ms, nm

\* A step of text2value keeps the invariant: what is printed and what is left are the value.
LEMMA PrintingKeepsInv == ASSUME TL!Inv, TL!text2value PROVE TL!Inv'
<1>1. /\ s1' = s1 /\ s2' = s2 /\ s4' = s4 /\ s5' = s5 /\ s7' = s7 /\ s8' = s8
      /\ s3 = "print" /\ s3' \in {"print", "end"}
  BY DEF TL!text2value
<1>2. TheTable /\ Good(TL!VALUES)
  BY TableIsGood DEF TL!Inv, TheTable
<1>3. TL!VALUES' = TL!VALUES /\ Names' = Names
  BY <1>1 DEF TL!VALUES, Names
<1>4. s6 \subseteq TL!AllBits /\ s7 \subseteq TL!AllBits
  BY DEF TL!Inv, TL!TypeOK
<1>5. s9 \in Seq(Names)
  BY DEF TL!Inv, Names
<1>6. /\ s8 = {} => s6 = {} /\ s9 = << >>
      /\ s8 # {} => s6 \subseteq s8 /\ s8 \subseteq TL!KnownBits \cup {63} /\ Reads(s9) = s8 \ s6
      /\ s8 # {} /\ s1 # "compat" /\ TL!searchValue(s8) # 0 =>
            (s9 = << >> /\ s6 = s8) \/ (Len(s9) = 1 /\ s6 = {})
  BY <1>1 DEF TL!Inv, TL!Read, Reads
<1> DEFINE i == TL!searchValue(Taken)
<1>7. \/ /\ s6 = {} \/ Taken = {} \/ i = 0
         /\ s3' = "end" /\ s6' = s6 /\ s9' = s9
      \/ /\ s6 # {} /\ Taken # {} /\ i # 0
         /\ s6' = s6 \ Taken /\ s9' = Append(s9, TL!VALUES[i][1]) /\ s3' = s3
  BY DEF TL!text2value, Taken
<1>8. s6 # {} =>
        /\ Taken \subseteq s6
        /\ Taken # {} /\ i # 0 => i \in DOMAIN TL!VALUES /\ TL!VALUES[i][2] = Taken
        /\ Taken = {} \/ i = 0 =>
              IF s1 = "compat" THEN s6 \subseteq {7, 63}
              ELSE TL!Min(s6) \notin TL!KnownBits /\ TL!searchValue(s6) = 0
        /\ s1 # "compat" /\ TL!searchValue(s6) # 0 => Taken = s6
  <2>1. s6 # {} => s6 \subseteq TL!KnownBits \cup {63}
    BY <1>6
  <2> QED
    BY <1>2, <1>4, <2>1, TakenIs
<1> HIDE DEF i
<1>9. /\ s9' \in Seq(Names) /\ s6' \subseteq s6
      /\ s8 = {} => s6' = {} /\ s9' = << >>
      /\ s8 # {} => s6' \subseteq s8 /\ Reads(s9') = s8 \ s6'
      /\ s8 # {} /\ s1 # "compat" /\ TL!searchValue(s8) # 0 =>
            (s9' = << >> /\ s6' = s8) \/ (Len(s9') = 1 /\ s6' = {})
      /\ s3' = "end" =>
            IF s1 = "compat" THEN s6' \subseteq {7, 63}
            ELSE s6' # {} => TL!Min(s6') \notin TL!KnownBits /\ TL!searchValue(s6') = 0
  <2>1. CASE /\ s6 = {} \/ Taken = {} \/ i = 0
             /\ s3' = "end" /\ s6' = s6 /\ s9' = s9
    BY <1>5, <1>6, <1>8, <2>1
  <2>2. CASE /\ s6 # {} /\ Taken # {} /\ i # 0
             /\ s6' = s6 \ Taken /\ s9' = Append(s9, TL!VALUES[i][1]) /\ s3' = s3
    <3>1. Taken \subseteq s6 /\ i \in DOMAIN TL!VALUES /\ TL!VALUES[i][2] = Taken
      BY <1>8, <2>2
    <3>2. Reads(s9') = Reads(s9) \cup Taken /\ s9' \in Seq(Names) /\ Len(s9') = Len(s9) + 1
      BY <1>2, <1>5, <2>2, <3>1, ReadGrows
    <3>3. s8 # {} /\ s1 # "compat" /\ TL!searchValue(s8) # 0 => Len(s9') = 1 /\ s6' = {}
      BY <1>6, <1>8, <2>2, <3>2
    <3> QED
      BY <1>1, <1>6, <2>2, <3>1, <3>2, <3>3
  <2> QED
    BY <1>7, <2>1, <2>2
<1>10. /\ \A v : TL!searchValue(v)' = TL!searchValue(v)
       /\ TL!KnownBits' = TL!KnownBits
       /\ Reads(s9') = TL!Read'
       /\ \A x : TL!Meaning(x)' = TL!Meaning(x)
       /\ \A x : TL!value2text(x)' = TL!value2text(x)
       /\ TL!Masked' = TL!Masked
  <2>1. \A x : TL!value2text(x)' = TL!value2text(x)
    BY <1>3 DEF TL!value2text
  <2>2. \A v : TL!searchValue(v)' = TL!searchValue(v)
    BY <1>3 DEF TL!searchValue
  <2>3. TL!Masked' = TL!Masked
    BY <1>1 DEF TL!Masked
  <2>4. TL!KnownBits' = TL!KnownBits
    BY <1>3 DEF TL!KnownBits
  <2>5. Reads(s9') = TL!Read'
    BY <1>3, <2>1 DEF TL!Read, Reads
  <2>6. \A x : TL!Meaning(x)' = TL!Meaning(x)
    BY <1>1 DEF TL!Masked, TL!Meaning, TL!text2flag, TL!value2text, TL!VALUES, TL!IsNumber
  <2> QED
    BY <2>1, <2>2, <2>3, <2>4, <2>5, <2>6
<1>11. TL!TypeOK'
  <2>1. ASSUME NEW k \in DOMAIN s9' PROVE TL!value2text(s9'[k]) # 0
    <3>1. s9'[k] \in Names
      BY <1>9, <2>1
    <3> QED
      BY <1>2, <3>1, NameIsFound DEF Names, Good
  <2> QED
    BY <1>1, <1>4, <1>9, <1>10, <2>1 DEF TL!TypeOK
<1>12. TL!LastWins'
  <2>1. s8 = {} => s6' = s6 /\ s9 = << >>
    BY <1>6, <1>9
  <2> QED
    BY <1>1, <1>10, <2>1 DEF TL!Inv, TL!LastWins
<1>13. TL!Readable'
  BY <1>1, <1>9, <1>10 DEF TL!Readable
<1>14. TL!ShortestName'
  <2>1. ASSUME s8 # {}, s3' = "end", s1 # "compat", TL!searchValue(s8) # 0
        PROVE  Len(s9') = 1
    BY <1>9, <2>1
  <2> QED
    BY <1>1, <1>10, <2>1 DEF TL!ShortestName
<1>15. s9' \in Seq({TL!VALUES'[k][1] : k \in DOMAIN TL!VALUES'})
  BY <1>3, <1>9 DEF Names
<1> QED
  BY <1>1, <1>6, <1>9, <1>10, <1>11, <1>12, <1>13, <1>14, <1>15 DEF TL!Inv

\* A list starts with no words read and no bits.
LEMMA ListsStart == TL!Init => TL!Inv
<1> SUFFICES ASSUME TL!Init PROVE TL!Inv
  OBVIOUS
<1>1. TheTable /\ Good(TL!VALUES)
  BY KindsAssumption, TableIsGood DEF TL!Init, TheTable
<1>2. /\ s9 = << >> /\ s5 = << >> /\ s7 = {} /\ s6 = s8
      /\ s3 = "parse" => s8 = {}
  BY DEF TL!Init
<1>3. s4 \in Seq(TL!Element) /\ s5 \in Seq(TL!Element)
  <2>1. s4 \in Lists \/ s4 = << >>
    BY DEF TL!Init
  <2>2. << >> \in Seq(TL!Element)
    OBVIOUS
  <2> QED
    BY <1>2, <2>1, <2>2, ListsAssumption
<1>4. s8 \subseteq TL!KnownBits \cup {63}
  BY DEF TL!Init, TL!Printed
<1>5. s8 \subseteq TL!AllBits
  BY <1>1, <1>4, BitsAreNamed DEF TL!AllBits
<1>6. TL!TypeOK /\ TL!Readable /\ TL!ShortestName
  BY <1>2, <1>5 DEF TL!Init, TL!TypeOK, TL!Readable, TL!ShortestName
<1>7. TL!LastWins
  <2>1. \A b : {k \in DOMAIN s5 : b \in TL!Meaning(s5[k]).bits} = {}
    BY <1>2
  <2> QED
    BY <1>2, <2>1 DEF TL!LastWins
<1>8. TL!Read = {}
  BY <1>2 DEF TL!Read
<1>9. s9 \in Seq({TL!VALUES[k][1] : k \in DOMAIN TL!VALUES})
  BY <1>2
<1> QED
  BY <1>1, <1>2, <1>3, <1>4, <1>6, <1>7, <1>8, <1>9 DEF TL!Inv, TL!Init, TheTable

\* A step of another component keeps the invariant.
LEMMA ListsRest == ASSUME TL!Inv, UNCHANGED TL!vars PROVE TL!Inv'
<1>1. UNCHANGED <<s1, s2, s3, s4, s5, s6, s7, s8, s9>>
  BY DEF TL!vars
<1>2. TL!VALUES' = TL!VALUES /\ TL!Masked' = TL!Masked
  BY <1>1 DEF TL!VALUES, TL!Masked
<1>3. /\ \A x : TL!Meaning(x)' = TL!Meaning(x)
      /\ \A x : TL!value2text(x)' = TL!value2text(x)
      /\ \A x : TL!searchValue(x)' = TL!searchValue(x)
      /\ TL!KnownBits' = TL!KnownBits
  BY <1>1 DEF TL!Meaning, TL!text2flag, TL!value2text, TL!VALUES, TL!IsNumber, TL!searchValue, TL!KnownBits, TL!Masked
<1>4. TL!Read' = TL!Read
  BY <1>1, <1>2, <1>3 DEF TL!Read
<1>5. TL!TypeOK' /\ TL!Readable' /\ TL!ShortestName'
  BY <1>1, <1>3, <1>4 DEF TL!Inv, TL!TypeOK, TL!Readable, TL!ShortestName
<1>6. TL!LastWins'
  <2>1. /\ s5' = s5 /\ s6' = s6 /\ s7' = s7 /\ s8' = s8 /\ s9' = s9 /\ TL!Masked' = TL!Masked
        /\ \A x : TL!Meaning(x)' = TL!Meaning(x)
    BY <1>1, <1>2, <1>3
  <2>2. TL!LastWins
    BY DEF TL!Inv
  <2> QED
    BY <2>1, <2>2 DEF TL!LastWins
<1> QED
  BY <1>1, <1>2, <1>3, <1>4, <1>5, <1>6 DEF TL!Inv

\* Every step of a list keeps its invariant.
LEMMA ListsGoOn == TL!Inv /\ (TL!Next \/ UNCHANGED TL!vars) => TL!Inv'
BY ParsingKeepsInv, ListEndsKeepsInv, PrintingKeepsInv, ListsRest DEF TL!Next

-----------------------------------------------------------------------------
\* What holds of the two components of the library after every step.
LibraryInv ==
    /\ which = "dispatch" => DI!Inv
    /\ which = "lists" => TL!Inv

\* It holds at the start, whichever component the behaviour is of.
LEMMA LibraryInit == Init => LibraryInv
BY DispatchStarts, ListsStart DEF Init, LibraryInv

\* A step is one of its component, and keeps the invariant of that.
LEMMA LibraryStep == LibraryInv /\ [Next]_all => LibraryInv'
<1> SUFFICES ASSUME LibraryInv, [Next]_all PROVE LibraryInv'
  OBVIOUS
<1>1. which' = which
  BY DEF Next, Keep9, Keep11, Keep12, all
<1>2. which = "dispatch" => DI!Next \/ UNCHANGED DI!vars
  BY DEF Next, all, DI!vars
<1>3. which = "lists" => TL!Next \/ UNCHANGED TL!vars
  BY DEF Next, all, TL!vars
<1> QED
  BY <1>1, <1>2, <1>3, DispatchGoesOn, ListsGoOn DEF LibraryInv

\* The invariant of the library is one of the whole specification.
THEOREM LibraryInvariant == Spec => []LibraryInv
BY LibraryInit, LibraryStep, PTL DEF Spec

\* libvserver and its Python binding: for every kernel and configuration the newest
\* version is called, ENOSYS means that there is none, what is supported can be called and
\* failures are seen; for every list of words the last one decides, and what is printed
\* of a value reads as that value.
THEOREM LibraryCorrect == Spec => []LibraryIsExact
<1>1. LibraryInv => LibraryIsExact
  BY DEF LibraryInv, LibraryIsExact, DI!Inv, TL!Inv
<1> QED
  BY <1>1, LibraryInvariant, PTL
=============================================================================
