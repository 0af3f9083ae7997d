--------------------------- MODULE ServicesProofs ---------------------------
(***************************************************************************)
(* What the tools that wait, that mount and that unify keep, for every      *)
(* timeout, every fstab and every number of steps of the guests.  Each of   *)
(* the three has its inductive invariant in its own module; a behaviour of  *)
(* Services is a behaviour of one component from its beginning.             *)
(***************************************************************************)
EXTENDS Services, TLAPS, SequenceTheorems

-----------------------------------------------------------------------------
(* vwait, vshelper-sync and keep-ctx-alive.                                *)

\* Nothing is set and nothing has come yet.
LEMMA WaitingInit == WT!Init => WT!Inv
<1> SUFFICES ASSUME WT!Init PROVE WT!Inv
  OBVIOUS
<1> USE ServicesAssumption DEF WT!Init
<1>1. WT!TypeOK
  BY DEF WT!TypeOK
<1>2. WT!InTime /\ WT!NothingLeft /\ WT!SuccessIsAnswer
  BY DEF WT!InTime, WT!NothingLeft, WT!SuccessIsAnswer
<1>3. s7 \in CASE s1 = "vwait" -> {"running", "dying", "ended"}
               [] s1 = "vshelper-sync" -> {"silent", "data", "closed"}
               [] OTHER -> {"silent", "connected", "data", "closed"}
  <2>1. CASE s1 = "vwait"
    BY <2>1
  <2>2. CASE s1 = "vshelper-sync"
    BY <2>2
  <2>3. CASE s1 = "keep-ctx-alive"
    BY <2>3
  <2> QED
    BY <2>1, <2>2, <2>3
<1>4. 0 <= MaxTime /\ 0 <= MaxTime + Timeout
  OBVIOUS
<1>5. s1 = "vwait" /\ s2.timed => Timeout > 0
  OBVIOUS
<1> QED
  BY <1>1, <1>2, <1>3, <1>4, <1>5 DEF WT!Inv

\* The alarm is set to the end of the time before the system call is entered, by doit
\* and again after each return, and an end is reported where it is seen.
LEMMA WaitingStep == ASSUME WT!Inv, WT!Next PROVE WT!Inv'
<1> USE ServicesAssumption DEF WT!Inv, WT!TypeOK, WT!InTime, WT!NothingLeft, WT!SuccessIsAnswer,
                               WT!Goes, WT!Reports
<1>1. CASE WT!vwaitDoit
  BY <1>1 DEF WT!vwaitDoit
<1>2. CASE WT!vc_wait_exit
  BY <1>2 DEF WT!vc_wait_exit
<1>3. CASE WT!vwaitFinished
  BY <1>3 DEF WT!vwaitFinished
<1>4. CASE WT!vwaitReturned
  BY <1>4 DEF WT!vwaitReturned, WT!Killed, WT!Rest
<1>5. CASE WT!handler
  BY <1>5 DEF WT!handler
<1>6. CASE WT!syncOpen
  BY <1>6 DEF WT!syncOpen
<1>7. CASE WT!syncRead
  BY <1>7 DEF WT!syncRead, WT!Remaining, WT!SyncDone
<1>8. CASE WT!syncTimeout
  BY <1>8 DEF WT!syncTimeout
<1>9. CASE WT!keepDoit
  BY <1>9 DEF WT!keepDoit
<1>10. CASE WT!keepSelect
  BY <1>10 DEF WT!keepSelect
<1>11. CASE WT!handleMessage
  BY <1>11 DEF WT!handleMessage
<1>12. CASE WT!vwaitEagain
  BY <1>12 DEF WT!vwaitEagain
<1>13. CASE WT!syncFails
  BY <1>13 DEF WT!syncFails
<1>14. CASE WT!keepFails
  BY <1>14 DEF WT!keepFails
<1>15. CASE WT!otherSide
  <2>1. UNCHANGED <<s1, s2, s3, s4, s5, s6, s8, s9>>
    BY <1>15 DEF WT!otherSide
  <2>2. CASE s1 = "vwait"
    <3>1. s7 \in {"running", "dying"} /\ s7' = "ended"
      BY <1>15, <2>2 DEF WT!otherSide
    <3> QED
      BY <2>1, <2>2, <3>1
  <2>3. CASE s1 = "vshelper-sync"
    <3>1. s3 # "main" /\ s7 \in {"silent", "data"} /\ s7' \in {"data", "closed"}
      BY <1>15, <2>3 DEF WT!otherSide
    <3>2. s9 # "success"
      BY <2>3, <3>1
    <3> QED
      BY <2>1, <2>3, <3>1, <3>2
  <2>4. CASE s1 = "keep-ctx-alive"
    <3>1. s7 \in {"silent", "connected"} /\ s7' \in {"connected", "data", "closed"}
      BY <1>15, <2>4 DEF WT!otherSide
    <3> QED
      BY <2>1, <2>4, <3>1
  <2> QED
    BY <2>2, <2>3, <2>4
<1>16. CASE WT!tick
  <2>1. s5 \in Nat /\ s4 \in Nat /\ s4' = s4 + 1 /\ s4' <= MaxTime
    BY <1>16 DEF WT!tick
  <2>2. UNCHANGED <<s1, s2, s3, s5, s6, s7, s8, s9>> /\ ~WT!Due
    BY <1>16 DEF WT!tick
  <2>3. WT!TypeOK'
    BY <2>1, <2>2
  <2>4. WT!InTime'
    BY <2>1, <2>2 DEF WT!Due
  <2>5. WT!NothingLeft' /\ WT!SuccessIsAnswer'
    BY <2>1, <2>2
  <2> QED
    BY <2>1, <2>2, <2>3, <2>4, <2>5 DEF WT!Due
<1> QED
  BY <1>1, <1>2, <1>3, <1>4, <1>5, <1>6, <1>7, <1>8, <1>9, <1>10, <1>11,
     <1>12, <1>13, <1>14, <1>15, <1>16 DEF WT!Next, WT!Step

-----------------------------------------------------------------------------
(* One file in the hands of vunify, vcopy and vclone.  Of the variables, s1 *)
(* is the tool, s3 where it is, s4 its result, s5 the names, s6 contents, s7 *)
(* flags, s8 the writer, s9 fd, s10 existed, s11 what the guest wants, s12  *)
(* whether something was raced, s13 the steps of the guests.                *)

\* Typed, without the ranges of functions.
UnifyTypes ==
    /\ s1 \in {"vunify", "revert", "vcopy", "vclone"}
    /\ s5 \in [{"src", "dst", "tmp"} -> UN!Inode \cup {0}] /\ s6 \in [UN!Inode -> Nat]
    /\ s10 \in BOOLEAN /\ s12 \in BOOLEAN /\ s11 \in Nat /\ s13 \in Nat
    /\ s7 \subseteq UN!Inode /\ {s8, s9} \subseteq UN!Inode \cup {0}
    /\ s3 \in {"check", "open", "clean", "done"} \cup UN!Window
    /\ s4 \in {"none", "skipped", "ok", "failed", "fatal", "killed"}
    /\ (s4 = "none") = (s3 # "done")

\* A new inode is nobody's.
UnifyFresh ==
    /\ UN!Fresh \in UN!Inode /\ 0 \notin UN!Inode
    /\ UN!Fresh # s5["src"] /\ UN!Fresh # s5["dst"] /\ UN!Fresh # s5["tmp"]
    /\ UN!Fresh # s9 /\ UN!Fresh # s8

\* Fresh is one of six inodes, of which three names, fd and the writer have five at
\* most.
LEMMA FreshIsNew ==
    ASSUME UN!TypeOK, s5 \in [{"src", "dst", "tmp"} -> UN!Inode \cup {0}]
    PROVE  UnifyFresh
<1> DEFINE S == UN!Inode \ (UN!Range(s5) \cup {s9, s8})
<1>1. UN!Range(s5) = {s5["src"], s5["dst"], s5["tmp"]}
  BY DEF UN!Range
<1>2. \E n \in S : \A m \in S : n <= m
  <2>1. \E n \in 1 .. 6 : n \notin {s5["src"], s5["dst"], s5["tmp"], s9, s8}
    <3>1. PICK a, b, c, d, e : a = s5["src"] /\ b = s5["dst"] /\ c = s5["tmp"] /\ d = s9 /\ e = s8
      OBVIOUS
    <3>2. a \in Nat /\ b \in Nat /\ c \in Nat /\ d \in Nat /\ e \in Nat
      BY <3>1 DEF UN!TypeOK, UN!Inode
    <3> HIDE <3>1
    <3>3. \E n \in 1 .. 6 : n # a /\ n # b /\ n # c /\ n # d /\ n # e
      <4> SUFFICES ASSUME \A n \in 1 .. 6 : n = a \/ n = b \/ n = c \/ n = d \/ n = e PROVE FALSE
        OBVIOUS
      <4>1. /\ 1 \in {a, b, c, d, e} /\ 2 \in {a, b, c, d, e} /\ 3 \in {a, b, c, d, e}
            /\ 4 \in {a, b, c, d, e} /\ 5 \in {a, b, c, d, e} /\ 6 \in {a, b, c, d, e}
        OBVIOUS
      <4> QED
        BY <4>1
    <3> QED
      BY <3>1, <3>3
  <2>2. S \subseteq 1 .. 6 /\ S # {}
    BY <1>1, <2>1 DEF UN!Inode
  <2> HIDE DEF S
  <2>3. CASE 1 \in S
    BY <2>2, <2>3
  <2>4. CASE 1 \notin S /\ 2 \in S
    BY <2>2, <2>4
  <2>5. CASE 1 \notin S /\ 2 \notin S /\ 3 \in S
    BY <2>2, <2>5
  <2>6. CASE 1 \notin S /\ 2 \notin S /\ 3 \notin S /\ 4 \in S
    BY <2>2, <2>6
  <2>7. CASE 1 \notin S /\ 2 \notin S /\ 3 \notin S /\ 4 \notin S /\ 5 \in S
    BY <2>2, <2>7
  <2>8. CASE 1 \notin S /\ 2 \notin S /\ 3 \notin S /\ 4 \notin S /\ 5 \notin S
    <3>1. PICK n \in S : TRUE
      BY <2>2
    <3>2. \A m \in S : m = 6
      BY <2>2, <2>8
    <3> QED
      BY <3>1, <3>2
  <2> QED
    BY <2>3, <2>4, <2>5, <2>6, <2>7, <2>8
<1>3. UN!Fresh \in S
  BY <1>2 DEF UN!Fresh, UN!Min
<1> QED
  BY <1>1, <1>3 DEF UnifyFresh, UN!Inode

\* Every state of the invariant has these types.
LEMMA UnifyFacts == ASSUME UN!Inv PROVE UnifyTypes /\ UnifyFresh
<1>1. UnifyTypes
  BY DEF UN!Inv, UN!Typed, UN!TypeOK, UnifyTypes
<1>2. UnifyFresh
  BY FreshIsNew DEF UN!Inv, UN!Typed
<1> QED
  BY <1>1, <1>2

\* The same of a next state.
LEMMA UnifyTypesAreTyped ==
    /\ UnifyTypes => UN!Typed
    /\ UnifyTypes' => UN!Typed'
BY DEF UnifyTypes, UN!Typed, UN!TypeOK, UN!Range

\* A step keeps the types: what is copied is copied from an inode.
LEMMA UnifyTypesStep == ASSUME UN!Inv, UN!Next PROVE UnifyTypes'
<1>1. UnifyTypes /\ UnifyFresh
  BY UnifyFacts
<1> USE <1>1 DEF UnifyTypes, UnifyFresh, UN!Inv, UN!Goes, UN!Ends, UN!Env, UN!Window, UN!Without, UN!Renamed
<1> USE DEF UN!Ways, UN!Names
<1>3. CASE UN!check
  BY <1>3 DEF UN!check, UN!vunifyDecides, UN!vcopyDecides, UN!vcloneDecides
<1>4. CASE UN!copy
  BY <1>4 DEF UN!copy
<1>5. CASE UN!setIattr
  BY <1>5 DEF UN!setIattr, UN!Flagged
<1>6. CASE UN!lstat
  BY <1>6 DEF UN!lstat
<1>7. CASE UN!backup
  BY <1>7 DEF UN!backup
<1>8. CASE UN!link
  BY <1>8 DEF UN!link, UN!PutBack
<1>9. CASE UN!clean
  BY <1>9 DEF UN!clean
<1>10. CASE UN!deOpen
  BY <1>10 DEF UN!deOpen
<1>11. CASE UN!deMkstemp
  BY <1>11 DEF UN!deMkstemp
<1>12. CASE UN!deCopy
  BY <1>12 DEF UN!deCopy, UN!Cleaned
<1>13. CASE UN!deUnlink
  BY <1>13 DEF UN!deUnlink, UN!Cleaned
<1>14. CASE UN!deRename
  BY <1>14 DEF UN!deRename
<1>15. CASE UN!guest
  BY <1>15 DEF UN!guest, UN!Write
<1>16. CASE UN!reference
  BY <1>16 DEF UN!reference, UN!Write
<1>17. CASE UN!killed
  BY <1>17 DEF UN!killed
<1> QED
  BY <1>3, <1>4, <1>5, <1>6, <1>7, <1>8, <1>9, <1>10, <1>11, <1>12,
     <1>13, <1>14, <1>15, <1>16, <1>17 DEF UN!Next

\* Each tool keeps to its own way.
LEMMA UnifyWays == ASSUME UN!Inv, UN!Next PROVE UN!Ways'
<1>1. UnifyTypes /\ UnifyFresh
  BY UnifyFacts
<1> USE <1>1 DEF UnifyTypes, UnifyFresh, UN!Inv, UN!Goes, UN!Ends, UN!Env, UN!Window, UN!Without, UN!Renamed
<1> USE DEF UN!Ways
<1>3. CASE UN!check
  BY <1>3 DEF UN!check,
          UN!vunifyDecides, UN!vcopyDecides, UN!vcloneDecides, UN!isUnifyable, UN!isUnified
<1>4. CASE UN!copy
  BY <1>4 DEF UN!copy
<1>5. CASE UN!setIattr
  BY <1>5 DEF UN!setIattr, UN!Flagged
<1>6. CASE UN!lstat
  BY <1>6 DEF UN!lstat
<1>7. CASE UN!backup
  BY <1>7 DEF UN!backup
<1>8. CASE UN!link
  BY <1>8 DEF UN!link, UN!PutBack
<1>9. CASE UN!clean
  BY <1>9 DEF UN!clean
<1>10. CASE UN!deOpen
  BY <1>10 DEF UN!deOpen
<1>11. CASE UN!deMkstemp
  BY <1>11 DEF UN!deMkstemp
<1>12. CASE UN!deCopy
  BY <1>12 DEF UN!deCopy, UN!Cleaned
<1>13. CASE UN!deUnlink
  BY <1>13 DEF UN!deUnlink, UN!Cleaned
<1>14. CASE UN!deRename
  BY <1>14 DEF UN!deRename
<1>15. CASE UN!guest
  BY <1>15 DEF UN!guest, UN!Write
<1>16. CASE UN!reference
  BY <1>16 DEF UN!reference, UN!Write
<1>17. CASE UN!killed
  BY <1>17 DEF UN!killed
<1> QED
  BY <1>3, <1>4, <1>5, <1>6, <1>7, <1>8, <1>9, <1>10, <1>11, <1>12,
     <1>13, <1>14, <1>15, <1>16, <1>17 DEF UN!Next

\* The temporary name is nobody else's.
LEMMA UnifyNames == ASSUME UN!Inv, UN!Next PROVE UN!Names'
<1>1. UnifyTypes /\ UnifyFresh
  BY UnifyFacts
<1> USE <1>1 DEF UnifyTypes, UnifyFresh, UN!Inv, UN!Goes, UN!Ends, UN!Env, UN!Window, UN!Without, UN!Renamed
<1> USE DEF UN!Names, UN!Apart, UN!Ways
<1>3. CASE UN!check
  BY <1>3 DEF UN!check,
          UN!vunifyDecides, UN!vcopyDecides, UN!vcloneDecides, UN!isUnifyable, UN!isUnified
<1>4. CASE UN!copy
  BY <1>4 DEF UN!copy
<1>5. CASE UN!setIattr
  BY <1>5 DEF UN!setIattr, UN!Flagged
<1>6. CASE UN!lstat
  BY <1>6 DEF UN!lstat
<1>7. CASE UN!backup
  BY <1>7 DEF UN!backup
<1>8. CASE UN!link
  BY <1>8 DEF UN!link, UN!PutBack
<1>9. CASE UN!clean
  BY <1>9 DEF UN!clean
<1>10. CASE UN!deOpen
  BY <1>10 DEF UN!deOpen
<1>11. CASE UN!deMkstemp
  BY <1>11 DEF UN!deMkstemp
<1>12. CASE UN!deCopy
  BY <1>12 DEF UN!deCopy, UN!Cleaned
<1>13. CASE UN!deUnlink
  BY <1>13 DEF UN!deUnlink, UN!Cleaned
<1>14. CASE UN!deRename
  BY <1>14 DEF UN!deRename
<1>15. CASE UN!guest
  BY <1>15 DEF UN!guest, UN!Write
<1>16. CASE UN!reference
  BY <1>16 DEF UN!reference, UN!Write
<1>17. CASE UN!killed
  BY <1>17 DEF UN!killed
<1> QED
  BY <1>3, <1>4, <1>5, <1>6, <1>7, <1>8, <1>9, <1>10, <1>11, <1>12,
     <1>13, <1>14, <1>15, <1>16, <1>17 DEF UN!Next

\* What the tool saw is still so, unless it was raced.
LEMMA UnifySeen == ASSUME UN!Inv, UN!Next PROVE UN!Seen'
<1>1. UnifyTypes /\ UnifyFresh
  BY UnifyFacts
<1> USE <1>1 DEF UnifyTypes, UnifyFresh, UN!Inv, UN!Goes, UN!Ends, UN!Env, UN!Window, UN!Without, UN!Renamed
<1> USE DEF UN!Seen, UN!Ways, UN!Names
<1>3. CASE UN!check
  BY <1>3 DEF UN!check,
          UN!vunifyDecides, UN!vcopyDecides, UN!vcloneDecides, UN!isUnifyable, UN!isUnified
<1>4. CASE UN!copy
  BY <1>4 DEF UN!copy
<1>5. CASE UN!setIattr
  BY <1>5 DEF UN!setIattr, UN!Flagged
<1>6. CASE UN!lstat
  BY <1>6 DEF UN!lstat
<1>7. CASE UN!backup
  BY <1>7 DEF UN!backup
<1>8. CASE UN!link
  BY <1>8 DEF UN!link, UN!PutBack
<1>9. CASE UN!clean
  BY <1>9 DEF UN!clean
<1>10. CASE UN!deOpen
  BY <1>10 DEF UN!deOpen
<1>11. CASE UN!deMkstemp
  BY <1>11 DEF UN!deMkstemp
<1>12. CASE UN!deCopy
  BY <1>12 DEF UN!deCopy, UN!Cleaned
<1>13. CASE UN!deUnlink
  BY <1>13 DEF UN!deUnlink, UN!Cleaned
<1>14. CASE UN!deRename
  BY <1>14 DEF UN!deRename
<1>15. CASE UN!guest
  BY <1>15 DEF UN!guest, UN!Write
<1>16. CASE UN!reference
  BY <1>16 DEF UN!reference, UN!Write
<1>17. CASE UN!killed
  BY <1>17 DEF UN!killed
<1> QED
  BY <1>3, <1>4, <1>5, <1>6, <1>7, <1>8, <1>9, <1>10, <1>11, <1>12,
     <1>13, <1>14, <1>15, <1>16, <1>17 DEF UN!Next

\* The contents of the guest's file are under one of the names on every step of the way.
LEMMA UnifyContents == ASSUME UN!Inv, UN!Next PROVE UN!Contents'
<1>1. UnifyTypes /\ UnifyFresh
  BY UnifyFacts
<1> USE <1>1 DEF UnifyTypes, UnifyFresh, UN!Inv, UN!Goes, UN!Ends, UN!Env, UN!Window, UN!Without, UN!Renamed
<1> USE DEF UN!Contents, UN!Seen, UN!Ways, UN!Names, UN!Apart, UN!Kept, UN!SharedIsProtected
<1>3. CASE UN!check
  BY <1>3 DEF UN!check,
          UN!vunifyDecides, UN!vcopyDecides, UN!vcloneDecides, UN!isUnifyable, UN!isUnified
<1>4. CASE UN!copy
  BY <1>4 DEF UN!copy
<1>5. CASE UN!setIattr
  BY <1>5 DEF UN!setIattr, UN!Flagged
<1>6. CASE UN!lstat
  BY <1>6 DEF UN!lstat
<1>7. CASE UN!backup
  BY <1>7 DEF UN!backup
<1>8. CASE UN!link
  BY <1>8 DEF UN!link, UN!PutBack
<1>9. CASE UN!clean
  BY <1>9 DEF UN!clean
<1>10. CASE UN!deOpen
  BY <1>10 DEF UN!deOpen
<1>11. CASE UN!deMkstemp
  BY <1>11 DEF UN!deMkstemp
<1>12. CASE UN!deCopy
  BY <1>12 DEF UN!deCopy, UN!Cleaned
<1>13. CASE UN!deUnlink
  BY <1>13 DEF UN!deUnlink, UN!Cleaned
<1>14. CASE UN!deRename
  BY <1>14 DEF UN!deRename
<1>15. CASE UN!guest
  <2> SUFFICES ASSUME ~s12' PROVE UN!Contents'
    OBVIOUS
  <2>1. ~s12 /\ s3 \in {"check", "open", "clean", "done"} /\ s5'["tmp"] = s5["tmp"] /\ s3' = s3 /\ s1' = s1
    BY <1>15 DEF UN!guest
  <2>2. CASE UN!Write("dst", 3 + s13) /\ s11' = 3 + s13
    <3>1. s5'["dst"] # 0 /\ s6'[s5'["dst"]] = s11'
      BY <2>1, <2>2 DEF UN!Write
    <3> QED
      BY <2>1, <3>1
  <2>3. CASE s11' = 0
    BY <2>3
  <2>4. CASE s5["tmp"] # 0 /\ s5' = UN!Without(s5, "tmp")
    BY <2>1, <2>4
  <2> QED
    BY <1>15, <2>2, <2>3, <2>4 DEF UN!guest
<1>16. CASE UN!reference
  <2> SUFFICES ASSUME ~s12', s11 # 0 PROVE UN!Contents'
    BY <1>16 DEF UN!reference
  <2>1. ~s12 /\ s3 \in {"check", "open", "clean", "done"} /\ s8' = s8
    BY <1>16 DEF UN!reference
  <2>2. UNCHANGED <<s1, s3, s9, s10, s11>>
    BY <1>16 DEF UN!reference
  <2>3. s5'["dst"] = s5["dst"] /\ s5'["tmp"] = s5["tmp"]
    BY <1>16 DEF UN!reference, UN!Write
  <2>4. /\ s5["dst"] # 0 => s6'[s5["dst"]] = s6[s5["dst"]]
        /\ s5["tmp"] # 0 => s6'[s5["tmp"]] = s6[s5["tmp"]]
    <3>1. CASE UN!Write("src", 3 + s13) /\ s5["src"] # 0
      <4>1. CASE s5["src"] \in s7
        BY <3>1, <4>1 DEF UN!Write
      <4>2. CASE s5["src"] \notin s7
        <5>1. s5["dst"] = 0 \/ s5["dst"] # s5["src"]
          BY <2>1, <4>2
        <5> QED
          BY <3>1, <4>2, <5>1 DEF UN!Write
      <4> QED
        BY <4>1, <4>2
    <3>2. CASE UNCHANGED s6
      BY <3>2
    <3> QED
      BY <1>16, <2>1, <2>2, <3>1, <3>2 DEF UN!reference
  <2> QED
    BY <2>1, <2>2, <2>3, <2>4
<1>17. CASE UN!killed
  BY <1>17 DEF UN!killed
<1> QED
  BY <1>3, <1>4, <1>5, <1>6, <1>7, <1>8, <1>9, <1>10, <1>11, <1>12,
     <1>13, <1>14, <1>15, <1>16, <1>17 DEF UN!Next

\* A link is only made to a file with flags, and a fresh file has a single name.
LEMMA UnifySharedIsProtected == ASSUME UN!Inv, UN!Next PROVE UN!SharedIsProtected'
<1>1. UnifyTypes /\ UnifyFresh
  BY UnifyFacts
<1> USE <1>1 DEF UnifyTypes, UnifyFresh, UN!Inv, UN!Goes, UN!Ends, UN!Env, UN!Window, UN!Without, UN!Renamed
<1> USE DEF UN!Seen, UN!Ways, UN!Names, UN!Apart, UN!SharedIsProtected
<1>3. CASE UN!check
  BY <1>3 DEF UN!check,
          UN!vunifyDecides, UN!vcopyDecides, UN!vcloneDecides, UN!isUnifyable, UN!isUnified
<1>4. CASE UN!copy
  BY <1>4 DEF UN!copy
<1>5. CASE UN!setIattr
  BY <1>5 DEF UN!setIattr, UN!Flagged
<1>6. CASE UN!lstat
  BY <1>6 DEF UN!lstat
<1>7. CASE UN!backup
  BY <1>7 DEF UN!backup
<1>8. CASE UN!link
  BY <1>8 DEF UN!link, UN!PutBack
<1>9. CASE UN!clean
  BY <1>9 DEF UN!clean
<1>10. CASE UN!deOpen
  BY <1>10 DEF UN!deOpen
<1>11. CASE UN!deMkstemp
  BY <1>11 DEF UN!deMkstemp
<1>12. CASE UN!deCopy
  BY <1>12 DEF UN!deCopy, UN!Cleaned
<1>13. CASE UN!deUnlink
  BY <1>13 DEF UN!deUnlink, UN!Cleaned
<1>14. CASE UN!deRename
  BY <1>14 DEF UN!deRename
<1>15. CASE UN!guest
  BY <1>15 DEF UN!guest, UN!Write
<1>16. CASE UN!reference
  BY <1>16 DEF UN!reference, UN!Write
<1>17. CASE UN!killed
  BY <1>17 DEF UN!killed
<1> QED
  BY <1>3, <1>4, <1>5, <1>6, <1>7, <1>8, <1>9, <1>10, <1>11, <1>12,
     <1>13, <1>14, <1>15, <1>16, <1>17 DEF UN!Next

\* Every end of a tool leaves the file under its name, or, after a kill, the temporary one.
LEMMA UnifyFileIsKept == ASSUME UN!Inv, UN!Next PROVE UN!FileIsKept'
<1>1. UnifyTypes /\ UnifyFresh
  BY UnifyFacts
<1> USE <1>1 DEF UnifyTypes, UnifyFresh, UN!Inv, UN!Goes, UN!Ends, UN!Env, UN!Window, UN!Without, UN!Renamed
<1> USE DEF UN!Contents, UN!Seen, UN!Ways, UN!Names, UN!Apart, UN!Kept, UN!SharedIsProtected, UN!FileIsKept
<1>3. CASE UN!check
  BY <1>3 DEF UN!check,
          UN!vunifyDecides, UN!vcopyDecides, UN!vcloneDecides, UN!isUnifyable, UN!isUnified
<1>4. CASE UN!copy
  BY <1>4 DEF UN!copy
<1>5. CASE UN!setIattr
  BY <1>5 DEF UN!setIattr, UN!Flagged
<1>6. CASE UN!lstat
  BY <1>6 DEF UN!lstat
<1>7. CASE UN!backup
  BY <1>7 DEF UN!backup
<1>8. CASE UN!link
  BY <1>8 DEF UN!link, UN!PutBack
<1>9. CASE UN!clean
  BY <1>9 DEF UN!clean
<1>10. CASE UN!deOpen
  BY <1>10 DEF UN!deOpen
<1>11. CASE UN!deMkstemp
  BY <1>11 DEF UN!deMkstemp
<1>12. CASE UN!deCopy
  BY <1>12 DEF UN!deCopy, UN!Cleaned
<1>13. CASE UN!deUnlink
  BY <1>13 DEF UN!deUnlink, UN!Cleaned
<1>14. CASE UN!deRename
  BY <1>14 DEF UN!deRename
<1>15. CASE UN!guest
  <2> SUFFICES ASSUME ~s12', s3' = "done", s11' # 0
               PROVE  \/ s5'["dst"] # 0 /\ s6'[s5'["dst"]] = s11'
                      \/ s4' = "killed" /\ s5'["tmp"] # 0 /\ s6'[s5'["tmp"]] = s11'
                      \/ s4' = "ok" /\ s1' = "vcopy"
    OBVIOUS
  <2>1. ~s12 /\ s5'["tmp"] = s5["tmp"] /\ UNCHANGED <<s1, s3, s4>>
    BY <1>15 DEF UN!guest
  <2>2. CASE UN!Write("dst", 3 + s13) /\ s11' = 3 + s13
    BY <2>2 DEF UN!Write
  <2>3. CASE s11' = 0
    BY <2>3
  <2>4. CASE s5["tmp"] # 0 /\ s5' = UN!Without(s5, "tmp")
    BY <2>1, <2>4
  <2> QED
    BY <1>15, <2>2, <2>3, <2>4 DEF UN!guest
<1>16. CASE UN!reference
  BY <1>16 DEF UN!reference, UN!Write
<1>17. CASE UN!killed
  BY <1>17 DEF UN!killed
<1> QED
  BY <1>3, <1>4, <1>5, <1>6, <1>7, <1>8, <1>9, <1>10, <1>11, <1>12,
     <1>13, <1>14, <1>15, <1>16, <1>17 DEF UN!Next

\* Every end but a kill is without a temporary file, and de-unification ends with a
\* fresh one.
LEMMA UnifySeparated == ASSUME UN!Inv, UN!Next PROVE UN!Separated'
<1>1. UnifyTypes /\ UnifyFresh
  BY UnifyFacts
<1> USE <1>1 DEF UnifyTypes, UnifyFresh, UN!Inv, UN!Goes, UN!Ends, UN!Env, UN!Window, UN!Without, UN!Renamed
<1> USE DEF UN!Ways, UN!Names, UN!Apart, UN!Seen, UN!Separated
<1>3. CASE UN!check
  BY <1>3 DEF UN!check,
          UN!vunifyDecides, UN!vcopyDecides, UN!vcloneDecides, UN!isUnifyable, UN!isUnified
<1>4. CASE UN!copy
  BY <1>4 DEF UN!copy
<1>5. CASE UN!setIattr
  BY <1>5 DEF UN!setIattr, UN!Flagged
<1>6. CASE UN!lstat
  BY <1>6 DEF UN!lstat
<1>7. CASE UN!backup
  BY <1>7 DEF UN!backup
<1>8. CASE UN!link
  BY <1>8 DEF UN!link, UN!PutBack
<1>9. CASE UN!clean
  BY <1>9 DEF UN!clean
<1>10. CASE UN!deOpen
  BY <1>10 DEF UN!deOpen
<1>11. CASE UN!deMkstemp
  BY <1>11 DEF UN!deMkstemp
<1>12. CASE UN!deCopy
  BY <1>12 DEF UN!deCopy, UN!Cleaned
<1>13. CASE UN!deUnlink
  BY <1>13 DEF UN!deUnlink, UN!Cleaned
<1>14. CASE UN!deRename
  BY <1>14 DEF UN!deRename
<1>15. CASE UN!guest
  BY <1>15 DEF UN!guest, UN!Write
<1>16. CASE UN!reference
  BY <1>16 DEF UN!reference, UN!Write
<1>17. CASE UN!killed
  BY <1>17 DEF UN!killed
<1> QED
  BY <1>3, <1>4, <1>5, <1>6, <1>7, <1>8, <1>9, <1>10, <1>11, <1>12,
     <1>13, <1>14, <1>15, <1>16, <1>17 DEF UN!Next

\* A tool begins with a file that is as the guest wants it.
LEMMA UnifyInit == UN!Init => UN!Inv
<1> SUFFICES ASSUME UN!Init PROVE UN!Inv
  OBVIOUS
<1> USE DEF UN!Init
<1>0. PICK d \in 0 .. 2, c \in 1 .. 2 :
        /\ s5 = [src |-> 1, dst |-> d, tmp |-> 0]
        /\ s6 = [i \in UN!Inode |-> IF i = 2 THEN c ELSE 1]
        /\ d = 0 => s1 \in {"vcopy", "vclone"}
        /\ d = 1 => s1 \in {"vunify", "revert"}
  <2>1. PICK d \in CASE s1 = "vunify" -> 1 .. 2 [] s1 = "revert" -> 1 .. 2 [] OTHER -> {0, 2} :
          s5 = [src |-> 1, dst |-> d, tmp |-> 0]
    OBVIOUS
  <2>2. PICK c \in 1 .. 2 : s6 = [i \in UN!Inode |-> IF i = 2 THEN c ELSE 1]
    OBVIOUS
  <2>3. d \in 0 .. 2 /\ (d = 0 => s1 \in {"vcopy", "vclone"}) /\ (d = 1 => s1 \in {"vunify", "revert"})
    BY <2>1
  <2> QED
    BY <2>1, <2>2, <2>3
<1>00. /\ s5["src"] = 1 /\ s5["dst"] = d /\ s5["tmp"] = 0
       /\ s5 \in [{"src", "dst", "tmp"} -> UN!Inode \cup {0}]
       /\ s6 \in [UN!Inode -> Nat] /\ s6[1] = 1 /\ s6[2] = c
  BY <1>0 DEF UN!Inode
<1>1. UnifyTypes
  <2>1. s7 \subseteq UN!Inode
    BY DEF UN!Inode
  <2>2. s11 \in Nat
    BY <1>0, <1>00
  <2>3. s8 \in {0, 1} /\ s9 = 0 /\ s10 = FALSE /\ s12 = FALSE /\ s13 = 0 /\ s3 = "check" /\ s4 = "none"
    OBVIOUS
  <2>4. s1 \in {"vunify", "revert", "vcopy", "vclone"}
    OBVIOUS
  <2> HIDE DEF UN!Init
  <2> QED
    BY <1>00, <2>1, <2>2, <2>3, <2>4 DEF UnifyTypes, UN!Inode
<1>2. UN!Typed
  BY <1>1, UnifyTypesAreTyped
<1>3. UN!Ways /\ UN!Names /\ UN!Seen /\ UN!Contents
  BY <1>0, <1>00, <1>1 DEF UN!Ways, UN!Names, UN!Seen, UN!Contents, UN!Apart, UN!Kept, UnifyTypes
<1>4. UN!SharedIsProtected /\ UN!FileIsKept /\ UN!Separated
  BY <1>0, <1>00 DEF UN!SharedIsProtected, UN!FileIsKept, UN!Separated
<1> QED
  BY <1>2, <1>3, <1>4 DEF UN!Inv

\* Together: the invariant is kept by every step of the tools and of the guests.
LEMMA UnifyStep == ASSUME UN!Inv, UN!Next PROVE UN!Inv'
BY UnifyTypesStep, UnifyTypesAreTyped, UnifyWays, UnifyNames, UnifySeen, UnifyContents,
   UnifySharedIsProtected, UnifyFileIsKept, UnifySeparated DEF UN!Inv
-----------------------------------------------------------------------------
(* secure-mount and secure-umount.  s1 are the options, s2 whether the      *)
(* kernel has vcFEATURE_BME, s3 the fstab, s4 the line, s5 where the        *)
(* program is, s6 struct MountInfo, s7 the root, s8 the current directory,  *)
(* s9 cur_dir_fd, s10 the mounts, s11 the mtab, s12 what failed, s13 the    *)
(* exit code.                                                               *)

\* What a row of FSTAB_OPTIONS says of the flags that matter here.
LEMMA RowOfOption ==
    ASSUME NEW o \in MT!Known
    PROVE  /\ MT!Takes(o, "nodev") => o = "dev"
           /\ \A f \in MT!Moves \cup {"bind"} : ~MT!Takes(o, f)
           /\ \A f \in MT!Moves : f \in MT!Flag(o) <=> o = f
           /\ "bind" \in MT!Flag(o) <=> o \in {"bind", "rbind"}
           /\ MT!Flag(o) \subseteq MT!Known
           /\ MT!Mask(o) \subseteq {"bind", "rec"} => o \in {"bind", "rbind", "rec"} \cup MT!Nothing
<1> USE DEF MT!Moves, MT!Nothing
<1>1. /\ DOMAIN MT!Several = {"defaults", "rbind", "users"}
      /\ DOMAIN MT!Clears = {"async", "atime", "dev", "exec", "suid", "rw"}
  BY DEF MT!Several, MT!Clears
<1>2. CASE o = "defaults"
  <2>1. MT!Flag(o) = {"nodev"} /\ MT!Mask(o) = {"ro", "nosuid", "nodev", "noexec", "sync"}
    BY <1>1, <1>2 DEF MT!Flag, MT!Mask, MT!Several
  <2> QED
    BY <1>2, <2>1 DEF MT!Takes, MT!Known
<1>3. CASE o = "rbind"
  <2>1. MT!Flag(o) = {"bind", "rec"} /\ MT!Mask(o) = {"bind", "rec"}
    BY <1>1, <1>3 DEF MT!Flag, MT!Mask, MT!Several
  <2> QED
    BY <1>3, <2>1 DEF MT!Takes, MT!Known
<1>4. CASE o = "users"
  <2>1. MT!Flag(o) = {"noexec", "nosuid", "nodev"} /\ MT!Mask(o) = {"noexec", "nosuid", "nodev"}
    BY <1>1, <1>4 DEF MT!Flag, MT!Mask, MT!Several
  <2> QED
    BY <1>4, <2>1 DEF MT!Takes, MT!Known
<1>5. CASE o \in DOMAIN MT!Clears
  <2>1. MT!Flag(o) = {} /\ MT!Mask(o) = {MT!Clears[o]}
    BY <1>1, <1>5 DEF MT!Flag, MT!Mask
  <2>2. /\ MT!Clears[o] \in {"sync", "noatime", "nodev", "noexec", "nosuid", "ro"}
        /\ MT!Clears[o] = "nodev" => o = "dev"
    BY <1>1, <1>5 DEF MT!Clears
  <2> QED
    BY <1>1, <1>5, <2>1, <2>2 DEF MT!Takes, MT!Known
<1>6. CASE o \in MT!Nothing
  <2>1. MT!Flag(o) = {} /\ MT!Mask(o) = {}
    BY <1>1, <1>6 DEF MT!Flag, MT!Mask
  <2> QED
    BY <1>6, <2>1 DEF MT!Takes, MT!Known
<1>7. CASE o \notin {"defaults", "rbind", "users"} \cup DOMAIN MT!Clears \cup MT!Nothing
  <2>1. MT!Flag(o) = {o} /\ MT!Mask(o) = {o}
    BY <1>1, <1>7 DEF MT!Flag, MT!Mask
  <2> QED
    BY <1>7, <2>1 DEF MT!Takes
<1> QED
  BY <1>2, <1>3, <1>4, <1>5, <1>6, <1>7

\* The option a name stands for.
LEMMA SearchedOption ==
    ASSUME NEW o
    PROVE  /\ MT!searchOption(o) = "dev" => o = "dev"
           /\ MT!searchOption(o) \in {"bind", "rbind"} <=> o \in MT!Binds
           /\ \A f \in MT!Moves : MT!searchOption(o) = f <=> o = f
           /\ o \in MT!Known \cup DOMAIN MT!Begins => MT!searchOption(o) \in MT!Known
           /\ MT!searchOption(o) \in {"bind", "rbind", "rec"} \cup MT!Nothing =>
                o \in MT!Binds \cup MT!Nothing \cup {"rec"}
<1>1. DOMAIN MT!Begins = {"user", "no", "r", "s"}
  BY DEF MT!Begins
<1>2. CASE o \in DOMAIN MT!Begins
  <2>1. MT!searchOption(o) = MT!Begins[o]
    BY <1>2 DEF MT!searchOption
  <2>2. /\ o = "user" => MT!Begins[o] = "users"
        /\ o = "no" => MT!Begins[o] = "noatime"
        /\ o = "r" => MT!Begins[o] = "rbind"
        /\ o = "s" => MT!Begins[o] = "sync"
    BY DEF MT!Begins
  <2> QED
    BY <1>1, <1>2, <2>1, <2>2 DEF MT!Binds, MT!Moves, MT!Nothing, MT!Known
<1>3. CASE o \notin DOMAIN MT!Begins
  <2>1. MT!searchOption(o) = o
    BY <1>3 DEF MT!searchOption
  <2>2. o # "r"
    BY <1>1, <1>3
  <2> QED
    BY <1>3, <2>1, <2>2 DEF MT!Binds, MT!Moves, MT!Nothing
<1> QED
  BY <1>2, <1>3

-----------------------------------------------------------------------------
\* What the options of an entry come to.
LEMMA FlagsOfOptions ==
    ASSUME NEW opts, NEW flag \in SUBSET {"nodev"}
    PROVE  LET res == MT!transformOptionList(flag, opts)
           IN  /\ res \subseteq MT!Known
               /\ flag = {"nodev"} => "nodev" \in res \/ "dev" \in MT!ToSet(opts)
               /\ \A f \in MT!Moves : f \in res <=> f \in MT!ToSet(opts)
               /\ "bind" \in res <=> MT!ToSet(opts) \cap MT!Binds # {}
<1> DEFINE res == MT!transformOptionList(flag, opts)
           on == MT!Rows(opts)
           row(j) == MT!searchOption(opts[j])
           Stays(f, j) == \A n \in on : n > j => ~MT!Takes(row(n), f)
<1>1. res = {f \in flag : Stays(f, 0)} \cup UNION {{f \in MT!Flag(row(j)) : Stays(f, j)} : j \in on}
  BY DEF MT!transformOptionList
<1>2. \A j \in on : j \in DOMAIN opts /\ row(j) \in MT!Known
  BY DEF MT!Rows
<1>3. \A f \in MT!Moves \cup {"bind"} : \A j \in on : Stays(f, j)
  BY <1>2, RowOfOption
<1>4. /\ "nodev" \notin MT!Moves \cup {"bind"} /\ "nodev" \in MT!Known
      /\ MT!Moves \cup MT!Binds \subseteq MT!Known \cup DOMAIN MT!Begins
  <2>1. DOMAIN MT!Begins = {"user", "no", "r", "s"}
    BY DEF MT!Begins
  <2> QED
    BY <2>1 DEF MT!Moves, MT!Known, MT!Binds
<1>5. \A j \in DOMAIN opts : opts[j] \in MT!Moves \cup MT!Binds => j \in on
  BY <1>4, SearchedOption DEF MT!Rows
<1> HIDE DEF res, on, Stays
<1>6. res \subseteq MT!Known
  <2>1. \A j \in on : MT!Flag(row(j)) \subseteq MT!Known
    BY <1>2, RowOfOption
  <2> QED
    BY <1>1, <1>4, <2>1
<1>7. flag = {"nodev"} => "nodev" \in res \/ "dev" \in MT!ToSet(opts)
  <2> SUFFICES ASSUME flag = {"nodev"}, "nodev" \notin res PROVE "dev" \in MT!ToSet(opts)
    OBVIOUS
  <2>1. PICK n \in on : MT!Takes(row(n), "nodev")
    BY <1>1 DEF Stays
  <2>2. row(n) = "dev"
    BY <1>2, <2>1, RowOfOption
  <2>3. opts[n] = "dev"
    BY <2>2, SearchedOption
  <2> QED
    BY <1>2, <2>3 DEF MT!ToSet
<1>8. ASSUME NEW f \in MT!Moves PROVE f \in res <=> f \in MT!ToSet(opts)
  <2>1. f \in res <=> \E j \in on : f \in MT!Flag(row(j))
    <3>1. f \notin flag /\ \A j \in on : Stays(f, j)
      BY <1>3, <1>4
    <3> QED
      BY <1>1, <3>1
  <2>2. ASSUME NEW j \in on PROVE f \in MT!Flag(row(j)) <=> opts[j] = f
    <3>1. f \in MT!Flag(row(j)) <=> row(j) = f
      BY <1>2, RowOfOption
    <3>2. row(j) = f <=> opts[j] = f
      BY SearchedOption
    <3> QED
      BY <3>1, <3>2
  <2> QED
    BY <1>2, <1>5, <2>1, <2>2 DEF MT!ToSet
<1>9. "bind" \in res <=> MT!ToSet(opts) \cap MT!Binds # {}
  <2>1. "bind" \in res <=> \E j \in on : "bind" \in MT!Flag(row(j))
    BY <1>1, <1>3, <1>4
  <2>2. ASSUME NEW j \in on PROVE "bind" \in MT!Flag(row(j)) <=> opts[j] \in MT!Binds
    <3>1. "bind" \in MT!Flag(row(j)) <=> row(j) \in {"bind", "rbind"}
      BY <1>2, RowOfOption
    <3>2. row(j) \in {"bind", "rbind"} <=> opts[j] \in MT!Binds
      BY SearchedOption
    <3> QED
      BY <3>1, <3>2
  <2> QED
    BY <1>2, <1>5, <2>1, <2>2 DEF MT!ToSet
<1> QED
  BY <1>6, <1>7, <1>8, <1>9 DEF res

\* The type of what is mounted.
MountedThing == [line : Nat, where : {"host", "guest"}, below : {"old", "new"},
                 flags : SUBSET (MT!Known \cup {"file"}), busy : BOOLEAN]

\* What an entry comes to.
LEMMA EntryFacts ==
    ASSUME s1 \in Opts, s3 \in Fstabs, NEW k \in DOMAIN s3
    PROVE  LET m == MT!MountInfo(k)
               e == s3[k]
               o == MT!ToSet(e.opts)
           IN  /\ m.line = k /\ k \in Nat /\ m.flag \subseteq MT!Known
               /\ e.src = "dir" => m.dst = e.dst
               /\ "nodev" \in m.flag \/ "dev" \in o \/ (s1.all /\ e.type = "devpts")
               /\ m.flag \cap MT!Moves # {} => o \cap MT!Moves # {}
               /\ "bind" \in m.flag <=> o \cap MT!Binds # {}
               /\ MT!canHandleInternal(m) <=> o \cap (MT!Binds \cup MT!Moves) # {} \/ e.type \in MT!Local
               /\ m.mask \subseteq {"bind", "rec"} =>
                    o \cap (MT!Known \cup DOMAIN MT!Begins) \subseteq MT!Binds \cup MT!Nothing \cup {"rec"}
               /\ "defaults" \in o /\ e.opts # <<"defaults">> => Len(e.opts) > 1
<1> DEFINE m == MT!MountInfo(k)
           e == s3[k]
           o == MT!ToSet(e.opts)
           init == IF s1.all /\ e.type = "devpts" THEN {} ELSE {"nodev"}
<1>1. /\ e \in [src : {"dir", "file"}, dst : {"/", "/d", "/d/e"}, type : STRING,
                opts : Seq(MT!Known \cup DOMAIN MT!Begins \cup FsOpts)]
      /\ k \in Nat
  <2> DEFINE S == [src : {"dir", "file"}, dst : {"/", "/d", "/d/e"}, type : STRING,
                   opts : Seq(MT!Known \cup DOMAIN MT!Begins \cup FsOpts)]
  <2>1. s3 \in Seq(S)
    BY MountsAssumption
  <2> HIDE DEF S
  <2>2. s3[k] \in S /\ k \in Nat
    BY <2>1
  <2> QED
    BY <2>2 DEF S
<1>2. /\ m.line = k /\ m.type = e.type /\ m.flag = MT!transformOptionList(init, e.opts)
      /\ e.src = "dir" => m.dst = e.dst
      /\ \A j \in MT!Rows(e.opts) : MT!Mask(MT!searchOption(e.opts[j])) \subseteq m.mask
  <2>1. /\ m.line = k /\ m.type = e.type /\ m.flag = MT!transformOptionList(init, e.opts)
        /\ m.dst = MT!adjustFileMount(e)
        /\ m.mask = (IF s1.all /\ e.type = "devpts" THEN {"nodev"} ELSE {})
                    \cup UNION {MT!Mask(x) : x \in {MT!searchOption(e.opts[j]) : j \in MT!Rows(e.opts)}}
    BY DEF MT!MountInfo
  <2> HIDE DEF m
  <2>2. e.src = "dir" => m.dst = e.dst
    BY <2>1 DEF MT!adjustFileMount
  <2> QED
    BY <2>1, <2>2
<1>3. /\ m.flag \subseteq MT!Known
      /\ init = {"nodev"} => "nodev" \in m.flag \/ "dev" \in o
      /\ \A f \in MT!Moves : f \in m.flag <=> f \in o
      /\ "bind" \in m.flag <=> o \cap MT!Binds # {}
  <2>1. init \in SUBSET {"nodev"}
    OBVIOUS
  <2> HIDE DEF init, m, o
  <2> QED
    BY <1>2, <2>1, FlagsOfOptions DEF o
<1>4. MT!canHandleInternal(m) <=> o \cap (MT!Binds \cup MT!Moves) # {} \/ e.type \in MT!Local
  <2> HIDE DEF m, o
  <2> QED
    BY <1>2, <1>3 DEF MT!canHandleInternal
<1>5. ASSUME m.mask \subseteq {"bind", "rec"}, NEW x \in o \cap (MT!Known \cup DOMAIN MT!Begins)
      PROVE  x \in MT!Binds \cup MT!Nothing \cup {"rec"}
  <2>1. PICK j \in DOMAIN e.opts : x = e.opts[j]
    BY DEF MT!ToSet
  <2>2. MT!searchOption(x) \in MT!Known
    BY SearchedOption
  <2>3. MT!Mask(MT!searchOption(x)) \subseteq {"bind", "rec"}
    BY <1>2, <1>5, <2>1, <2>2 DEF MT!Rows
  <2>4. MT!searchOption(x) \in {"bind", "rbind", "rec"} \cup MT!Nothing
    BY <2>2, <2>3, RowOfOption
  <2> QED
    BY <2>4, SearchedOption
<1>6. "defaults" \in o /\ e.opts # <<"defaults">> => Len(e.opts) > 1
  <2> SUFFICES ASSUME "defaults" \in o, ~(Len(e.opts) > 1)
               PROVE  e.opts = <<"defaults">>
    BY <1>1
  <2>1. PICK j \in DOMAIN e.opts : "defaults" = e.opts[j]
    BY DEF MT!ToSet
  <2> DEFINE q == e.opts
  <2>2. /\ q \in Seq(MT!Known \cup DOMAIN MT!Begins \cup FsOpts) /\ ~(Len(q) > 1)
        /\ j \in DOMAIN q /\ q[j] = "defaults"
    BY <1>1, <2>1
  <2> HIDE DEF q
  <2>3. Len(q) = 1 /\ q[1] = "defaults"
    <3>1. Len(q) \in Nat /\ DOMAIN q = 1 .. Len(q)
      BY <2>2
    <3> QED
      BY <2>2, <3>1
  <2>4. q = <<"defaults">>
    <3>1. /\ <<"defaults">> \in Seq(MT!Known \cup DOMAIN MT!Begins \cup FsOpts)
          /\ Len(q) = Len(<<"defaults">>) /\ \A n \in 1 .. Len(q) : q[n] = <<"defaults">>[n]
      BY <2>3 DEF MT!Known
    <3> QED
      BY <2>2, <3>1, SeqEqual
  <2> QED
    BY <2>4 DEF q
<1> HIDE DEF m, o
<1> QED
  BY <1>1, <1>2, <1>3, <1>4, <1>5, <1>6 DEF m, o

\* The entry the program is at.
MountFacts ==
    /\ s1 \in Opts /\ s3 \in Fstabs
    /\ Len(s3) \in Nat /\ DOMAIN s3 = 1 .. Len(s3)
    /\ Len(s10) \in Nat /\ DOMAIN s10 = 1 .. Len(s10)
    /\ \A k \in DOMAIN s10 : s10[k] \in MountedThing /\ s10[k].line \in DOMAIN s3
    /\ \A k \in DOMAIN s3 : MT!MountInfo(k).line = k /\ MT!MountInfo(k).flag \subseteq MT!Known

LEMMA MountFactsHold == ASSUME MT!Inv PROVE MountFacts
<1>1. s1 \in Opts /\ s3 \in Fstabs /\ s10 \in Seq(MountedThing)
  BY DEF MT!Inv, MT!Places, MountedThing
<1>2. Len(s3) \in Nat /\ DOMAIN s3 = 1 .. Len(s3)
  <2> DEFINE S == [src : {"dir", "file"}, dst : {"/", "/d", "/d/e"}, type : STRING,
                   opts : Seq(MT!Known \cup DOMAIN MT!Begins \cup FsOpts)]
  <2>1. s3 \in Seq(S)
    BY <1>1, MountsAssumption
  <2> HIDE DEF S
  <2> QED
    BY <2>1
<1>3. \A k \in DOMAIN s3 : MT!MountInfo(k).line = k /\ MT!MountInfo(k).flag \subseteq MT!Known
  BY <1>1, EntryFacts
<1>4. /\ Len(s10) \in Nat /\ DOMAIN s10 = 1 .. Len(s10)
      /\ \A k \in DOMAIN s10 : s10[k] \in MountedThing
  BY <1>1
<1>5. \A k \in DOMAIN s10 : s10[k].line \in DOMAIN s3
  BY DEF MT!Inv, MT!TypeOK
<1> QED
  BY <1>1, <1>2, <1>3, <1>4, <1>5 DEF MountFacts

\* The step ends the entry, with success or without.
Ended(ok) ==
    /\ s12' = (IF ok THEN s12 ELSE s12 \cup {s6.line}) /\ s4' = s4 + 1
    /\ s5' = (IF s1.all THEN "line" ELSE "ended")
    /\ s13' = (IF s1.all THEN s13 ELSE IF ok THEN 0 ELSE 1)

\* The entry goes on at l.
GoesTo(l) == s5' = l /\ UNCHANGED <<s4, s12, s13>>

LEMMA EntryEnded == ASSUME NEW ok \in BOOLEAN, MT!EntryEnds(ok) PROVE Ended(ok)
BY DEF MT!EntryEnds, MT!Exit, Ended

\* What is mounted after one more mount, after a remount and after an umount.
Grown(f) ==
    /\ s10' \in Seq(MountedThing) /\ Len(s10') = Len(s10) + 1 /\ DOMAIN s10' = 1 .. Len(s10) + 1
    /\ \A k \in DOMAIN s10 : s10'[k] = s10[k]
    /\ s10'[Len(s10) + 1] = MT!Mounted(f, s9)

Remounted ==
    /\ s10' \in Seq(MountedThing) /\ Len(s10') = Len(s10) /\ DOMAIN s10' = DOMAIN s10
    /\ \A k \in DOMAIN s10 :
        /\ k # Len(s10) => s10'[k] = s10[k]
        /\ s10'[k].line = s10[k].line /\ s10'[k].where = s10[k].where /\ s10'[k].below = s10[k].below
    /\ s10'[Len(s10)].flags = s6.flag \/ s10'[Len(s10)].busy

Shrunk ==
    /\ s10' \in Seq(MountedThing) /\ Len(s10') = Len(s10) - 1 /\ DOMAIN s10' = 1 .. Len(s10) - 1
    /\ \A k \in DOMAIN s10' : s10'[k] = s10[k]

LEMMA MountsGrow ==
    ASSUME MT!Inv, NEW f, f \subseteq MT!Known, s10' = Append(s10, MT!Mounted(f, s9)),
           s5 = "mount"
    PROVE  Grown(f)
<1>1. MT!Mounted(f, s9) \in MountedThing
  <2>1. s6.line \in Nat
    BY MountFactsHold DEF MountFacts, MT!Inv, MT!Places
  <2>2. s8 \in {"host", "guest"} /\ s9 \in {"old", "new"}
    BY DEF MT!Inv, MT!TypeOK
  <2> QED
    BY <2>1, <2>2 DEF MountedThing, MT!Mounted
<1>2. s10 \in Seq(MountedThing)
  BY DEF MT!Inv, MT!Places, MountedThing
<1> DEFINE e == MT!Mounted(f, s9)
<1> HIDE DEF e
<1>3. e \in MountedThing /\ s10' = Append(s10, e)
  BY <1>1 DEF e
<1>4. /\ s10' \in Seq(MountedThing) /\ Len(s10') = Len(s10) + 1
      /\ \A k \in 1 .. Len(s10) : s10'[k] = s10[k]
      /\ s10'[Len(s10) + 1] = e
  BY <1>2, <1>3, AppendProperties
<1>5. DOMAIN s10 = 1 .. Len(s10) /\ DOMAIN s10' = 1 .. Len(s10')
  BY <1>2, <1>4
<1> QED
  BY <1>4, <1>5 DEF Grown, e

\* secureChdir, whose root is the host's again whatever comes of it.
ChdirSteps ==
    /\ s5 \in {"chdir", "chdir2"} /\ UNCHANGED <<s1, s2, s3, s6, s9, s10, s11>> /\ s7' = "host"
    /\ \/ /\ s8' = (IF s1.chroot THEN "guest" ELSE "host")
          /\ GoesTo(IF s5 = "chdir" THEN "mount" ELSE "remount")
       \/ Ended(FALSE) /\ UNCHANGED s8

LEMMA secureChdirSteps == ASSUME MT!Inv, MT!secureChdir PROVE ChdirSteps
<1>1. s5 \in {"chdir", "chdir2"} /\ UNCHANGED <<s1, s2, s3, s6, s9, s10, s11>>
  BY DEF MT!secureChdir
<1>2. s7 = IF s1.chroot THEN "guest" ELSE "host"
  BY <1>1 DEF MT!Inv, MT!Places
<1>3. s7' = MT!BackRoot
  BY DEF MT!secureChdir
<1>4. s7' = "host"
  BY <1>2, <1>3 DEF MT!BackRoot
<1>5. MT!Inside = IF s1.chroot THEN "guest" ELSE "host"
  BY <1>2 DEF MT!Inside
<1>6. \/ s8' = MT!Inside /\ GoesTo(IF s5 = "chdir" THEN "mount" ELSE "remount")
      \/ MT!EntryEnds(FALSE) /\ UNCHANGED s8
  BY DEF MT!secureChdir, GoesTo
<1> QED
  BY <1>1, <1>4, <1>5, <1>6, EntryEnded DEF ChdirSteps

\* The mount by mount(2).
InternalFlags == IF s2 /\ "bind" \in s6.flag THEN s6.flag ELSE MT!KernelFlags

InternalSteps ==
    /\ s5 = "mount" /\ MT!canHandleInternal(s6) /\ UNCHANGED <<s1, s2, s3, s6, s7, s8, s11>>
    /\ \/ UNCHANGED <<s9, s10>> /\ Ended(FALSE)
       \/ /\ Grown(InternalFlags)
          /\ \/ s9' = MT!NewCurdir /\ GoesTo(IF MT!NeedsRemount THEN "chroot2" ELSE "mtab")
             \/ Ended(FALSE) /\ UNCHANGED s9
             \/ s5' = "ended" /\ s13' = 1 /\ UNCHANGED <<s4, s9, s12>>

LEMMA mountInternalSteps == ASSUME MT!Inv, MT!mountInternal PROVE InternalSteps
<1>1. s5 = "mount" /\ MT!canHandleInternal(s6) /\ UNCHANGED <<s1, s2, s3, s6, s7, s8, s11>>
  BY DEF MT!mountInternal
<1>2. InternalFlags \subseteq MT!Known
  BY <1>1, MountFactsHold DEF MountFacts, InternalFlags, MT!KernelFlags, MT!Inv, MT!Places
<1>3. CASE UNCHANGED <<s9, s10>> /\ MT!EntryEnds(FALSE)
  BY <1>1, <1>3, EntryEnded DEF InternalSteps
<1>4. CASE /\ s10' = Append(s10, MT!Mounted(InternalFlags, s9))
           /\ \/ s9' = MT!NewCurdir /\ GoesTo(IF MT!NeedsRemount THEN "chroot2" ELSE "mtab")
              \/ MT!EntryEnds(FALSE) /\ UNCHANGED s9
              \/ MT!Exit(1) /\ UNCHANGED <<s4, s12, s9>>
  <2>1. Grown(InternalFlags)
    BY <1>1, <1>2, <1>4, MountsGrow
  <2> QED
    BY <1>1, <1>4, <2>1, EntryEnded DEF InternalSteps, MT!Exit
<1> QED
  BY <1>3, <1>4 DEF MT!mountInternal, InternalFlags, GoesTo

\* The mount by mount(8).
ExternalSteps ==
    /\ s5 = "mount" /\ ~MT!canHandleInternal(s6) /\ UNCHANGED <<s1, s2, s3, s6, s7, s8, s9, s11>>
    /\ \/ UNCHANGED s10 /\ Ended(FALSE)
       \/ Grown(MT!ExternalFlags) /\ GoesTo("mtab")

LEMMA callExternalMountSteps == ASSUME MT!Inv, MT!callExternalMount PROVE ExternalSteps
<1>1. s5 = "mount" /\ ~MT!canHandleInternal(s6) /\ UNCHANGED <<s1, s2, s3, s6, s7, s8, s9, s11>>
  BY DEF MT!callExternalMount
<1>2. MT!ExternalFlags \subseteq MT!Known
  <2>1. s6.flag \subseteq MT!Known /\ "nodev" \in MT!Known
    BY <1>1, MountFactsHold DEF MountFacts, MT!Inv, MT!Places, MT!Known
  <2> QED
    BY <2>1 DEF MT!ExternalFlags
<1>3. CASE UNCHANGED s10 /\ MT!EntryEnds(FALSE)
  BY <1>1, <1>3, EntryEnded DEF ExternalSteps
<1>4. CASE s10' = Append(s10, MT!Mounted(MT!ExternalFlags, s9)) /\ GoesTo("mtab")
  BY <1>1, <1>2, <1>4, MountsGrow DEF ExternalSteps
<1> QED
  BY <1>3, <1>4 DEF MT!callExternalMount, GoesTo

\* The remount.
RemountSteps ==
    /\ s5 = "remount" /\ UNCHANGED <<s1, s2, s3, s6, s7, s8, s9, s11>>
    /\ \/ Remounted /\ GoesTo("mtab")
       \/ UNCHANGED s10 /\ Ended(FALSE)

LEMMA remountSteps == ASSUME MT!Inv, MT!remount PROVE RemountSteps
<1>1. s5 = "remount" /\ UNCHANGED <<s1, s2, s3, s6, s7, s8, s9, s11>>
  BY DEF MT!remount
<1>2. CASE UNCHANGED s10 /\ MT!EntryEnds(FALSE)
  BY <1>1, <1>2, EntryEnded DEF RemountSteps
<1> DEFINE n == Len(s10)
<1>3. /\ n \in DOMAIN s10 /\ s10 \in Seq(MountedThing) /\ s10[n] \in MountedThing
      /\ s6.flag \subseteq MT!Known /\ Len(s10) \in Nat /\ DOMAIN s10 = 1 .. Len(s10)
  <2>1. s10 # << >> /\ s10 \in Seq(MountedThing)
    BY <1>1 DEF MT!Inv, MT!Places, MT!AllNodev, MT!Bound, MountedThing
  <2>2. s6.flag \subseteq MT!Known
    BY <1>1, MountFactsHold DEF MountFacts, MT!Inv, MT!Places
  <2> QED
    BY <2>1, <2>2
<1>4. ASSUME NEW e, e \in MountedThing, e.line = s10[n].line, e.where = s10[n].where,
             e.below = s10[n].below, e.flags = s6.flag \/ e.busy, s10' = [s10 EXCEPT ![n] = e]
      PROVE  Remounted
  <2>1. s10' \in Seq(MountedThing) /\ Len(s10') = Len(s10) /\ DOMAIN s10' = DOMAIN s10
    BY <1>3, <1>4
  <2> QED
    BY <1>3, <1>4, <2>1 DEF Remounted
<1>5. CASE s10' = [s10 EXCEPT ![n].flags = s6.flag] /\ GoesTo("mtab")
  <2> DEFINE e == [s10[n] EXCEPT !.flags = s6.flag]
  <2>1. e \in MountedThing /\ e.line = s10[n].line /\ e.where = s10[n].where
        /\ e.below = s10[n].below /\ e.flags = s6.flag
    BY <1>3 DEF MountedThing
  <2>2. s10' = [s10 EXCEPT ![n] = e]
    BY <1>5
  <2> HIDE DEF e
  <2> QED
    BY <1>1, <1>4, <1>5, <2>1, <2>2 DEF RemountSteps
<1>6. CASE s10' = [s10 EXCEPT ![n].busy = TRUE] /\ GoesTo("mtab")
  <2> DEFINE e == [s10[n] EXCEPT !.busy = TRUE]
  <2>1. e \in MountedThing /\ e.line = s10[n].line /\ e.where = s10[n].where
        /\ e.below = s10[n].below /\ e.busy
    BY <1>3 DEF MountedThing
  <2>2. s10' = [s10 EXCEPT ![n] = e]
    BY <1>6
  <2> HIDE DEF e
  <2> QED
    BY <1>1, <1>4, <1>6, <2>1, <2>2 DEF RemountSteps
<1> QED
  BY <1>2, <1>5, <1>6 DEF MT!remount, GoesTo

\* secure-umount.
UmountSteps ==
    /\ s5 = "ended" /\ s5' = "umounted" /\ Shrunk
    /\ UNCHANGED <<s1, s2, s3, s4, s6, s7, s8, s9, s11, s12, s13>>

LEMMA secureUmountSteps == ASSUME MT!Inv, MT!secureUmount PROVE UmountSteps
<1>1. /\ s5 = "ended" /\ s5' = "umounted" /\ s10 # << >> /\ s10' = MT!Front(s10)
      /\ UNCHANGED <<s1, s2, s3, s4, s6, s7, s8, s9, s11, s12, s13>>
  BY DEF MT!secureUmount
<1>2. s10 \in Seq(MountedThing)
  BY DEF MT!Inv, MT!Places, MountedThing
<1>3. s10' = SubSeq(s10, 1, Len(s10) - 1)
  BY <1>1 DEF MT!Front
<1>4. Len(s10) \in Nat /\ Len(s10) > 0 /\ DOMAIN s10 = 1 .. Len(s10)
  BY <1>1, <1>2
<1>5. /\ s10' \in Seq(MountedThing) /\ Len(s10') = Len(s10) - 1
      /\ \A k \in 1 .. Len(s10) - 1 : s10'[k] = s10[k]
  BY <1>2, <1>3, <1>4
<1>6. DOMAIN s10' = 1 .. Len(s10')
  BY <1>5
<1> QED
  BY <1>1, <1>5, <1>6 DEF UmountSteps, Shrunk

\* The other steps.
LineSteps ==
    /\ s5 = "line" /\ UNCHANGED <<s1, s2, s3, s7, s9, s10, s11, s12>> /\ s8' \in {s8, "host"}
    /\ \/ s4 > Len(s3) /\ s5' = "ended" /\ s13' = 0 /\ UNCHANGED <<s4, s6>>
       \/ s4 \in DOMAIN s3 /\ s5' = "ended" /\ s13' = 1 /\ UNCHANGED <<s4, s6>>
       \/ s4 \in DOMAIN s3 /\ s4' = s4 + 1 /\ UNCHANGED <<s5, s6, s13>>
       \/ /\ s4 \in DOMAIN s3 /\ s6' = MT!MountInfo(s4) /\ s5' \in {"trigger", "chroot"}
          /\ UNCHANGED <<s4, s13>>

TriggerSteps ==
    /\ s5 = "trigger" /\ UNCHANGED <<s1, s2, s3, s6, s7, s8, s9, s10, s11>>
    /\ Ended(TRUE) \/ Ended(FALSE)

ChrootSteps ==
    /\ s5 \in {"chroot", "chroot2"} /\ UNCHANGED <<s1, s2, s3, s6, s8, s9, s10, s11>>
    /\ \/ /\ s7' = (IF s1.chroot THEN "guest" ELSE s7)
          /\ GoesTo(IF s5 = "chroot" THEN "chdir" ELSE "chdir2")
       \/ Ended(FALSE) /\ UNCHANGED s7

FailsSteps ==
    /\ s5 \in {"chdir", "chdir2", "mtab"} /\ s5' = "ended" /\ s13' = 1
    /\ UNCHANGED <<s1, s2, s3, s4, s6, s7, s8, s9, s10, s11, s12>>

MtabSteps ==
    /\ s5 = "mtab" /\ Ended(TRUE) /\ UNCHANGED <<s1, s2, s3, s6, s7, s8, s9, s10>>
    /\ s11' \subseteq s11 \cup {<<s6.line, IF s1.chroot THEN "guest" ELSE "host">>}

\* Every step is one of these.
Effects ==
    \/ LineSteps \/ TriggerSteps \/ ChrootSteps \/ FailsSteps \/ ChdirSteps
    \/ InternalSteps \/ RemountSteps \/ ExternalSteps \/ MtabSteps \/ UmountSteps

LEMMA MountsEffects == ASSUME MT!Inv, MT!Next PROVE Effects
<1>1. CASE MT!line
  <2>1. s5 = "line" /\ UNCHANGED <<s1, s2, s3, s7, s9, s10, s11, s12>> /\ s8' \in {s8, "host"}
    BY <1>1 DEF MT!line
  <2>2. s4 \in 1 .. Len(s3) + 1 /\ DOMAIN s3 = 1 .. Len(s3) /\ Len(s3) \in Nat
    BY MountFactsHold DEF MountFacts, MT!Inv, MT!TypeOK
  <2>3. CASE s4 > Len(s3)
    <3>1. s5' = "ended" /\ s13' = 0 /\ UNCHANGED <<s4, s6>>
      BY <1>1, <2>3 DEF MT!line, MT!Exit
    <3> QED
      BY <2>1, <2>3, <3>1 DEF Effects, LineSteps
  <2>4. CASE ~(s4 > Len(s3))
    <3>1. s4 \in DOMAIN s3
      BY <2>2, <2>4
    <3>2. \/ s5' = "ended" /\ s13' = 1 /\ UNCHANGED <<s4, s6>>
          \/ s4' = s4 + 1 /\ UNCHANGED <<s5, s6, s13>>
          \/ /\ s6' = MT!MountInfo(s4) /\ s5' \in {"trigger", "chroot"} /\ UNCHANGED <<s4, s13>>
      BY <1>1, <2>4 DEF MT!line, MT!Exit, MT!SyntaxError
    <3> QED
      BY <2>1, <3>1, <3>2 DEF Effects, LineSteps
  <2> QED
    BY <2>3, <2>4
<1>2. CASE MT!triggerAutomount
  <2>1. PICK ok \in BOOLEAN : MT!EntryEnds(ok)
    BY <1>2 DEF MT!triggerAutomount
  <2>2. Ended(TRUE) \/ Ended(FALSE)
    BY <2>1, EntryEnded
  <2> QED
    BY <1>2, <2>2 DEF MT!triggerAutomount, Effects, TriggerSteps
<1>3. CASE MT!secureChroot
  <2>1. CASE MT!EntryEnds(FALSE) /\ UNCHANGED s7
    BY <1>3, <2>1, EntryEnded DEF MT!secureChroot, Effects, ChrootSteps
  <2>2. CASE /\ s7' = (IF s1.chroot THEN "guest" ELSE s7)
             /\ GoesTo(IF s5 = "chroot" THEN "chdir" ELSE "chdir2")
    BY <1>3, <2>2 DEF MT!secureChroot, Effects, ChrootSteps
  <2> QED
    BY <1>3, <2>1, <2>2 DEF MT!secureChroot, GoesTo
<1>4. CASE MT!restoreRootFails
  BY <1>4 DEF MT!restoreRootFails, MT!Exit, Effects, FailsSteps
<1>5. CASE MT!updateMtab
  <2>1. Ended(TRUE)
    BY <1>5, EntryEnded DEF MT!updateMtab
  <2> QED
    BY <1>5, <2>1 DEF MT!updateMtab, MT!MtabRoot, Effects, MtabSteps
<1>6. CASE MT!secureChdir
  BY <1>6, secureChdirSteps DEF Effects
<1>7. CASE MT!mountInternal
  BY <1>7, mountInternalSteps DEF Effects
<1>8. CASE MT!remount
  BY <1>8, remountSteps DEF Effects
<1>9. CASE MT!callExternalMount
  BY <1>9, callExternalMountSteps DEF Effects
<1>10. CASE MT!secureUmount
  BY <1>10, secureUmountSteps DEF Effects
<1> QED
  BY <1>1, <1>2, <1>3, <1>4, <1>5, <1>6, <1>7, <1>8, <1>9, <1>10 DEF MT!Next

\* What all of them have in common: how the mounts change, and that what failed stays so.
LEMMA MountsChange ==
    ASSUME MT!Inv, Effects
    PROVE  /\ UNCHANGED <<s1, s2, s3>>
           /\ \/ UNCHANGED s10
              \/ s5 = "mount" /\ s8' = s8 /\ \E f : Grown(f)
              \/ s5 = "remount" /\ Remounted
              \/ s5 = "ended" /\ Shrunk
           /\ s12 \subseteq s12' /\ (s13 # 2 => s13' = s13)
<1>1. s13 # 2 => s5 \in {"ended", "umounted"}
  BY DEF MT!Inv, MT!Places
<1> USE <1>1 DEF Ended, GoesTo
<1>2. CASE LineSteps
  BY <1>2 DEF LineSteps
<1>3. CASE TriggerSteps
  BY <1>3 DEF TriggerSteps
<1>4. CASE ChrootSteps
  BY <1>4 DEF ChrootSteps
<1>5. CASE FailsSteps
  BY <1>5 DEF FailsSteps
<1>6. CASE ChdirSteps
  BY <1>6 DEF ChdirSteps
<1>7. CASE InternalSteps
  BY <1>7 DEF InternalSteps
<1>8. CASE RemountSteps
  BY <1>8 DEF RemountSteps
<1>9. CASE ExternalSteps
  BY <1>9 DEF ExternalSteps
<1>10. CASE MtabSteps
  BY <1>10 DEF MtabSteps
<1>11. CASE UmountSteps
  BY <1>11 DEF UmountSteps
<1> QED
  BY <1>2, <1>3, <1>4, <1>5, <1>6, <1>7, <1>8, <1>9, <1>10, <1>11 DEF Effects

\* The mounts keep their type, and their lines are lines of the fstab.
LEMMA MountsTyped ==
    ASSUME MT!Inv, Effects
    PROVE  /\ s10' \in Seq(MountedThing)
           /\ \A k \in DOMAIN s10' : s10'[k].line \in DOMAIN s3'
<1>1. s10 \in Seq(MountedThing) /\ s3' = s3 /\ \A k \in DOMAIN s10 : s10[k].line \in DOMAIN s3
  BY MountsChange DEF MT!Inv, MT!Places, MT!TypeOK, MountedThing
<1>2. CASE UNCHANGED s10
  BY <1>1, <1>2
<1>3. CASE s5 = "mount" /\ \E f : Grown(f)
  <2>1. s6.line \in DOMAIN s3
    BY <1>3, MountFactsHold DEF MountFacts, MT!Inv, MT!Places
  <2>2. PICK f : Grown(f)
    BY <1>3
  <2>3. DOMAIN s10 = 1 .. Len(s10) /\ Len(s10) \in Nat
    BY <1>1
  <2> QED
    BY <1>1, <2>1, <2>2, <2>3 DEF Grown, MT!Mounted
<1>4. CASE Remounted
  BY <1>1, <1>4 DEF Remounted
<1>5. CASE Shrunk
  <2>1. DOMAIN s10 = 1 .. Len(s10) /\ Len(s10) \in Nat
    BY <1>1
  <2> QED
    BY <1>1, <1>5, <2>1 DEF Shrunk
<1> QED
  BY <1>2, <1>3, <1>4, <1>5, MountsChange

\* An entry comes to the same in the next state.
LEMMA MountInfoStays ==
    ASSUME UNCHANGED <<s1, s3, s4>> PROVE MT!MountInfo(s4)' = MT!MountInfo(s4)
BY DEF MT!MountInfo

\* Each step leads to the place it should.
LEMMA MountsPlaces == ASSUME MT!Inv, Effects PROVE MT!TypeOK' /\ MT!Places'
<1>0. /\ s5 \in {"line", "trigger", "chroot", "chroot2", "chdir", "chdir2", "mount", "remount",
                 "mtab", "ended", "umounted"}
      /\ s7 \in {"host", "guest"} /\ s8 \in {"host", "guest"} /\ s9 \in {"old", "new"}
      /\ s13 \in 0 .. 2 /\ s4 \in 1 .. Len(s3) + 1 /\ s12 \subseteq DOMAIN s3
      /\ Len(s3) \in Nat /\ DOMAIN s3 = 1 .. Len(s3)
  BY MountFactsHold DEF MountFacts, MT!Inv, MT!TypeOK
<1>1. UNCHANGED <<s1, s2, s3>> /\ s1 \in Opts /\ s2 \in BOOLEAN /\ s3 \in Fstabs
      /\ (~s1.all => Len(s3) = 1) /\ s1.chroot \in BOOLEAN /\ s1.all \in BOOLEAN
  <2>1. s1 \in Opts
    BY DEF MT!Inv, MT!Places
  <2>2. s1.chroot \in BOOLEAN /\ s1.all \in BOOLEAN
    BY <2>1, MountsAssumption
  <2> QED
    BY <2>1, <2>2, MountsChange DEF MT!Inv, MT!Places
<1>2. s5 \notin {"line", "ended", "umounted"} => /\ s4 \in DOMAIN s3 /\ s6 = MT!MountInfo(s4)
                                                 /\ s6.line = s4
  BY MountFactsHold DEF MountFacts, MT!Inv, MT!Places
<1>3. /\ s5' \in {"line", "trigger", "chroot", "chroot2", "chdir", "chdir2", "mount", "remount",
                  "mtab", "ended", "umounted"}
      /\ s7' \in {"host", "guest"} /\ s8' \in {"host", "guest"} /\ s9' \in {"old", "new"}
      /\ s13' \in 0 .. 2
  <2> USE <1>0, <1>1 DEF Ended, GoesTo
  <2>1. CASE LineSteps
    BY <2>1 DEF LineSteps
  <2>2. CASE TriggerSteps
    BY <2>2 DEF TriggerSteps
  <2>3. CASE ChrootSteps
    BY <2>3 DEF ChrootSteps
  <2>4. CASE FailsSteps
    BY <2>4 DEF FailsSteps
  <2>5. CASE ChdirSteps
    BY <2>5 DEF ChdirSteps
  <2>6. CASE InternalSteps
    BY <2>6 DEF InternalSteps, MT!NewCurdir
  <2>7. CASE RemountSteps
    BY <2>7 DEF RemountSteps
  <2>8. CASE ExternalSteps
    BY <2>8 DEF ExternalSteps
  <2>9. CASE MtabSteps
    BY <2>9 DEF MtabSteps
  <2>10. CASE UmountSteps
    BY <2>10 DEF UmountSteps
  <2> QED
    BY <2>1, <2>2, <2>3, <2>4, <2>5, <2>6, <2>7, <2>8, <2>9, <2>10 DEF Effects
<1>4. s4' \in 1 .. Len(s3) + 1 /\ s12' \subseteq DOMAIN s3
  <2> USE <1>0, <1>2 DEF Ended, GoesTo
  <2>1. CASE LineSteps
    BY <2>1 DEF LineSteps
  <2>2. CASE TriggerSteps
    BY <2>2 DEF TriggerSteps
  <2>3. CASE ChrootSteps
    BY <2>3 DEF ChrootSteps
  <2>4. CASE FailsSteps
    BY <2>4 DEF FailsSteps
  <2>5. CASE ChdirSteps
    BY <2>5 DEF ChdirSteps
  <2>6. CASE InternalSteps
    BY <2>6 DEF InternalSteps
  <2>7. CASE RemountSteps
    BY <2>7 DEF RemountSteps
  <2>8. CASE ExternalSteps
    BY <2>8 DEF ExternalSteps
  <2>9. CASE MtabSteps
    BY <2>9 DEF MtabSteps
  <2>10. CASE UmountSteps
    BY <2>10 DEF UmountSteps
  <2> QED
    BY <2>1, <2>2, <2>3, <2>4, <2>5, <2>6, <2>7, <2>8, <2>9, <2>10 DEF Effects
<1>5. s5' \notin {"line", "ended", "umounted"} => s4' \in DOMAIN s3' /\ s6' = MT!MountInfo(s4)'
  <2> SUFFICES ASSUME s5' \notin {"line", "ended", "umounted"}
               PROVE  s4' = s4 /\ s4 \in DOMAIN s3 /\ s6' = MT!MountInfo(s4)
    BY <1>1, MountInfoStays
  <2> USE <1>2 DEF Ended, GoesTo
  <2>1. CASE LineSteps
    BY <2>1 DEF LineSteps
  <2>2. CASE TriggerSteps
    BY <2>2 DEF TriggerSteps
  <2>3. CASE ChrootSteps
    BY <2>3 DEF ChrootSteps
  <2>4. CASE FailsSteps
    BY <2>4 DEF FailsSteps
  <2>5. CASE ChdirSteps
    BY <2>5 DEF ChdirSteps
  <2>6. CASE InternalSteps
    BY <2>6 DEF InternalSteps
  <2>7. CASE RemountSteps
    BY <2>7 DEF RemountSteps
  <2>8. CASE ExternalSteps
    BY <2>8 DEF ExternalSteps
  <2>9. CASE MtabSteps
    BY <2>9 DEF MtabSteps
  <2>10. CASE UmountSteps
    BY <2>10 DEF UmountSteps
  <2> QED
    BY <2>1, <2>2, <2>3, <2>4, <2>5, <2>6, <2>7, <2>8, <2>9, <2>10 DEF Effects
<1>6. s13' = 2 \/ s5' \in {"ended", "umounted"}
  <2> USE DEF Ended, GoesTo, MT!Inv, MT!Places
  <2>1. CASE LineSteps
    BY <2>1 DEF LineSteps
  <2>2. CASE TriggerSteps
    BY <2>2 DEF TriggerSteps
  <2>3. CASE ChrootSteps
    BY <2>3 DEF ChrootSteps
  <2>4. CASE FailsSteps
    BY <2>4 DEF FailsSteps
  <2>5. CASE ChdirSteps
    BY <2>5 DEF ChdirSteps
  <2>6. CASE InternalSteps
    BY <2>6 DEF InternalSteps
  <2>7. CASE RemountSteps
    BY <2>7 DEF RemountSteps
  <2>8. CASE ExternalSteps
    BY <2>8 DEF ExternalSteps
  <2>9. CASE MtabSteps
    BY <2>9 DEF MtabSteps
  <2>10. CASE UmountSteps
    BY <2>10 DEF UmountSteps
  <2> QED
    BY <2>1, <2>2, <2>3, <2>4, <2>5, <2>6, <2>7, <2>8, <2>9, <2>10 DEF Effects
<1>7. /\ s5' \in {"line", "trigger", "chroot", "chroot2", "mount", "remount", "mtab"} => s7' = "host"
      /\ s5' \in {"chdir", "chdir2"} => s7' = (IF s1'.chroot THEN "guest" ELSE "host")
      /\ s5' \in {"mount", "remount"} /\ s1'.chroot => s8' = "guest"
  <2>0. /\ s5 \in {"line", "trigger", "chroot", "chroot2", "mount", "remount", "mtab"} => s7 = "host"
        /\ s5 \in {"chdir", "chdir2"} => s7 = (IF s1.chroot THEN "guest" ELSE "host")
    BY DEF MT!Inv, MT!Places
  <2> USE <1>1, <2>0 DEF Ended, GoesTo
  <2>1. CASE LineSteps
    BY <2>1 DEF LineSteps
  <2>2. CASE TriggerSteps
    BY <2>2 DEF TriggerSteps
  <2>3. CASE ChrootSteps
    BY <2>3 DEF ChrootSteps
  <2>4. CASE FailsSteps
    BY <2>4 DEF FailsSteps
  <2>5. CASE ChdirSteps
    BY <2>5 DEF ChdirSteps
  <2>6. CASE InternalSteps
    BY <2>6 DEF InternalSteps
  <2>7. CASE RemountSteps
    BY <2>7 DEF RemountSteps
  <2>8. CASE ExternalSteps
    BY <2>8 DEF ExternalSteps
  <2>9. CASE MtabSteps
    BY <2>9 DEF MtabSteps
  <2>10. CASE UmountSteps
    BY <2>10 DEF UmountSteps
  <2> QED
    BY <2>1, <2>2, <2>3, <2>4, <2>5, <2>6, <2>7, <2>8, <2>9, <2>10 DEF Effects
<1>8. s11' \subseteq Nat \X {"guest", "host"}
  <2>0. s11 \subseteq Nat \X {"guest", "host"}
    BY DEF MT!Inv, MT!Places
  <2> USE <2>0
  <2>1. CASE LineSteps
    BY <2>1 DEF LineSteps
  <2>2. CASE TriggerSteps
    BY <2>2 DEF TriggerSteps
  <2>3. CASE ChrootSteps
    BY <2>3 DEF ChrootSteps
  <2>4. CASE FailsSteps
    BY <2>4 DEF FailsSteps
  <2>5. CASE ChdirSteps
    BY <2>5 DEF ChdirSteps
  <2>6. CASE InternalSteps
    BY <2>6 DEF InternalSteps
  <2>7. CASE RemountSteps
    BY <2>7 DEF RemountSteps
  <2>8. CASE ExternalSteps
    BY <2>8 DEF ExternalSteps
  <2>9. CASE MtabSteps
    <3>1. s6.line \in Nat
      BY <2>9, <1>0, <1>2 DEF MtabSteps
    <3> QED
      BY <2>9, <3>1 DEF MtabSteps
  <2>10. CASE UmountSteps
    BY <2>10 DEF UmountSteps
  <2> QED
    BY <2>1, <2>2, <2>3, <2>4, <2>5, <2>6, <2>7, <2>8, <2>9, <2>10 DEF Effects
<1>9. s10' \in Seq(MountedThing) /\ \A k \in DOMAIN s10' : s10'[k].line \in DOMAIN s3'
  BY MountsTyped
<1>10. MT!TypeOK'
  BY <1>1, <1>3, <1>4, <1>9 DEF MT!TypeOK
<1>11. MT!Places'
  BY <1>1, <1>5, <1>6, <1>7, <1>8, <1>9 DEF MT!Places, MountedThing
<1> QED
  BY <1>10, <1>11

\* The root is the host's again for the next entry, and mounts are made in the guest.
LEMMA MountsStaysInside == ASSUME MT!Inv, Effects PROVE MT!StaysInside'
<1>1. MT!Places'
  BY MountsPlaces
<1>2. s5' \in {"line", "chroot", "mount", "remount"} => s7' = "host"
  BY <1>1 DEF MT!Places
<1>3. ASSUME s1'.chroot, NEW k \in DOMAIN s10' PROVE s10'[k].where = "guest"
  <2>1. s1' = s1 /\ \A n \in DOMAIN s10 : s10[n].where = "guest"
    BY <1>3, MountsChange DEF MT!Inv, MT!StaysInside
  <2>2. DOMAIN s10 = 1 .. Len(s10) /\ Len(s10) \in Nat
    BY MountFactsHold DEF MountFacts
  <2>3. CASE UNCHANGED s10
    BY <1>3, <2>1, <2>3
  <2>4. CASE s5 = "mount" /\ \E f : Grown(f)
    <3>1. s8 = "guest"
      BY <1>3, <2>1, <2>4 DEF MT!Inv, MT!Places
    <3> QED
      BY <1>3, <2>1, <2>2, <2>4, <3>1 DEF Grown, MT!Mounted
  <2>5. CASE Remounted
    BY <1>3, <2>1, <2>5 DEF Remounted
  <2>6. CASE Shrunk
    BY <1>3, <2>1, <2>2, <2>6 DEF Shrunk
  <2> QED
    BY <2>3, <2>4, <2>5, <2>6, MountsChange
<1> QED
  BY <1>2, <1>3 DEF MT!StaysInside

\* Nothing ends with a success before its last line.
LEMMA MountsAllTried == ASSUME MT!Inv, Effects PROVE MT!AllTried'
<1>0. s13 = 0 => s4 > Len(s3)
  BY DEF MT!Inv, MT!AllTried
<1>1. Len(s3) \in Nat /\ s4 \in Nat /\ s3' = s3 /\ (~s1.all => Len(s3) = 1)
  BY MountFactsHold, MountsChange DEF MountFacts, MT!Inv, MT!TypeOK, MT!Places
<1>2. s5 \notin {"ended", "umounted"} => s13 = 2
  BY DEF MT!Inv, MT!Places
<1>3. s5 \notin {"line", "ended", "umounted"} => s4 \in 1 .. Len(s3)
  BY MountFactsHold DEF MountFacts, MT!Inv, MT!Places
<1> SUFFICES ASSUME s13' = 0 PROVE s4' > Len(s3)
  BY <1>1 DEF MT!AllTried
<1>20. ASSUME NEW ok \in BOOLEAN, Ended(ok), s5 \notin {"line", "ended", "umounted"} PROVE s4' > Len(s3)
  <2>1. s13 = 2 /\ s4 \in 1 .. Len(s3) /\ s4' = s4 + 1
    BY <1>2, <1>3, <1>20 DEF Ended
  <2>2. CASE s1.all
    BY <1>20, <2>1, <2>2 DEF Ended
  <2>3. CASE ~s1.all
    <3>1. Len(s3) = 1
      BY <1>1, <2>3
    <3>2. s4 = 1
      BY <2>1, <3>1
    <3> QED
      BY <2>1, <3>1, <3>2
  <2> QED
    BY <2>2, <2>3
<1> USE <1>0, <1>1, <1>2, <1>3 DEF GoesTo
<1>4. CASE LineSteps
  BY <1>4 DEF LineSteps
<1>5. CASE TriggerSteps
  BY <1>5, <1>20 DEF TriggerSteps
<1>6. CASE ChrootSteps
  BY <1>6, <1>20 DEF ChrootSteps
<1>7. CASE FailsSteps
  BY <1>7 DEF FailsSteps
<1>8. CASE ChdirSteps
  BY <1>8, <1>20 DEF ChdirSteps
<1>9. CASE InternalSteps
  BY <1>9, <1>20 DEF InternalSteps
<1>10. CASE RemountSteps
  BY <1>10, <1>20 DEF RemountSteps
<1>11. CASE ExternalSteps
  BY <1>11, <1>20 DEF ExternalSteps
<1>12. CASE MtabSteps
  BY <1>12, <1>20 DEF MtabSteps
<1>13. CASE UmountSteps
  BY <1>13 DEF UmountSteps
<1> QED
  BY <1>4, <1>5, <1>6, <1>7, <1>8, <1>9, <1>10, <1>11, <1>12, <1>13 DEF Effects

\* The directory that is kept is the new one once "/" was mounted.
LEMMA MountsCurdir == ASSUME MT!Inv, Effects PROVE MT!Curdir'
<1> DEFINE Seen(n) == \/ s3[n].dst # "/" \/ s3[n].src # "dir"
                      \/ /\ s3[n].type \notin MT!Local
                         /\ MT!ToSet(s3[n].opts) \cap (MT!Binds \cup MT!Moves) = {}
<1>1. MT!Curdir <=> \A k \in DOMAIN s10 : \/ Seen(s10[k].line) \/ s9 = "new" \/ s10[k].line \in s12
                                          \/ s5 \in {"ended", "umounted"}
  BY DEF MT!Curdir, MT!Entry
<1>2. UNCHANGED <<s1, s2, s3>> /\ s12 \subseteq s12'
  BY MountsChange
<1>3. MT!Curdir' <=> \A k \in DOMAIN s10' : \/ Seen(s10'[k].line) \/ s9' = "new" \/ s10'[k].line \in s12'
                                            \/ s5' \in {"ended", "umounted"}
  BY <1>2 DEF MT!Curdir, MT!Entry
<1> HIDE DEF Seen
<1>4. s9 = "new" => s9' = "new"
  <2> USE DEF GoesTo, MT!NewCurdir
  <2>1. CASE LineSteps
    BY <2>1 DEF LineSteps
  <2>2. CASE TriggerSteps
    BY <2>2 DEF TriggerSteps
  <2>3. CASE ChrootSteps
    BY <2>3 DEF ChrootSteps
  <2>4. CASE FailsSteps
    BY <2>4 DEF FailsSteps
  <2>5. CASE ChdirSteps
    BY <2>5 DEF ChdirSteps
  <2>6. CASE InternalSteps
    BY <2>6 DEF InternalSteps
  <2>7. CASE RemountSteps
    BY <2>7 DEF RemountSteps
  <2>8. CASE ExternalSteps
    BY <2>8 DEF ExternalSteps
  <2>9. CASE MtabSteps
    BY <2>9 DEF MtabSteps
  <2>10. CASE UmountSteps
    BY <2>10 DEF UmountSteps
  <2> QED
    BY <2>1, <2>2, <2>3, <2>4, <2>5, <2>6, <2>7, <2>8, <2>9, <2>10 DEF Effects
<1>5. s5 \in {"ended", "umounted"} => s5' \in {"ended", "umounted"}
  <2>1. CASE LineSteps
    BY <2>1 DEF LineSteps
  <2>2. CASE TriggerSteps
    BY <2>2 DEF TriggerSteps
  <2>3. CASE ChrootSteps
    BY <2>3 DEF ChrootSteps
  <2>4. CASE FailsSteps
    BY <2>4 DEF FailsSteps
  <2>5. CASE ChdirSteps
    BY <2>5 DEF ChdirSteps
  <2>6. CASE InternalSteps
    BY <2>6 DEF InternalSteps
  <2>7. CASE RemountSteps
    BY <2>7 DEF RemountSteps
  <2>8. CASE ExternalSteps
    BY <2>8 DEF ExternalSteps
  <2>9. CASE MtabSteps
    BY <2>9 DEF MtabSteps
  <2>10. CASE UmountSteps
    BY <2>10 DEF UmountSteps
  <2> QED
    BY <2>1, <2>2, <2>3, <2>4, <2>5, <2>6, <2>7, <2>8, <2>9, <2>10 DEF Effects
<1>6. ASSUME NEW k \in DOMAIN s10', NEW n \in DOMAIN s10, s10'[k].line = s10[n].line
      PROVE  Seen(s10'[k].line) \/ s9' = "new" \/ s10'[k].line \in s12' \/ s5' \in {"ended", "umounted"}
  BY <1>1, <1>2, <1>4, <1>5, <1>6 DEF MT!Inv
<1>7. DOMAIN s10 = 1 .. Len(s10) /\ Len(s10) \in Nat
  BY MountFactsHold DEF MountFacts
<1>8. CASE UNCHANGED s10
  BY <1>3, <1>6, <1>8
<1>9. CASE s5 = "mount" /\ \E f : Grown(f)
  <2>1. s4 \in DOMAIN s3 /\ s6 = MT!MountInfo(s4) /\ s1 \in Opts /\ s3 \in Fstabs
    BY <1>9 DEF MT!Inv, MT!Places
  <2>2. /\ s6.line = s4 /\ s4 \in Nat
        /\ s3[s4].src = "dir" => s6.dst = s3[s4].dst
        /\ MT!canHandleInternal(s6) \/ Seen(s4)
    BY <2>1, EntryFacts DEF Seen
  <2>3. DOMAIN s10' = 1 .. Len(s10) + 1 /\ s10'[Len(s10) + 1].line = s4
        /\ \A k \in DOMAIN s10 : s10'[k] = s10[k]
    BY <1>9, <2>2 DEF Grown, MT!Mounted
  <2>4. Seen(s4) \/ s9' = "new" \/ s4 \in s12' \/ s5' \in {"ended", "umounted"}
    <3>1. CASE ExternalSteps
      BY <2>2, <3>1 DEF ExternalSteps
    <3>2. CASE InternalSteps
      <4>1. CASE s9' = MT!NewCurdir
        BY <2>2, <4>1 DEF MT!NewCurdir, Seen
      <4>2. CASE Ended(FALSE)
        BY <2>2, <4>2 DEF Ended
      <4>3. CASE s10' = s10
        BY <1>7, <2>3, <4>3
      <4> QED
        BY <3>2, <4>1, <4>2, <4>3 DEF InternalSteps
    <3> QED
      BY <1>9, <3>1, <3>2 DEF Effects, LineSteps, TriggerSteps, ChrootSteps, FailsSteps, ChdirSteps,
                              RemountSteps, MtabSteps, UmountSteps
  <2> QED
    BY <1>3, <1>6, <1>7, <2>3, <2>4
<1>10. CASE Remounted
  BY <1>3, <1>6, <1>10 DEF Remounted
<1>11. CASE Shrunk
  BY <1>3, <1>6, <1>7, <1>11 DEF Shrunk
<1> QED
  BY <1>8, <1>9, <1>10, <1>11, MountsChange

\* A mount that comes after one on "/" finds the new directory.
LEMMA MountsOnNewRoot == ASSUME MT!Inv, Effects PROVE MT!OnNewRoot'
<1> DEFINE Seen(n) == \/ s3[n].dst # "/" \/ s3[n].src # "dir"
                      \/ /\ s3[n].type \notin MT!Local
                         /\ MT!ToSet(s3[n].opts) \cap (MT!Binds \cup MT!Moves) = {}
<1>1. \A j, k \in DOMAIN s10 :
        j < k => Seen(s10[j].line) \/ s10[k].below = "new" \/ s10[j].line \in s12
  BY DEF MT!Inv, MT!OnNewRoot, MT!Entry
<1>2. UNCHANGED <<s1, s2, s3>> /\ s12 \subseteq s12'
  BY MountsChange
<1>3. \A k \in DOMAIN s10 : \/ Seen(s10[k].line) \/ s9 = "new" \/ s10[k].line \in s12
                            \/ s5 \in {"ended", "umounted"}
  BY DEF MT!Inv, MT!Curdir, MT!Entry
<1>4. SUFFICES ASSUME NEW j \in DOMAIN s10', NEW k \in DOMAIN s10', j < k
               PROVE  Seen(s10'[j].line) \/ s10'[k].below = "new" \/ s10'[j].line \in s12'
  BY <1>2 DEF MT!OnNewRoot, MT!Entry
<1> HIDE DEF Seen
<1>5. DOMAIN s10 = 1 .. Len(s10) /\ Len(s10) \in Nat
  BY MountFactsHold DEF MountFacts
<1>6. CASE UNCHANGED s10
  BY <1>1, <1>2, <1>4, <1>6
<1>7. CASE s5 = "mount" /\ \E f : Grown(f)
  <2>1. /\ DOMAIN s10' = 1 .. Len(s10) + 1 /\ s10'[Len(s10) + 1].below = s9
        /\ \A n \in DOMAIN s10 : s10'[n] = s10[n]
    BY <1>7 DEF Grown, MT!Mounted
  <2>2. CASE k \in DOMAIN s10
    BY <1>1, <1>2, <1>4, <1>5, <2>1, <2>2
  <2>3. CASE k = Len(s10) + 1
    BY <1>2, <1>3, <1>4, <1>5, <1>7, <2>1, <2>3
  <2> QED
    BY <1>4, <1>5, <2>1, <2>2, <2>3
<1>8. CASE Remounted
  BY <1>1, <1>2, <1>4, <1>8 DEF Remounted
<1>9. CASE Shrunk
  BY <1>1, <1>2, <1>4, <1>5, <1>9 DEF Shrunk
<1> QED
  BY <1>6, <1>7, <1>8, <1>9, MountsChange

\* The mtab has what was mounted, in the root it was written in.
LEMMA MountsMtabIsTrue == ASSUME MT!Inv, Effects PROVE MT!MtabIsTrue'
<1> DEFINE R == IF s1.chroot THEN "guest" ELSE "host"
<1>1. \A l \in s11 : /\ s5 # "umounted" => \E k \in DOMAIN s10 : s10[k].line = l[1]
                     /\ l[2] = R
  BY DEF MT!Inv, MT!MtabIsTrue
<1>2. s1' = s1
  BY MountsChange
<1>3. SUFFICES ASSUME NEW l \in s11'
               PROVE  /\ s5' # "umounted" => \E k \in DOMAIN s10' : s10'[k].line = l[1]
                      /\ l[2] = R
  BY <1>2 DEF MT!MtabIsTrue
<1>4. DOMAIN s10 = 1 .. Len(s10) /\ Len(s10) \in Nat
  BY MountFactsHold DEF MountFacts
<1>5. CASE l \in s11
  <2>1. s5 = "umounted" => s5' = "umounted"
    BY DEF Effects, LineSteps, TriggerSteps, ChrootSteps, FailsSteps, ChdirSteps, InternalSteps,
           RemountSteps, ExternalSteps, MtabSteps, UmountSteps
  <2>2. \A k \in DOMAIN s10 : s5' # "umounted" => k \in DOMAIN s10' /\ s10'[k].line = s10[k].line
    <3>1. CASE Shrunk /\ s5 = "ended"
      <4>1. s5' = "umounted" \/ UNCHANGED s10
        BY <3>1 DEF Effects, LineSteps, TriggerSteps, ChrootSteps, FailsSteps, ChdirSteps,
                    InternalSteps, RemountSteps, ExternalSteps, MtabSteps, UmountSteps
      <4> QED
        BY <4>1
    <3>2. CASE \E f : Grown(f)
      BY <1>4, <3>2 DEF Grown
    <3>3. CASE Remounted
      BY <3>3 DEF Remounted
    <3> QED
      BY <3>1, <3>2, <3>3, MountsChange
  <2> QED
    BY <1>1, <1>5, <2>1, <2>2
<1>6. CASE l \notin s11
  <2>1. MtabSteps
    BY <1>3, <1>6 DEF Effects, LineSteps, TriggerSteps, ChrootSteps, FailsSteps, ChdirSteps,
                      InternalSteps, RemountSteps, ExternalSteps, UmountSteps
  <2>2. l = <<s6.line, R>> /\ s10' = s10
    BY <1>3, <1>6, <2>1 DEF MtabSteps
  <2>3. s10 # << >> /\ s10[Len(s10)].line = s6.line
    BY <2>1 DEF MtabSteps, MT!Inv, MT!AllNodev, MT!Bound
  <2>4. s10 \in Seq(MountedThing)
    BY DEF MT!Inv, MT!Places, MountedThing
  <2> QED
    BY <1>4, <2>2, <2>3, <2>4
<1> QED
  BY <1>5, <1>6

\* NodevOr of a mount, said of the values it depends on.
Fine(a, hasBME, e, flags) ==
    LET o == MT!ToSet(e.opts)
    IN  \/ "nodev" \in flags
        \/ "dev" \in o
        \/ a /\ e.type = "devpts"
        \/ /\ ~hasBME /\ o \cap MT!Binds # {}
           /\ o \cap (MT!Known \cup DOMAIN MT!Begins) \subseteq MT!Binds \cup MT!Nothing \cup {"rec"}
        \/ o \cap MT!Moves # {}
        \/ "defaults" \in o /\ Len(e.opts) > 1

Excused(k) == s10[k].line \in s12 \/ s13 = 1 \/ s10[k].busy

FineAt(k) == Fine(s1.all, s2, s3[s10[k].line], s10[k].flags) \/ Excused(k)

LEMMA FineIsNodevOr ==
    /\ \A k \in DOMAIN s10 : MT!NodevOr(s10[k]) <=> FineAt(k)
    /\ \A k \in DOMAIN s10' : MT!NodevOr(s10[k])' <=> FineAt(k)'
BY DEF MT!NodevOr, MT!Entry, FineAt, Fine, Excused

\* The flags of a mount by mount(2) that is not remounted, and of one by mount(8).
LEMMA MountedFlagsAreFine ==
    ASSUME MT!Inv, s5 = "mount"
    PROVE  /\ Fine(s1.all, s2, s3[s4], s6.flag)
           /\ ~MT!NeedsRemount => Fine(s1.all, s2, s3[s4], InternalFlags)
           /\ MT!NeedsRemount => "bind" \in s6.flag
           /\ Fine(s1.all, s2, s3[s4], MT!ExternalFlags)
<1> DEFINE e == s3[s4]
           o == MT!ToSet(e.opts)
<1>1. s4 \in DOMAIN s3 /\ s6 = MT!MountInfo(s4) /\ s1 \in Opts /\ s3 \in Fstabs /\ s2 \in BOOLEAN
  BY DEF MT!Inv, MT!Places
<1>2. /\ s6.line = s4 /\ s6.flag \subseteq MT!Known
      /\ "nodev" \in s6.flag \/ "dev" \in o \/ (s1.all /\ e.type = "devpts")
      /\ s6.flag \cap MT!Moves # {} => o \cap MT!Moves # {}
      /\ "bind" \in s6.flag <=> o \cap MT!Binds # {}
      /\ s6.mask \subseteq {"bind", "rec"} =>
           o \cap (MT!Known \cup DOMAIN MT!Begins) \subseteq MT!Binds \cup MT!Nothing \cup {"rec"}
      /\ "defaults" \in o /\ e.opts # <<"defaults">> => Len(e.opts) > 1
  BY <1>1, EntryFacts
<1> HIDE DEF e, o
<1>3. Fine(s1.all, s2, e, s6.flag)
  BY <1>2 DEF Fine, o
<1>4. ASSUME ~MT!NeedsRemount PROVE Fine(s1.all, s2, e, InternalFlags)
  <2>1. CASE InternalFlags = s6.flag
    BY <1>3, <2>1
  <2>2. CASE s6.flag \cap MT!Moves # {}
    BY <1>2, <2>2 DEF Fine, o
  <2>3. CASE ~s2 /\ "bind" \in s6.flag
    <3>1. s6.mask \subseteq {"bind", "rec"}
      BY <1>4, <2>3 DEF MT!NeedsRemount
    <3> QED
      BY <1>2, <2>3, <3>1 DEF Fine, o
  <2> QED
    BY <1>1, <2>1, <2>2, <2>3 DEF InternalFlags, MT!KernelFlags
<1>5. MT!NeedsRemount => "bind" \in s6.flag
  BY DEF MT!NeedsRemount
<1>6. Fine(s1.all, s2, e, MT!ExternalFlags)
  <2>1. CASE MT!ExternalFlags = {"nodev"}
    BY <2>1 DEF Fine
  <2>2. CASE MT!ExternalFlags = s6.flag
    BY <1>3, <2>2
  <2>3. CASE "defaults" \in o /\ e.opts # <<"defaults">>
    BY <1>2, <2>3 DEF Fine, o
  <2> QED
    BY <1>2, <2>1, <2>2, <2>3 DEF MT!ExternalFlags, e, o
<1> QED
  BY <1>3, <1>4, <1>5, <1>6 DEF e

\* A mount is fine from the end of its entry on, and stays so.
LEMMA MountsAllNodev == ASSUME MT!Inv, Effects PROVE MT!AllNodev'
<1>0. /\ DOMAIN s10 = 1 .. Len(s10) /\ Len(s10) \in Nat
      /\ s5 \notin {"line", "ended", "umounted"} => s6.line = s4
  BY MountFactsHold DEF MountFacts, MT!Inv, MT!Places
<1>1. /\ \A k \in DOMAIN s10 : FineAt(k) \/ (s5 \in MT!Bound /\ k = Len(s10))
      /\ s5 \in MT!Bound \cup {"mtab"} => s10 # << >> /\ s10[Len(s10)].line = s6.line
      /\ s5 \in MT!Bound => "bind" \in s6.flag
  BY FineIsNodevOr DEF MT!Inv, MT!AllNodev
<1>2. UNCHANGED <<s1, s2, s3>> /\ s12 \subseteq s12' /\ (s13 # 2 => s13' = s13)
  BY MountsChange
<1>3. SUFFICES /\ \A k \in DOMAIN s10' : FineAt(k)' \/ (s5' \in MT!Bound /\ k = Len(s10'))
               /\ s5' \in MT!Bound \cup {"mtab"} => s10' # << >> /\ s10'[Len(s10')].line = s6'.line
               /\ s5' \in MT!Bound => "bind" \in s6'.flag
  BY FineIsNodevOr DEF MT!AllNodev, MT!Bound
<1>4. ASSUME NEW k \in DOMAIN s10, s10'[k] = s10[k], FineAt(k) PROVE FineAt(k)'
  <2>1. Excused(k) => Excused(k)'
    BY <1>2, <1>4 DEF Excused
  <2> QED
    BY <1>2, <1>4, <2>1 DEF FineAt, Fine
<1>5. ASSUME NEW k \in DOMAIN s10', s10'[k].line \in s12' \/ s13' = 1 \/ s10'[k].busy PROVE FineAt(k)'
  BY <1>5 DEF FineAt, Fine, Excused
<1>6. CASE s10' = s10 /\ s5 \notin MT!Bound /\ s5' \notin MT!Bound \cup {"mtab"}
  BY <1>1, <1>4, <1>6 DEF MT!Bound
<1>7. CASE s10' = s10 /\ s6' = s6 /\ s5 \in MT!Bound /\ s5' \in MT!Bound
  BY <1>1, <1>4, <1>7
<1>8. CASE s10' = s10 /\ s5 \in MT!Bound /\ s5' \in {"line", "ended"} /\ (s6.line \in s12' \/ s13' = 1)
  <2>1. s10 # << >> /\ s10[Len(s10)].line = s6.line
    BY <1>1, <1>8
  <2> QED
    BY <1>0, <1>1, <1>4, <1>5, <1>8, <2>1 DEF MT!Bound
<1>9. CASE RemountSteps /\ Remounted /\ GoesTo("mtab")
  <2>1. /\ s5 = "remount" /\ s5' = "mtab" /\ s6' = s6
        /\ Len(s10') = Len(s10) /\ DOMAIN s10' = DOMAIN s10 /\ s10 # << >>
        /\ \A k \in DOMAIN s10 : (k # Len(s10) => s10'[k] = s10[k]) /\ s10'[k].line = s10[k].line
        /\ s10'[Len(s10)].flags = s6.flag \/ s10'[Len(s10)].busy
    BY <1>1, <1>9 DEF RemountSteps, Remounted, GoesTo, MT!Bound
  <2>2. Len(s10) \in DOMAIN s10
    <3>1. s10 \in Seq(MountedThing)
      BY DEF MT!Inv, MT!Places, MountedThing
    <3> QED
      BY <1>0, <2>1, <3>1
  <2>3. s10'[Len(s10)].line = s4 /\ s4 \in DOMAIN s3 /\ s6 = MT!MountInfo(s4)
    BY <1>0, <1>1, <2>1, <2>2 DEF MT!Bound, MT!Inv, MT!Places
  <2>4. FineAt(Len(s10))'
    <3>1. CASE s10'[Len(s10)].busy
      BY <1>5, <2>1, <2>2, <3>1
    <3>2. CASE s10'[Len(s10)].flags = s6.flag
      <4>1. "nodev" \in s6.flag \/ "dev" \in MT!ToSet(s3[s4].opts) \/ (s1.all /\ s3[s4].type = "devpts")
        BY <2>3, EntryFacts DEF MT!Inv, MT!Places
      <4> QED
        BY <1>2, <2>1, <2>3, <3>2, <4>1 DEF FineAt, Fine
    <3> QED
      BY <2>1, <3>1, <3>2
  <2> QED
    BY <1>1, <1>4, <2>1, <2>2, <2>4 DEF MT!Bound
<1>10. CASE s5 = "mount" /\ s6' = s6 /\ \E f : Grown(f)
  <2>1. PICK f : Grown(f)
    BY <1>10
  <2>0. PICK n \in Nat : n = Len(s10) + 1
    BY <1>0
  <2>2. /\ DOMAIN s10' = 1 .. n /\ Len(s10') = n /\ s10' # << >>
        /\ s10'[n].line = s4 /\ s10'[n].flags = f
        /\ \A k \in DOMAIN s10 : s10'[k] = s10[k]
    BY <1>0, <1>10, <2>0, <2>1 DEF Grown, MT!Mounted
  <2>3. \A k \in DOMAIN s10 : FineAt(k)'
    BY <1>1, <1>4, <1>10, <2>2 DEF MT!Bound
  <2>4. FineAt(n)' \/ s5' \in MT!Bound
    <3>0. ASSUME Fine(s1.all, s2, s3[s4], f) PROVE FineAt(n)'
      BY <1>2, <2>2, <3>0 DEF FineAt
    <3>1. CASE f = MT!ExternalFlags
      BY <1>10, <3>0, <3>1, MountedFlagsAreFine
    <3>2. CASE InternalSteps /\ f = InternalFlags
      <4>1. n \in DOMAIN s10' /\ s6.line = s4
        BY <1>0, <1>10, <2>0, <2>2
      <4>2. CASE s6.line \in s12' \/ s13' = 1
        BY <1>5, <2>2, <4>1, <4>2
      <4>3. CASE GoesTo("chroot2")
        BY <4>3 DEF GoesTo, MT!Bound
      <4>4. CASE ~MT!NeedsRemount
        BY <1>10, <3>0, <3>2, <4>4, MountedFlagsAreFine
      <4>5. CASE s10' = s10
        BY <1>0, <2>0, <2>2, <4>5
      <4> QED
        BY <3>2, <4>2, <4>3, <4>4, <4>5 DEF InternalSteps, Ended
    <3>3. f = s10'[n].flags /\ s10' # s10
      BY <1>0, <2>0, <2>2
    <3>4. ASSUME NEW g, Grown(g) PROVE g = f
      BY <1>0, <2>0, <3>3, <3>4 DEF Grown, MT!Mounted
    <3>5. CASE ExternalSteps
      <4>1. Grown(MT!ExternalFlags)
        BY <3>3, <3>5 DEF ExternalSteps
      <4> QED
        BY <3>1, <3>4, <4>1
    <3>6. CASE InternalSteps
      <4>1. Grown(InternalFlags)
        BY <3>3, <3>6 DEF InternalSteps
      <4> QED
        BY <3>2, <3>4, <3>6, <4>1
    <3> QED
      BY <1>10, <3>5, <3>6 DEF Effects, LineSteps, TriggerSteps, ChrootSteps, FailsSteps,
                               ChdirSteps, RemountSteps, MtabSteps, UmountSteps
  <2>5. s5' \in MT!Bound => "bind" \in s6.flag
    <3>1. s5' = "chroot2" => MT!NeedsRemount
      BY <1>10 DEF Effects, LineSteps, TriggerSteps, ChrootSteps, FailsSteps, ChdirSteps, Ended, GoesTo,
                   InternalSteps, RemountSteps, ExternalSteps, MtabSteps, UmountSteps
    <3>2. s5' \notin {"chdir2", "remount"}
      <4>1. CASE InternalSteps
        BY <4>1 DEF InternalSteps, Ended, GoesTo
      <4>2. CASE ExternalSteps
        BY <4>2 DEF ExternalSteps, Ended, GoesTo
      <4> QED
        BY <1>10, <4>1, <4>2 DEF Effects, LineSteps, TriggerSteps, ChrootSteps, FailsSteps,
                                 ChdirSteps, RemountSteps, MtabSteps, UmountSteps
    <3> QED
      BY <3>1, <3>2 DEF MT!NeedsRemount, MT!Bound
  <2> QED
    BY <1>0, <1>10, <2>0, <2>2, <2>3, <2>4, <2>5
<1>11. CASE Shrunk /\ s5 = "ended" /\ s5' = "umounted"
  BY <1>0, <1>1, <1>4, <1>11 DEF Shrunk, MT!Bound
<1> USE DEF Ended, GoesTo, MT!Bound
<1>12. CASE LineSteps
  BY <1>6, <1>12 DEF LineSteps
<1>13. CASE TriggerSteps
  BY <1>6, <1>13 DEF TriggerSteps
<1>14. CASE ChrootSteps
  BY <1>6, <1>7, <1>8, <1>14 DEF ChrootSteps
<1>15. CASE FailsSteps
  BY <1>6, <1>8, <1>15 DEF FailsSteps
<1>16. CASE ChdirSteps
  BY <1>6, <1>7, <1>8, <1>16 DEF ChdirSteps
<1>17. CASE InternalSteps
  BY <1>6, <1>10, <1>17 DEF InternalSteps
<1>18. CASE RemountSteps
  BY <1>8, <1>9, <1>18 DEF RemountSteps
<1>19. CASE ExternalSteps
  BY <1>6, <1>10, <1>19 DEF ExternalSteps
<1>20. CASE MtabSteps
  BY <1>6, <1>20 DEF MtabSteps
<1>21. CASE UmountSteps
  BY <1>11, <1>21 DEF UmountSteps
<1> QED
  BY <1>12, <1>13, <1>14, <1>15, <1>16, <1>17, <1>18, <1>19, <1>20, <1>21 DEF Effects

-----------------------------------------------------------------------------
\* The invariant holds at the beginning.
LEMMA MountsInit == ASSUME MT!Init PROVE MT!Inv
<1>1. /\ s1 \in Opts /\ s2 \in BOOLEAN /\ s3 \in Fstabs /\ (~s1.all => Len(s3) = 1)
      /\ s4 = 1 /\ s5 = "line" /\ s7 = "host" /\ s8 = "guest" /\ s9 = "old"
      /\ s10 = << >> /\ s11 = {} /\ s12 = {} /\ s13 = 2
  BY DEF MT!Init
<1>2. DOMAIN s10 = {} /\ s10 \in Seq(MountedThing)
  BY <1>1
<1>3. Len(s3) \in Nat
  <2> DEFINE S == [src : {"dir", "file"}, dst : {"/", "/d", "/d/e"}, type : STRING,
                   opts : Seq(MT!Known \cup DOMAIN MT!Begins \cup FsOpts)]
  <2>1. s3 \in Seq(S)
    BY <1>1, MountsAssumption
  <2> HIDE DEF S
  <2> QED
    BY <2>1
<1>4. MT!TypeOK
  BY <1>1, <1>2, <1>3 DEF MT!TypeOK
<1>5. MT!Places
  BY <1>1, <1>2 DEF MT!Places, MountedThing
<1>6. MT!AllNodev
  BY <1>1, <1>2 DEF MT!AllNodev, MT!Bound
<1> QED
  BY <1>1, <1>2, <1>4, <1>5, <1>6
  DEF MT!Inv, MT!StaysInside, MT!MtabIsTrue, MT!OnNewRoot, MT!AllTried, MT!Curdir

\* Every step keeps it.
LEMMA MountsStep == ASSUME MT!Inv, MT!Next PROVE MT!Inv'
<1>1. Effects
  BY MountsEffects
<1>2. MT!TypeOK' /\ MT!Places'
  BY <1>1, MountsPlaces
<1>3. MT!StaysInside' /\ MT!AllTried' /\ MT!Curdir'
  BY <1>1, MountsStaysInside, MountsAllTried, MountsCurdir
<1>4. MT!OnNewRoot' /\ MT!MtabIsTrue' /\ MT!AllNodev'
  BY <1>1, MountsOnNewRoot, MountsMtabIsTrue, MountsAllNodev
<1> QED
  BY <1>2, <1>3, <1>4 DEF MT!Inv

\* It says that mounts are nodev wherever the program is between two entries.
LEMMA MountsNodev == ASSUME MT!Inv PROVE MT!NodevUnlessAsked
BY DEF MT!Inv, MT!AllNodev, MT!NodevUnlessAsked, MT!Bound
-----------------------------------------------------------------------------
(* The whole: a behaviour stays with its component.                        *)

ServicesInv ==
    /\ which = "waiting" => WT!Inv
    /\ which = "mount" => MT!Inv
    /\ which = "unify" => UN!Inv

\* Every component begins with its own invariant.
LEMMA ServicesInit == Init => ServicesInv
BY WaitingInit, MountsInit, UnifyInit DEF Init, ServicesInv

\* A step of the component, or none of it, keeps it.
LEMMA ServicesStep == ServicesInv /\ [Next]_all => ServicesInv'
<1> SUFFICES ASSUME ServicesInv, [Next]_all PROVE ServicesInv'
  OBVIOUS
<1>1. CASE Next
  <2>1. which' = which
    BY <1>1 DEF Next, Keep10, Keep9
  <2>2. which = "waiting" => WT!Inv'
    BY <1>1, WaitingStep DEF Next, ServicesInv
  <2>3. which = "mount" => MT!Inv'
    BY <1>1, MountsStep DEF Next, ServicesInv
  <2>4. which = "unify" => UN!Inv'
    BY <1>1, UnifyStep DEF Next, ServicesInv
  <2> QED
    BY <2>1, <2>2, <2>3, <2>4 DEF ServicesInv
<1>2. CASE UNCHANGED all
  <2>1. WT!Inv => WT!Inv'
    BY <1>2 DEF all, WT!Inv, WT!TypeOK, WT!InTime, WT!NothingLeft, WT!SuccessIsAnswer
  <2>2. MT!Inv => MT!Inv'
    <3>1. /\ MT!TypeOK' = MT!TypeOK /\ MT!StaysInside' = MT!StaysInside
          /\ MT!MtabIsTrue' = MT!MtabIsTrue /\ MT!AllTried' = MT!AllTried
      BY <1>2 DEF all, MT!TypeOK, MT!StaysInside, MT!MtabIsTrue, MT!AllTried
    <3>2. MT!OnNewRoot' = MT!OnNewRoot /\ MT!Curdir' = MT!Curdir
      BY <1>2 DEF all, MT!OnNewRoot, MT!Curdir, MT!Entry
    <3>3. MT!Places' = MT!Places
      BY <1>2, MountInfoStays DEF all, MT!Places
    <3>4. MT!AllNodev' = MT!AllNodev
      BY <1>2 DEF all, MT!AllNodev, MT!NodevOr, MT!Entry
    <3> QED
      BY <3>1, <3>2, <3>3, <3>4 DEF MT!Inv
  <2>3. UN!Inv => UN!Inv'
    <3>1. UN!Typed' = UN!Typed /\ UN!Ways' = UN!Ways /\ UN!Names' = UN!Names
      BY <1>2 DEF all, UN!Typed, UN!TypeOK, UN!Ways, UN!Names, UN!Apart
    <3>2. UN!Seen' = UN!Seen /\ UN!Contents' = UN!Contents
      BY <1>2 DEF all, UN!Seen, UN!Contents, UN!Kept
    <3>3. /\ UN!SharedIsProtected' = UN!SharedIsProtected /\ UN!FileIsKept' = UN!FileIsKept
          /\ UN!Separated' = UN!Separated
      BY <1>2 DEF all, UN!SharedIsProtected, UN!FileIsKept, UN!Separated
    <3> QED
      BY <3>1, <3>2, <3>3 DEF UN!Inv
  <2> QED
    BY <1>2, <2>1, <2>2, <2>3 DEF all, ServicesInv
<1> QED
  BY <1>1, <1>2

\* The invariant of the three components is one of the whole specification.
THEOREM ServicesCorrect == Spec => []ServicesInv
BY ServicesInit, ServicesStep, PTL DEF Spec

\* vwait, vshelper-sync and keep-ctx-alive: for every timeout, calls that return early
\* and data in drops do not prolong it, and what is reported is so.
THEOREM WaitingCorrect == Spec => []WaitingIsExact
<1>1. ServicesInv => WaitingIsExact
  BY DEF ServicesInv, WaitingIsExact, WT!Inv
<1> QED
  BY <1>1, ServicesCorrect, PTL

\* secure-mount: for every fstab and every option, mounts are made in the guest and
\* without devices, on the new root once there is one, and the mtab is true.
THEOREM MountsCorrect == Spec => []MountsAreSafe
<1>1. ServicesInv => MountsAreSafe
  <2>1. MT!Inv => MT!NodevUnlessAsked
    BY MountsNodev
  <2> QED
    BY <2>1 DEF ServicesInv, MountsAreSafe, MT!Inv
<1> QED
  BY <1>1, ServicesCorrect, PTL

\* vunify, vcopy, vclone and Unify_deUnify: for every number of steps of the guests, what
\* is shared is protected and the file of the guest is kept.
THEOREM SharingCorrect == Spec => []SharingIsSafe
<1>1. ServicesInv => SharingIsSafe
  BY DEF ServicesInv, SharingIsSafe, UN!Inv, UN!Typed
<1> QED
  BY <1>1, ServicesCorrect, PTL
=============================================================================
