---------------------------- MODULE HashifyProofs ----------------------------
(***************************************************************************)
(* For every number of guests, contents, inodes, names per hash, changes   *)
(* and kills: what an instance of vhashify that runs alone does to the     *)
(* files of the guests and to the hash directory.                          *)
(***************************************************************************)
EXTENDS Hashify, TLAPS

\* No two instances run at a time.
Alone == \A p, q \in Proc : p = q

Whole(n) == attr[n] = Normal /\ full[n]

Index == 0 .. MaxIdx

\* The instance is behind the calculation of the hash.
Hashed(p) == pc[p] \notin {"off", "stat", "hash"}

FilesInv ==
    \A g \in Guest : file[g] # NoInode =>
        /\ Whole(file[g]) /\ content[file[g]] \in had[g]
        /\ g \notin raced => content[file[g]] = want[g]

\* A file of the hash directory is being made, under this name only, or it is
\* what its name says.
HashInv ==
    \A c \in Contents, i \in Index : hash[c][i] # NoInode =>
        \/ /\ attr[hash[c][i]] = Fresh
           /\ \A d \in Contents, j \in Index : hash[d][j] = hash[c][i] => d = c /\ j = i
        \/ Whole(hash[c][i]) /\ content[hash[c][i]] = c

\* A file without flags has one name among the guests and the hash directory.
Flagged(n) == iunlink[n] \/ /\ \A g \in Guest : file[g] # n
                            /\ \A c \in Contents, i \in Index : hash[c][i] # n

LitterInv ==
    /\ \A n \in litter : Whole(n) /\ \A g \in Guest : file[g] = n => iunlink[n]
    /\ crashes = 0 => litter = {}

\* What lstat found is a whole file nobody writes to, and the hash is of it.
StatInv(p) ==
    /\ pc[p] \notin {"off", "stat"} =>
          /\ st[p] # NoInode /\ Whole(st[p])
          /\ \A g \in Guest \ {guest[p]} : file[g] = st[p] => iunlink[st[p]]
    /\ Hashed(p) =>
          /\ sum[p] \in Contents /\ content[st[p]] = sum[p] /\ sum[p] \in had[guest[p]]
          /\ guest[p] \notin raced => sum[p] = want[guest[p]]

TmpInv(p) ==
    tmp[p] # NoInode =>
        /\ Whole(tmp[p]) /\ content[tmp[p]] \in had[guest[p]] /\ Flagged(tmp[p])
        /\ tmp[p] \in litter => iunlink[tmp[p]]

\* The name in the hash directory, step by step.
StepInv(p) ==
    /\ pc[p] # "off" => guest[p] \in Guest
    /\ pc[p] = "create" => new[p]
    /\ pc[p] = "doit" => new[p] /\ Name(p) # NoInode /\ attr[Name(p)] = Fresh /\ ~full[Name(p)]
    /\ pc[p] \in {"copyopen", "copymem", "copymodes"} => ~Sledge(p)
    /\ pc[p] = "copymem" => fd[p] = [src |-> st[p], dst |-> Name(p)]
    /\ pc[p] \in {"copymem", "copymodes"} =>
          Name(p) # NoInode /\ attr[Name(p)] = Fresh /\ full[Name(p)]
    /\ pc[p] = "copymodes" => content[Name(p)] = sum[p]
    /\ pc[p] \in {"setiattr", "lstat", "rename", "zero", "link"} /\ ~Reversed(p) =>
          Name(p) # NoInode /\ Whole(Name(p))
    /\ pc[p] \in {"setiattr", "lstat", "zero"} /\ Reversed(p) =>
          Name(p) # NoInode /\ attr[Name(p)] = Fresh /\ ~full[Name(p)]
    /\ pc[p] \in {"lstat", "rename", "zero", "link"} =>
          Source(p) # NoInode /\ iunlink[Source(p)]
    /\ pc[p] = "rename" => ~Reversed(p)
    /\ pc[p] = "zero" => Reversed(p)
    /\ pc[p] = "link" /\ Reversed(p) => tmp[p] = NoInode

\* The guest does not interfere: it did not, or it does not run.
Steady(p) == Sledge(p) \/ guest[p] \notin raced

PlaceInv(p) ==
    pc[p] \notin {"off", "stat"} /\ Steady(p) =>
        IF Reversed(p) \/ pc[p] \notin {"link", "untmp"} THEN file[guest[p]] = st[p]
        ELSE IF pc[p] = "link" THEN file[guest[p]] = NoInode /\ tmp[p] = st[p]
        ELSE file[guest[p]] # NoInode

\* The file of guest g is in the backup that an instance made of it.
BackedUp(g) == \E p \in Proc : pc[p] = "link" /\ guest[p] = g /\ ~Reversed(p)

LostInv ==
    \A g \in Guest \ raced :
        \/ file[g] # NoInode \/ want[g] = Gone \/ BackedUp(g)
        \/ \E n \in litter : content[n] = want[g]

ProcInv(p) == StatInv(p) /\ TmpInv(p) /\ StepInv(p) /\ PlaceInv(p)

FsInv == FilesInv /\ HashInv /\ SharedIsProtected /\ LitterInv /\ LostInv

IInv == Alone => TypeOK /\ FsInv /\ \A p \in Proc : ProcInv(p)

-----------------------------------------------------------------------------
(* What the operators of the model do.                                     *)

\* What is assumed of the constants, part by part.
LEMMA Constants == /\ MaxIdx \in Nat /\ MaxCrash \in Nat /\ MaxEvents \in Nat
                   /\ NoInode \notin Inode /\ Fresh # Normal /\ Gone \notin Contents
                   /\ \A o \in Options : o \in SUBSET AllOptions
BY HashifyAssumption DEF NoInode, Fresh, Normal

\* The name of the hash file is one name of the directory, and setting it changes
\* no other one.
LEMMA NameOf ==
    ASSUME TypeOK, NEW p \in Proc, sum[p] \in Contents
    PROVE  /\ idx[p] \in Index /\ Name(p) = hash[sum[p]][idx[p]]
           /\ Name(p) \in Inode \cup {NoInode}
           /\ \A n \in Inode \cup {NoInode} : SetName(p, n) =>
                 /\ hash' \in [Contents -> [Index -> Inode \cup {NoInode}]]
                 /\ hash'[sum[p]][idx[p]] = n
                 /\ \A c \in Contents, i \in Index :
                       c # sum[p] \/ i # idx[p] => hash'[c][i] = hash[c][i]
<1>0. hash[sum[p]] \in [Index -> Inode \cup {NoInode}] /\ idx[p] \in Index
  BY DEF TypeOK, Index
<1>1. idx[p] \in Index /\ Name(p) = hash[sum[p]][idx[p]] /\ Name(p) \in Inode \cup {NoInode}
  BY <1>0 DEF Name
<1>2. ASSUME NEW n \in Inode \cup {NoInode}, SetName(p, n)
      PROVE  /\ hash' \in [Contents -> [Index -> Inode \cup {NoInode}]]
             /\ hash'[sum[p]][idx[p]] = n
             /\ \A c \in Contents, i \in Index :
                   c # sum[p] \/ i # idx[p] => hash'[c][i] = hash[c][i]
  <2>1. hash \in [Contents -> [Index -> Inode \cup {NoInode}]]
    BY DEF TypeOK, Index
  <2>2. hash' = [hash EXCEPT ![sum[p]] = [hash[sum[p]] EXCEPT ![idx[p]] = n]]
    BY <1>2 DEF SetName
  <2>3. hash[sum[p]] \in [Index -> Inode \cup {NoInode}]
    BY <2>1
  <2>4. /\ [hash[sum[p]] EXCEPT ![idx[p]] = n] \in [Index -> Inode \cup {NoInode}]
        /\ [hash[sum[p]] EXCEPT ![idx[p]] = n][idx[p]] = n
        /\ \A i \in Index \ {idx[p]} :
              [hash[sum[p]] EXCEPT ![idx[p]] = n][i] = hash[sum[p]][i]
    BY <1>1, <2>3
  <2> QED
    BY <1>1, <2>1, <2>2, <2>4
<1> QED
  BY <1>1, <1>2

\* A new file is under an inode that no name leads to, and changes no other inode.
LEMMA MakeNew ==
    ASSUME TypeOK, NEW n, NEW c \in Contents \cup {Hole}, NEW a \in {Fresh, Normal},
           NEW f \in BOOLEAN, Make(n, c, a, f)
    PROVE  /\ n \in Inode /\ n # NoInode /\ n \notin litter
           /\ \A g \in Guest : file[g] # n
           /\ \A d \in Contents, i \in Index : hash[d][i] # n
           /\ \A p \in Proc : tmp[p] # n /\ st[p] # n
           /\ content' \in [Inode -> Contents \cup {Hole}] /\ attr' \in [Inode -> {Fresh, Normal}]
           /\ full' \in [Inode -> BOOLEAN] /\ iunlink' \in [Inode -> BOOLEAN]
           /\ content'[n] = c /\ attr'[n] = a /\ full'[n] = f /\ ~iunlink'[n]
           /\ \A m \in Inode \ {n} :
                 /\ content'[m] = content[m] /\ attr'[m] = attr[m] /\ full'[m] = full[m]
                 /\ iunlink'[m] = iunlink[m]
<1>1. n \in Inode /\ n \notin Used
  BY DEF Make
<1>2. /\ n # NoInode /\ n \notin litter
      /\ \A g \in Guest : file[g] # n
      /\ \A d \in Contents, i \in Index : hash[d][i] # n
      /\ \A p \in Proc : tmp[p] # n /\ st[p] # n
  BY <1>1, Constants DEF Used, Index
<1>3. content' \in [Inode -> Contents \cup {Hole}] /\ content'[n] = c
  BY <1>1 DEF Make, TypeOK
<1>4. attr' \in [Inode -> {Fresh, Normal}] /\ attr'[n] = a
  BY <1>1 DEF Make, TypeOK
<1>5. /\ full' \in [Inode -> BOOLEAN] /\ full'[n] = f
      /\ iunlink' \in [Inode -> BOOLEAN] /\ ~iunlink'[n]
  BY <1>1 DEF Make, TypeOK
<1>6. \A m \in Inode \ {n} :
         /\ content'[m] = content[m] /\ attr'[m] = attr[m] /\ full'[m] = full[m]
         /\ iunlink'[m] = iunlink[m]
  BY <1>1 DEF Make, TypeOK
<1> QED
  BY <1>1, <1>2, <1>3, <1>4, <1>5, <1>6

\* A step to another label.
LEMMA GoesTo ==
    ASSUME TypeOK, NEW p \in Proc, NEW l \in Steps, GoTo(p, l)
    PROVE  pc' \in [Proc -> Steps] /\ pc'[p] = l
BY DEF TypeOK, GoTo

\* A step that is done with its file.
LEMMA IsDone ==
    ASSUME TypeOK, NEW p \in Proc, Done(p)
    PROVE  /\ pc' \in [Proc -> Steps] /\ pc'[p] = "off"
           /\ opts' \in [Proc -> SUBSET AllOptions]
           /\ guest' \in [Proc -> Guest \cup {None}]
           /\ st' \in [Proc -> Inode \cup {NoInode}] /\ sum' \in [Proc -> Contents \cup {None}]
           /\ idx' \in [Proc -> Index] /\ new' \in [Proc -> BOOLEAN]
           /\ fd' \in [Proc -> [src : Inode \cup {NoInode}, dst : Inode \cup {NoInode}]]
           /\ StatInv(p)' /\ StepInv(p)' /\ PlaceInv(p)'
<1>1. pc' \in [Proc -> Steps] /\ pc'[p] = "off"
  BY GoesTo DEF Done, Steps
<1>2. opts' \in [Proc -> SUBSET AllOptions] /\ guest' \in [Proc -> Guest \cup {None}]
  BY DEF TypeOK, Done
<1>3. st' \in [Proc -> Inode \cup {NoInode}] /\ sum' \in [Proc -> Contents \cup {None}]
  BY DEF TypeOK, Done
<1>4. idx' \in [Proc -> Index] /\ new' \in [Proc -> BOOLEAN]
  BY Constants DEF TypeOK, Done, Index
<1>5. fd' \in [Proc -> [src : Inode \cup {NoInode}, dst : Inode \cup {NoInode}]]
  BY DEF TypeOK, Done, Closed
<1>6. StatInv(p)' /\ StepInv(p)' /\ PlaceInv(p)'
  BY <1>1 DEF StatInv, StepInv, PlaceInv, Hashed
<1> QED
  BY <1>1, <1>2, <1>3, <1>4, <1>5, <1>6

\* A step that changes neither files nor what guests did.
LEMMA FsKept ==
    ASSUME Alone, FsInv, NEW p \in Proc, UNCHANGED <<fsVars, envVars>>,
           pc[p] = "link" => pc'[p] = "link" /\ guest'[p] = guest[p] /\ Reversed(p)' = Reversed(p)
    PROVE  FsInv'
<1> USE DEF fsVars, envVars
<1>1. FilesInv' /\ HashInv' /\ LitterInv'
  BY DEF FsInv, FilesInv, HashInv, LitterInv, Whole
<1>2. SharedIsProtected'
  BY DEF FsInv, SharedIsProtected
<1>3. LostInv'
  BY DEF FsInv, LostInv, BackedUp, Alone
<1> QED
  BY <1>1, <1>2, <1>3 DEF FsInv

\* Without a backup, the files are under their names or were left by a kill.
LEMMA Unmoved ==
    ASSUME Alone, FsInv, NEW p \in Proc, pc[p] # "link"
    PROVE  \A g \in Guest \ raced :
               file[g] # NoInode \/ want[g] = Gone \/ \E n \in litter : content[n] = want[g]
BY DEF FsInv, LostInv, BackedUp, Alone

-----------------------------------------------------------------------------
(* checkDirEntry                                                           *)

\* An instance comes to its next file.
LEMMA Visit ==
    ASSUME TypeOK, Alone, FsInv, NEW p \in Proc, ProcInv(p),
           NEW g \in Guest, NEW o \in Options, visit(p, g, o)
    PROVE  TypeOK' /\ FsInv' /\ ProcInv(p)'
<1> USE DEF fsVars, envVars
<1>1. pc' \in [Proc -> Steps] /\ pc'[p] = "stat" /\ pc[p] = "off"
  BY GoesTo DEF visit, Steps
<1>2. opts' \in [Proc -> SUBSET AllOptions] /\ guest' \in [Proc -> Guest \cup {None}]
  BY Constants DEF visit, TypeOK
<1>3. guest'[p] = g
  BY DEF visit, TypeOK
<1>4. \A q \in Proc : q = p
  BY DEF Alone
<1>5. TypeOK'
  BY <1>1, <1>2, <1>4 DEF visit, TypeOK
<1>6. FsInv'
  BY <1>1, FsKept DEF visit
<1>7. tmp'[p] = NoInode
  BY <1>1 DEF visit, TypeOK
<1>8. ProcInv(p)'
  BY <1>1, <1>3, <1>7 DEF ProcInv, StatInv, TmpInv, StepInv, PlaceInv, Hashed
<1> QED
  BY <1>5, <1>6, <1>8

\* checkFstat: the file is still what the walk saw, or is left alone.
LEMMA CheckFstat ==
    ASSUME TypeOK, Alone, FsInv, NEW p \in Proc, ProcInv(p), checkFstat(p)
    PROVE  TypeOK' /\ FsInv' /\ ProcInv(p)'
<1> USE DEF fsVars, envVars
<1>1. pc[p] = "stat" /\ UNCHANGED <<fsVars, envVars>> /\ guest[p] \in Guest /\ tmp[p] = NoInode
  BY DEF checkFstat, ProcInv, StepInv, TypeOK
<1>2. FsInv'
  BY <1>1, FsKept
<1>3. TmpInv(p)'
  BY <1>1 DEF TmpInv
<1>4. \A q \in Proc : q = p
  BY DEF Alone
<1>5. CASE Done(p)
  <2>1. TypeOK'
    BY <1>1, <1>4, <1>5, IsDone DEF TypeOK, Index
  <2> QED
    BY <1>2, <1>3, <1>5, <2>1, IsDone DEF ProcInv
<1>6. CASE ~Done(p)
  <2>1. /\ file[guest[p]] # NoInode /\ st' = [st EXCEPT ![p] = file[guest[p]]]
        /\ GoTo(p, "hash") /\ UNCHANGED <<opts, guest, sum, idx, new, fd>>
    BY <1>6 DEF checkFstat
  <2>2. pc' \in [Proc -> Steps] /\ pc'[p] = "hash"
    BY <2>1, GoesTo DEF Steps
  <2>3. st' \in [Proc -> Inode \cup {NoInode}] /\ st'[p] = file[guest[p]]
    BY <1>1, <2>1 DEF TypeOK
  <2>4. TypeOK'
    BY <1>1, <1>4, <2>1, <2>2, <2>3 DEF TypeOK
  <2>5. Whole(file[guest[p]])
    BY <1>1, <2>1 DEF FsInv, FilesInv
  <2>6. \A g \in Guest \ {guest[p]} : file[g] = file[guest[p]] => iunlink[file[guest[p]]]
    BY <1>1, <2>1 DEF FsInv, SharedIsProtected
  <2>7. StatInv(p)'
    BY <1>1, <2>1, <2>2, <2>3, <2>5, <2>6 DEF StatInv, Whole, Hashed
  <2>8. StepInv(p)' /\ PlaceInv(p)'
    BY <1>1, <2>1, <2>2, <2>3 DEF StepInv, PlaceInv
  <2> QED
    BY <1>2, <1>3, <2>4, <2>7, <2>8 DEF ProcInv
<1> QED
  BY <1>5, <1>6

\* calculateHashFromFD reads the contents that the file has.
LEMMA CalculateHash ==
    ASSUME TypeOK, Alone, FsInv, NEW p \in Proc, ProcInv(p), calculateHash(p)
    PROVE  TypeOK' /\ FsInv' /\ ProcInv(p)'
<1> USE DEF fsVars, envVars
<1>1. pc[p] = "hash" /\ UNCHANGED <<fsVars, envVars>> /\ guest[p] \in Guest /\ tmp[p] = NoInode
  BY DEF calculateHash, ProcInv, StepInv, TypeOK
<1>2. FsInv'
  BY <1>1, FsKept
<1>3. TmpInv(p)'
  BY <1>1 DEF TmpInv
<1>4. \A q \in Proc : q = p
  BY DEF Alone
<1>5. CASE Done(p)
  <2>1. TypeOK'
    BY <1>1, <1>4, <1>5, IsDone DEF TypeOK, Index
  <2> QED
    BY <1>2, <1>3, <1>5, <2>1, IsDone DEF ProcInv
<1>6. CASE ~Done(p)
  <2>1. /\ file[guest[p]] = st[p] /\ sum' = [sum EXCEPT ![p] = content[st[p]]]
        /\ GoTo(p, "resolve") /\ UNCHANGED <<opts, guest, st, idx, new, fd>>
    BY <1>6 DEF calculateHash
  <2>2. pc' \in [Proc -> Steps] /\ pc'[p] = "resolve"
    BY <2>1, GoesTo DEF Steps
  <2>3. /\ st[p] # NoInode /\ content[st[p]] \in had[guest[p]]
        /\ guest[p] \notin raced => content[st[p]] = want[guest[p]]
    BY <1>1, <2>1 DEF FsInv, FilesInv, ProcInv, StatInv
  <2>4. content[st[p]] \in Contents
    BY <1>1, <2>3 DEF TypeOK
  <2>5. sum' \in [Proc -> Contents \cup {None}] /\ sum'[p] = content[st[p]]
    BY <1>1, <2>1, <2>4 DEF TypeOK
  <2>6. TypeOK'
    BY <1>1, <1>4, <2>1, <2>2, <2>5 DEF TypeOK
  <2>7. StatInv(p)'
    BY <1>1, <2>1, <2>2, <2>3, <2>4, <2>5 DEF ProcInv, StatInv, Whole
  <2>8. StepInv(p)' /\ PlaceInv(p)'
    BY <1>1, <2>1, <2>2 DEF ProcInv, StepInv, PlaceInv
  <2> QED
    BY <1>2, <1>3, <2>6, <2>7, <2>8 DEF ProcInv
<1> QED
  BY <1>5, <1>6

\* resolveCollisions finds the index of the file, or one that is free.
LEMMA ResolveCollisions ==
    ASSUME TypeOK, Alone, FsInv, NEW p \in Proc, ProcInv(p), resolveCollisions(p)
    PROVE  TypeOK' /\ FsInv' /\ ProcInv(p)'
<1> USE DEF fsVars, envVars
<1>1. pc[p] = "resolve" /\ UNCHANGED <<fsVars, envVars>> /\ guest[p] \in Guest /\ tmp[p] = NoInode
  BY DEF resolveCollisions, ProcInv, StepInv, TypeOK
<1>2. FsInv'
  BY <1>1, FsKept
<1>3. TmpInv(p)'
  BY <1>1 DEF TmpInv
<1>4. \A q \in Proc : q = p
  BY DEF Alone
<1>5. CASE Done(p)
  <2>1. TypeOK'
    BY <1>1, <1>4, <1>5, IsDone DEF TypeOK, Index
  <2> QED
    BY <1>2, <1>3, <1>5, <2>1, IsDone DEF ProcInv
<1>6. CASE GoTo(p, "create") /\ UNCHANGED <<opts, guest, st, sum, idx, fd>>
           /\ new' = [new EXCEPT ![p] = TRUE]
  <2>1. pc' \in [Proc -> Steps] /\ pc'[p] = "create"
    BY <1>6, GoesTo DEF Steps
  <2>2. TypeOK'
    BY <1>1, <1>4, <1>6, <2>1 DEF TypeOK
  <2>3. StatInv(p)' /\ StepInv(p)' /\ PlaceInv(p)'
    <3>1. new'[p]
      BY <1>6 DEF TypeOK
    <3> QED
      BY <1>1, <1>6, <2>1, <3>1 DEF ProcInv, StatInv, StepInv, PlaceInv, Whole, Hashed, Steady,
            Sledge
  <2> QED
    BY <1>2, <1>3, <2>2, <2>3 DEF ProcInv
<1>7. CASE /\ Name(p) \notin {NoInode, st[p]} /\ isUnifyable(st[p], Name(p))
           /\ GoTo(p, "setiattr") /\ UNCHANGED <<opts, guest, st, sum, idx, fd>>
           /\ new' = [new EXCEPT ![p] = FALSE]
  <2>1. pc' \in [Proc -> Steps] /\ pc'[p] = "setiattr" /\ ~new'[p]
    BY <1>7, GoesTo DEF Steps, TypeOK
  <2>2. TypeOK'
    BY <1>1, <1>4, <1>7, <2>1 DEF TypeOK
  <2>3. Name(p)' = Name(p) /\ ~Reversed(p)'
    BY <1>1, <1>7, <2>1 DEF Name, Reversed
  <2>4. Whole(Name(p))
    BY <1>1, <1>7 DEF ProcInv, StatInv, Whole, isUnifyable
  <2>5. StatInv(p)' /\ PlaceInv(p)'
    BY <1>1, <1>7, <2>1 DEF ProcInv, StatInv, PlaceInv, Whole, Hashed, Steady, Sledge
  <2>6. StepInv(p)'
    BY <1>1, <1>7, <2>1, <2>3, <2>4 DEF StepInv, Whole
  <2> QED
    BY <1>2, <1>3, <2>2, <2>5, <2>6 DEF ProcInv
<1>8. CASE /\ idx[p] < MaxIdx /\ idx' = [idx EXCEPT ![p] = @ + 1]
           /\ UNCHANGED <<pc, opts, guest, st, sum, new, fd>>
  <2>1. idx' \in [Proc -> 0 .. MaxIdx]
    BY <1>8, Constants DEF TypeOK
  <2>2. TypeOK'
    BY <1>1, <1>4, <1>8, <2>1 DEF TypeOK
  <2>3. StatInv(p)' /\ StepInv(p)' /\ PlaceInv(p)'
    BY <1>1, <1>8 DEF ProcInv, StatInv, StepInv, PlaceInv, Whole, Hashed, Steady, Sledge
  <2> QED
    BY <1>2, <1>3, <2>2, <2>3 DEF ProcInv
<1> QED
  BY <1>5, <1>6, <1>7, <1>8 DEF resolveCollisions

\* What a step of an instance that makes a new file leaves as it was.
LEMMA FsWithNew ==
    ASSUME TypeOK, Alone, FsInv, NEW p \in Proc, ProcInv(p), sum[p] \in Contents,
           pc[p] # "link", tmp[p] = NoInode, NEW n, NEW f \in BOOLEAN, SetName(p, n),
           Make(n, Hole, Fresh, f), UNCHANGED <<file, tmp, litter, envVars>>
    PROVE  /\ FsInv' /\ TmpInv(p)'
           /\ hash'[sum[p]][idx[p]] = n
<1> USE DEF envVars
<1>1. /\ n \in Inode /\ n # NoInode /\ n \notin litter
      /\ \A g \in Guest : file[g] # n
      /\ \A d \in Contents, i \in Index : hash[d][i] # n
      /\ \A q \in Proc : tmp[q] # n /\ st[q] # n
      /\ attr'[n] = Fresh /\ ~iunlink'[n]
      /\ \A m \in Inode \ {n} :
            /\ content'[m] = content[m] /\ attr'[m] = attr[m] /\ full'[m] = full[m]
            /\ iunlink'[m] = iunlink[m]
  <2>1. Hole \in Contents \cup {Hole} /\ Fresh \in {Fresh, Normal}
    OBVIOUS
  <2>2. CASE f = TRUE
    BY <2>1, <2>2, MakeNew
  <2>3. CASE f = FALSE
    BY <2>1, <2>3, MakeNew
  <2> QED
    BY <2>2, <2>3
<1>2. /\ idx[p] \in Index /\ hash'[sum[p]][idx[p]] = n
      /\ \A c \in Contents, i \in Index : c # sum[p] \/ i # idx[p] => hash'[c][i] = hash[c][i]
  BY <1>1, NameOf
<1>3. FilesInv'
  BY <1>1 DEF FsInv, FilesInv, Whole, TypeOK
<1>4. HashInv'
  <2> SUFFICES ASSUME NEW c \in Contents, NEW i \in Index, hash'[c][i] # NoInode
               PROVE  \/ /\ attr'[hash'[c][i]] = Fresh
                         /\ \A d \in Contents, j \in Index : hash'[d][j] = hash'[c][i] =>
                               d = c /\ j = i
                      \/ Whole(hash[c][i])' /\ content'[hash'[c][i]] = c
    BY DEF HashInv
  <2>1. CASE c = sum[p] /\ i = idx[p]
    BY <1>1, <1>2, <2>1
  <2>2. CASE c # sum[p] \/ i # idx[p]
    <3>1. hash'[c][i] = hash[c][i] /\ hash[c][i] \in Inode \ {n}
      <4>1. hash[c] \in [Index -> Inode \cup {NoInode}]
        BY DEF TypeOK, Index
      <4> QED
        BY <1>1, <1>2, <2>2, <4>1
    <3>2. \/ /\ attr[hash[c][i]] = Fresh
             /\ \A d \in Contents, j \in Index : hash[d][j] = hash[c][i] => d = c /\ j = i
          \/ Whole(hash[c][i]) /\ content[hash[c][i]] = c
      BY <3>1, Constants DEF FsInv, HashInv
    <3> QED
      BY <1>1, <1>2, <3>1, <3>2 DEF Whole
  <2> QED
    BY <2>1, <2>2
<1>5. SharedIsProtected'
  <2>1. \A c \in Contents, i \in Index, g \in Guest :
           hash'[c][i] = file[g] => hash[c][i] = file[g]
    BY <1>1, <1>2
  <2>2. \A g \in Guest : file[g] # NoInode => file[g] \in Inode \ {n}
    BY <1>1 DEF TypeOK
  <2>3. SharedIsProtected
    BY DEF FsInv
  <2> QED
    BY <1>1, <2>1, <2>2, <2>3 DEF SharedIsProtected, Index
<1>6. LitterInv'
  <2>1. litter \subseteq Inode \ {n} /\ LitterInv
    BY <1>1 DEF FsInv, TypeOK
  <2> QED
    BY <1>1, <2>1 DEF LitterInv, Whole
<1>7. LostInv'
  <2>1. litter \subseteq Inode \ {n}
    BY <1>1 DEF TypeOK
  <2>2. \A g \in Guest \ raced :
           file[g] # NoInode \/ want[g] = Gone \/ \E m \in litter : content[m] = want[g]
    BY Unmoved
  <2> QED
    BY <1>1, <2>1, <2>2 DEF LostInv
<1>8. TmpInv(p)'
  BY DEF TmpInv
<1> QED
  BY <1>1, <1>2, <1>3, <1>4, <1>5, <1>6, <1>7, <1>8 DEF FsInv

\* The instance is still at its file, which is as it was.
LEMMA StatKept ==
    ASSUME NEW p \in Proc, StatInv(p), Hashed(p), UNCHANGED <<st, guest, sum, want, had, raced>>,
           \A g \in Guest \ {guest[p]} : file'[g] = file[g],
           Whole(st[p])', content'[st[p]] = content[st[p]], iunlink[st[p]] => iunlink'[st[p]]
    PROVE  StatInv(p)'
<1>1. pc[p] \notin {"off", "stat"}
  BY DEF Hashed
<1>2. /\ st[p] # NoInode
      /\ \A g \in Guest \ {guest[p]} : file[g] = st[p] => iunlink[st[p]]
      /\ sum[p] \in Contents /\ content[st[p]] = sum[p] /\ sum[p] \in had[guest[p]]
      /\ guest[p] \notin raced => sum[p] = want[guest[p]]
  BY <1>1 DEF StatInv
<1>3. st'[p] = st[p] /\ guest'[p] = guest[p] /\ sum'[p] = sum[p]
  OBVIOUS
<1>4. /\ st'[p] # NoInode /\ content'[st'[p]] = sum'[p]
      /\ \A g \in Guest \ {guest'[p]} : file'[g] = st'[p] => iunlink'[st'[p]]
  BY <1>2, <1>3
<1> QED
  BY <1>2, <1>3, <1>4 DEF StatInv, Whole

\* Nor does its place change by a step that moves no file.
LEMMA PlaceKept ==
    ASSUME NEW p \in Proc, PlaceInv(p), pc[p] \notin {"off", "stat", "link", "untmp"},
           pc'[p] \notin {"link", "untmp"}, UNCHANGED <<st, guest, opts, raced>>,
           file'[guest[p]] = file[guest[p]]
    PROVE  PlaceInv(p)'
BY DEF PlaceInv, Steady, Sledge

\* An empty file takes the free name of the hash, unless another took it.
LEMMA CreateHashFile ==
    ASSUME TypeOK, Alone, FsInv, NEW p \in Proc, ProcInv(p), createHashFile(p)
    PROVE  TypeOK' /\ FsInv' /\ ProcInv(p)'
<1>1. /\ pc[p] = "create" /\ UNCHANGED envVars /\ guest[p] \in Guest /\ tmp[p] = NoInode
      /\ sum[p] \in Contents
  BY DEF createHashFile, ProcInv, StepInv, StatInv, Hashed, TypeOK
<1>4. \A q \in Proc : q = p
  BY DEF Alone
<1>5. CASE Name(p) # NoInode
  <2>1. Done(p) /\ UNCHANGED fsVars
    BY <1>5 DEF createHashFile
  <2>2. TypeOK'
    BY <1>1, <1>4, <2>1, IsDone DEF TypeOK, Index, fsVars, envVars
  <2>3. FsInv' /\ TmpInv(p)'
    BY <1>1, <2>1, FsKept DEF TmpInv, fsVars
  <2> QED
    BY <2>1, <2>2, <2>3, IsDone DEF ProcInv
<1>6. CASE Name(p) = NoInode
  <2> DEFINE n == FreeInode
  <2>1. /\ SetName(p, n) /\ Make(n, Hole, Fresh, FALSE) /\ GoTo(p, "doit")
        /\ UNCHANGED <<file, tmp, litter, opts, guest, st, sum, idx, new, fd>>
    BY <1>6 DEF createHashFile
  <2> HIDE DEF n
  <2>2. pc' \in [Proc -> Steps] /\ pc'[p] = "doit"
    BY <2>1, GoesTo DEF Steps
  <2>3. /\ n \in Inode /\ n # NoInode /\ st[p] # n /\ attr'[n] = Fresh /\ ~full'[n]
        /\ content' \in [Inode -> Contents \cup {Hole}] /\ attr' \in [Inode -> {Fresh, Normal}]
        /\ full' \in [Inode -> BOOLEAN] /\ iunlink' \in [Inode -> BOOLEAN]
        /\ \A m \in Inode \ {n} :
              /\ content'[m] = content[m] /\ attr'[m] = attr[m] /\ full'[m] = full[m]
              /\ iunlink'[m] = iunlink[m]
    BY <2>1, MakeNew
  <2>4. /\ hash' \in [Contents -> [Index -> Inode \cup {NoInode}]]
        /\ hash'[sum[p]][idx[p]] = n
    BY <1>1, <2>1, <2>3, NameOf
  <2>5. TypeOK'
    BY <1>1, <1>4, <2>1, <2>2, <2>3, <2>4 DEF TypeOK, Index, envVars
  <2>6. FsInv' /\ TmpInv(p)'
    BY <1>1, <2>1, FsWithNew
  <2>7. st[p] \in Inode \ {n} /\ Whole(st[p])
    BY <1>1, <2>3 DEF ProcInv, StatInv, TypeOK
  <2>8. StatInv(p)'
    BY <1>1, <2>1, <2>3, <2>7, StatKept DEF ProcInv, Hashed, Whole, envVars
  <2>9. PlaceInv(p)'
    BY <1>1, <2>1, <2>2, PlaceKept DEF ProcInv, envVars
  <2>10. StepInv(p)'
    <3>1. new[p] /\ Name(p)' = n
      BY <1>1, <2>1, <2>4 DEF ProcInv, StepInv, Name
    <3> QED
      BY <1>1, <2>1, <2>2, <2>3, <3>1 DEF StepInv
  <2> QED
    BY <2>5, <2>6, <2>8, <2>9, <2>10 DEF ProcInv
<1> QED
  BY <1>5, <1>6

\* A name of the hash directory is removed.
LEMMA FsNameGone ==
    ASSUME TypeOK, Alone, FsInv, NEW p \in Proc, sum[p] \in Contents, pc[p] # "link",
           SetName(p, NoInode),
           UNCHANGED <<file, litter, content, attr, full, iunlink, envVars>>
    PROVE  FsInv' /\ hash' \in [Contents -> [Index -> Inode \cup {NoInode}]]
           /\ hash'[sum[p]][idx[p]] = NoInode
<1> USE DEF envVars
<1>1. /\ idx[p] \in Index /\ hash'[sum[p]][idx[p]] = NoInode
      /\ hash' \in [Contents -> [Index -> Inode \cup {NoInode}]]
      /\ \A c \in Contents, i \in Index : c # sum[p] \/ i # idx[p] => hash'[c][i] = hash[c][i]
  BY NameOf
<1>2. \A c \in Contents, i \in Index : hash'[c][i] # NoInode => hash'[c][i] = hash[c][i]
  BY <1>1
<1>3. FilesInv' /\ LitterInv'
  BY DEF FsInv, FilesInv, LitterInv, Whole
<1>4. HashInv'
  BY <1>2 DEF FsInv, HashInv, Whole
<1>5. SharedIsProtected'
  BY <1>2 DEF FsInv, SharedIsProtected, Index
<1>6. LostInv'
  BY Unmoved DEF LostInv
<1> QED
  BY <1>1, <1>3, <1>4, <1>5, <1>6 DEF FsInv

\* doit: the empty file is unlinked before a copy, or linked over from the guest's own file.
LEMMA Doit ==
    ASSUME TypeOK, Alone, FsInv, NEW p \in Proc, ProcInv(p), doit(p)
    PROVE  TypeOK' /\ FsInv' /\ ProcInv(p)'
<1>1. /\ pc[p] = "doit" /\ UNCHANGED envVars /\ guest[p] \in Guest /\ tmp[p] = NoInode
      /\ sum[p] \in Contents /\ Hashed(p) /\ Whole(st[p])
      /\ UNCHANGED <<file, tmp, litter, content, attr, full, iunlink, opts, guest, st,
                     sum, idx, new, fd>>
      /\ new[p] /\ Name(p) # NoInode /\ attr[Name(p)] = Fresh /\ ~full[Name(p)]
  BY DEF doit, ProcInv, StepInv, StatInv, Hashed, TypeOK
<1>2. \A q \in Proc : q = p
  BY DEF Alone
<1>3. TmpInv(p)'
  BY <1>1 DEF TmpInv
<1>4. StatInv(p)'
  BY <1>1, StatKept DEF ProcInv, Whole, envVars
<1>5. CASE Sledge(p)
  <2>1. GoTo(p, "setiattr") /\ UNCHANGED hash
    BY <1>5 DEF doit
  <2>2. pc' \in [Proc -> Steps] /\ pc'[p] = "setiattr"
    BY <2>1, GoesTo DEF Steps
  <2>3. TypeOK'
    BY <1>1, <1>2, <2>1, <2>2 DEF TypeOK, envVars
  <2>4. FsInv'
    BY <1>1, <2>1, FsKept DEF fsVars
  <2>5. PlaceInv(p)'
    BY <1>1, <2>2, PlaceKept DEF ProcInv, envVars
  <2>6. Name(p)' = Name(p) /\ Reversed(p)'
    BY <1>1, <1>5, <2>1 DEF Name, Reversed, Sledge
  <2>7. StepInv(p)'
    BY <1>1, <2>2, <2>6 DEF StepInv
  <2> QED
    BY <1>3, <1>4, <2>3, <2>4, <2>5, <2>7 DEF ProcInv
<1>6. CASE ~Sledge(p)
  <2>1. GoTo(p, "copyopen") /\ SetName(p, NoInode)
    BY <1>6 DEF doit
  <2>2. pc' \in [Proc -> Steps] /\ pc'[p] = "copyopen"
    BY <2>1, GoesTo DEF Steps
  <2>3. FsInv' /\ hash' \in [Contents -> [Index -> Inode \cup {NoInode}]]
    BY <1>1, <2>1, FsNameGone
  <2>4. TypeOK'
    BY <1>1, <1>2, <2>1, <2>2, <2>3 DEF TypeOK, envVars, Index
  <2>5. PlaceInv(p)'
    BY <1>1, <2>2, PlaceKept DEF ProcInv, envVars
  <2>6. StepInv(p)'
    BY <1>1, <1>6, <2>2 DEF StepInv, Sledge
  <2> QED
    BY <1>3, <1>4, <2>3, <2>4, <2>5, <2>6 DEF ProcInv
<1> QED
  BY <1>5, <1>6

\* copyReg opens both files and verifies the source.
LEMMA CopyOpen ==
    ASSUME TypeOK, Alone, FsInv, NEW p \in Proc, ProcInv(p), copyOpen(p)
    PROVE  TypeOK' /\ FsInv' /\ ProcInv(p)'
<1>1. /\ pc[p] = "copyopen" /\ UNCHANGED envVars /\ guest[p] \in Guest /\ tmp[p] = NoInode
      /\ sum[p] \in Contents /\ Hashed(p) /\ Whole(st[p]) /\ st[p] \in Inode
      /\ UNCHANGED <<opts, guest, st, sum, idx, new, envVars>> /\ ~Sledge(p)
  BY DEF copyOpen, ProcInv, StepInv, StatInv, Hashed, TypeOK
<1>2. \A q \in Proc : q = p
  BY DEF Alone
<1>3. CASE GoTo(p, "failed") /\ UNCHANGED <<fsVars, fd>>
  <2>1. pc' \in [Proc -> Steps] /\ pc'[p] = "failed"
    BY <1>3, GoesTo DEF Steps
  <2>2. TypeOK'
    BY <1>1, <1>2, <1>3, <2>1 DEF TypeOK, envVars, fsVars
  <2>3. FsInv' /\ TmpInv(p)'
    BY <1>1, <1>3, FsKept DEF fsVars, TmpInv
  <2>4. StatInv(p)' /\ PlaceInv(p)'
    BY <1>1, <1>3, <2>1, StatKept, PlaceKept DEF ProcInv, Whole, envVars, fsVars
  <2>5. StepInv(p)'
    BY <1>1, <2>1 DEF StepInv
  <2> QED
    BY <2>2, <2>3, <2>4, <2>5 DEF ProcInv
<1>4. CASE ~(file[guest[p]] = NoInode \/ Name(p) # NoInode)
  <2> DEFINE n == FreeInode
  <2>1. /\ SetName(p, n) /\ Make(n, Hole, Fresh, TRUE) /\ UNCHANGED <<file, tmp, litter>>
        /\ \/ GoTo(p, "copymem") /\ fd' = [fd EXCEPT ![p] = [src |-> st[p], dst |-> n]]
           \/ GoTo(p, "failed") /\ UNCHANGED fd
    BY <1>4 DEF copyOpen
  <2> HIDE DEF n
  <2>2. pc' \in [Proc -> Steps] /\ pc'[p] \in {"copymem", "failed"}
    BY <2>1, GoesTo DEF Steps
  <2>3. /\ n \in Inode /\ n # NoInode /\ st[p] # n /\ attr'[n] = Fresh /\ full'[n] = TRUE
        /\ content' \in [Inode -> Contents \cup {Hole}] /\ attr' \in [Inode -> {Fresh, Normal}]
        /\ full' \in [Inode -> BOOLEAN] /\ iunlink' \in [Inode -> BOOLEAN]
        /\ \A m \in Inode \ {n} :
              /\ content'[m] = content[m] /\ attr'[m] = attr[m] /\ full'[m] = full[m]
              /\ iunlink'[m] = iunlink[m]
    BY <2>1, MakeNew
  <2>4. /\ hash' \in [Contents -> [Index -> Inode \cup {NoInode}]]
        /\ hash'[sum[p]][idx[p]] = n
    BY <1>1, <2>1, <2>3, NameOf
  <2>5. /\ fd' \in [Proc -> [src : Inode \cup {NoInode}, dst : Inode \cup {NoInode}]]
        /\ pc'[p] = "copymem" => fd'[p] = [src |-> st[p], dst |-> n]
    <3>1. [src |-> st[p], dst |-> n] \in [src : Inode \cup {NoInode}, dst : Inode \cup {NoInode}]
      BY <1>1, <2>3
    <3>2. fd \in [Proc -> [src : Inode \cup {NoInode}, dst : Inode \cup {NoInode}]]
      BY DEF TypeOK
    <3>3. CASE GoTo(p, "copymem") /\ fd' = [fd EXCEPT ![p] = [src |-> st[p], dst |-> n]]
      BY <3>1, <3>2, <3>3
    <3>4. CASE GoTo(p, "failed") /\ UNCHANGED fd
      <4>1. pc'[p] = "failed"
        BY <3>4, GoesTo DEF Steps
      <4> QED
        BY <3>2, <3>4, <4>1
    <3> QED
      BY <2>1, <3>3, <3>4
  <2>6. TypeOK'
    BY <1>1, <1>2, <2>1, <2>2, <2>3, <2>4, <2>5 DEF TypeOK, Index, envVars
  <2>7. FsInv' /\ TmpInv(p)'
    BY <1>1, <2>1, FsWithNew
  <2>8. st[p] \in Inode \ {n} /\ Whole(st[p])
    BY <1>1, <2>3
  <2>9. StatInv(p)'
    BY <1>1, <2>1, <2>3, <2>8, StatKept DEF ProcInv, Whole, envVars
  <2>10. PlaceInv(p)'
    BY <1>1, <2>1, <2>2, PlaceKept DEF ProcInv, envVars
  <2>11. StepInv(p)'
    <3>1. Name(p)' = n
      BY <1>1, <2>4 DEF Name
    <3>2. st'[p] = st[p] /\ ~Sledge(p)'
      BY <1>1 DEF Sledge
    <3> QED
      BY <1>1, <2>2, <2>3, <2>5, <3>1, <3>2 DEF StepInv
  <2> QED
    BY <2>6, <2>7, <2>9, <2>10, <2>11 DEF ProcInv
<1> QED
  BY <1>3, <1>4 DEF copyOpen

\* The file that is being made changes, and no other one.
LEMMA FsWithCopy ==
    ASSUME TypeOK, Alone, FsInv, NEW p \in Proc, sum[p] \in Contents, pc[p] # "link",
           Name(p) # NoInode, attr[Name(p)] = Fresh, full[Name(p)],
           UNCHANGED <<file, hash, litter, full, iunlink, envVars>>,
           \A m \in Inode \ {Name(p)} : content'[m] = content[m] /\ attr'[m] = attr[m],
           attr'[Name(p)] = Fresh \/ (attr'[Name(p)] = Normal /\ content'[Name(p)] = sum[p])
    PROVE  FsInv'
<1> USE DEF envVars
<1>1. /\ idx[p] \in Index /\ Name(p) = hash[sum[p]][idx[p]] /\ Name(p) \in Inode
      /\ \A c \in Contents, i \in Index :
            hash[c][i] = Name(p) => c = sum[p] /\ i = idx[p]
  <2>1. idx[p] \in Index /\ Name(p) = hash[sum[p]][idx[p]] /\ Name(p) \in Inode
    BY NameOf
  <2> QED
    BY <2>1 DEF FsInv, HashInv, Whole, Fresh, Normal
<1>2. \A m \in Inode : Whole(m) => m # Name(p) /\ Whole(m)' /\ content'[m] = content[m]
  BY DEF Whole, Fresh, Normal
<1>3. FilesInv'
  BY <1>2 DEF FsInv, FilesInv, TypeOK
<1>4. HashInv'
  <2> SUFFICES ASSUME NEW c \in Contents, NEW i \in Index, hash[c][i] # NoInode
               PROVE  \/ /\ attr'[hash[c][i]] = Fresh
                         /\ \A d \in Contents, j \in Index : hash[d][j] = hash[c][i] =>
                               d = c /\ j = i
                      \/ Whole(hash[c][i])' /\ content'[hash[c][i]] = c
    BY DEF HashInv, Whole
  <2>1. hash[c][i] \in Inode
    <3>1. hash[c] \in [Index -> Inode \cup {NoInode}]
      BY DEF TypeOK, Index
    <3> QED
      BY <3>1
  <2>2. CASE hash[c][i] = Name(p)
    BY <1>1, <2>2 DEF Whole
  <2>3. CASE hash[c][i] # Name(p)
    BY <1>2, <2>1, <2>3 DEF FsInv, HashInv
  <2> QED
    BY <2>2, <2>3
<1>5. SharedIsProtected'
  BY DEF FsInv, SharedIsProtected
<1>6. LitterInv'
  <2>1. litter \subseteq Inode
    BY DEF TypeOK
  <2> QED
    BY <1>2, <2>1 DEF FsInv, LitterInv
<1>7. LostInv'
  <2>1. \A n \in litter : content'[n] = content[n]
    BY <1>2 DEF FsInv, LitterInv, TypeOK
  <2> QED
    BY <2>1, Unmoved DEF LostInv
<1> QED
  BY <1>3, <1>4, <1>5, <1>6, <1>7 DEF FsInv

\* The contents are copied, or what there is of it is removed.
LEMMA CopyMem ==
    ASSUME TypeOK, Alone, FsInv, NEW p \in Proc, ProcInv(p), copyMem(p)
    PROVE  TypeOK' /\ FsInv' /\ ProcInv(p)'
<1>1. /\ pc[p] = "copymem" /\ UNCHANGED envVars /\ guest[p] \in Guest /\ tmp[p] = NoInode
      /\ sum[p] \in Contents /\ Hashed(p) /\ Whole(st[p]) /\ st[p] \in Inode
      /\ content[st[p]] = sum[p] /\ ~Sledge(p)
      /\ UNCHANGED <<file, hash, tmp, litter, attr, full, iunlink, opts, guest, st, sum,
                     idx, new, envVars>>
      /\ fd[p] = [src |-> st[p], dst |-> Name(p)]
      /\ Name(p) # NoInode /\ attr[Name(p)] = Fresh /\ full[Name(p)]
  BY DEF copyMem, ProcInv, StepInv, StatInv, Hashed, TypeOK
<1>2. \A q \in Proc : q = p
  BY DEF Alone
<1>3. Name(p) \in Inode /\ st[p] # Name(p)
  BY <1>1, NameOf DEF Whole, Fresh, Normal
<1>4. /\ pc' \in [Proc -> Steps] /\ pc'[p] \in {"copymodes", "failed"}
      /\ content' = [content EXCEPT ![Name(p)] = sum[p]]
            \/ (pc'[p] = "failed" /\ content' = content)
  <2>1. CASE content' = [content EXCEPT ![fd[p].dst] = content[fd[p].src]] /\ GoTo(p, "copymodes")
    <3>1. fd[p].src = st[p] /\ fd[p].dst = Name(p)
      BY <1>1
    <3>2. content' = [content EXCEPT ![Name(p)] = sum[p]]
      BY <1>1, <2>1, <3>1
    <3> QED
      BY <2>1, <3>2, GoesTo DEF Steps
  <2>2. CASE GoTo(p, "failed") /\ UNCHANGED content
    BY <2>2, GoesTo DEF Steps
  <2> QED
    BY <2>1, <2>2 DEF copyMem
<1>5. /\ content' \in [Inode -> Contents \cup {Hole}]
      /\ \A m \in Inode \ {Name(p)} : content'[m] = content[m]
      /\ pc'[p] = "copymodes" => content'[Name(p)] = sum[p]
  BY <1>1, <1>3, <1>4 DEF TypeOK
<1>6. fd' \in [Proc -> [src : Inode \cup {NoInode}, dst : Inode \cup {NoInode}]]
  BY DEF copyMem, TypeOK, Closed
<1>7. TypeOK'
  BY <1>1, <1>2, <1>4, <1>5, <1>6 DEF TypeOK, envVars
<1>8. FsInv' /\ TmpInv(p)'
  BY <1>1, <1>5, FsWithCopy DEF TmpInv
<1>9. StatInv(p)' /\ PlaceInv(p)'
  BY <1>1, <1>3, <1>4, <1>5, StatKept, PlaceKept DEF ProcInv, Whole, envVars
<1>10. StepInv(p)'
  <2>1. Name(p)' = Name(p) /\ ~Sledge(p)'
    BY <1>1 DEF Name, Sledge
  <2> QED
    BY <1>1, <1>4, <1>5, <2>1 DEF StepInv
<1> QED
  BY <1>7, <1>8, <1>9, <1>10 DEF ProcInv

\* setModes and Unify_setTime, by name.
LEMMA CopyModes ==
    ASSUME TypeOK, Alone, FsInv, NEW p \in Proc, ProcInv(p), copyModes(p)
    PROVE  TypeOK' /\ FsInv' /\ ProcInv(p)'
<1>1. /\ pc[p] = "copymodes" /\ UNCHANGED envVars /\ guest[p] \in Guest /\ tmp[p] = NoInode
      /\ sum[p] \in Contents /\ Hashed(p) /\ Whole(st[p]) /\ st[p] \in Inode /\ ~Sledge(p)
      /\ UNCHANGED <<file, hash, tmp, litter, content, full, iunlink, opts, guest, st, sum,
                     idx, new, fd>>
      /\ Name(p) # NoInode /\ attr[Name(p)] = Fresh /\ full[Name(p)] /\ content[Name(p)] = sum[p]
  BY DEF copyModes, ProcInv, StepInv, StatInv, Hashed, TypeOK
<1>2. \A q \in Proc : q = p
  BY DEF Alone
<1>3. Name(p) \in Inode /\ st[p] # Name(p)
  BY <1>1, NameOf DEF Whole, Fresh, Normal
<1>4. GoTo(p, "setiattr") /\ attr' = [attr EXCEPT ![Name(p)] = Normal]
  BY <1>1 DEF copyModes
<1>5. pc' \in [Proc -> Steps] /\ pc'[p] = "setiattr"
  BY <1>4, GoesTo DEF Steps
<1>6. /\ attr' \in [Inode -> {Fresh, Normal}] /\ attr'[Name(p)] = Normal
      /\ \A m \in Inode \ {Name(p)} : attr'[m] = attr[m]
  BY <1>3, <1>4 DEF TypeOK
<1>7. TypeOK'
  BY <1>1, <1>2, <1>5, <1>6 DEF TypeOK, envVars
<1>8. FsInv' /\ TmpInv(p)'
  BY <1>1, <1>6, FsWithCopy DEF TmpInv
<1>9. StatInv(p)' /\ PlaceInv(p)'
  BY <1>1, <1>3, <1>5, <1>6, StatKept, PlaceKept DEF ProcInv, Whole, envVars
<1>10. StepInv(p)'
  <2>1. Name(p)' = Name(p) /\ ~Reversed(p)'
    BY <1>1 DEF Name, Sledge, Reversed
  <2> QED
    BY <1>1, <1>5, <1>6, <2>1 DEF StepInv, Whole
<1> QED
  BY <1>7, <1>8, <1>9, <1>10 DEF ProcInv

-----------------------------------------------------------------------------
(* Unify_unify                                                             *)

\* Before the files are moved.
LEMMA UnifySetIattr ==
    ASSUME TypeOK, Alone, FsInv, NEW p \in Proc, ProcInv(p), unifySetIattr(p)
    PROVE  TypeOK' /\ FsInv' /\ ProcInv(p)'
<1>1. /\ pc[p] = "setiattr" /\ UNCHANGED envVars /\ guest[p] \in Guest /\ tmp[p] = NoInode
      /\ sum[p] \in Contents /\ Hashed(p) /\ Whole(st[p]) /\ st[p] \in Inode
      /\ UNCHANGED <<file, hash, tmp, litter, content, attr, full, opts, guest, st, sum,
                     idx, new, fd>>
  BY DEF unifySetIattr, ProcInv, StepInv, StatInv, Hashed, TypeOK
<1>2. \A q \in Proc : q = p
  BY DEF Alone
<1>3. Source(p) \in Inode /\ Source(p) # NoInode
  <2>1. CASE Reversed(p)
    BY <1>1, <2>1, Constants DEF Source, Reversed, Sledge, Steady, ProcInv, PlaceInv, TypeOK
  <2>2. CASE ~Reversed(p)
    BY <1>1, <2>2, NameOf, Constants DEF Source, ProcInv, StepInv
  <2> QED
    BY <2>1, <2>2
<1>4. GoTo(p, "lstat") /\ iunlink' = [iunlink EXCEPT ![Source(p)] = TRUE]
  BY <1>3 DEF unifySetIattr
<1>5. pc' \in [Proc -> Steps] /\ pc'[p] = "lstat"
  BY <1>4, GoesTo DEF Steps
<1>6. /\ iunlink' \in [Inode -> BOOLEAN] /\ iunlink'[Source(p)]
      /\ \A m \in Inode : iunlink[m] => iunlink'[m]
  BY <1>3, <1>4 DEF TypeOK
<1>7. TypeOK'
  BY <1>1, <1>2, <1>5, <1>6 DEF TypeOK, envVars
<1>8. FsInv' /\ TmpInv(p)'
  <2> USE DEF envVars
  <2>1. FilesInv' /\ HashInv'
    BY <1>1 DEF FsInv, FilesInv, HashInv, Whole
  <2>2. SharedIsProtected'
    BY <1>1, <1>6 DEF FsInv, SharedIsProtected, TypeOK
  <2>3. litter \subseteq Inode
    BY DEF TypeOK
  <2>4. LitterInv'
    BY <1>1, <1>6, <2>3 DEF FsInv, LitterInv, Whole
  <2>5. LostInv'
    BY <1>1, Unmoved DEF LostInv
  <2> QED
    BY <1>1, <2>1, <2>2, <2>4, <2>5 DEF FsInv, TmpInv
<1>9. StatInv(p)' /\ PlaceInv(p)'
  BY <1>1, <1>5, <1>6, StatKept, PlaceKept DEF ProcInv, Whole, envVars
<1>10. StepInv(p)'
  <2>1. Name(p)' = Name(p) /\ Reversed(p)' = Reversed(p) /\ Source(p)' = Source(p)
    BY <1>1 DEF Name, Sledge, Reversed, Source
  <2> QED
    BY <1>1, <1>3, <1>5, <1>6, <2>1 DEF ProcInv, StepInv, Whole
<1> QED
  BY <1>7, <1>8, <1>9, <1>10 DEF ProcInv

\* The file is looked at again before it is replaced.
LEMMA UnifyLstat ==
    ASSUME TypeOK, Alone, FsInv, NEW p \in Proc, ProcInv(p), unifyLstat(p)
    PROVE  TypeOK' /\ FsInv' /\ ProcInv(p)'
<1>1. /\ pc[p] = "lstat" /\ guest[p] \in Guest /\ tmp[p] = NoInode
      /\ sum[p] \in Contents /\ Hashed(p) /\ Whole(st[p]) /\ st[p] \in Inode
      /\ st[p] # NoInode
      /\ UNCHANGED <<fsVars, envVars, opts, guest, st, sum, idx, new, fd>>
  BY DEF unifyLstat, ProcInv, StepInv, StatInv, Hashed, TypeOK
<1>2. \A q \in Proc : q = p
  BY DEF Alone
<1>3. /\ pc' \in [Proc -> Steps] /\ pc'[p] \in {"link", "rename", "zero"}
      /\ pc'[p] = "link" <=> Target(p) = NoInode
      /\ pc'[p] = "rename" => full[Target(p)] \/ ~Reversed(p)
      /\ pc'[p] = "zero" => Reversed(p)
  <2>1. PICK l \in {"link", "rename", "zero"} :
             /\ GoTo(p, l)
             /\ l = "link" <=> Target(p) = NoInode
             /\ l = "rename" => full[Target(p)] \/ ~Reversed(p)
             /\ l = "zero" => Reversed(p)
    BY DEF unifyLstat
  <2>2. pc' \in [Proc -> Steps] /\ pc'[p] = l
    BY <2>1, GoesTo DEF Steps
  <2> QED
    BY <2>1, <2>2
<1>4. TypeOK'
  BY <1>1, <1>2, <1>3 DEF TypeOK, envVars, fsVars
<1>5. FsInv' /\ TmpInv(p)'
  BY <1>1, FsKept DEF TmpInv, fsVars
<1>6. StatInv(p)'
  BY <1>1, StatKept DEF ProcInv, Whole, envVars, fsVars
<1>7. Name(p)' = Name(p) /\ Reversed(p)' = Reversed(p) /\ Source(p)' = Source(p)
  BY <1>1 DEF Name, Sledge, Reversed, Source, fsVars
<1>8. pc'[p] = "rename" => ~Reversed(p)
  BY <1>1, <1>3 DEF Target, ProcInv, StepInv
<1>9. StepInv(p)'
  BY <1>1, <1>3, <1>7, <1>8 DEF ProcInv, StepInv, Whole, fsVars
<1>10. PlaceInv(p)'
  <2>1. ASSUME Steady(p) PROVE file[guest[p]] = st[p]
    BY <1>1, <2>1 DEF ProcInv, PlaceInv
  <2>2. Steady(p) /\ pc'[p] = "link" => Reversed(p)
    BY <1>1, <1>3, <2>1 DEF Target
  <2> QED
    BY <1>1, <1>3, <1>7, <2>1, <2>2 DEF PlaceInv, Steady, Sledge, envVars, fsVars
<1> QED
  BY <1>4, <1>5, <1>6, <1>9, <1>10 DEF ProcInv

\* What there is before a file is moved or linked.
LEMMA Moving ==
    ASSUME TypeOK, NEW p \in Proc, ProcInv(p), pc[p] \in {"rename", "zero", "link"}
    PROVE  /\ guest[p] \in Guest /\ sum[p] \in Contents /\ Hashed(p)
           /\ st[p] \in Inode /\ Whole(st[p]) /\ st[p] # NoInode
           /\ content[st[p]] = sum[p] /\ sum[p] \in had[guest[p]]
           /\ Source(p) \in Inode /\ Source(p) # NoInode /\ iunlink[Source(p)]
           /\ ~Reversed(p) => Source(p) = Name(p) /\ Whole(Name(p))
           /\ Reversed(p) => Source(p) = st[p]
           /\ pc[p] = "rename" => ~Reversed(p)
           /\ pc[p] = "zero" => Reversed(p)
<1>1. pc[p] \notin {"off", "stat", "hash"} /\ Hashed(p)
  BY DEF Hashed
<1>2. /\ guest[p] \in Guest /\ sum[p] \in Contents
      /\ st[p] \in Inode /\ Whole(st[p]) /\ st[p] # NoInode
      /\ content[st[p]] = sum[p] /\ sum[p] \in had[guest[p]]
  BY <1>1 DEF ProcInv, StepInv, StatInv, TypeOK
<1>3. Source(p) # NoInode /\ iunlink[Source(p)]
  BY DEF ProcInv, StepInv
<1>4. /\ pc[p] = "rename" => ~Reversed(p)
      /\ pc[p] = "zero" => Reversed(p)
      /\ ~Reversed(p) => Source(p) = Name(p) /\ Whole(Name(p))
  BY DEF ProcInv, StepInv, Source
<1>5. Reversed(p) => Source(p) = st[p]
  BY <1>1 DEF ProcInv, PlaceInv, Reversed, Steady, Source
<1>6. Source(p) \in Inode
  BY <1>2, <1>3, <1>4, <1>5, NameOf
<1> QED
  BY <1>1, <1>2, <1>3, <1>4, <1>5, <1>6

\* The empty file in the place of the target is unlinked.
LEMMA UnifyZero ==
    ASSUME TypeOK, Alone, FsInv, NEW p \in Proc, ProcInv(p), unifyZero(p)
    PROVE  TypeOK' /\ FsInv' /\ ProcInv(p)'
<1>1. /\ pc[p] = "zero" /\ tmp[p] = NoInode /\ Reversed(p)
      /\ guest[p] \in Guest /\ sum[p] \in Contents /\ Hashed(p)
      /\ st[p] \in Inode /\ Whole(st[p]) /\ st[p] # NoInode
      /\ Source(p) \in Inode /\ Source(p) # NoInode /\ iunlink[Source(p)] /\ Source(p) = st[p]
  BY Moving DEF unifyZero, TypeOK
<1>2. /\ SetName(p, NoInode) /\ GoTo(p, "link")
      /\ UNCHANGED <<file, tmp, litter, content, attr, full, iunlink, opts, guest, st, sum,
                     idx, new, fd, envVars>>
  BY <1>1 DEF unifyZero, SetTarget
<1>3. \A q \in Proc : q = p
  BY DEF Alone
<1>4. pc' \in [Proc -> Steps] /\ pc'[p] = "link"
  BY <1>2, GoesTo DEF Steps
<1>5. FsInv' /\ hash' \in [Contents -> [Index -> Inode \cup {NoInode}]]
  BY <1>1, <1>2, FsNameGone
<1>6. TypeOK'
  BY <1>2, <1>3, <1>4, <1>5 DEF TypeOK, envVars, Index
<1>7. StatInv(p)' /\ TmpInv(p)'
  BY <1>1, <1>2, StatKept DEF ProcInv, Whole, envVars, TmpInv
<1>8. Reversed(p)' /\ Source(p)' = Source(p)
  BY <1>1, <1>2 DEF Reversed, Sledge, Source
<1>9. StepInv(p)'
  BY <1>1, <1>2, <1>4, <1>8 DEF StepInv
<1>10. PlaceInv(p)'
  BY <1>1, <1>2, <1>4, <1>8 DEF ProcInv, PlaceInv, Steady, Sledge, envVars
<1> QED
  BY <1>5, <1>6, <1>7, <1>9, <1>10 DEF ProcInv

\* The backup.
LEMMA UnifyRename ==
    ASSUME TypeOK, Alone, FsInv, NEW p \in Proc, ProcInv(p), unifyRename(p)
    PROVE  TypeOK' /\ FsInv' /\ ProcInv(p)'
<1>1. /\ pc[p] = "rename" /\ tmp[p] = NoInode /\ ~Reversed(p)
      /\ guest[p] \in Guest /\ sum[p] \in Contents /\ Hashed(p)
      /\ st[p] \in Inode /\ Whole(st[p]) /\ st[p] # NoInode
      /\ Source(p) \in Inode /\ Source(p) # NoInode /\ iunlink[Source(p)]
      /\ Source(p) = Name(p) /\ Whole(Name(p)) /\ Target(p) = file[guest[p]]
      /\ UNCHANGED <<litter, content, attr, full, iunlink, opts, guest, st, sum, idx,
                     new, fd, envVars>>
  BY Moving DEF unifyRename, TypeOK, Target
<1>2. \A q \in Proc : q = p
  BY DEF Alone
<1>3. CASE Target(p) = NoInode
  <2>1. GoTo(p, "failed") /\ UNCHANGED fsVars
    BY <1>1, <1>3 DEF unifyRename, fsVars
  <2>2. pc' \in [Proc -> Steps] /\ pc'[p] = "failed"
    BY <2>1, GoesTo DEF Steps
  <2>3. TypeOK'
    BY <1>1, <1>2, <2>1, <2>2 DEF TypeOK, envVars, fsVars
  <2>4. FsInv' /\ TmpInv(p)'
    BY <1>1, <2>1, FsKept DEF fsVars, TmpInv
  <2>5. StatInv(p)' /\ PlaceInv(p)'
    BY <1>1, <2>1, <2>2, StatKept, PlaceKept DEF ProcInv, Whole, envVars, fsVars
  <2>6. StepInv(p)'
    BY <1>1, <2>2 DEF StepInv
  <2> QED
    BY <2>3, <2>4, <2>5, <2>6 DEF ProcInv
<1>4. CASE Target(p) # NoInode
  <2>0. PICK n : n = file[guest[p]]
    OBVIOUS
  <2>1. /\ tmp' = [tmp EXCEPT ![p] = n] /\ GoTo(p, "link") /\ n # NoInode
        /\ file' = [file EXCEPT ![guest[p]] = NoInode] /\ hash' = hash
    BY <1>1, <1>4, <2>0 DEF unifyRename, SetTarget
  <2>2. n \in Inode /\ Whole(n) /\ content[n] \in had[guest[p]]
    BY <1>1, <2>0, <2>1 DEF FsInv, FilesInv, TypeOK
  <2>3. \/ iunlink[n]
        \/ /\ \A g \in Guest \ {guest[p]} : file[g] # n
           /\ \A c \in Contents, i \in Index : hash[c][i] # n
    BY <1>1, <2>0, <2>1 DEF FsInv, SharedIsProtected, Index
  <2>18. n \in litter => iunlink[n]
    BY <1>1, <2>0 DEF FsInv, LitterInv
  <2>4. pc' \in [Proc -> Steps] /\ pc'[p] = "link"
    BY <2>1, GoesTo DEF Steps
  <2>5. tmp' \in [Proc -> Inode \cup {NoInode}] /\ tmp'[p] = n
    BY <2>1, <2>2 DEF TypeOK
  <2>6. /\ file' \in [Guest -> Inode \cup {NoInode}] /\ file'[guest[p]] = NoInode
        /\ \A g \in Guest \ {guest[p]} : file'[g] = file[g]
    BY <1>1, <2>1 DEF TypeOK
  <2>7. TypeOK'
    BY <1>1, <1>2, <2>1, <2>4, <2>5, <2>6 DEF TypeOK, envVars
  <2>8. FilesInv'
    BY <1>1, <2>6 DEF FsInv, FilesInv, Whole, envVars
  <2>9. HashInv'
    BY <1>1, <2>1 DEF FsInv, HashInv, Whole
  <2>10. SharedIsProtected'
    BY <1>1, <2>1, <2>6 DEF FsInv, SharedIsProtected
  <2>11. LitterInv'
    BY <1>1, <2>6, Constants DEF FsInv, LitterInv, Whole, envVars, TypeOK
  <2>12. pc'[p] = "link" /\ guest'[p] = guest[p] /\ ~Reversed(p)'
    BY <1>1, <2>4 DEF Reversed, Sledge
  <2>13. LostInv'
    <3>1. BackedUp(guest[p])'
      BY <2>12 DEF BackedUp
    <3> QED
      BY <1>1, <2>6, <3>1, Unmoved DEF LostInv, envVars
  <2>14. TmpInv(p)'
    <3>1. Flagged(n)'
      BY <1>1, <2>1, <2>2, <2>3, <2>6, Constants DEF Flagged
    <3>2. tmp'[p] = n /\ guest'[p] = guest[p] /\ had' = had
      BY <1>1, <2>5 DEF envVars
    <3> QED
      BY <1>1, <2>2, <2>18, <3>1, <3>2 DEF TmpInv, Whole, Flagged
  <2>15. StatInv(p)'
    BY <1>1, <2>6, StatKept DEF ProcInv, Whole, envVars
  <2>16. StepInv(p)'
    <3>1. Name(p)' = Name(p) /\ Source(p)' = Source(p)
      BY <1>1, <2>1, <2>12 DEF Name, Source
    <3> QED
      BY <1>1, <2>4, <2>12, <3>1 DEF ProcInv, StepInv, Whole
  <2>17. PlaceInv(p)'
    <3>1. Steady(p) => n = st[p]
      BY <1>1, <2>0 DEF ProcInv, PlaceInv
    <3> QED
      BY <1>1, <2>4, <2>5, <2>6, <2>12, <3>1 DEF PlaceInv, Steady, Sledge, envVars
  <2> QED
    BY <2>7, <2>8, <2>9, <2>10, <2>11, <2>13, <2>14, <2>15, <2>16, <2>17 DEF ProcInv, FsInv
<1> QED
  BY <1>3, <1>4

\* The link, with the guest's file as target: n is the hash file, the backup or
\* nothing.
LEMMA FsLinked ==
    ASSUME TypeOK, Alone, FsInv, NEW p \in Proc, ProcInv(p), pc[p] = "link", ~Reversed(p),
           pc'[p] # "link", NEW n \in {Name(p), tmp[p]},
           file' = [file EXCEPT ![guest[p]] = n],
           UNCHANGED <<hash, litter, content, attr, full, iunlink, envVars>>
    PROVE  FsInv' /\ file' \in [Guest -> Inode \cup {NoInode}] /\ file'[guest[p]] = n
           /\ \A g \in Guest \ {guest[p]} : file'[g] = file[g]
<1> USE DEF envVars
<1>1. /\ guest[p] \in Guest /\ sum[p] \in Contents /\ sum[p] \in had[guest[p]]
      /\ Whole(st[p]) /\ content[st[p]] = sum[p] /\ idx[p] \in Index
      /\ Name(p) \in Inode /\ Name(p) # NoInode /\ iunlink[Name(p)] /\ Whole(Name(p))
      /\ Name(p) = hash[sum[p]][idx[p]]
  BY Moving, NameOf
<1>2. content[Name(p)] = sum[p]
  BY <1>1 DEF FsInv, HashInv, Whole, Fresh, Normal
<1>3. /\ n \in Inode \cup {NoInode}
      /\ n # NoInode => /\ Whole(n) /\ content[n] \in had[guest[p]] /\ Flagged(n)
                        /\ guest[p] \notin raced => content[n] = want[guest[p]]
  <2>1. guest[p] \notin raced => tmp[p] = st[p] /\ sum[p] = want[guest[p]]
    BY DEF ProcInv, PlaceInv, Steady, StatInv, Hashed
  <2>2. CASE n = Name(p)
    BY <1>1, <1>2, <2>1, <2>2 DEF Flagged
  <2>3. CASE n = tmp[p]
    BY <1>1, <2>1, <2>3 DEF ProcInv, TmpInv, TypeOK
  <2> QED
    BY <2>2, <2>3
<1>4. /\ file' \in [Guest -> Inode \cup {NoInode}] /\ file'[guest[p]] = n
      /\ \A g \in Guest \ {guest[p]} : file'[g] = file[g]
  BY <1>1, <1>3 DEF TypeOK
<1>5. FilesInv'
  BY <1>3, <1>4 DEF FsInv, FilesInv, Whole
<1>6. HashInv'
  BY DEF FsInv, HashInv, Whole
<1>7. SharedIsProtected'
  <2> SUFFICES ASSUME NEW g \in Guest, file'[g] # NoInode, ~iunlink[file'[g]]
               PROVE  /\ \A h \in Guest \ {g} : file'[h] # file'[g]
                      /\ \A c \in Contents, i \in 0 .. MaxIdx : hash[c][i] # file'[g]
    BY DEF SharedIsProtected
  <2>1. CASE g = guest[p]
    BY <1>3, <1>4, <2>1 DEF Flagged, Index
  <2>2. CASE g # guest[p]
    <3>1. file[g] = file'[g]
      BY <1>4, <2>2
    <3>2. /\ \A h \in Guest \ {g} : file[h] # file[g]
          /\ \A c \in Contents, i \in 0 .. MaxIdx : hash[c][i] # file[g]
      BY <3>1 DEF FsInv, SharedIsProtected
    <3>3. n # file[g]
      BY <1>3, <3>1 DEF Flagged
    <3> QED
      BY <1>4, <3>1, <3>2, <3>3
  <2> QED
    BY <2>1, <2>2
<1>8. LitterInv'
  <2>1. n \in litter => iunlink[n]
    <3>1. CASE n = Name(p)
      BY <1>1, <3>1
    <3>2. CASE n = tmp[p]
      BY <3>2, Constants DEF ProcInv, TmpInv, TypeOK
    <3> QED
      BY <3>1, <3>2
  <2> QED
    BY <1>3, <1>4, <2>1 DEF FsInv, LitterInv, Whole
<1>9. LostInv'
  <2> SUFFICES ASSUME NEW g \in Guest \ raced
               PROVE  \/ file'[g] # NoInode \/ want[g] = Gone
                      \/ \E m \in litter : content[m] = want[g]
    BY DEF LostInv
  <2>1. CASE g = guest[p]
    <3>1. tmp[p] = st[p] /\ st[p] # NoInode
      BY <2>1 DEF ProcInv, PlaceInv, Steady, StatInv
    <3> QED
      BY <1>1, <1>4, <2>1, <3>1
  <2>2. CASE g # guest[p]
    <3>1. ~BackedUp(g)
      BY <2>2 DEF BackedUp, Alone
    <3> QED
      BY <1>4, <2>2, <3>1 DEF FsInv, LostInv
  <2> QED
    BY <2>1, <2>2
<1> QED
  BY <1>4, <1>5, <1>6, <1>7, <1>8, <1>9 DEF FsInv

\* The link the other way round, or its failure.
LEMMA FsLinkedBack ==
    ASSUME TypeOK, Alone, FsInv, NEW p \in Proc, ProcInv(p), pc[p] = "link", Reversed(p),
           NEW n \in {st[p], NoInode}, SetName(p, n),
           UNCHANGED <<file, litter, content, attr, full, iunlink, envVars>>
    PROVE  FsInv' /\ hash' \in [Contents -> [Index -> Inode \cup {NoInode}]]
<1> USE DEF envVars
<1>1. /\ guest[p] \in Guest /\ sum[p] \in Contents /\ st[p] \in Inode /\ Whole(st[p])
      /\ content[st[p]] = sum[p] /\ iunlink[st[p]] /\ idx[p] \in Index
      /\ file[guest[p]] = st[p]
  <2>1. Steady(p) /\ pc[p] \notin {"off", "stat"}
    BY DEF Steady, Reversed
  <2> QED
    BY <2>1, Moving, NameOf DEF ProcInv, PlaceInv
<1>2. /\ hash' \in [Contents -> [Index -> Inode \cup {NoInode}]]
      /\ hash'[sum[p]][idx[p]] = n
      /\ \A c \in Contents, i \in Index :
            c # sum[p] \/ i # idx[p] => hash'[c][i] = hash[c][i]
  BY <1>1, NameOf
<1>3. FilesInv' /\ LitterInv'
  BY DEF FsInv, FilesInv, LitterInv, Whole
<1>4. HashInv'
  <2> SUFFICES ASSUME NEW c \in Contents, NEW i \in Index, hash'[c][i] # NoInode
               PROVE  \/ /\ attr[hash'[c][i]] = Fresh
                         /\ \A d \in Contents, j \in Index : hash'[d][j] = hash'[c][i] =>
                               d = c /\ j = i
                      \/ Whole(hash'[c][i]) /\ content[hash'[c][i]] = c
    BY DEF HashInv, Whole
  <2>1. CASE c = sum[p] /\ i = idx[p]
    BY <1>1, <1>2, <2>1
  <2>2. CASE c # sum[p] \/ i # idx[p]
    <3>1. hash'[c][i] = hash[c][i]
      BY <1>2, <2>2
    <3>2. CASE Whole(hash[c][i]) /\ content[hash[c][i]] = c
      BY <3>1, <3>2
    <3>3. CASE /\ attr[hash[c][i]] = Fresh
               /\ \A d \in Contents, j \in Index : hash[d][j] = hash[c][i] => d = c /\ j = i
      <4>1. n # hash[c][i]
        BY <1>1, <3>1, <3>3 DEF Whole, Fresh, Normal
      <4> QED
        BY <1>2, <3>1, <3>3, <4>1
    <3> QED
      BY <3>1, <3>2, <3>3 DEF FsInv, HashInv
  <2> QED
    BY <2>1, <2>2
<1>5. SharedIsProtected'
  <2> SUFFICES ASSUME NEW g \in Guest, file[g] # NoInode, ~iunlink[file[g]]
               PROVE  /\ \A h \in Guest \ {g} : file[h] # file[g]
                      /\ \A c \in Contents, i \in 0 .. MaxIdx : hash'[c][i] # file[g]
    BY DEF SharedIsProtected
  <2>1. /\ \A h \in Guest \ {g} : file[h] # file[g]
        /\ \A c \in Contents, i \in Index : hash[c][i] # file[g]
    BY DEF FsInv, SharedIsProtected, Index
  <2>2. n # file[g]
    BY <1>1
  <2> QED
    BY <1>2, <2>1, <2>2 DEF Index
<1>6. LostInv'
  <2>1. \A g \in Guest : ~BackedUp(g)
    BY DEF BackedUp, Alone
  <2> QED
    BY <2>1 DEF FsInv, LostInv
<1> QED
  BY <1>2, <1>3, <1>4, <1>5, <1>6 DEF FsInv

\* link succeeds.
LEMMA LinkMade ==
    ASSUME TypeOK, Alone, FsInv, NEW p \in Proc, ProcInv(p), pc[p] = "link", LinkDone(p),
           UNCHANGED <<litter, content, attr, full, iunlink, opts, guest, st, sum, idx,
                       new, fd, envVars>>
    PROVE  TypeOK' /\ FsInv' /\ ProcInv(p)'
<1>1. /\ guest[p] \in Guest /\ sum[p] \in Contents /\ Hashed(p)
      /\ st[p] \in Inode /\ Whole(st[p]) /\ Target(p) = NoInode
      /\ GoTo(p, "untmp") /\ UNCHANGED tmp /\ SetTarget(p, Source(p))
      /\ Source(p) \in Inode /\ Source(p) # NoInode /\ iunlink[Source(p)]
  BY Moving DEF LinkDone
<1>2. pc' \in [Proc -> Steps] /\ pc'[p] = "untmp" /\ \A q \in Proc : q = p
  BY <1>1, GoesTo DEF Steps, Alone
<1>3. Reversed(p)' = Reversed(p)
  BY DEF Reversed, Sledge
<1>4. StepInv(p)'
  BY <1>1, <1>2 DEF StepInv
<1>5. CASE Reversed(p)
  <2>1. SetName(p, st[p]) /\ UNCHANGED file /\ Source(p) = st[p]
    BY <1>1, <1>5, Moving DEF SetTarget
  <2>2. FsInv' /\ hash' \in [Contents -> [Index -> Inode \cup {NoInode}]]
    BY <1>5, <2>1, FsLinkedBack
  <2>3. TypeOK'
    BY <1>1, <1>2, <2>1, <2>2 DEF TypeOK, envVars, Index
  <2>4. StatInv(p)'
    BY <1>1, <2>1, StatKept DEF ProcInv, Whole, envVars
  <2>5. TmpInv(p)'
    <3> SUFFICES ASSUME tmp[p] # NoInode PROVE TmpInv(p)'
      BY <1>1 DEF TmpInv
    <3>1. /\ Whole(tmp[p]) /\ content[tmp[p]] \in had[guest[p]] /\ Flagged(tmp[p])
          /\ tmp[p] \in litter => iunlink[tmp[p]]
      BY DEF ProcInv, TmpInv
    <3>2. /\ idx[p] \in Index
          /\ \A c \in Contents, i \in Index : hash'[c][i] \in {hash[c][i], st[p]}
      BY <1>1, <2>1, NameOf
    <3>3. tmp[p] = st[p] => iunlink[tmp[p]]
      BY <1>1, <2>1
    <3>4. Flagged(tmp[p])'
      BY <1>1, <2>1, <3>1, <3>2, <3>3 DEF Flagged
    <3> QED
      BY <1>1, <3>1, <3>4 DEF TmpInv, Whole, envVars
  <2>6. PlaceInv(p)'
    BY <1>2, <1>3, <1>5, <2>1 DEF ProcInv, PlaceInv, Steady, Sledge, envVars
  <2> QED
    BY <1>4, <2>2, <2>3, <2>4, <2>5, <2>6 DEF ProcInv
<1>6. CASE ~Reversed(p)
  <2>1. file' = [file EXCEPT ![guest[p]] = Name(p)] /\ UNCHANGED hash /\ Source(p) = Name(p)
    BY <1>1, <1>6, Moving DEF SetTarget
  <2>2. /\ FsInv' /\ file' \in [Guest -> Inode \cup {NoInode}] /\ file'[guest[p]] = Name(p)
        /\ \A g \in Guest \ {guest[p]} : file'[g] = file[g]
    BY <1>1, <1>2, <1>6, <2>1, FsLinked
  <2>3. TypeOK'
    BY <1>1, <1>2, <2>1, <2>2 DEF TypeOK, envVars
  <2>4. StatInv(p)'
    BY <1>1, <2>2, StatKept DEF ProcInv, Whole, envVars
  <2>5. TmpInv(p)'
    <3> SUFFICES ASSUME tmp[p] # NoInode PROVE TmpInv(p)'
      BY <1>1 DEF TmpInv
    <3>1. /\ Whole(tmp[p]) /\ content[tmp[p]] \in had[guest[p]] /\ Flagged(tmp[p])
          /\ tmp[p] \in litter => iunlink[tmp[p]]
      BY DEF ProcInv, TmpInv
    <3>2. tmp[p] = Name(p) => iunlink[tmp[p]]
      BY <1>1, <2>1
    <3>3. Flagged(tmp[p])'
      BY <1>1, <2>1, <2>2, <3>1, <3>2 DEF Flagged
    <3> QED
      BY <1>1, <3>1, <3>3 DEF TmpInv, Whole, envVars
  <2>6. PlaceInv(p)'
    BY <1>1, <1>2, <1>3, <1>6, <2>1, <2>2 DEF PlaceInv
  <2> QED
    BY <1>4, <2>2, <2>3, <2>4, <2>5, <2>6 DEF ProcInv
<1> QED
  BY <1>5, <1>6

\* link fails; the backup takes its old name again.
LEMMA LinkFailed ==
    ASSUME TypeOK, Alone, FsInv, NEW p \in Proc, ProcInv(p), pc[p] = "link", LinkFails(p),
           SetTarget(p, tmp[p]),
           UNCHANGED <<litter, content, attr, full, iunlink, opts, guest, st, sum, idx,
                       new, fd, envVars>>
    PROVE  TypeOK' /\ FsInv' /\ ProcInv(p)'
<1>1. /\ guest[p] \in Guest /\ sum[p] \in Contents /\ Hashed(p)
      /\ st[p] \in Inode /\ Whole(st[p])
      /\ GoTo(p, "failed") /\ tmp' = [tmp EXCEPT ![p] = NoInode]
      /\ tmp[p] \in Inode \cup {NoInode}
  BY Moving DEF LinkFails, TypeOK
<1>2. pc' \in [Proc -> Steps] /\ pc'[p] = "failed" /\ \A q \in Proc : q = p
  BY <1>1, GoesTo DEF Steps, Alone
<1>3. tmp' \in [Proc -> Inode \cup {NoInode}] /\ tmp'[p] = NoInode
  BY <1>1 DEF TypeOK
<1>4. StepInv(p)' /\ TmpInv(p)'
  BY <1>1, <1>2, <1>3 DEF StepInv, TmpInv
<1>5. CASE Reversed(p)
  <2>1. SetName(p, tmp[p]) /\ UNCHANGED file
    BY <1>5 DEF SetTarget
  <2>2. tmp[p] \in {st[p], NoInode}
    BY <1>5 DEF ProcInv, StepInv
  <2>3. FsInv' /\ hash' \in [Contents -> [Index -> Inode \cup {NoInode}]]
    BY <1>5, <2>1, <2>2, FsLinkedBack
  <2>4. TypeOK'
    BY <1>1, <1>2, <1>3, <2>1, <2>3 DEF TypeOK, envVars, Index
  <2>5. StatInv(p)'
    BY <1>1, <2>1, StatKept DEF ProcInv, Whole, envVars
  <2>6. PlaceInv(p)'
    BY <1>1, <1>2, <1>5, <2>1 DEF ProcInv, PlaceInv, Steady, Sledge, envVars
  <2> QED
    BY <1>4, <2>3, <2>4, <2>5, <2>6 DEF ProcInv
<1>6. CASE ~Reversed(p)
  <2>1. file' = [file EXCEPT ![guest[p]] = tmp[p]] /\ UNCHANGED hash
    BY <1>6 DEF SetTarget
  <2>2. /\ FsInv' /\ file' \in [Guest -> Inode \cup {NoInode}] /\ file'[guest[p]] = tmp[p]
        /\ \A g \in Guest \ {guest[p]} : file'[g] = file[g]
    BY <1>1, <1>2, <1>6, <2>1, FsLinked
  <2>3. TypeOK'
    BY <1>1, <1>2, <1>3, <2>1, <2>2 DEF TypeOK, envVars
  <2>4. StatInv(p)'
    BY <1>1, <2>2, StatKept DEF ProcInv, Whole, envVars
  <2>5. PlaceInv(p)'
    <3>1. Steady(p)' => Steady(p) /\ tmp[p] = st[p]
      BY <1>6 DEF ProcInv, PlaceInv, Steady, Sledge, envVars
    <3> QED
      BY <1>1, <1>2, <2>2, <3>1 DEF PlaceInv
  <2> QED
    BY <1>4, <2>2, <2>3, <2>4, <2>5 DEF ProcInv
<1> QED
  BY <1>5, <1>6

\* link(2) succeeds or fails.
LEMMA UnifyLink ==
    ASSUME TypeOK, Alone, FsInv, NEW p \in Proc, ProcInv(p), unifyLink(p)
    PROVE  TypeOK' /\ FsInv' /\ ProcInv(p)'
BY LinkMade, LinkFailed DEF unifyLink

\* The temporary name of the replaced file is unlinked.
LEMMA UnifyUntmp ==
    ASSUME TypeOK, Alone, FsInv, NEW p \in Proc, ProcInv(p), unifyUntmp(p)
    PROVE  TypeOK' /\ FsInv' /\ ProcInv(p)'
<1>1. /\ pc[p] = "untmp" /\ tmp' = [tmp EXCEPT ![p] = NoInode] /\ Done(p)
      /\ UNCHANGED <<file, hash, litter, content, attr, full, iunlink, envVars>>
      /\ \A q \in Proc : q = p
  BY DEF unifyUntmp, Alone
<1>2. tmp' \in [Proc -> Inode \cup {NoInode}] /\ tmp'[p] = NoInode
  BY <1>1 DEF TypeOK
<1>3. TypeOK'
  BY <1>1, <1>2, IsDone DEF TypeOK, Index, envVars
<1>4. FsInv'
  <2>1. FilesInv' /\ HashInv' /\ SharedIsProtected' /\ LitterInv'
    BY <1>1 DEF FsInv, FilesInv, HashInv, SharedIsProtected, LitterInv, Whole, envVars
  <2>2. LostInv'
    BY <1>1, Unmoved DEF LostInv, envVars
  <2> QED
    BY <2>1, <2>2 DEF FsInv
<1> QED
  BY <1>1, <1>2, <1>3, <1>4, IsDone DEF ProcInv, TmpInv

\* The cleanup in the error case of doit.
LEMMA Cleanup ==
    ASSUME TypeOK, Alone, FsInv, NEW p \in Proc, ProcInv(p), cleanup(p)
    PROVE  TypeOK' /\ FsInv' /\ ProcInv(p)'
<1>1. /\ pc[p] = "failed" /\ Done(p) /\ sum[p] \in Contents /\ tmp[p] = NoInode
      /\ UNCHANGED <<file, tmp, litter, content, attr, full, iunlink, envVars>>
      /\ SetName(p, NoInode) \/ UNCHANGED hash
      /\ \A q \in Proc : q = p
  BY DEF cleanup, Alone, ProcInv, StatInv, Hashed, TypeOK
<1>2. FsInv' /\ hash' \in [Contents -> [Index -> Inode \cup {NoInode}]]
  <2>1. CASE SetName(p, NoInode)
    BY <1>1, <2>1, FsNameGone
  <2>2. CASE UNCHANGED hash
    BY <1>1, <2>2, FsKept DEF fsVars, TypeOK, Index
  <2> QED
    BY <1>1, <2>1, <2>2
<1>3. TypeOK'
  BY <1>1, <1>2, IsDone DEF TypeOK, Index, envVars
<1> QED
  BY <1>1, <1>2, <1>3, IsDone DEF ProcInv, TmpInv

-----------------------------------------------------------------------------
(* What happens besides.                                                   *)

\* An instance is killed; its temporary name stays.
LEMMA Crash ==
    ASSUME TypeOK, Alone, FsInv, NEW p \in Proc, ProcInv(p), crash(p)
    PROVE  TypeOK' /\ FsInv' /\ ProcInv(p)'
<1>1. /\ pc[p] # "off" /\ crashes < MaxCrash /\ Done(p)
      /\ litter' = litter \cup ({tmp[p]} \ {NoInode})
      /\ tmp' = [tmp EXCEPT ![p] = NoInode] /\ crashes' = crashes + 1
      /\ UNCHANGED <<file, hash, content, attr, full, iunlink, want, had, raced, changes>>
      /\ \A q \in Proc : q = p
  BY DEF crash, Alone
<1>2. tmp' \in [Proc -> Inode \cup {NoInode}] /\ tmp'[p] = NoInode /\ litter' \subseteq Inode
  BY <1>1 DEF TypeOK
<1>3. crashes' \in 0 .. MaxCrash /\ crashes' # 0
  BY <1>1, Constants DEF TypeOK
<1>4. pc'[p] = "off"
  BY <1>1, IsDone
<1>5. TypeOK'
  BY <1>1, <1>2, <1>3, IsDone DEF TypeOK, Index
<1>6. FsInv'
  <2>1. FilesInv' /\ HashInv' /\ SharedIsProtected'
    BY <1>1 DEF FsInv, FilesInv, HashInv, SharedIsProtected, Whole
  <2>2. LitterInv'
    <3>1. tmp[p] # NoInode => Whole(tmp[p]) /\ \A g \in Guest : file[g] = tmp[p] => iunlink[tmp[p]]
      BY DEF ProcInv, TmpInv, Flagged
    <3> QED
      BY <1>1, <1>3, <3>1 DEF FsInv, LitterInv, Whole
  <2>3. \A g \in Guest \ raced : BackedUp(g) =>
            tmp[p] # NoInode /\ content[tmp[p]] = want[g]
    BY <1>1 DEF BackedUp, ProcInv, PlaceInv, StatInv, Hashed, Steady
  <2>4. LostInv'
    BY <1>1, <2>3 DEF FsInv, LostInv
  <2> QED
    BY <2>1, <2>2, <2>4 DEF FsInv
<1> QED
  BY <1>1, <1>2, <1>5, <1>6, IsDone DEF ProcInv, TmpInv

\* What a guest's change leaves on record; a guest given to an instance with
\* --sledgehammer makes none.
LEMMA GuestChanges ==
    ASSUME TypeOK, NEW g \in Guest, NEW c \in Contents \cup {Gone}, Change(g, c)
    PROVE  /\ want' \in [Guest -> Contents \cup {Gone}] /\ had' \in [Guest -> SUBSET Contents]
           /\ raced' \subseteq Guest /\ raced \subseteq raced' /\ changes' \in 0 .. MaxEvents
           /\ want'[g] = c /\ (c # Gone => c \in had'[g])
           /\ \A h \in Guest : had[h] \subseteq had'[h]
           /\ \A h \in Guest \ {g} : want'[h] = want[h]
           /\ \A p \in Proc : pc[p] # "off" /\ guest[p] = g => ~Sledge(p) /\ g \in raced'
           /\ Workers(g) = {} => raced' = raced
<1>1. want' \in [Guest -> Contents \cup {Gone}] /\ want'[g] = c
      /\ \A h \in Guest \ {g} : want'[h] = want[h]
  BY DEF Change, TypeOK
<1>2. had' = [had EXCEPT ![g] = had[g] \cup ({c} \ {Gone})]
  BY DEF Change
<1>3. had' \in [Guest -> SUBSET Contents]
  BY <1>2, Constants DEF TypeOK
<1>4. (c # Gone => c \in had'[g]) /\ \A h \in Guest : had[h] \subseteq had'[h]
  BY <1>2 DEF TypeOK
<1>5. changes' \in 0 .. MaxEvents
  BY Constants DEF Change, Room, TypeOK
<1>6. raced' \subseteq Guest /\ raced \subseteq raced' /\ (Workers(g) = {} => raced' = raced)
  BY DEF Change, TypeOK
<1>7. \A p \in Proc : pc[p] # "off" /\ guest[p] = g => ~Sledge(p) /\ g \in raced'
  BY DEF Change, Workers
<1> QED
  BY <1>1, <1>3, <1>4, <1>5, <1>6, <1>7

\* Inode n, which no name leads to, gets a whole file with contents c.
NewFile(n, c) ==
    /\ n # NoInode /\ n \notin litter /\ \A h \in Guest : file[h] # n
    /\ \A d \in Contents, i \in Index : hash[d][i] # n
    /\ \A p \in Proc : tmp[p] # n /\ st[p] # n
    /\ content'[n] = c /\ Whole(n)' /\ ~iunlink'[n]

OthersKept(n) ==
    /\ content' \in [Inode -> Contents \cup {Hole}] /\ attr' \in [Inode -> {Fresh, Normal}]
    /\ full' \in [Inode -> BOOLEAN] /\ iunlink' \in [Inode -> BOOLEAN]
    /\ \A m \in Inode \ {n} :
          /\ content'[m] = content[m] /\ attr'[m] = attr[m] /\ full'[m] = full[m]
          /\ iunlink'[m] = iunlink[m]

\* The name of a guest's file leads to a new file, or to none.
LEMMA GuestMoves ==
    ASSUME TypeOK, Alone, FsInv, \A p \in Proc : ProcInv(p),
           NEW g \in Guest, NEW c \in Contents \cup {Gone}, Change(g, c),
           NEW n \in Inode \cup {NoInode}, file' = [file EXCEPT ![g] = n],
           UNCHANGED <<hash, tmp, litter, procVars, crashes>>,
           (c \in Contents /\ NewFile(n, c)) \/ (n = NoInode /\ c = Gone), OthersKept(n)
    PROVE  TypeOK' /\ FsInv' /\ \A p \in Proc : ProcInv(p)'
<1>0. /\ n # NoInode =>
            /\ n \notin litter /\ \A h \in Guest : file[h] # n
            /\ \A d \in Contents, i \in Index : hash[d][i] # n
            /\ \A p \in Proc : tmp[p] # n /\ st[p] # n
            /\ c \in Contents /\ content'[n] = c /\ Whole(n)' /\ ~iunlink'[n]
      /\ n = NoInode => c = Gone
  BY DEF NewFile
<1>00. /\ content' \in [Inode -> Contents \cup {Hole}] /\ attr' \in [Inode -> {Fresh, Normal}]
      /\ full' \in [Inode -> BOOLEAN] /\ iunlink' \in [Inode -> BOOLEAN]
      /\ \A m \in Inode \ {n} :
            /\ content'[m] = content[m] /\ attr'[m] = attr[m] /\ full'[m] = full[m]
            /\ iunlink'[m] = iunlink[m]
  BY DEF OthersKept
<1> USE <1>0, <1>00 DEF procVars
<1>1. /\ file' \in [Guest -> Inode \cup {NoInode}] /\ file'[g] = n
      /\ \A h \in Guest \ {g} : file'[h] = file[h]
  BY DEF TypeOK
<1>2. /\ want' \in [Guest -> Contents \cup {Gone}] /\ had' \in [Guest -> SUBSET Contents]
      /\ raced' \subseteq Guest /\ raced \subseteq raced' /\ changes' \in 0 .. MaxEvents
      /\ want'[g] = c /\ (c # Gone => c \in had'[g])
      /\ \A h \in Guest : had[h] \subseteq had'[h]
      /\ \A h \in Guest \ {g} : want'[h] = want[h]
      /\ \A p \in Proc : pc[p] # "off" /\ guest[p] = g => ~Sledge(p) /\ g \in raced'
  BY GuestChanges
<1>3. TypeOK'
  BY <1>1, <1>2 DEF TypeOK
<1>4. FilesInv'
  <2> SUFFICES ASSUME NEW h \in Guest, file'[h] # NoInode
               PROVE  /\ Whole(file[h])' /\ content'[file'[h]] \in had'[h]
                      /\ h \notin raced' => content'[file'[h]] = want'[h]
    BY DEF FilesInv
  <2>1. CASE h = g
    BY <1>1, <1>2, <2>1, Constants DEF Whole
  <2>2. CASE h # g
    <3>1. file'[h] = file[h] /\ file[h] \in Inode \ {n}
      BY <1>1, <2>2 DEF TypeOK
    <3>2. /\ Whole(file[h]) /\ content[file[h]] \in had[h]
          /\ h \notin raced => content[file[h]] = want[h]
      BY <3>1, Constants DEF FsInv, FilesInv
    <3> QED
      BY <1>2, <2>2, <3>1, <3>2 DEF Whole
  <2> QED
    BY <2>1, <2>2
<1>5. HashInv'
  <2> SUFFICES ASSUME NEW d \in Contents, NEW i \in Index, hash[d][i] # NoInode
               PROVE  \/ /\ attr'[hash[d][i]] = Fresh
                         /\ \A e \in Contents, j \in Index :
                               hash[e][j] = hash[d][i] => e = d /\ j = i
                      \/ Whole(hash[d][i])' /\ content'[hash[d][i]] = d
    BY DEF HashInv, Whole
  <2>1. hash[d] \in [Index -> Inode \cup {NoInode}]
    BY DEF TypeOK, Index
  <2>2. hash[d][i] \in Inode \ {n}
    BY <2>1
  <2>3. \/ /\ attr[hash[d][i]] = Fresh
           /\ \A e \in Contents, j \in Index : hash[e][j] = hash[d][i] => e = d /\ j = i
        \/ Whole(hash[d][i]) /\ content[hash[d][i]] = d
    BY DEF FsInv, HashInv
  <2> QED
    BY <2>2, <2>3 DEF Whole
<1>6. SharedIsProtected'
  <2> SUFFICES ASSUME NEW h \in Guest, file'[h] # NoInode, ~iunlink'[file'[h]]
               PROVE  /\ \A k \in Guest \ {h} : file'[k] # file'[h]
                      /\ \A d \in Contents, i \in 0 .. MaxIdx : hash'[d][i] # file'[h]
    BY DEF SharedIsProtected
  <2>1. CASE h = g
    BY <1>1, <2>1 DEF Index
  <2>2. CASE h # g
    <3>1. file'[h] = file[h] /\ file[h] \in Inode \ {n}
      BY <1>1, <2>2 DEF TypeOK
    <3> QED
      BY <1>1, <3>1, Constants DEF FsInv, SharedIsProtected
  <2> QED
    BY <2>1, <2>2
<1>7. LitterInv'
  <2>1. \A m \in litter : m \in Inode \ {n} /\ Whole(m)' /\ iunlink'[m] = iunlink[m]
    BY Constants DEF FsInv, LitterInv, Whole, TypeOK
  <2>2. \A h \in Guest, m \in litter : file'[h] = m => iunlink'[m]
    BY <1>1, <2>1 DEF FsInv, LitterInv
  <2> QED
    BY <2>1, <2>2 DEF FsInv, LitterInv
<1>8. LostInv'
  <2> SUFFICES ASSUME NEW h \in Guest \ raced'
               PROVE  \/ file'[h] # NoInode \/ want'[h] = Gone \/ BackedUp(h)'
                      \/ \E m \in litter' : content'[m] = want'[h]
    BY DEF LostInv
  <2>1. CASE h = g
    BY <1>1, <1>2, <2>1
  <2>2. CASE h # g
    <3>1. h \in Guest \ raced /\ file'[h] = file[h] /\ want'[h] = want[h]
      BY <1>1, <1>2, <2>2
    <3>2. BackedUp(h)' = BackedUp(h)
      BY DEF BackedUp, Reversed, Sledge
    <3>3. \A m \in litter : content'[m] = content[m]
      BY Constants DEF TypeOK
    <3> QED
      BY <3>1, <3>2, <3>3 DEF FsInv, LostInv
  <2> QED
    BY <2>1, <2>2
<1>9. ASSUME NEW p \in Proc PROVE ProcInv(p)'
  <2>1. /\ ProcInv(p) /\ Hashed(p)' = Hashed(p) /\ Reversed(p)' = Reversed(p)
        /\ Name(p)' = Name(p) /\ Sledge(p)' = Sledge(p)
    BY DEF Hashed, Reversed, Sledge, Name
  <2>2. st[p] \in Inode \cup {NoInode} /\ tmp[p] \in Inode \cup {NoInode}
    BY DEF TypeOK
  <2>3. StatInv(p)'
    <3>1. pc[p] \notin {"off", "stat"} =>
             /\ st[p] \in Inode \ {n} /\ Whole(st[p])
             /\ \A h \in Guest \ {guest[p]} : file[h] = st[p] => iunlink[st[p]]
      BY <2>1, <2>2 DEF ProcInv, StatInv
    <3>2. pc[p] \notin {"off", "stat"} =>
             /\ st[p] # NoInode /\ Whole(st[p])'
             /\ \A h \in Guest \ {guest[p]} : file'[h] = st[p] => iunlink'[st[p]]
      BY <1>1, <3>1, Constants DEF Whole
    <3>3. Hashed(p) =>
             /\ sum[p] \in Contents /\ content'[st[p]] = sum[p] /\ sum[p] \in had'[guest[p]]
             /\ guest[p] \notin raced' => sum[p] = want'[guest[p]]
      <4> SUFFICES ASSUME Hashed(p)
                   PROVE  /\ sum[p] \in Contents /\ content'[st[p]] = sum[p]
                          /\ sum[p] \in had'[guest[p]]
                          /\ guest[p] \notin raced' => sum[p] = want'[guest[p]]
        OBVIOUS
      <4>1. /\ pc[p] \notin {"off", "stat"} /\ guest[p] \in Guest
            /\ sum[p] \in Contents /\ content[st[p]] = sum[p] /\ sum[p] \in had[guest[p]]
            /\ guest[p] \notin raced => sum[p] = want[guest[p]]
        BY <2>1 DEF ProcInv, StatInv, StepInv, Hashed
      <4> QED
        BY <1>2, <3>1, <4>1
    <3> QED
      BY <2>1, <3>2, <3>3 DEF StatInv
  <2>4. TmpInv(p)'
    <3> SUFFICES ASSUME tmp[p] # NoInode
                 PROVE  /\ Whole(tmp[p])' /\ content'[tmp[p]] \in had'[guest[p]]
                        /\ Flagged(tmp[p])' /\ (tmp[p] \in litter => iunlink'[tmp[p]])
      BY DEF TmpInv
    <3>1. /\ Whole(tmp[p]) /\ content[tmp[p]] \in had[guest[p]] /\ Flagged(tmp[p])
          /\ tmp[p] \in litter => iunlink[tmp[p]]
      BY <2>1 DEF ProcInv, TmpInv
    <3>2. tmp[p] \in Inode \ {n} /\ guest[p] \in Guest
      BY <2>1, <2>2 DEF ProcInv, StepInv, TypeOK
    <3>3. Flagged(tmp[p])'
      BY <1>1, <3>1, <3>2 DEF Flagged
    <3> QED
      BY <1>2, <3>1, <3>2, <3>3 DEF Whole
  <2>5. StepInv(p)'
    <3>1. pc[p] # "off" /\ Reversed(p) => guest[p] # g /\ guest[p] \in Guest
      BY <1>2, <2>1 DEF Reversed, ProcInv, StepInv
    <3>2. pc[p] # "off" /\ Reversed(p) =>
                              Source(p)' = Source(p) /\ file[guest[p]] \in Inode \cup {NoInode}
      BY <1>1, <2>1, <3>1 DEF Source, TypeOK
    <3>3. ~Reversed(p) => Source(p)' = Name(p) /\ Source(p) = Name(p)
      BY <2>1 DEF Source
    <3>4. Hashed(p) /\ Name(p) # NoInode => Name(p) \in Inode \ {n}
      <4> SUFFICES ASSUME Hashed(p), Name(p) # NoInode PROVE Name(p) \in Inode \ {n}
        OBVIOUS
      <4>1. sum[p] \in Contents
        BY <2>1 DEF ProcInv, StatInv
      <4> QED
        BY <4>1, NameOf
    <3>5. Hashed(p) /\ Name(p) # NoInode =>
             /\ content'[Name(p)] = content[Name(p)] /\ attr'[Name(p)] = attr[Name(p)]
             /\ full'[Name(p)] = full[Name(p)] /\ iunlink'[Name(p)] = iunlink[Name(p)]
      BY <3>4
    <3>6. pc[p] \in {"lstat", "rename", "zero", "link"} =>
             Source(p)' # NoInode /\ iunlink'[Source(p)']
      <4> SUFFICES ASSUME pc[p] \in {"lstat", "rename", "zero", "link"}
                   PROVE  Source(p)' # NoInode /\ iunlink'[Source(p)']
        OBVIOUS
      <4>1. Source(p) # NoInode /\ iunlink[Source(p)] /\ Hashed(p) /\ pc[p] # "off"
        BY <2>1 DEF ProcInv, StepInv, Hashed
      <4>2. CASE Reversed(p)
        <5>1. Source(p)' = file[guest[p]] /\ Source(p) = file[guest[p]] /\ guest[p] \in Guest
          BY <3>1, <3>2, <4>1, <4>2 DEF Source
        <5>2. file[guest[p]] \in Inode \ {n}
          BY <3>2, <4>1, <4>2, <5>1
        <5> QED
          BY <4>1, <5>1, <5>2
      <4>3. CASE ~Reversed(p)
        BY <3>3, <3>5, <4>1, <4>3
      <4> QED
        BY <4>2, <4>3
    <3> HIDE DEF procVars
    <3>7. StepInv(p)
      BY <2>1 DEF ProcInv
    <3>8. UNCHANGED <<pc, opts, guest, st, sum, idx, new, fd, tmp>>
      BY DEF procVars
    <3> QED
      BY <2>1, <3>5, <3>6, <3>7, <3>8 DEF StepInv, Hashed, Whole
  <2>6. PlaceInv(p)'
    <3> SUFFICES ASSUME pc[p] \notin {"off", "stat"}, Steady(p)'
                 PROVE  Steady(p) /\ file'[guest[p]] = file[guest[p]]
      BY <2>1 DEF ProcInv, PlaceInv
    <3>1. guest[p] \in Guest /\ guest[p] # g
      BY <1>2, <2>1 DEF Steady, ProcInv, StepInv
    <3> QED
      BY <1>1, <1>2, <2>1, <3>1 DEF Steady
  <2> QED
    BY <2>3, <2>4, <2>5, <2>6 DEF ProcInv
<1> QED
  BY <1>3, <1>4, <1>5, <1>6, <1>7, <1>8, <1>9 DEF FsInv

\* A guest puts a new file in the place of one of its own.
LEMMA GuestReplaces ==
    ASSUME TypeOK, Alone, FsInv, \A p \in Proc : ProcInv(p),
           NEW g \in Guest, NEW c \in Contents, Change(g, c),
           file' = [file EXCEPT ![g] = FreeInode], Make(FreeInode, c, Normal, TRUE),
           UNCHANGED <<hash, tmp, litter, procVars, crashes>>
    PROVE  TypeOK' /\ FsInv' /\ \A p \in Proc : ProcInv(p)'
<1>1. PICK n : n = FreeInode
  OBVIOUS
<1>2. Make(n, c, Normal, TRUE) /\ file' = [file EXCEPT ![g] = n]
  BY <1>1
<1>3. /\ n \in Inode /\ n # NoInode /\ n \notin litter
      /\ \A h \in Guest : file[h] # n
      /\ \A d \in Contents, i \in Index : hash[d][i] # n
      /\ \A p \in Proc : tmp[p] # n /\ st[p] # n
      /\ content' \in [Inode -> Contents \cup {Hole}] /\ attr' \in [Inode -> {Fresh, Normal}]
      /\ full' \in [Inode -> BOOLEAN] /\ iunlink' \in [Inode -> BOOLEAN]
      /\ content'[n] = c /\ attr'[n] = Normal /\ full'[n] = TRUE /\ ~iunlink'[n]
      /\ \A m \in Inode \ {n} :
            /\ content'[m] = content[m] /\ attr'[m] = attr[m] /\ full'[m] = full[m]
            /\ iunlink'[m] = iunlink[m]
  <2>1. c \in Contents \cup {Hole} /\ Normal \in {Fresh, Normal} /\ TRUE \in BOOLEAN
    OBVIOUS
  <2> QED
    BY <1>2, <2>1, MakeNew
<1>4. NewFile(n, c) /\ OthersKept(n)
  BY <1>3 DEF NewFile, OthersKept, Whole
<1>5. c \in Contents \cup {Gone} /\ n \in Inode \cup {NoInode}
  BY <1>3
<1>6. file' = [file EXCEPT ![g] = n]
  BY <1>2
<1> QED
  BY <1>4, <1>5, <1>6, GuestMoves

\* A guest removes a file.
LEMMA GuestRemoves ==
    ASSUME TypeOK, Alone, FsInv, \A p \in Proc : ProcInv(p), NEW g \in Guest, guestRemoves(g)
    PROVE  TypeOK' /\ FsInv' /\ \A p \in Proc : ProcInv(p)'
<1>1. /\ Change(g, Gone) /\ file' = [file EXCEPT ![g] = NoInode]
      /\ UNCHANGED <<hash, tmp, litter, content, attr, full, iunlink, procVars, crashes>>
  BY DEF guestRemoves
<1>2. OthersKept(NoInode)
  BY <1>1 DEF TypeOK, OthersKept
<1> QED
  BY <1>1, <1>2, GuestMoves

\* A guest writes; the kernel copies a file with IUNLINK first.
LEMMA GuestWrites ==
    ASSUME TypeOK, Alone, FsInv, \A p \in Proc : ProcInv(p),
           NEW g \in Guest, NEW c \in Contents, guestWrites(g, c)
    PROVE  TypeOK' /\ FsInv' /\ \A p \in Proc : ProcInv(p)'
<1> USE DEF procVars
<1>1. /\ Workers(g) = {} /\ file[g] # NoInode /\ Change(g, c)
      /\ UNCHANGED <<hash, tmp, litter, procVars, crashes>>
  BY DEF guestWrites
<1>2. CASE iunlink[file[g]]
  BY <1>1, <1>2, GuestReplaces DEF guestWrites
<1>3. CASE ~iunlink[file[g]]
  <2>1. PICK m : m = file[g]
    OBVIOUS
  <2>2. /\ content' = [content EXCEPT ![m] = c] /\ UNCHANGED <<file, attr, full, iunlink>>
        /\ m \in Inode
    BY <1>1, <1>3, <2>1 DEF guestWrites, TypeOK
  <2>3. /\ content' \in [Inode -> Contents \cup {Hole}] /\ content'[m] = c
        /\ \A n \in Inode \ {m} : content'[n] = content[n]
    BY <2>2 DEF TypeOK
  <2>4. /\ \A h \in Guest \ {g} : file[h] # m
        /\ \A d \in Contents, i \in Index : hash[d][i] # m
        /\ \A n \in litter : n # m
    BY <1>1, <1>3, <2>1 DEF FsInv, SharedIsProtected, LitterInv, Index
  <2>5. \A p \in Proc : pc[p] # "off" => guest[p] # g
    BY <1>1 DEF Workers
  <2>6. /\ want' \in [Guest -> Contents \cup {Gone}] /\ had' \in [Guest -> SUBSET Contents]
        /\ changes' \in 0 .. MaxEvents /\ want'[g] = c /\ c \in had'[g] /\ raced' = raced
        /\ \A h \in Guest : had[h] \subseteq had'[h]
        /\ \A h \in Guest \ {g} : want'[h] = want[h]
    BY <1>1, GuestChanges, Constants
  <2>7. TypeOK'
    BY <1>1, <2>2, <2>3, <2>6 DEF TypeOK
  <2>8. FilesInv'
    <3> SUFFICES ASSUME NEW h \in Guest, file[h] # NoInode
                 PROVE  /\ Whole(file[h]) /\ content'[file[h]] \in had'[h]
                        /\ h \notin raced => content'[file[h]] = want'[h]
      BY <2>2, <2>6 DEF FilesInv, Whole
    <3>1. /\ Whole(file[h]) /\ content[file[h]] \in had[h] /\ file[h] \in Inode
          /\ h \notin raced => content[file[h]] = want[h]
      BY DEF FsInv, FilesInv, TypeOK
    <3>2. CASE h = g
      BY <2>1, <2>3, <2>6, <3>1, <3>2
    <3>3. CASE h # g
      BY <2>3, <2>4, <2>6, <3>1, <3>3
    <3> QED
      BY <3>2, <3>3
  <2>9. HashInv'
    <3>1. \A d \in Contents, i \in Index : hash[d][i] # NoInode => hash[d][i] \in Inode \ {m}
      <4> SUFFICES ASSUME NEW d \in Contents, NEW i \in Index, hash[d][i] # NoInode
                   PROVE  hash[d][i] \in Inode \ {m}
        OBVIOUS
      <4>1. hash[d] \in [Index -> Inode \cup {NoInode}]
        BY DEF TypeOK, Index
      <4> QED
        BY <2>4, <4>1
    <3> QED
      BY <1>1, <2>2, <2>3, <3>1 DEF FsInv, HashInv, Whole
  <2>10. SharedIsProtected' /\ LitterInv'
    BY <1>1, <2>2 DEF FsInv, SharedIsProtected, LitterInv, Whole
  <2>11. LostInv'
    <3>1. \A h \in Guest : BackedUp(h)' = BackedUp(h)
      BY <1>1 DEF BackedUp, Reversed, Sledge
    <3>2. \A n \in litter : content'[n] = content[n]
      BY <2>3, <2>4 DEF TypeOK
    <3> QED
      BY <1>1, <2>2, <2>6, <3>1, <3>2 DEF FsInv, LostInv
  <2>12. ASSUME NEW p \in Proc PROVE ProcInv(p)'
    <3>1. /\ ProcInv(p) /\ Hashed(p)' = Hashed(p) /\ Reversed(p)' = Reversed(p)
          /\ Name(p)' = Name(p) /\ Sledge(p)' = Sledge(p) /\ Source(p)' = Source(p)
      BY <1>1, <2>2 DEF Hashed, Reversed, Sledge, Name, Source
    <3>2. st[p] \in Inode \cup {NoInode} /\ tmp[p] \in Inode \cup {NoInode}
      BY DEF TypeOK
    <3>3. pc[p] # "off" => guest[p] \in Guest \ {g}
      BY <2>5, <3>1 DEF ProcInv, StepInv
    <3>4. StatInv(p)'
      <4>1. pc[p] \notin {"off", "stat"} => content'[st[p]] = content[st[p]]
        <5> SUFFICES ASSUME pc[p] \notin {"off", "stat"}
                     PROVE  content'[st[p]] = content[st[p]]
          OBVIOUS
        <5>1. st[p] # NoInode /\ st[p] # m
          BY <1>3, <2>1, <3>1, <3>3 DEF ProcInv, StatInv
        <5> QED
          BY <2>3, <3>2, <5>1
      <4>2. StatInv(p) /\ (Hashed(p) => pc[p] \notin {"off", "stat"})
        BY <3>1 DEF ProcInv, Hashed
      <4> QED
        BY <1>1, <2>2, <2>6, <3>1, <3>3, <4>1, <4>2 DEF StatInv, Whole
    <3>5. TmpInv(p)'
      <4> SUFFICES ASSUME tmp[p] # NoInode
                   PROVE  content'[tmp[p]] \in had'[guest[p]]
        BY <1>1, <2>2, <3>1 DEF ProcInv, TmpInv, Flagged, Whole
      <4>1. guest[p] \in Guest /\ content[tmp[p]] \in had[guest[p]] /\ tmp[p] # m
        BY <1>3, <2>1, <3>1, <3>3 DEF ProcInv, TmpInv, Flagged, TypeOK
      <4> QED
        BY <2>3, <2>6, <3>2, <4>1
    <3>6. StepInv(p)'
      <4>1. pc[p] = "copymodes" => content'[Name(p)] = sum[p]
        <5> SUFFICES ASSUME pc[p] = "copymodes" PROVE content'[Name(p)] = sum[p]
          OBVIOUS
        <5>1. /\ sum[p] \in Contents /\ content[Name(p)] = sum[p] /\ Name(p) # NoInode
          BY <3>1 DEF ProcInv, StatInv, StepInv, Hashed
        <5>2. Name(p) \in Inode \ {m}
          BY <2>4, <5>1, NameOf
        <5> QED
          BY <2>3, <5>1, <5>2
      <4>2. StepInv(p)
        BY <3>1 DEF ProcInv
      <4> QED
        BY <1>1, <2>2, <3>1, <4>1, <4>2 DEF StepInv, Whole
    <3>7. PlaceInv(p)'
      BY <1>1, <2>2, <2>6, <3>1 DEF ProcInv, PlaceInv, Steady
    <3> QED
      BY <3>4, <3>5, <3>6, <3>7 DEF ProcInv
  <2> QED
    BY <2>7, <2>8, <2>9, <2>10, <2>11, <2>12 DEF FsInv
<1> QED
  BY <1>2, <1>3

-----------------------------------------------------------------------------
(* The invariant.                                                          *)

\* The invariant holds before the first walk.
LEMMA Initially == Init => IInv
<1> SUFFICES ASSUME Init PROVE TypeOK /\ FsInv /\ \A p \in Proc : ProcInv(p)
  BY DEF IInv
<1>1. /\ file \in [Guest -> Inode \cup {NoInode}]
      /\ \A g \in Guest : file[g] \in Inode /\ file[g] # NoInode
      /\ \A g, h \in Guest : g # h => file[g] # file[h]
  BY HashifyAssumption, Constants DEF Init
<1>2. want \in [Guest -> Contents] /\ \A g \in Guest : want[g] \in Contents
  BY DEF Init
<1>3. had \in [Guest -> SUBSET Contents] /\ \A g \in Guest : want[g] \in had[g]
  BY <1>2 DEF Init
<1>4. content \in [Inode -> Contents \cup {Hole}] /\ \A g \in Guest : content[file[g]] = want[g]
  <2>1. \A n \in Inode : content[n] = IF \E g \in Guest : file[g] = n
                                      THEN want[CHOOSE g \in Guest : file[g] = n] ELSE Hole
    BY DEF Init
  <2>2. \A g \in Guest : (CHOOSE h \in Guest : file[h] = file[g]) = g
    BY <1>1
  <2>3. \A g \in Guest : content[file[g]] = want[g]
    BY <1>1, <2>1, <2>2
  <2>4. \A n \in Inode : content[n] \in Contents \cup {Hole}
    BY <1>2, <2>1, <2>3
  <2>5. content = [n \in Inode |-> content[n]]
    BY DEF Init
  <2> QED
    BY <2>3, <2>4, <2>5
<1>5. attr \in [Inode -> {Fresh, Normal}] /\ \A g \in Guest : attr[file[g]] = Normal
  BY <1>1 DEF Init
<1>6. full \in [Inode -> BOOLEAN] /\ \A g \in Guest : full[file[g]]
  BY <1>1 DEF Init
<1>7. iunlink \in [Inode -> BOOLEAN]
  BY DEF Init
<1>8. /\ hash \in [Contents -> [Index -> Inode \cup {NoInode}]]
      /\ \A c \in Contents, i \in Index : hash[c][i] = NoInode
  BY DEF Init, Index
<1>9. /\ tmp \in [Proc -> Inode \cup {NoInode}] /\ litter = {} /\ raced = {}
      /\ \A p \in Proc : tmp[p] = NoInode /\ pc[p] = "off"
  BY DEF Init
<1>10. /\ pc \in [Proc -> Steps] /\ opts \in [Proc -> SUBSET AllOptions]
       /\ guest \in [Proc -> Guest \cup {None}] /\ st \in [Proc -> Inode \cup {NoInode}]
       /\ sum \in [Proc -> Contents \cup {None}] /\ new \in [Proc -> BOOLEAN]
  BY DEF Init, Steps
<1>11. /\ idx \in [Proc -> 0 .. MaxIdx] /\ crashes \in 0 .. MaxCrash /\ changes \in 0 .. MaxEvents
  BY Constants DEF Init
<1>12. fd \in [Proc -> [src : Inode \cup {NoInode}, dst : Inode \cup {NoInode}]]
  BY DEF Init, Closed
<1>13. TypeOK
  BY <1>1, <1>2, <1>3, <1>4, <1>5, <1>6, <1>7, <1>8, <1>9, <1>10, <1>11, <1>12
  DEF TypeOK, Index
<1>14. FsInv
  BY <1>1, <1>3, <1>4, <1>5, <1>6, <1>8, <1>9
  DEF FsInv, FilesInv, HashInv, SharedIsProtected, LitterInv, LostInv, Whole, Index
<1>15. \A p \in Proc : ProcInv(p)
  BY <1>9 DEF ProcInv, StatInv, TmpInv, StepInv, PlaceInv, Hashed
<1> QED
  BY <1>13, <1>14, <1>15

\* Every step keeps the invariant.
LEMMA Invariance == IInv /\ [Next]_vars => IInv'
<1> SUFFICES ASSUME Alone, TypeOK, FsInv, \A p \in Proc : ProcInv(p), [Next]_vars
             PROVE  TypeOK' /\ FsInv' /\ \A p \in Proc : ProcInv(p)'
  BY DEF IInv
<1>1. \A p, q \in Proc : p = q
  BY DEF Alone
<1>2. ASSUME NEW p \in Proc, NEW g \in Guest, NEW o \in Options, visit(p, g, o)
      PROVE  TypeOK' /\ FsInv' /\ ProcInv(p)'
  BY <1>2, Visit
<1>3. ASSUME NEW p \in Proc, ProcStep(p) PROVE TypeOK' /\ FsInv' /\ ProcInv(p)'
  <2>1. ProcInv(p)
    OBVIOUS
  <2>2. CASE checkFstat(p) \/ calculateHash(p) \/ resolveCollisions(p)
    BY <2>1, <2>2, CheckFstat, CalculateHash, ResolveCollisions
  <2>3. CASE createHashFile(p) \/ doit(p) \/ copyOpen(p) \/ copyMem(p) \/ copyModes(p)
    BY <2>1, <2>3, CreateHashFile, Doit, CopyOpen, CopyMem, CopyModes
  <2>4. CASE unifySetIattr(p) \/ unifyLstat(p) \/ unifyRename(p) \/ unifyZero(p)
    BY <2>1, <2>4, UnifySetIattr, UnifyLstat, UnifyRename, UnifyZero
  <2>5. CASE unifyLink(p) \/ unifyUntmp(p) \/ cleanup(p)
    BY <2>1, <2>5, UnifyLink, UnifyUntmp, Cleanup
  <2> QED
    BY <1>3, <2>2, <2>3, <2>4, <2>5 DEF ProcStep
<1>4. ASSUME NEW p \in Proc, crash(p) PROVE TypeOK' /\ FsInv' /\ ProcInv(p)'
  BY <1>4, Crash
<1>5. ASSUME NEW g \in Guest, NEW c \in Contents, guestWrites(g, c) \/ guestReplaces(g, c)
      PROVE  TypeOK' /\ FsInv' /\ \A p \in Proc : ProcInv(p)'
  BY <1>5, GuestWrites, GuestReplaces DEF guestReplaces
<1>6. ASSUME NEW g \in Guest, guestRemoves(g)
      PROVE  TypeOK' /\ FsInv' /\ \A p \in Proc : ProcInv(p)'
  BY <1>6, GuestRemoves
<1>7. CASE UNCHANGED vars
  <2>1. UNCHANGED <<file, hash, tmp, litter, content, attr, full, iunlink, pc, opts, guest,
                    st, sum, idx, new, fd, want, had, raced, crashes, changes>>
    BY <1>7 DEF vars, fsVars, procVars, envVars
  <2>2. TypeOK'
    BY <2>1 DEF TypeOK
  <2>3. FsInv'
    <3>1. FilesInv' /\ HashInv' /\ SharedIsProtected' /\ LitterInv'
      BY <2>1 DEF FsInv, FilesInv, HashInv, SharedIsProtected, LitterInv, Whole
    <3>2. LostInv'
      BY <2>1 DEF FsInv, LostInv, BackedUp, Reversed, Sledge
    <3> QED
      BY <3>1, <3>2 DEF FsInv
  <2>4. ASSUME NEW p \in Proc PROVE ProcInv(p)'
    <3>1. /\ ProcInv(p) /\ Reversed(p)' = Reversed(p) /\ Sledge(p)' = Sledge(p)
          /\ Name(p)' = Name(p) /\ Source(p)' = Source(p) /\ Hashed(p)' = Hashed(p)
      BY <2>1 DEF Reversed, Sledge, Name, Source, Hashed
    <3>2. StatInv(p)' /\ TmpInv(p)'
      BY <2>1, <3>1 DEF ProcInv, StatInv, TmpInv, Flagged, Whole
    <3>3. StepInv(p)' /\ PlaceInv(p)'
      BY <2>1, <3>1 DEF ProcInv, StepInv, PlaceInv, Steady, Whole
    <3> QED
      BY <3>2, <3>3 DEF ProcInv
  <2> QED
    BY <2>2, <2>3, <2>4
<1> QED
  BY <1>1, <1>2, <1>3, <1>4, <1>5, <1>6, <1>7 DEF Next

\* The invariant holds all the time.
LEMMA AlwaysIInv == Spec => []IInv
BY Initially, Invariance, PTL DEF Spec

-----------------------------------------------------------------------------
(* The theorems.                                                           *)

\* The variables of a vhashify that runs alone keep their types, and only a step
\* of Unify_unify between its two renames has a temporary name.
THEOREM TypesHold == ASSUME Alone PROVE Spec => []TypeOK
<1>1. IInv => TypeOK
  BY DEF IInv
<1> QED
  BY <1>1, AlwaysIInv, PTL

\* doit and Unify_unify change the inode of a guest's file and nothing else of it,
\* also when the guest works on it at the same time, a call fails or vhashify is
\* killed.
THEOREM HashifyingKeepsContents == ASSUME Alone PROVE Spec => []ContentsKept
<1>1. IInv => ContentsKept
  BY DEF IInv, FsInv, FilesInv, ContentsKept, ContentPreserved, OwnContents, Whole
<1> QED
  BY <1>1, AlwaysIInv, PTL

\* What resolveCollisions would take for the file of a hash is that file, and
\* Unify_unify shares no file without its flags.
THEOREM SharingHolds == ASSUME Alone PROVE Spec => []SharingIsSound
<1>1. IInv => SharingIsSound
  <2>1. IInv => HashDirSound
    BY Constants DEF IInv, FsInv, HashInv, HashDirSound, Whole, Index
  <2>2. IInv => SharedIsProtected
    BY DEF IInv, FsInv
  <2> QED
    BY <2>1, <2>2 DEF SharingIsSound
<1> QED
  BY <1>1, AlwaysIInv, PTL

\* Between rename, link and the way back of Unify_unify the guest's file is under
\* its name, the temporary one or one that a kill left; none is left without one.
THEOREM NoFileIsLost == ASSUME Alone PROVE Spec => []FilesKept
<1>1. IInv => FilesKept
  <2> SUFFICES ASSUME IInv PROVE NothingLost /\ FileIsThere
    BY DEF FilesKept
  <2>1. TypeOK /\ FsInv /\ \A p \in Proc : ProcInv(p)
    BY DEF IInv
  <2>2. \A n \in litter : n # NoInode /\ full[n]
    BY <2>1, Constants DEF TypeOK, FsInv, LitterInv, Whole
  <2>3. \A g \in Guest \ raced : BackedUp(g) =>
            \E p \in Proc : tmp[p] # NoInode /\ content[tmp[p]] = want[g] /\ full[tmp[p]]
    <3> SUFFICES ASSUME NEW g \in Guest \ raced, NEW p \in Proc,
                        pc[p] = "link", guest[p] = g, ~Reversed(p)
                 PROVE  tmp[p] # NoInode /\ content[tmp[p]] = want[g] /\ full[tmp[p]]
      BY DEF BackedUp
    <3>1. tmp[p] = st[p]
      BY <2>1 DEF ProcInv, PlaceInv, Steady
    <3> QED
      BY <2>1, <3>1 DEF ProcInv, StatInv, Hashed, Whole
  <2>4. NothingLost
    BY <2>1, <2>2, <2>3 DEF FsInv, LostInv, NothingLost
  <2>5. FileIsThere
    BY <2>1 DEF TypeOK, FsInv, LostInv, LitterInv, BackedUp, FileIsThere
  <2> QED
    BY <2>4, <2>5
<1> QED
  BY <1>1, AlwaysIInv, PTL
=============================================================================
