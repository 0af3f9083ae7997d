------------------------------- MODULE Hashify ------------------------------
(***************************************************************************)
(* vhashify (src/vhashify.c) on the filesystem it shares with guests and   *)
(* with other instances of itself: a file of a guest is replaced by a hard *)
(* link to the file of the hash directory whose name is the hash of its    *)
(* contents and attributes; the first such file is made by copying the     *)
(* guest's (or, with --sledgehammer, by linking it).  Unify_unify and      *)
(* Unify_copy (lib_internal) do the work.                                  *)
(*                                                                         *)
(* A filesystem is a set of inodes and the names that lead to them.  Every *)
(* guest has one file.  The hash function has no collisions.  attr stands  *)
(* for the mode, the owner and (unless --ignore-mtime is given) the time   *)
(* of last modification: what Unify_isUnifyable compares besides the size. *)
(***************************************************************************)
EXTENDS Naturals, FiniteSets

CONSTANTS
    Guest,      \* guests, with one file each
    Proc,       \* instances of vhashify
    Contents,   \* contents of files
    Inode,      \* inodes, as many as the names and open files can need
    Options,    \* the options that instances are given, see AllOptions
    Faults,     \* "copy", "link": such a call fails; "crash": kills happen
    MaxCrash,   \* bound on the number of kills
    MaxIdx,     \* bound on the counter of resolveCollisions
    MaxEvents   \* bound on the kills and the changes of guests' files together

\* With --sledgehammer Global_isVserverRunning is false.
AllOptions == {"sledgehammer", "refresh"}

NoInode == 0
None    == "none"       \* an instance at no file has no guest and no hash
Gone    == "gone"       \* what is in a file the guest removed
Hole    == "hole"       \* contents of a file that is being copied
Fresh   == "fresh"      \* attributes of a file just made: 0200, root's
Normal  == "normal"     \* attributes of the guests' files

ASSUME HashifyAssumption ==
    /\ Options \subseteq SUBSET AllOptions
    /\ Faults \subseteq {"copy", "link", "crash"}
    /\ MaxCrash \in Nat /\ MaxIdx \in Nat
    /\ Inode \subseteq Nat \ {0} /\ IsFiniteSet(Inode) /\ 1 .. Cardinality(Guest) \subseteq Inode
    /\ MaxEvents \in Nat
    /\ Gone \notin Contents

VARIABLES
    file,       \* file[g]: the inode of the file of guest g
    hash,       \* hash[c][i]: the inode of the name <hash of c>-<i>
    tmp,        \* tmp[p]: the inode of the name <dst>;XXXXXX instance p made
    litter,     \* inodes of such names whose instance was killed
    content,    \* content[n]: what is in inode n
    attr,       \* attr[n]: the attributes of inode n
    full,       \* full[n]: the size of inode n is that of a guest's file
    iunlink,    \* iunlink[n]: inode n has the flags IUNLINK and IMMUTABLE
    pc,         \* pc[p]: the next step of instance p
    opts,       \* opts[p]: the options it was given
    guest,      \* guest[p]: the guest whose file it works on
    st,         \* st[p]: the inode found by lstat
    sum,        \* sum[p]: the hash, here the contents it was made of
    idx,        \* idx[p]: the counter of resolveCollisions
    new,        \* new[p]: hash_st.st_size = 0: the hash file is to be made
    fd,         \* fd[p]: source and destination of the copy
    want,       \* want[g]: the contents guest g gave its file
    had,        \* had[g]: all the contents it ever gave it
    raced,      \* the guests that did so while an instance worked on the file
    crashes,    \* how many instances were killed
    changes     \* how often guests changed a file

fsVars   == <<file, hash, tmp, litter, content, attr, full, iunlink>>
procVars == <<pc, opts, guest, st, sum, idx, new, fd>>
envVars  == <<want, had, raced, crashes, changes>>
vars     == <<fsVars, procVars, envVars>>

Steps == {"off", "stat", "hash", "resolve", "create", "doit", "copyopen",
          "copymem", "copymodes", "setiattr", "lstat", "rename", "zero", "link",
          "untmp", "failed"}

\* The variables have their types.
TypeOK ==
    /\ file \in [Guest -> Inode \cup {NoInode}]
    /\ hash \in [Contents -> [0 .. MaxIdx -> Inode \cup {NoInode}]]
    /\ tmp \in [Proc -> Inode \cup {NoInode}] /\ litter \subseteq Inode
    /\ content \in [Inode -> Contents \cup {Hole}]
    /\ attr \in [Inode -> {Fresh, Normal}]
    /\ full \in [Inode -> BOOLEAN] /\ iunlink \in [Inode -> BOOLEAN]
    /\ pc \in [Proc -> Steps] /\ opts \in [Proc -> SUBSET AllOptions]
    /\ guest \in [Proc -> Guest \cup {None}] /\ want \in [Guest -> Contents \cup {Gone}]
    /\ had \in [Guest -> SUBSET Contents] /\ raced \subseteq Guest
    /\ st \in [Proc -> Inode \cup {NoInode}]
    /\ sum \in [Proc -> Contents \cup {None}] /\ idx \in [Proc -> 0 .. MaxIdx]
    /\ new \in [Proc -> BOOLEAN]
    /\ fd \in [Proc -> [src : Inode \cup {NoInode}, dst : Inode \cup {NoInode}]]
    /\ crashes \in 0 .. MaxCrash /\ changes \in 0 .. MaxEvents
    /\ \A p \in Proc : tmp[p] # NoInode => pc[p] \in {"link", "untmp"}

Closed == [src |-> NoInode, dst |-> NoInode]

Init ==
    /\ file \in {f \in [Guest -> 1 .. Cardinality(Guest)] :
                    \A g, h \in Guest : g # h => f[g] # f[h]}
    /\ want \in [Guest -> Contents] /\ had = [g \in Guest |-> {want[g]}]
    /\ raced = {} /\ opts = [p \in Proc |-> {}]
    /\ content = [n \in Inode |-> IF \E g \in Guest : file[g] = n
                                  THEN want[CHOOSE g \in Guest : file[g] = n] ELSE Hole]
    /\ attr    = [n \in Inode |-> IF \E g \in Guest : file[g] = n THEN Normal ELSE Fresh]
    /\ full    = [n \in Inode |-> \E g \in Guest : file[g] = n]
    /\ iunlink = [n \in Inode |-> FALSE]
    /\ hash = [c \in Contents |-> [i \in 0 .. MaxIdx |-> NoInode]]
    /\ tmp = [p \in Proc |-> NoInode] /\ litter = {}
    /\ pc = [p \in Proc |-> "off"] /\ guest = [p \in Proc |-> None]
    /\ st = [p \in Proc |-> NoInode] /\ sum = [p \in Proc |-> None]
    /\ idx = [p \in Proc |-> 0] /\ new = [p \in Proc |-> FALSE]
    /\ fd = [p \in Proc |-> Closed]
    /\ crashes = 0 /\ changes = 0

-----------------------------------------------------------------------------
(* Names and inodes.                                                       *)

Name(p)  == hash[sum[p]][idx[p]]        \* the hash file instance p is at
Names(n) == Cardinality({g \in Guest : file[g] = n})
            + Cardinality({p \in Proc : tmp[p] = n})
            + (IF n \in litter THEN 1 ELSE 0)
            + Cardinality({e \in Contents \X (0 .. MaxIdx) : hash[e[1]][e[2]] = n})

Used == {file[g] : g \in Guest} \cup {hash[c][i] : c \in Contents, i \in 0 .. MaxIdx}
            \cup {tmp[p] : p \in Proc} \cup litter
            \cup {fd[p].src : p \in Proc} \cup {fd[p].dst : p \in Proc}
            \cup {st[p] : p \in Proc}

\* A free inode, which is none that an instance remembers from lstat; and a new
\* file of the given kind under it.
FreeInode == CHOOSE n \in Inode \ Used : \A m \in Inode \ Used : n <= m
Make(n, c, a, f) ==
    /\ n \in Inode \ Used
    /\ content' = [content EXCEPT ![n] = c]
    /\ attr'    = [attr EXCEPT ![n] = a]
    /\ full'    = [full EXCEPT ![n] = f]
    /\ iunlink' = [iunlink EXCEPT ![n] = FALSE]

SetName(p, n) == hash' = [hash EXCEPT ![sum[p]][idx[p]] = n]

GoTo(p, l) == pc' = [pc EXCEPT ![p] = l]

\* The instance leaves this file alone, or is through with it.
Done(p) ==
    /\ GoTo(p, "off")
    /\ opts'  = [opts EXCEPT ![p] = {}]
    /\ st'    = [st EXCEPT ![p] = NoInode]
    /\ idx'   = [idx EXCEPT ![p] = 0]
    /\ new'   = [new EXCEPT ![p] = FALSE]
    /\ fd'    = [fd EXCEPT ![p] = Closed]
    /\ sum'   = [sum EXCEPT ![p] = None]
    /\ guest' = [guest EXCEPT ![p] = None]

-----------------------------------------------------------------------------
(* checkDirEntry                                                           *)

\* The next file of an instance, or the first one of another.
visit(p, g, o) ==
    /\ pc[p] = "off" /\ GoTo(p, "stat")
    /\ opts'  = [opts EXCEPT ![p] = o]
    /\ guest' = [guest EXCEPT ![p] = g]
    /\ UNCHANGED <<fsVars, st, sum, idx, new, fd, envVars>>

\* checkFstat: lstat and Unify_isIUnlinkable
checkFstat(p) ==
    /\ pc[p] = "stat"
    /\ LET n == file[guest[p]]
       IN  IF n = NoInode \/ (iunlink[n] /\ Names(n) > 1 /\ "refresh" \notin opts[p])
           THEN Done(p)
           ELSE /\ st' = [st EXCEPT ![p] = n] /\ GoTo(p, "hash")
                /\ UNCHANGED <<opts, guest, sum, idx, new, fd>>
    /\ UNCHANGED <<fsVars, envVars>>

\* calculateHash: the file opened must be the one found.
calculateHash(p) ==
    /\ pc[p] = "hash"
    /\ IF file[guest[p]] = st[p]
       THEN /\ sum' = [sum EXCEPT ![p] = content[st[p]]] /\ GoTo(p, "resolve")
            /\ UNCHANGED <<opts, guest, st, idx, new, fd>>
       ELSE Done(p)
    /\ UNCHANGED <<fsVars, envVars>>

isUnifyable(m, n) == m # n /\ attr[m] = attr[n] /\ full[m] = full[n]

\* resolveCollisions: look at the next name.
resolveCollisions(p) ==
    /\ pc[p] = "resolve"
    /\ \/ /\ Name(p) = NoInode
          /\ GoTo(p, "create") /\ new' = [new EXCEPT ![p] = TRUE]
          /\ UNCHANGED <<opts, guest, st, sum, idx, fd>>
       \/ Name(p) = st[p] /\ Done(p)
       \/ /\ Name(p) \notin {NoInode, st[p]} /\ isUnifyable(st[p], Name(p))
          /\ GoTo(p, "setiattr") /\ new' = [new EXCEPT ![p] = FALSE]
          /\ UNCHANGED <<opts, guest, st, sum, idx, fd>>
       \/ /\ Name(p) \notin {NoInode, st[p]} /\ ~isUnifyable(st[p], Name(p))
          /\ idx[p] < MaxIdx /\ idx' = [idx EXCEPT ![p] = @ + 1]
          /\ UNCHANGED <<pc, opts, guest, st, sum, new, fd>>
    /\ UNCHANGED <<fsVars, envVars>>

\* open(O_EXCL|O_CREAT): an empty file takes the name.
createHashFile(p) ==
    /\ pc[p] = "create"
    /\ IF Name(p) # NoInode
       THEN Done(p) /\ UNCHANGED fsVars
       ELSE /\ SetName(p, FreeInode) /\ Make(FreeInode, Hole, Fresh, FALSE)
            /\ GoTo(p, "doit")
            /\ UNCHANGED <<file, tmp, litter, opts, guest, st, sum, idx, new, fd>>
    /\ UNCHANGED envVars

-----------------------------------------------------------------------------
(* doit                                                                    *)

Sledge(p) == "sledgehammer" \in opts[p]

\* The first file with this hash: unlink the empty file and copy, or link the
\* guest's own file.
doit(p) ==
    /\ pc[p] = "doit"
    /\ IF Sledge(p) THEN GoTo(p, "setiattr") /\ UNCHANGED hash
                 ELSE GoTo(p, "copyopen") /\ SetName(p, NoInode)
    /\ UNCHANGED <<file, tmp, litter, content, attr, full, iunlink, opts, guest, st,
                   sum, idx, new, fd, envVars>>

\* Fault: the file opened need not be the one the hash is of.
copyOpen_NoVerify(p) ==
    /\ pc[p] = "copyopen"
    /\ IF file[guest[p]] = NoInode \/ Name(p) # NoInode
       THEN GoTo(p, "failed") /\ UNCHANGED <<fsVars, fd>>
       ELSE /\ SetName(p, FreeInode) /\ Make(FreeInode, Hole, Fresh, TRUE)
            /\ GoTo(p, "copymem")
            /\ fd' = [fd EXCEPT ![p] = [src |-> file[guest[p]], dst |-> FreeInode]]
            /\ UNCHANGED <<file, tmp, litter>>
    /\ UNCHANGED <<opts, guest, st, sum, idx, new, envVars>>

\* copyReg: open both, verifySource, ftruncate
copyOpen(p) ==
    /\ pc[p] = "copyopen"
    /\ IF file[guest[p]] = NoInode \/ Name(p) # NoInode
       THEN GoTo(p, "failed") /\ UNCHANGED <<fsVars, fd>>
       ELSE /\ SetName(p, FreeInode) /\ Make(FreeInode, Hole, Fresh, TRUE)
            /\ IF file[guest[p]] = st[p]
               THEN /\ GoTo(p, "copymem")
                    /\ fd' = [fd EXCEPT ![p] = [src |-> st[p], dst |-> FreeInode]]
               ELSE GoTo(p, "failed") /\ UNCHANGED fd
            /\ UNCHANGED <<file, tmp, litter>>
    /\ UNCHANGED <<opts, guest, st, sum, idx, new, envVars>>

\* copyMMap
copyMem(p) ==
    /\ pc[p] = "copymem"
    /\ \/ /\ content' = [content EXCEPT ![fd[p].dst] = content[fd[p].src]]
          /\ GoTo(p, "copymodes")
       \/ "copy" \in Faults /\ GoTo(p, "failed") /\ UNCHANGED content
    /\ fd' = [fd EXCEPT ![p] = Closed]
    /\ UNCHANGED <<file, hash, tmp, litter, attr, full, iunlink, opts, guest, st, sum,
                   idx, new, envVars>>

\* setModes and Unify_setTime, by name
copyModes(p) ==
    /\ pc[p] = "copymodes"
    /\ IF Name(p) = NoInode
       THEN GoTo(p, "failed") /\ UNCHANGED attr
       ELSE GoTo(p, "setiattr") /\ attr' = [attr EXCEPT ![Name(p)] = Normal]
    /\ UNCHANGED <<file, hash, tmp, litter, content, full, iunlink, opts, guest, st,
                   sum, idx, new, fd, envVars>>

-----------------------------------------------------------------------------
(* Unify_unify(src, dst): the hash file is linked to the guest's name; with *)
(* --sledgehammer a first file is linked the other way round.              *)

Reversed(p) == Sledge(p) /\ new[p]
Source(p)   == IF Reversed(p) THEN file[guest[p]] ELSE Name(p)
Target(p)   == IF Reversed(p) THEN Name(p) ELSE file[guest[p]]

SetTarget(p, n) ==
    IF Reversed(p) THEN SetName(p, n) /\ UNCHANGED file
                   ELSE file' = [file EXCEPT ![guest[p]] = n] /\ UNCHANGED hash

\* Fault: the flags are not set.
unifySetIattr_Not(p) ==
    /\ pc[p] = "setiattr"
    /\ GoTo(p, IF Source(p) = NoInode THEN "failed" ELSE "lstat")
    /\ UNCHANGED <<fsVars, opts, guest, st, sum, idx, new, fd, envVars>>

\* vc_set_iattr, by name
unifySetIattr(p) ==
    /\ pc[p] = "setiattr"
    /\ IF Source(p) = NoInode
       THEN GoTo(p, "failed") /\ UNCHANGED iunlink
       ELSE GoTo(p, "lstat") /\ iunlink' = [iunlink EXCEPT ![Source(p)] = TRUE]
    /\ UNCHANGED <<file, hash, tmp, litter, content, attr, full, opts, guest, st, sum,
                   idx, new, fd, envVars>>

\* lstat(dst): a backup is made of everything but an empty file that is to be
\* replaced by the first file.
unifyLstat(p) ==
    /\ pc[p] = "lstat"
    /\ GoTo(p, IF Target(p) = NoInode THEN "link"
               ELSE IF full[Target(p)] \/ ~Reversed(p) THEN "rename" ELSE "zero")
    /\ UNCHANGED <<fsVars, opts, guest, st, sum, idx, new, fd, envVars>>

\* Fault: the target is unlinked and not renamed.
unifyRename_Unlink(p) ==
    /\ pc[p] = "rename"
    /\ SetTarget(p, NoInode) /\ GoTo(p, "link")
    /\ UNCHANGED <<tmp, litter, content, attr, full, iunlink, opts, guest, st, sum,
                   idx, new, fd, envVars>>

\* mkstemp and rename(dst, tmpfile)
unifyRename(p) ==
    /\ pc[p] = "rename"
    /\ IF Target(p) = NoInode
       THEN GoTo(p, "failed") /\ UNCHANGED <<file, hash, tmp>>
       ELSE /\ tmp' = [tmp EXCEPT ![p] = Target(p)] /\ SetTarget(p, NoInode)
            /\ GoTo(p, "link")
    /\ UNCHANGED <<litter, content, attr, full, iunlink, opts, guest, st, sum, idx,
                   new, fd, envVars>>

\* unlink(dst)
unifyZero(p) ==
    /\ pc[p] = "zero"
    /\ SetTarget(p, NoInode) /\ GoTo(p, "link")
    /\ UNCHANGED <<tmp, litter, content, attr, full, iunlink, opts, guest, st, sum,
                   idx, new, fd, envVars>>

\* link(src, dst) succeeds.
LinkDone(p) ==
    /\ Source(p) # NoInode /\ Target(p) = NoInode
    /\ SetTarget(p, Source(p)) /\ GoTo(p, "untmp") /\ UNCHANGED tmp

\* It fails: for a missing source or a target that is there, or, as with
\* EMLINK, for a reason of its own.
LinkFails(p) ==
    /\ Source(p) = NoInode \/ Target(p) # NoInode \/ "link" \in Faults
    /\ tmp' = [tmp EXCEPT ![p] = NoInode] /\ GoTo(p, "failed")

\* link(src, dst); when it fails, unlink(dst) and rename(tmpfile, dst)
unifyLink(p) ==
    /\ pc[p] = "link"
    /\ LinkDone(p) \/ (LinkFails(p) /\ SetTarget(p, tmp[p]))
    /\ UNCHANGED <<litter, content, attr, full, iunlink, opts, guest, st, sum, idx,
                   new, fd, envVars>>

\* Fault: the temporary name stays.
unifyUntmp_Left(p) ==
    /\ pc[p] = "untmp" /\ Done(p)
    /\ UNCHANGED <<fsVars, envVars>>

\* unlink(tmpfile)
unifyUntmp(p) ==
    /\ pc[p] = "untmp" /\ tmp' = [tmp EXCEPT ![p] = NoInode]
    /\ Done(p)
    /\ UNCHANGED <<file, hash, litter, content, attr, full, iunlink, envVars>>

\* "cleanup in error-case" of doit
cleanup(p) ==
    /\ pc[p] = "failed"
    /\ IF new[p] THEN SetName(p, NoInode) ELSE UNCHANGED hash
    /\ Done(p)
    /\ UNCHANGED <<file, tmp, litter, content, attr, full, iunlink, envVars>>

-----------------------------------------------------------------------------
(* What happens besides.                                                   *)

Room == crashes + changes < MaxEvents

\* An instance is killed; its temporary name stays.
crash(p) ==
    /\ "crash" \in Faults /\ crashes < MaxCrash /\ Room /\ pc[p] # "off"
    /\ litter' = litter \cup ({tmp[p]} \ {NoInode})
    /\ tmp' = [tmp EXCEPT ![p] = NoInode]
    /\ crashes' = crashes + 1
    /\ Done(p)
    /\ UNCHANGED <<file, hash, content, attr, full, iunlink, want, had, raced, changes>>

Workers(g) == {p \in Proc : pc[p] # "off" /\ guest[p] = g}

\* A guest changes what is under the name of its file; the ones given to an
\* instance with --sledgehammer do not run.
Change(g, c) ==
    /\ Room /\ changes' = changes + 1
    /\ \A p \in Workers(g) : ~Sledge(p)
    /\ raced' = IF Workers(g) = {} THEN raced ELSE raced \cup {g}
    /\ want' = [want EXCEPT ![g] = c]
    /\ had'  = [had EXCEPT ![g] = @ \cup ({c} \ {Gone})]

\* The guest writes to its file while no instance works on it; the kernel copies a file with IUNLINK first.
guestWrites(g, c) ==
    /\ Workers(g) = {} /\ file[g] # NoInode /\ c # want[g]
    /\ Change(g, c)
    /\ IF iunlink[file[g]]
       THEN /\ file' = [file EXCEPT ![g] = FreeInode]
            /\ Make(FreeInode, c, Normal, TRUE)
       ELSE /\ content' = [content EXCEPT ![file[g]] = c]
            /\ UNCHANGED <<file, attr, full, iunlink>>
    /\ UNCHANGED <<hash, tmp, litter, procVars, crashes>>

\* The guest puts a new file in the place of its file, or where none is.
guestReplaces(g, c) ==
    /\ c # want[g] /\ Change(g, c)
    /\ file' = [file EXCEPT ![g] = FreeInode] /\ Make(FreeInode, c, Normal, TRUE)
    /\ UNCHANGED <<hash, tmp, litter, procVars, crashes>>

\* The guest removes its file.
guestRemoves(g) ==
    /\ file[g] # NoInode /\ Change(g, Gone)
    /\ file' = [file EXCEPT ![g] = NoInode]
    /\ UNCHANGED <<hash, tmp, litter, content, attr, full, iunlink, procVars, crashes>>

-----------------------------------------------------------------------------
ProcStep(p) ==
    \/ checkFstat(p) \/ calculateHash(p) \/ resolveCollisions(p)
    \/ createHashFile(p) \/ doit(p) \/ copyOpen(p) \/ copyMem(p) \/ copyModes(p)
    \/ unifySetIattr(p) \/ unifyLstat(p) \/ unifyRename(p) \/ unifyZero(p)
    \/ unifyLink(p) \/ unifyUntmp(p) \/ cleanup(p)

Next == \/ \E p \in Proc : \/ \E g \in Guest, o \in Options : visit(p, g, o)
                           \/ ProcStep(p)
                           \/ crash(p)
        \/ \E g \in Guest : \/ \E c \in Contents : guestWrites(g, c) \/ guestReplaces(g, c)
                            \/ guestRemoves(g)

Spec == Init /\ [][Next]_vars

-----------------------------------------------------------------------------
(* Properties.                                                             *)

\* What a guest finds under the name of its file is what it last put there,
\* with the attributes it had: hashifying changes the inode and nothing else,
\* unless the guest itself changes the file at the same time.
ContentPreserved ==
    \A g \in Guest \ raced : file[g] # NoInode =>
        /\ content[file[g]] = want[g] /\ attr[file[g]] = Normal /\ full[file[g]]

\* Even a guest that goes on working finds nothing under that name but a whole
\* file it wrote itself at some time, never one of another guest's or a part.
OwnContents ==
    \A g \in Guest : file[g] # NoInode =>
        /\ content[file[g]] \in had[g] /\ attr[file[g]] = Normal /\ full[file[g]]

\* vhashify and Unify_unify change the inode of a guest's file and nothing the
\* guest can see, whether the guest goes on working or not.
ContentsKept == ContentPreserved /\ OwnContents

\* A file of the hash directory that resolveCollisions would take for the file
\* of its name is that: neither an unfinished copy nor one with other contents.
HashDirSound ==
    \A c \in Contents, i \in 0 .. MaxIdx :
        LET n == hash[c][i]
        IN  n # NoInode /\ attr[n] = Normal /\ full[n] => content[n] = c

\* A file that several guests share, or a guest and the hash directory, has the
\* flags that keep one guest from changing it for the others.
SharedIsProtected ==
    \A g \in Guest : file[g] # NoInode =>
        \/ iunlink[file[g]]
        \/ /\ \A h \in Guest \ {g} : file[h] # file[g]
           /\ \A c \in Contents, i \in 0 .. MaxIdx : hash[c][i] # file[g]

\* What is shared may be shared: the hash directory has whole files of the right
\* contents (resolveCollisions), and a shared file has its flags (Unify_unify).
SharingIsSound == HashDirSound /\ SharedIsProtected

\* The contents of a guest's file are at any moment under its name or under the
\* temporary one, and after a kill they still are.
NothingLost ==
    \A g \in Guest \ raced :
        \/ file[g] # NoInode \/ want[g] = Gone
        \/ \E n \in litter \cup {tmp[p] : p \in Proc} :
              n # NoInode /\ content[n] = want[g] /\ full[n]

\* When no instance is at work and none was killed, a file is there unless its
\* guest removed it or interfered, and no temporary name is left.
FileIsThere ==
    (\A p \in Proc : pc[p] = "off") /\ crashes = 0 =>
        /\ \A g \in Guest \ raced : want[g] # Gone => file[g] # NoInode
        /\ \A p \in Proc : tmp[p] = NoInode

\* No file is lost, at any moment, by a failure or by a kill (Unify_unify).
FilesKept == NothingLost /\ FileIsThere
=============================================================================
