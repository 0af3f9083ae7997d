------------------------------- MODULE Mounts -------------------------------
(***************************************************************************)
(* secure-mount and secure-umount (src/secure-mount.c,                     *)
(* src/secure-umount.c).  The entries of a fstab, or the one entry of the  *)
(* command line, are mounted below the current directory: the destination  *)
(* is looked up inside of a chroot to that directory, the mount itself is  *)
(* done outside again.  Flags and options are sets of names; an entry is   *)
(* [src, dst, type, opts], where src says whether it is a file and dst is  *)
(* "/", "/d" or "/d/e".                                                    *)
(***************************************************************************)
EXTENDS Naturals, Sequences, SequencesExt

CONSTANTS
    Fstabs,     \* the fstabs, sequences of entries; the type of a line may also
                \* be "comment" or "syntax", for one that is no entry
    Opts        \* struct Options: all, chroot, mtab, trigger and rootfs

VARIABLES
    opt, bme,   \* the options; the kernel has vcFEATURE_BME
    fstab, i,   \* the lines and the one that is looked at
    pc, mnt,    \* where the program is; struct MountInfo
    root, cwd,  \* the root and the current directory: "host" or "guest"
    curdir,     \* what cur_dir_fd is: the directory before or after a mount on "/"
    mounts,     \* what is mounted: line, where, below what, flags
    mtab,       \* the lines in the mtab, with the root it was opened in
    failed,     \* lines that could not be mounted
    code        \* exit code, 2 when there is none yet

vars == <<opt, bme, fstab, i, pc, mnt, root, cwd, curdir, mounts, mtab, failed, code>>

NoMnt == [line |-> 0]

Init ==
    /\ opt \in Opts /\ bme \in BOOLEAN /\ fstab \in Fstabs
    /\ ~opt.all => Len(fstab) = 1 /\ fstab[1].type \notin {"comment", "syntax"}
    /\ i = 1 /\ pc = "line" /\ mnt = NoMnt
    /\ root = "host" /\ cwd = "guest" /\ curdir = "old"
    /\ mounts = << >> /\ mtab = {} /\ failed = {} /\ code = 2

-----------------------------------------------------------------------------
(* Options.                                                                *)

Known == {"defaults", "rbind", "bind", "move", "async", "sync", "atime", "noatime", "dev",
          "nodev", "exec", "noexec", "suid", "nosuid", "ro", "rw", "remount", "users",
          "mandlock", "nodiratime", "dirsync", "_netdev", "auto", "noauto", "nouser",
          "rec", "unbindable", "private", "slave", "shared", "nomtab"}

\* Options that take a flag away, and those that stand for more than themselves.
Clears == [async |-> "sync", atime |-> "noatime", dev |-> "nodev", exec |-> "noexec",
           suid |-> "nosuid", rw |-> "ro"]
Several == [defaults |-> {"nodev"}, rbind |-> {"bind", "rec"},
            users |-> {"noexec", "nosuid", "nodev"}]
Nothing == {"_netdev", "auto", "noauto", "nouser", "nomtab"}

\* FSTAB_OPTIONS: flag, mask and xflag
Flag(o) == CASE o \in DOMAIN Several -> Several[o]
             [] o \in DOMAIN Clears \cup Nothing -> {}
             [] OTHER -> {o}
Mask(o) == CASE o = "defaults" -> {"ro", "nosuid", "nodev", "noexec", "sync"}
             [] o \in DOMAIN Clears -> {Clears[o]}
             [] OTHER -> Flag(o)
Xflag(o) == {o} \cap {"noauto", "nomtab"}

\* searchOption compares as many characters as the option has, and takes the
\* first row: a beginning of a name is that name, "user" is "users".
Begins == [user |-> "users", no |-> "noatime", r |-> "rbind", s |-> "sync"]
searchOption(o) == IF o \in DOMAIN Begins THEN Begins[o] ELSE o

\* transformOptionList: &= ~mask and |= flag for one option after the other, so that
\* the last one that says something of a flag decides.  What is not known goes to the
\* file system.
Rows(opts) == {j \in DOMAIN opts : searchOption(opts[j]) \in Known}

Takes(o, f) == f \in Mask(o) \ Flag(o)

transformOptionList(flag, opts) ==
    LET Stays(f, j) == \A n \in Rows(opts) : n > j => ~Takes(searchOption(opts[n]), f)
    IN  {f \in flag : Stays(f, 0)}
        \cup UNION {{f \in Flag(searchOption(opts[j])) : Stays(f, j)} : j \in Rows(opts)}

\* A mount over a file: the destination is split at its last slash.
adjustFileMount(entry) ==
    IF entry.src # "file" THEN entry.dst ELSE IF entry.dst = "/d/e" THEN "/d" ELSE ""

MountInfo(k) ==
    LET e == fstab[k]
        devpts == opt.all /\ e.type = "devpts"
        rows == {searchOption(e.opts[j]) : j \in Rows(e.opts)}
    IN  [line |-> k, dst |-> adjustFileMount(e), type |-> e.type,
         flag  |-> transformOptionList(IF devpts THEN {} ELSE {"nodev"}, e.opts),
         mask  |-> (IF devpts THEN {"nodev"} ELSE {}) \cup UNION {Mask(o) : o \in rows},
         xflag |-> (IF e.src = "file" THEN {"file"} ELSE {}) \cup UNION {Xflag(o) : o \in rows}]

\* What mount(2) does with the flags and propagation of mounts that are there.
Moves == {"move", "shared", "slave", "private", "unbindable"}

Local == {"tmpfs", "sysfs", "proc", "sockfs", "pipefs", "futexfs", "inotifyfs", "devpts", "ext3",
          "ext2", "ramfs", "hugetlbfs", "usbfs", "binfmt_misc"}

canHandleInternal(m) == m.flag \cap (Moves \cup {"bind"}) # {} \/ m.type \in Local

-----------------------------------------------------------------------------
(* The program.                                                            *)

Exit(c) == pc' = "ended" /\ code' = c

SyntaxError == Exit(1)

\* mountFstab, parseFstabLine: the next line, or the end
line ==
    /\ pc = "line"
    /\ IF i > Len(fstab) THEN Exit(0) /\ UNCHANGED <<i, mnt, cwd>>
       ELSE IF fstab[i].type = "syntax" THEN SyntaxError /\ UNCHANGED <<i, mnt, cwd>>
       ELSE LET m      == MountInfo(i)
                isRoot == fstab[i].dst = "/"
                ignore == \/ fstab[i].type \in {"comment", "swap"}
                          \/ "noauto" \in m.xflag /\ ~opt.trigger
                          \/ isRoot /\ opt.rootfs = "no"
                          \/ ~isRoot /\ opt.rootfs = "only"
            IN  IF opt.all /\ ignore
                THEN i' = i + 1 /\ UNCHANGED <<pc, mnt, cwd, code>>
                ELSE /\ mnt' = m /\ pc' = (IF opt.trigger THEN "trigger" ELSE "chroot")
                     /\ cwd' = IF opt.all THEN "host" ELSE cwd
                     /\ UNCHANGED <<i, code>>
    /\ UNCHANGED <<opt, bme, fstab, root, curdir, mounts, mtab, failed>>

\* An entry that fails is reported; with -a the next one is tried, and the
\* exit code does not tell.
EntryEnds(ok) ==
    /\ failed' = IF ok THEN failed ELSE failed \cup {mnt.line}
    /\ i' = i + 1
    /\ IF opt.all THEN pc' = "line" /\ UNCHANGED code ELSE Exit(IF ok THEN 0 ELSE 1)

\* stat of the source; nothing is mounted
triggerAutomount ==
    /\ pc = "trigger" /\ \E ok \in BOOLEAN : EntryEnds(ok)
    /\ UNCHANGED <<opt, bme, fstab, mnt, root, cwd, curdir, mounts, mtab>>

\* secureChdir, first half: fchroot(cur_dir_fd)
secureChroot ==
    /\ pc \in {"chroot", "chroot2"}
    /\ \/ /\ root' = (IF opt.chroot THEN "guest" ELSE root)
          /\ pc' = (IF pc = "chroot" THEN "chdir" ELSE "chdir2") /\ UNCHANGED <<i, failed, code>>
       \/ opt.chroot /\ EntryEnds(FALSE) /\ UNCHANGED root
    /\ UNCHANGED <<opt, bme, fstab, mnt, cwd, curdir, mounts, mtab>>

\* Fault: the root is not restored when the destination is not there.
BackRoot_Forgotten == root

\* restoreRoot
BackRoot == IF opt.chroot THEN "host" ELSE root

\* restoreRoot fails: nothing goes on
restoreRootFails ==
    /\ pc \in {"chdir", "chdir2", "mtab"} /\ opt.chroot /\ Exit(1)
    /\ UNCHANGED <<opt, bme, fstab, i, mnt, root, cwd, curdir, mounts, mtab, failed>>

\* chdir under the root of now
Inside == IF opt.chroot THEN root ELSE "host"

\* secureChdir, second half: chdir, open, restoreRoot, fchdir
secureChdir ==
    /\ pc \in {"chdir", "chdir2"}
    /\ \/ /\ mnt.dst # "" /\ cwd' = Inside /\ root' = BackRoot
          /\ pc' = (IF pc = "chdir" THEN "mount" ELSE "remount") /\ UNCHANGED <<i, failed, code>>
       \/ root' = BackRoot /\ EntryEnds(FALSE) /\ UNCHANGED cwd
    /\ UNCHANGED <<opt, bme, fstab, mnt, curdir, mounts, mtab>>

\* A bind mount has the flags of its source, and a mount that is moved or whose
\* propagation changes keeps its own.
KernelFlags == IF mnt.flag \cap (Moves \cup {"bind"}) # {} THEN {} ELSE mnt.flag

NeedsRemount == ~bme /\ "bind" \in mnt.flag /\ mnt.mask \ {"bind", "rec"} # {}

\* the hack for "/": the directory is looked up again by its name
NewCurdir == IF fstab[mnt.line].dst = "/" /\ mnt.dst = "/" THEN "new" ELSE curdir

Mounted(flags, cur) == [line |-> mnt.line, where |-> cwd, below |-> cur, flags |-> flags,
                        busy |-> FALSE]

\* mount(2) with the flags and the options nobody knows; after one on "/" the
\* directory may not be found again, or not be opened, which ends all
mountInternal ==
    /\ pc = "mount" /\ canHandleInternal(mnt)
    /\ \/ /\ mounts' = Append(mounts, Mounted(IF bme /\ "bind" \in mnt.flag THEN mnt.flag ELSE KernelFlags, curdir))
          /\ \/ /\ curdir' = NewCurdir
                /\ pc' = (IF NeedsRemount THEN "chroot2" ELSE "mtab") /\ UNCHANGED <<i, failed, code>>
             \/ mnt.dst = "/" /\ EntryEnds(FALSE) /\ UNCHANGED curdir
             \/ mnt.dst = "/" /\ Exit(1) /\ UNCHANGED <<i, failed, curdir>>
       \/ EntryEnds(FALSE) /\ UNCHANGED <<mounts, curdir>>
    /\ UNCHANGED <<opt, bme, fstab, mnt, root, cwd, mtab>>

\* in the new mount: EBUSY of older kernels is no error, the flags are as before
remount ==
    /\ pc = "remount"
    /\ \/ /\ \/ mounts' = [mounts EXCEPT ![Len(mounts)].flags = mnt.flag]
             \/ mounts' = [mounts EXCEPT ![Len(mounts)].busy = TRUE]
          /\ pc' = "mtab" /\ UNCHANGED <<i, failed, code>>
       \/ EntryEnds(FALSE) /\ UNCHANGED mounts
    /\ UNCHANGED <<opt, bme, fstab, mnt, root, cwd, curdir, mtab>>

\* The options mount(8) gets: nodev is put before them unless they say something
\* about it.  To mount(8) "defaults" means dev.
ExternalFlags ==
    LET opts == fstab[mnt.line].opts
    IN  IF opts \in {<< >>, <<"defaults">>} THEN {"nodev"}
        ELSE IF "defaults" \in ToSet(opts) THEN mnt.flag \ {"nodev"} ELSE mnt.flag

callExternalMount ==
    /\ pc = "mount" /\ ~canHandleInternal(mnt)
    /\ \/ mounts' = Append(mounts, Mounted(ExternalFlags, curdir)) /\ pc' = "mtab" /\ UNCHANGED <<i, failed, code>>
       \/ EntryEnds(FALSE) /\ UNCHANGED mounts
    /\ UNCHANGED <<opt, bme, fstab, mnt, root, cwd, curdir, mtab>>

MtabRoot == IF opt.chroot THEN "guest" ELSE "host"

\* a failure is reported and no error
updateMtab ==
    /\ pc = "mtab" /\ EntryEnds(TRUE)
    /\ mtab' \in {mtab} \cup (IF opt.mtab /\ "nomtab" \notin mnt.xflag
                              THEN {mtab \cup {<<mnt.line, MtabRoot>>}} ELSE {})
    /\ UNCHANGED <<opt, bme, fstab, mnt, root, cwd, curdir, mounts>>

\* secure-umount: chroot, chdir, back, umount -l of the topmost mount on the
\* directory
secureUmount ==
    /\ pc = "ended" /\ root = "host" /\ mounts # << >>
    /\ mounts' = Front(mounts) /\ pc' = "umounted"
    /\ UNCHANGED <<opt, bme, fstab, i, mnt, root, cwd, curdir, mtab, failed, code>>

Next == \/ line \/ triggerAutomount \/ secureChroot \/ restoreRootFails \/ secureChdir
        \/ mountInternal \/ remount \/ callExternalMount \/ updateMtab \/ secureUmount

Spec == Init /\ [][Next]_vars

-----------------------------------------------------------------------------
\* The variables have their types.
TypeOK ==
    /\ pc \in {"line", "trigger", "chroot", "chroot2", "chdir", "chdir2", "mount", "remount",
               "mtab", "ended", "umounted"}
    /\ {root, cwd} \subseteq {"host", "guest"} /\ curdir \in {"old", "new"}
    /\ code \in 0 .. 2 /\ i \in 1 .. Len(fstab) + 1
    /\ failed \subseteq DOMAIN fstab
    /\ \A k \in DOMAIN mounts : mounts[k].line \in DOMAIN fstab

Entry(m) == fstab[m.line]

\* The options that ask for a bind mount.
Binds == {"bind", "rbind", "r"}

\* Whatever fails, the next entry starts in the root of the host, and with
\* --chroot no destination was looked up anywhere but in the guest.
StaysInside ==
    /\ pc \in {"line", "chroot", "mount", "remount"} => root = "host"
    /\ opt.chroot => \A k \in DOMAIN mounts : mounts[k].where = "guest"

\* A guest gets no device files: every mount is nodev unless "dev" was asked
\* for, it is devpts, or the kernel copies the flags of what is bound or moved.
\* A remount that fails, or is refused by an older kernel, leaves the flags of
\* the source; and with "defaults" and
\* another option mount(8) is told to allow devices.
NodevOr(m) ==
    LET o == ToSet(Entry(m).opts)
    IN  \/ "nodev" \in m.flags
        \/ "dev" \in o
        \/ opt.all /\ Entry(m).type = "devpts"
        \/ /\ ~bme /\ o \cap Binds # {}
           /\ o \cap (Known \cup DOMAIN Begins) \subseteq Binds \cup Nothing \cup {"rec"}
        \/ o \cap Moves # {}
        \/ m.line \in failed \/ code = 1 \/ m.busy
        \/ "defaults" \in o /\ Len(Entry(m).opts) > 1

NodevUnlessAsked == pc \in {"line", "ended"} => \A k \in DOMAIN mounts : NodevOr(mounts[k])

\* The mtab is the guest's own and has nothing that was not mounted.
MtabIsTrue ==
    \A l \in mtab : /\ pc # "umounted" => \E k \in DOMAIN mounts : mounts[k].line = l[1]
                    /\ l[2] = (IF opt.chroot THEN "guest" ELSE "host")

\* What comes after a mount on "/" is mounted on it, not below what it hides,
\* unless mount(8) did it or the entry failed after its mount.
OnNewRoot ==
    \A j, k \in DOMAIN mounts :
        j < k /\ Entry(mounts[j]).dst = "/" /\ Entry(mounts[j]).src = "dir" =>
            \/ mounts[k].below = "new" \/ mounts[j].line \in failed
            \/ /\ Entry(mounts[j]).type \notin Local
               /\ ToSet(Entry(mounts[j]).opts) \cap (Binds \cup Moves) = {}

\* Success means that every line has had its turn, although not that it could
\* be mounted.
AllTried == code = 0 => i > Len(fstab)

\* What they rest on.  Where the program is says which entry it is at, and where its
\* root and its current directory are.
Places ==
    /\ opt \in Opts /\ fstab \in Fstabs /\ bme \in BOOLEAN /\ (~opt.all => Len(fstab) = 1)
    /\ mtab \subseteq Nat \X {"guest", "host"}
    /\ mounts \in Seq([line : Nat, where : {"host", "guest"}, below : {"old", "new"},
                       flags : SUBSET (Known \cup {"file"}), busy : BOOLEAN])
    /\ pc \notin {"line", "ended", "umounted"} => i \in DOMAIN fstab /\ mnt = MountInfo(i)
    /\ code = 2 \/ pc \in {"ended", "umounted"}
    /\ pc \in {"line", "trigger", "chroot", "chroot2", "mount", "remount", "mtab"} => root = "host"
    /\ pc \in {"chdir", "chdir2"} => root = (IF opt.chroot THEN "guest" ELSE "host")
    /\ pc \in {"mount", "remount"} /\ opt.chroot => cwd = "guest"

\* A mount has its flags for good once the remount in the new mount is done.
Bound == {"chroot2", "chdir2", "remount"}

AllNodev ==
    /\ \A k \in DOMAIN mounts : NodevOr(mounts[k]) \/ (pc \in Bound /\ k = Len(mounts))
    /\ pc \in Bound \cup {"mtab"} => mounts # << >> /\ mounts[Len(mounts)].line = mnt.line
    /\ pc \in Bound => "bind" \in mnt.flag

\* Once "/" was mounted cur_dir_fd is the new directory.
Curdir ==
    \A k \in DOMAIN mounts :
        Entry(mounts[k]).dst = "/" /\ Entry(mounts[k]).src = "dir" =>
            \/ curdir = "new" \/ mounts[k].line \in failed \/ pc \in {"ended", "umounted"}
            \/ /\ Entry(mounts[k]).type \notin Local
               /\ ToSet(Entry(mounts[k]).opts) \cap (Binds \cup Moves) = {}

Inv == /\ TypeOK /\ StaysInside /\ MtabIsTrue /\ OnNewRoot /\ AllTried
       /\ Places /\ AllNodev /\ Curdir
=============================================================================
