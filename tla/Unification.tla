----------------------------- MODULE Unification ----------------------------
(***************************************************************************)
(* One file of a guest in the hands of vunify, vunify -R, vcopy or vclone  *)
(* (src/vunify.c, src/vcopy.c, src/vclone.c) and of Unify_deUnify          *)
(* (lib_internal/unify-deunify.c), while the guest that has the file (dst) *)
(* and the reference guest (src) go on working, and the tool may be        *)
(* killed.  A name has an inode, 0 when it is not there.  What stat says   *)
(* of an inode is taken to be the same when the contents are: times and    *)
(* sizes of different files differ.  Writing to a file whose flags are     *)
(* set (IUNLINK and IMMUTABLE) breaks the link: the writer gets a new file.*)
(***************************************************************************)
EXTENDS Naturals, FiniteSets, FiniteSetsExt, Functions

CONSTANT MaxGuest   \* steps of the guests

VARIABLES
    tool, conf,     \* the tool; the answers of the match lists, the kind of file
    pc, result,     \* where the tool is; what came of it
    name,           \* inode of "src", "dst" and "tmp", the temporary file
    content,        \* what is in an inode
    flag,           \* inodes with IUNLINK and IMMUTABLE
    writer,         \* the inode somebody in the reference guest has open
    fd, existed,    \* fd_src of Unify_deUnify; lstat_succeeded
    want,           \* what the guest has in its file, 0: no file
    raced,          \* a guest did something between a check and its use, wrote
                    \* to what it had open, or removed the temporary file
    steps           \* steps of the guests so far

vars == <<tool, conf, pc, result, name, content, flag, writer, fd, existed, want, raced, steps>>

Inode == 1 .. 6
Types == {"include", "exclude", "skip"}

Init ==
    /\ tool \in {"vunify", "revert", "vcopy", "vclone"}
    /\ conf \in [dst : Types, src : Types, kind : {"file", "symlink", "device"}]
    /\ pc = "check" /\ result = "none"
    /\ \E d \in CASE tool = "vunify" -> 1 .. 2
                  [] tool = "revert" -> 1 .. 2
                  [] OTHER -> {0, 2} : name = [src |-> 1, dst |-> d, tmp |-> 0]
    /\ \E c \in 1 .. 2 : content = [i \in Inode |-> IF i = 2 THEN c ELSE 1]
    /\ flag \in (IF name.dst = 1 THEN {{1}} ELSE {{}, {1}})
    /\ writer \in {0, 1} /\ (writer = 1 => flag = {})
    /\ fd = 0 /\ existed = FALSE /\ raced = FALSE /\ steps = 0
    /\ want = IF name.dst = 0 THEN 0 ELSE content[name.dst]

-----------------------------------------------------------------------------
Fresh == Min(Inode \ (Range(name) \cup {fd, writer}))
Goes(l) == pc' = l /\ UNCHANGED result
Ends(r) == pc' = "done" /\ result' = r

\* unlink and rename
Without(n, a)   == [n EXCEPT ![a] = 0]
Renamed(n, a, b) == [n EXCEPT ![b] = n[a], ![a] = 0]

Env == <<tool, conf, writer, want, raced, steps>>

(* The decision of the three tools.                                        *)

\* Unify_isUnified, Unify_isUnifyable
isUnified   == name.src = name.dst
isUnifyable == name.src # name.dst /\ content[name.src] = content[name.dst]

\* vunify.c: both lists include the file, and it is the same or another one
vunifyDecides ==
    IF /\ conf.dst = "include" /\ conf.src = "include" /\ conf.kind = "file"
       /\ name.src # 0 /\ name.dst # 0
       /\ IF tool = "revert" THEN isUnified ELSE isUnifyable
    THEN IF tool = "revert" THEN "open" ELSE "setattr"
    ELSE "skip"

\* vcopy.c: the stronger one of the two answers counts
vcopyDecides ==
    CASE "skip" \in {conf.dst, conf.src} \/ conf.kind = "device" -> "skip"
      [] conf.kind = "symlink" \/ "exclude" \in {conf.dst, conf.src} -> "copy"
      [] OTHER -> "setattr"

\* vclone.c: what is unified already is linked, everything else copied
vcloneDecides ==
    CASE conf.src # "include" \/ name.dst # 0 -> "skip"
      [] conf.kind = "file" /\ name.src \in flag -> "clone"
      [] OTHER -> "copy"

check ==
    /\ pc = "check"
    /\ LET d == CASE tool \in {"vunify", "revert"} -> vunifyDecides
                  [] tool = "vcopy"  -> vcopyDecides
                  [] tool = "vclone" -> vcloneDecides
       IN  IF name.src = 0 \/ d = "skip" THEN Ends("skipped") ELSE Goes(d)
    /\ UNCHANGED <<name, content, flag, fd, existed, Env>>

\* Unify_copy, or link(2) by vclone: both refuse a name that is there
copy ==
    /\ pc \in {"copy", "clone"}
    /\ \/ /\ name.src # 0 /\ name.dst = 0 /\ Ends("ok")
          /\ IF pc = "clone" THEN name' = [name EXCEPT !.dst = name.src] /\ UNCHANGED content
             ELSE /\ name' = [name EXCEPT !.dst = Fresh]
                  /\ content' = [content EXCEPT ![Fresh] = content[name.src]]
          /\ flag' = IF pc = "clone" THEN flag ELSE flag \ {Fresh}
       \/ Ends("failed") /\ UNCHANGED <<name, content, flag>>
    /\ UNCHANGED <<fd, existed, Env>>

-----------------------------------------------------------------------------
(* Unify_unify                                                             *)

\* vc_set_iattr on the source
Flagged == flag \cup {name.src}

setIattr ==
    /\ pc = "setattr"
    /\ \/ name.src # 0 /\ flag' = Flagged /\ Goes("lstat")
       \/ UNCHANGED flag /\ Ends("failed")
    /\ UNCHANGED <<name, content, fd, existed, Env>>

lstat ==
    /\ pc = "lstat" /\ existed' = (name.dst # 0) /\ Goes("backup")
    /\ UNCHANGED <<name, content, flag, fd, Env>>

\* mkstemp and rename to the backup name
backup ==
    /\ pc = "backup"
    /\ \/ /\ existed => name.dst # 0
          /\ name' = IF existed THEN Renamed(name, "dst", "tmp") ELSE name
          /\ Goes("link")
       \/ existed /\ UNCHANGED name /\ Ends("failed")
    /\ UNCHANGED <<content, flag, fd, existed, Env>>

\* Fault: the backup is not put back.
PutBack_Not == Without(name, "dst")

\* unlink(dst) and rename of the backup
PutBack == IF name.tmp # 0 THEN Renamed(name, "tmp", "dst") ELSE Without(name, "dst")

\* a backup that is gone is fatal
link ==
    /\ pc = "link"
    /\ \/ /\ name.dst = 0 /\ name.src # 0
          /\ name' = [name EXCEPT !.dst = name.src] /\ Goes("clean")
       \/ name' = PutBack /\ Ends(IF existed /\ name.tmp = 0 THEN "fatal" ELSE "failed")
    /\ UNCHANGED <<content, flag, fd, existed, Env>>

clean ==
    /\ pc = "clean" /\ name' = Without(name, "tmp") /\ Ends("ok")
    /\ UNCHANGED <<content, flag, fd, existed, Env>>

-----------------------------------------------------------------------------
(* Unify_deUnify                                                           *)

deOpen ==
    /\ pc = "open"
    /\ \/ name.dst # 0 /\ fd' = name.dst /\ Goes("mkstemp")
       \/ UNCHANGED fd /\ Ends("failed")
    /\ UNCHANGED <<name, content, flag, existed, Env>>

\* mkstemp, fchown, fchmod: an empty file
deMkstemp ==
    /\ pc = "mkstemp"
    /\ \/ /\ name' = [name EXCEPT !.tmp = Fresh] /\ content' = [content EXCEPT ![Fresh] = 0]
          /\ flag' = flag \ {Fresh} /\ Goes("read")
       \/ UNCHANGED <<name, content, flag>> /\ Ends("failed")
    /\ UNCHANGED <<fd, existed, Env>>

\* err and err1
Cleaned == Without(name, "tmp")

\* the loop of read and write
deCopy ==
    /\ pc = "read"
    /\ \/ /\ content' = IF name.tmp = 0 THEN content ELSE [content EXCEPT ![name.tmp] = content[fd]]
          /\ Goes("unlink") /\ UNCHANGED name
       \/ name' = Cleaned /\ Ends("failed") /\ UNCHANGED content
    /\ UNCHANGED <<flag, fd, existed, Env>>

\* utime by name, then unlink
deUnlink ==
    /\ pc = "unlink" /\ fd' = 0
    /\ \/ name.tmp # 0 /\ name.dst # 0 /\ name' = Without(name, "dst") /\ Goes("rename")
       \/ name' = Cleaned /\ Ends("failed")
    /\ UNCHANGED <<content, flag, existed, Env>>

\* rename: the temporary file must still be there
deRename ==
    /\ pc = "rename"
    /\ IF name.tmp # 0 THEN name' = Renamed(name, "tmp", "dst") /\ Ends("ok")
                       ELSE UNCHANGED name /\ Ends("fatal")
    /\ UNCHANGED <<content, flag, fd, existed, Env>>

-----------------------------------------------------------------------------
(* The guests and the signal.                                              *)

Window == {"setattr", "lstat", "backup", "link", "mkstemp", "read", "unlink", "rename", "copy", "clone"}

\* A process opens the file n for writing and writes c; with flags it gets a copy.
Write(n, c) ==
    IF name[n] = 0 \/ name[n] \in flag
    THEN /\ name' = [name EXCEPT ![n] = Fresh] /\ content' = [content EXCEPT ![Fresh] = c]
         /\ flag' = flag \ {Fresh}
    ELSE content' = [content EXCEPT ![name[n]] = c] /\ UNCHANGED <<name, flag>>

\* The guest writes, or removes its file, or the temporary one it sees.
guest ==
    /\ steps < MaxGuest /\ steps' = steps + 1
    /\ LET c == 3 + steps
       IN  \/ Write("dst", c) /\ want' = c
           \/ name.dst # 0 /\ name' = Without(name, "dst") /\ want' = 0 /\ UNCHANGED <<content, flag>>
           \/ name.tmp # 0 /\ name' = Without(name, "tmp") /\ UNCHANGED <<want, content, flag>>
    /\ raced' = (raced \/ pc \in Window \/ name'.tmp # name.tmp)
    /\ UNCHANGED <<tool, conf, pc, result, writer, fd, existed>>

\* The reference guest writes by name, removes its file, or writes to the one
\* it has open.
reference ==
    /\ steps < MaxGuest /\ steps' = steps + 1
    /\ LET c == 3 + steps
       IN  \/ name.src # 0 /\ Write("src", c) /\ UNCHANGED writer
           \/ name.src # 0 /\ name' = Without(name, "src") /\ UNCHANGED <<content, flag, writer>>
           \/ writer # 0 /\ content' = [content EXCEPT ![writer] = c] /\ UNCHANGED <<name, flag>> /\ writer' = 0
    /\ raced' = (raced \/ pc \in Window \/ writer' # writer)
    /\ UNCHANGED <<tool, conf, pc, result, fd, existed, want>>

killed ==
    /\ pc # "done" /\ pc' = "done" /\ result' = "killed" /\ fd' = 0
    /\ UNCHANGED <<name, content, flag, existed, Env>>

Next == \/ check \/ copy \/ setIattr \/ lstat \/ backup \/ link \/ clean
        \/ deOpen \/ deMkstemp \/ deCopy \/ deUnlink \/ deRename
        \/ guest \/ reference \/ killed

Spec == Init /\ [][Next]_vars

-----------------------------------------------------------------------------
\* The variables have their types.
TypeOK ==
    /\ DOMAIN name = {"src", "dst", "tmp"} /\ Range(name) \subseteq Inode \cup {0}
    /\ flag \subseteq Inode /\ {writer, fd} \subseteq Inode \cup {0}
    /\ pc \in {"check", "open", "clean", "done"} \cup Window
    /\ result \in {"none", "skipped", "ok", "failed", "fatal", "killed"}
    /\ (result = "none") = (pc # "done")

\* A file two guests share has the flags that keep either of them from writing
\* to it, unless the reference guest replaced its file between the call that
\* sets, or looks at, the flags and link(2): both go by the name.
SharedIsProtected ==
    name.dst # 0 /\ name.dst = name.src /\ ~raced => name.src \in flag

\* Whatever fails and wherever the tool is killed, the guest's file is there
\* with its contents, after a kill maybe under the temporary name; the guest can
\* lose it only by its own doing between a check and its use.  A reference file
\* that is open for writing changes the files unified with it; vcopy puts the
\* reference file in the place of one that is there.
FileIsKept ==
    pc = "done" /\ ~raced /\ want # 0 =>
        \/ name.dst # 0 /\ content[name.dst] = want
        \/ result = "killed" /\ name.tmp # 0 /\ content[name.tmp] = want
        \/ result = "ok" /\ tool = "vcopy"

\* A tool that ends by itself leaves no temporary file, and a file that was
\* de-unified is the guest's own.
Separated ==
    result \in {"ok", "failed"} =>
        /\ name.tmp = 0
        /\ tool = "revert" /\ result = "ok" /\ ~raced => name.dst \in {0} \cup (Inode \ {name.src})

\* What the four of them rest on.  Typed says of functions what TypeOK says of their
\* ranges.
Typed ==
    /\ TypeOK
    /\ tool \in {"vunify", "revert", "vcopy", "vclone"}
    /\ name \in [{"src", "dst", "tmp"} -> Inode \cup {0}] /\ content \in [Inode -> Nat]
    /\ {existed, raced} \subseteq BOOLEAN /\ {want, steps} \subseteq Nat

\* Which tool takes which way.
Ways ==
    /\ pc \in {"open", "mkstemp", "read", "unlink", "rename"} => tool = "revert"
    /\ pc \in {"setattr", "lstat", "backup", "link", "clean"} => tool \in {"vunify", "vcopy"}
    /\ pc \in {"copy", "clone"} => tool \in {"vcopy", "vclone"}

\* The temporary file is nobody else's, and there only between a backup or mkstemp
\* and its end; what is to be unified is not yet.
Apart(n, m) == name[n] = 0 \/ name[n] # name[m]

Names ==
    /\ pc \in {"check", "open", "mkstemp", "setattr", "lstat", "backup", "copy", "clone"} => name.tmp = 0
    /\ pc \in {"mkstemp", "read", "unlink"} => fd # 0
    /\ Apart("tmp", "src") /\ Apart("tmp", "dst")
    /\ pc \in {"setattr", "lstat", "backup", "link"} \/ (pc = "check" /\ tool = "vcopy") => Apart("dst", "src")

\* As long as no guest came between a check and its use: what the tool saw is still
\* so, and the contents of the guest's file are under one of the names.
Kept(n) == name[n] # 0 /\ content[name[n]] = want

Seen ==
    ~raced =>
        /\ pc \in {"lstat", "backup", "link", "clone"} => name.src \in flag
        /\ pc = "backup" => existed = (name.dst # 0)
        /\ pc \in {"mkstemp", "read", "unlink"} => fd = name.dst
        /\ pc \in {"read", "unlink", "rename"} => name.tmp # 0

Contents ==
    ~raced /\ want # 0 =>
        /\ pc \in {"check", "open", "mkstemp", "read", "unlink", "setattr", "lstat", "backup",
                   "copy", "clone"} => Kept("dst")
        /\ pc = "link" => existed /\ Kept("tmp")
        /\ pc \in {"setattr", "lstat", "backup", "link"} /\ tool = "vunify" => Kept("src")
        /\ pc \in {"unlink", "rename"} => Kept("tmp")
        /\ pc = "clean" => Kept("dst") \/ (tool = "vcopy" /\ Kept("tmp"))

Inv == /\ Typed /\ Ways /\ Names /\ Seen /\ Contents
       /\ SharedIsProtected /\ FileIsKept /\ Separated
=============================================================================
