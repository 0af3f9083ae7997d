------------------------------ MODULE FileTools -----------------------------
(***************************************************************************)
(* The tools that walk over the files of a guest: setattr, showattr, chxid *)
(* and lsxid with their common fstool.c, and vdu; while the guest moves a  *)
(* directory away or puts a symbolic link in its place.                    *)
(***************************************************************************)
EXTENDS Naturals, Sequences, SequencesExt, FiniteSets, FiniteSetsExt

CONSTANTS
    Trees,      \* sequence of [id -> [parent, name, type, dev, ino, nlink, hidden, unified, xid,
                \* bad]]: the files; parent "" for the roots "top" and "out"; bad: attributes fail
    Calls,      \* [tree, tool, recurse, dot, dir, local, nounified]: ways of calling
    Tag,        \* the context that vdu and chxid are given
    HASH_SIZE,  \* of vdu
    MaxSteps    \* changes by the guest

VARIABLES
    call, pc,
    now,        \* [id -> "same", "link" (to the outside) or "gone"]: what its name is
    stack,      \* the directories that are open: [dir, loop, left, again]
    cwd,        \* the directory that the process is in
    st,         \* the directory that lstat saw
    handled,    \* the files that were handled, in order
    err,        \* err_cnt
    xid,        \* [id -> the tag of the file]
    ht,         \* vdu: the chains of inodes
    sum,        \* vdu: result.inodes
    steps,
    strayed     \* history: a refused directory has become the current one

vars == <<call, pc, now, stack, cwd, st, handled, err, xid, ht, sum, steps, strayed>>

Start == "top"
Away == "out"
None == "none"
Node == Trees[call.tree]
Files == DOMAIN Node
Outside == {n \in Files : n = Away \/ Node[n].parent = Away \/ (Node[n].parent # "" /\ Node[Node[n].parent].parent = Away)}
Inside == Files \ Outside

\* The names that readdir gives, and what a name stands for in the current directory
Entries(d) == SetToSeq({Node[n].name : n \in {m \in Files : Node[m].parent = d /\ now[m] # "gone"}})
At(name) ==
    LET hit == {n \in Files : Node[n].parent = cwd /\ Node[n].name = name /\ now[n] # "gone"}
    IN  IF hit = {} THEN None ELSE CHOOSE n \in hit : TRUE
IsDir(n) == Node[n].type = "dir" /\ now[n] = "same"
Fstool == call.tool # "vdu"

\* fixupParams of setattr and chxid: dot files count, and directories are entered
\* only with -R
fixupParams(c) ==
    IF c.tool \in {"setattr", "chxid"} THEN [c EXCEPT !.dir = ~c.recurse, !.dot = TRUE] ELSE c

Init ==
    /\ \E c \in Calls : call = fixupParams(c)
    /\ now = [n \in Files |-> "same"] /\ xid = [n \in Files |-> Node[n].xid]
    /\ pc = "start" /\ stack = << >> /\ cwd = Start /\ st = Start /\ handled = << >> /\ err = 0
    /\ ht = [h \in 0 .. HASH_SIZE - 1 |-> << >>] /\ sum = 0 /\ steps = 0 /\ strayed = FALSE

-----------------------------------------------------------------------------
(* The guest.                                                              *)

guest ==
    /\ pc \notin {"start", "end", "fatal"} /\ steps < MaxSteps /\ steps' = steps + 1
    /\ \E n \in Inside \ {Start} :
          /\ Node[n].type = "dir" /\ now[n] = "same"
          /\ \E how \in {"link", "gone"} : now' = [now EXCEPT ![n] = how]
    /\ UNCHANGED <<call, pc, stack, cwd, st, handled, err, xid, ht, sum, strayed>>

-----------------------------------------------------------------------------
(* handleFile of the four tools.                                           *)

\* isUnified of chxid
isUnified(n) == Node[n].unified /\ ~Node[n].bad

\* chxid
handleXid(n) ==
    IF call.tool = "chxid" /\ ~(call.nounified /\ isUnified(n)) /\ ~Node[n].bad
    THEN [xid EXCEPT ![n] = Tag] ELSE xid

\* Whether handleFile fails: what it may find out, as a set.  setattr and chxid set
\* attributes of the file, showattr asks for them.
setattrFile(n) == {Node[n].bad}
showattrFile(n) == {Node[n].bad}
chxidFile(n) == {~(call.nounified /\ isUnified(n)) /\ Node[n].bad}
\* lsxid goes by the mask, which vc_get_iattr_v13 leaves undefined when it fails.
lsxidFile(n) == IF Node[n].bad THEN BOOLEAN ELSE {FALSE}

Failed(n) ==
    CASE call.tool = "setattr" -> setattrFile(n)
      [] call.tool = "showattr" -> showattrFile(n)
      [] call.tool = "chxid" -> chxidFile(n)
      [] call.tool = "lsxid" -> lsxidFile(n)

handleFile(n) ==
    /\ handled' = Append(handled, n)
    /\ xid' = handleXid(n)
    /\ \E failed \in Failed(n) : err' = err + (IF failed THEN 1 ELSE 0)

-----------------------------------------------------------------------------
(* fstool.c                                                                *)

Frame(d) == [dir |-> d, loop |-> 0, left |-> << >>, again |-> FALSE]
Top == stack[Len(stack)]
SetTop(f) == [stack EXCEPT ![Len(stack)] = f]

\* Efchdir(cur_dir) after a directory: back to the one that it was entered from
Back ==
    /\ stack' = Front(stack)
    /\ cwd' = IF Len(stack) > 1 THEN stack[Len(stack) - 1].dir ELSE Start

\* processFile
processFile ==
    /\ pc = "start" /\ Fstool
    /\ IF call.dir THEN handleFile(Start) /\ pc' = "end" /\ UNCHANGED stack
       ELSE pc' = "walk" /\ stack' = <<Frame(Start)>> /\ UNCHANGED <<handled, xid, err>>
    /\ UNCHANGED <<call, now, cwd, st, ht, sum, steps, strayed>>

\* iterateFilesystem: the directory itself first
iterateDot ==
    /\ pc = "walk" /\ Fstool /\ stack # << >> /\ Top.loop = 0
    /\ handleFile(cwd)
    /\ stack' = SetTop([Top EXCEPT !.loop = 1, !.left = Entries(cwd)])
    /\ UNCHANGED <<call, pc, now, cwd, st, ht, sum, steps, strayed>>

\* isSpecialDir: a name with a dot, without -a
isSpecialDir(name) == ~call.dot /\ \E n \in Files : Node[n].name = name /\ Node[n].hidden

\* S_ISDIR(st.st_mode) && do_recurse
Deferred(n) == IsDir(n) /\ call.recurse

Entry == Head(Top.left)
Rest == SetTop([Top EXCEPT !.left = Tail(@)])

\* the files, before the directories
iterateFiles ==
    /\ pc = "walk" /\ Fstool /\ stack # << >> /\ Top.loop = 1 /\ Top.left # << >>
    /\ IF isSpecialDir(Entry) THEN stack' = Rest /\ UNCHANGED <<handled, xid, err>>
       ELSE IF At(Entry) = None THEN stack' = Rest /\ err' = err + 1 /\ UNCHANGED <<handled, xid>>
       ELSE IF Deferred(At(Entry))
       THEN stack' = SetTop([Top EXCEPT !.left = Tail(@), !.again = TRUE]) /\ UNCHANGED <<handled, xid, err>>
       ELSE stack' = Rest /\ handleFile(At(Entry))
    /\ UNCHANGED <<call, pc, now, cwd, st, ht, sum, steps, strayed>>

filesEnd ==
    /\ pc = "walk" /\ Fstool /\ stack # << >> /\ Top.loop = 1 /\ Top.left = << >>
    /\ IF Top.again THEN stack' = SetTop([Top EXCEPT !.loop = 2, !.left = Entries(Top.dir)]) /\ UNCHANGED cwd
       ELSE Back
    /\ UNCHANGED <<call, pc, now, st, handled, err, xid, ht, sum, steps, strayed>>

\* the directories, when there were any; the names are looked up wherever the process is
iterateDirs ==
    /\ pc = "walk" /\ Fstool /\ stack # << >> /\ Top.loop = 2 /\ Top.left # << >>
    /\ stack' = Rest
    /\ LET n == At(Entry)
       IN  IF isSpecialDir(Entry) THEN UNCHANGED <<pc, st, err>>
           ELSE IF n = None THEN err' = err + 1 /\ UNCHANGED <<pc, st>>
           ELSE IF ~IsDir(n) \/ (call.local /\ Node[n].dev # Node[Top.dir].dev) THEN UNCHANGED <<pc, st, err>>
           ELSE pc' = "chdir" /\ st' = n /\ UNCHANGED err
    /\ UNCHANGED <<call, now, cwd, handled, xid, ht, sum, steps, strayed>>

\* Where chdir(2) leads to by the name of a directory
Leads(n) == CASE now[n] = "same" -> n
              [] now[n] = "link" -> Away
              [] OTHER -> None

\* Fault: nobody looks where the name has led.
Accepted_Any(n) == Leads(n) # None

\* safeChdir: whether the process is now in the directory that lstat saw
Accepted(n) ==
    Leads(n) # None /\ Node[Leads(n)].dev = Node[n].dev /\ Node[Leads(n)].ino = Node[n].ino

\* A directory that is not accepted is an error, and the walk goes on from there: the
\* process has already changed into it.
safeChdir ==
    /\ pc = "chdir" /\ Fstool /\ pc' = "walk"
    /\ cwd' = IF Leads(st) = None THEN cwd ELSE Leads(st)
    /\ IF Accepted(st) THEN stack' = Append(stack, Frame(Leads(st))) /\ UNCHANGED <<err, strayed>>
       ELSE err' = err + 1 /\ strayed' = (strayed \/ Leads(st) # None) /\ UNCHANGED stack
    /\ UNCHANGED <<call, now, st, handled, xid, ht, sum, steps>>

dirsEnd ==
    /\ pc = "walk" /\ Fstool /\ stack # << >> /\ Top.loop = 2 /\ Top.left = << >> /\ Back
    /\ UNCHANGED <<call, pc, now, st, handled, err, xid, ht, sum, steps, strayed>>

main ==
    /\ pc = "walk" /\ stack = << >> /\ pc' = "end"
    /\ UNCHANGED <<call, now, stack, cwd, st, handled, err, xid, ht, sum, steps, strayed>>

-----------------------------------------------------------------------------
(* vdu                                                                     *)

\* hash_insert: the inode is in its chain
Known(chain, ino) == ino \in ToSet(chain)

\* hash_insert: the inode, at its place in the chain
Chained(chain, ino) ==
    LET after == {i \in DOMAIN chain : chain[i] > ino}
    IN  IF after = {} THEN Append(chain, ino) ELSE InsertAt(chain, Min(after), ino)

\* visitDirEntry: its inode counts once
visitDirEntry(n) ==
    LET ino == Node[n].ino
        h   == ino % HASH_SIZE
        new == Node[n].nlink = 1 \/ ~Known(ht[h], ino)
    IN  /\ handled' = Append(handled, n)
        /\ IF Node[n].xid # Tag \/ Node[n].bad \/ ~new THEN UNCHANGED <<sum, ht>>
           ELSE /\ sum' = sum + 1
                /\ ht' = IF Node[n].nlink = 1 THEN ht ELSE [ht EXCEPT ![h] = Chained(@, ino)]

visitDirStart ==
    /\ pc = "start" /\ call.tool = "vdu"
    /\ visitDirEntry(Start) /\ pc' = "walk"
    /\ stack' = <<[Frame(Start) EXCEPT !.left = Entries(Start)]>>
    /\ UNCHANGED <<call, now, cwd, st, err, xid, steps, strayed>>

\* visitDir: every failure is fatal
visitDir ==
    /\ pc = "walk" /\ call.tool = "vdu" /\ stack # << >> /\ Top.left # << >>
    /\ stack' = Rest
    /\ LET n == At(Entry)
       IN  IF n = None THEN pc' = "fatal" /\ UNCHANGED <<handled, sum, ht, st>>
           ELSE /\ visitDirEntry(n)
                /\ IF IsDir(n) /\ Node[n].dev = Node[Top.dir].dev
                   THEN pc' = "chdir" /\ st' = n ELSE UNCHANGED <<pc, st>>
    /\ UNCHANGED <<call, now, cwd, err, xid, steps, strayed>>

\* EsafeChdir
visitDirChdir ==
    /\ pc = "chdir" /\ call.tool = "vdu"
    /\ IF Accepted(st)
       THEN /\ pc' = "walk" /\ cwd' = Leads(st)
            /\ stack' = Append(stack, [Frame(Leads(st)) EXCEPT !.left = Entries(Leads(st))])
       ELSE pc' = "fatal" /\ UNCHANGED <<stack, cwd>>
    /\ UNCHANGED <<call, now, st, handled, err, xid, ht, sum, steps, strayed>>

visitDirEnds ==
    /\ pc = "walk" /\ call.tool = "vdu" /\ stack # << >> /\ Top.left = << >> /\ Back
    /\ UNCHANGED <<call, pc, now, st, handled, err, xid, ht, sum, steps, strayed>>

-----------------------------------------------------------------------------
Next ==
    \/ processFile \/ iterateDot \/ iterateFiles \/ filesEnd \/ iterateDirs \/ safeChdir \/ dirsEnd \/ main
    \/ visitDirStart \/ visitDir \/ visitDirChdir \/ visitDirEnds \/ guest

Spec == Init /\ [][Next]_vars

-----------------------------------------------------------------------------
\* The variables have their types.
TypeOK ==
    /\ pc \in {"start", "walk", "chdir", "end", "fatal"} /\ ToSet(handled) \subseteq Files
    /\ err \in Nat /\ sum \in Nat /\ cwd \in Files /\ Len(stack) <= Cardinality(Files)

\* The directories that a walk enters when nothing moves: -R, -a, -x
Within ==
    LET shown(n) == Node[n].hidden => call.dot
        near(n)  == Node[n].dev = Node[Node[n].parent].dev
        in[n \in Inside] ==
            \/ n = Start
            \/ /\ Node[n].type = "dir" /\ in[Node[n].parent]
               /\ IF Fstool THEN call.recurse /\ shown(n) /\ (call.local => near(n)) ELSE near(n)
    IN  {n \in Inside : in[n]}

\* The files that are to be handled: those that can be seen in the directories that
\* are entered; a directory is handled when it is entered.
Selected ==
    IF Fstool /\ call.dir THEN {Start}
    ELSE Within \cup {n \in Inside \ {Start} :
            /\ Node[n].parent \in Within
            /\ Fstool => (Node[n].hidden => call.dot) /\ ~(Node[n].type = "dir" /\ call.recurse)}

\* When nothing moves, every file that is to be handled is handled exactly once,
\* whichever of the two loops of iterateFilesystem sees it.
HandledOnce ==
    pc = "end" /\ steps = 0 => Cardinality(ToSet(handled)) = Len(handled) /\ ToSet(handled) = Selected

\* Whatever the guest puts in the place of a directory, no file outside is touched,
\* unless iterateFilesystem went on from a directory that safeChdir had refused: the
\* names of the others are then looked up there. vdu stops instead.
WalkStaysInside ==
    ~strayed => ToSet(handled) \cap Outside = {} /\ \A n \in Outside : xid[n] = Node[n].xid

\* A walk that could not handle a file, or did not reach one whose name has always
\* stood for it, says so: err_cnt is what the exit code is made of.  lsxid, which may
\* take a failure for a context, is left out of the first part.
FailureIsCounted ==
    pc = "end" /\ Fstool /\ err = 0 =>
        /\ call.tool # "lsxid" => \A i \in DOMAIN handled : ~Node[handled[i]].bad
        /\ (\A n \in Inside : now[n] = "same") => Selected \subseteq ToSet(handled)

\* chxid --no-unified does not give a unified file to one context.
UnifiedKept ==
    call.tool = "chxid" /\ call.nounified => \A n \in Inside : Node[n].unified => xid[n] = Node[n].xid

\* vdu counts an inode of the context once, however many names it has, and all of
\* them; the root of another filesystem below may have the number of one of them.
InodesOnce ==
    pc = "walk" /\ stack = << >> /\ call.tool = "vdu" /\ steps = 0 =>
        LET mine == {n \in Selected : Node[n].xid = Tag /\ ~Node[n].bad}
            inos == {<<Node[n].dev, Node[n].ino>> : n \in mine}
        IN  IF \E a, b \in mine : Node[a].dev # Node[b].dev /\ Node[a].ino = Node[b].ino
            THEN sum <= Cardinality(inos) ELSE sum = Cardinality(inos)
=============================================================================
