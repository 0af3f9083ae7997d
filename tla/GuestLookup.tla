---------------------------- MODULE GuestLookup -----------------------------
(***************************************************************************)
(* From a guest to its context and back: lib/getvserver*.c,                *)
(* comparevserverbyid.c, the three *opt2* functions and the queries of     *)
(* vserver-info, while guests start and stop around them.  A run file and  *)
(* a link below run.rev outlive the context they were written for, and the *)
(* kernel gives the number to the next one.                                *)
(***************************************************************************)
EXTENDS Naturals, Sequences, FiniteSets

CONSTANTS
    Guest,      \* names of guests
    Xid,        \* context ids, small numbers from 2 on
    Cases,      \* pairs of what is configured and what is asked, see Init
    MaxSteps    \* steps of guests during one query

None  == 100    \* VC_NOCTX; no run file
Empty == 0      \* a run file between its creation and the write; read as 0

VARIABLES
    conf,   \* [Guest -> configuration]
    q,      \* the query
    ctx,    \* [Xid -> Guest, or "none"]: the contexts and their vhi names
    run,    \* [Guest -> Xid, None or Empty]: the run files
    rev,    \* [Xid -> Guest, or "none"]: the links of run.rev
    pc,
    res,    \* the context found so far
    name,   \* the guest found so far
    out,    \* what the query answers
    was,    \* the pairs of context and guest since the query began
    steady, \* the guest asked for has run, with run file and link, since then
    steps

vars == <<conf, q, ctx, run, rev, pc, res, name, out, was, steady, steps>>
asked == <<conf, q>>
world == <<ctx, run, rev, was, steady, steps>>

Pairs(c) == {<<x, c[x]>> : x \in {y \in Xid : c[y] # "none"}}
\* the queries that look at directories only
Directories == {"NAME", "CFGDIR", "APPDIR", "VDIR"}
Runs(g, c, r) == r[g] \in Xid /\ c[r[g]] = g
Up(g, c, r, v) == Runs(g, c, r) /\ v[r[g]] = g

\* A configuration: vdir ("dir", "link" for one that leads nowhere, "none"), the
\* file legacy, what there is in the old places (".conf" and the directory), the
\* static ids or None, the file name, apps/, S_CONTEXT of the old .ctx file (0: the
\* file has none), and device and inode of the directory.  A query: the function,
\* the guest, the form of the id, the type of id, whether static ids count, and
\* whether the kernel has vhi names and vx_info.  The run files and links may be
\* those of contexts that ended long ago.
Init ==
    /\ \E c \in Cases : conf = c[1] /\ q = c[2]
    /\ IF q.fn \in Directories
       THEN ctx = [x \in Xid |-> "none"] /\ run = [g \in Guest |-> None] /\ rev = ctx
       ELSE /\ ctx \in {c \in [Xid -> Guest \cup {"none"}] : \A x, y \in Xid : x # y /\ c[x] = c[y] => c[x] = "none"}
            /\ run \in [Guest -> Xid \cup {None}]
            /\ rev \in {ctx, [x \in Xid |-> q.guest]}
    /\ was = Pairs(ctx) /\ steady = Up(q.guest, ctx, run, rev)
    /\ pc = "ask" /\ res = None /\ name = "none" /\ out = "none" /\ steps = 0

-----------------------------------------------------------------------------
(* The guests, meanwhile.                                                  *)

Env(c, r, v) ==
    /\ pc \notin {"ask", "end"} /\ steps < MaxSteps /\ steps' = steps + 1
    /\ ctx' = c /\ run' = r /\ rev' = v
    /\ was' = was \cup Pairs(c) /\ steady' = (steady /\ Up(q.guest, c, r, v))
    /\ UNCHANGED <<conf, q, pc, res, name, out>>

\* A start: the context, its name, and later (save_ctxinfo) the run file and the link.
guestStarts ==
    \E g \in Guest, x \in Xid :
        ctx[x] = "none" /\ g \notin {ctx[y] : y \in Xid} /\ Env([ctx EXCEPT ![x] = g], run, rev)
saveCreates ==
    \E g \in Guest : run[g] = None /\ g \in {ctx[y] : y \in Xid} /\ Env(ctx, [run EXCEPT ![g] = Empty], rev)
saveWrites ==
    \E g \in Guest, x \in Xid : run[g] = Empty /\ ctx[x] = g /\ Env(ctx, [run EXCEPT ![g] = x], rev)
saveUnlinks ==
    \E g \in Guest : Runs(g, ctx, run) /\ rev[run[g]] \notin {g, "none"} /\ Env(ctx, run, [rev EXCEPT ![run[g]] = "none"])
saveLinks ==
    \E g \in Guest : Runs(g, ctx, run) /\ rev[run[g]] = "none" /\ Env(ctx, run, [rev EXCEPT ![run[g]] = g])
guestEnds ==
    \E x \in Xid : ctx[x] # "none" /\ Env([ctx EXCEPT ![x] = "none"], run, rev)
\* isVserverRunning removes the file of a guest that does not run.
staleRemoved ==
    \E g \in Guest : run[g] \in Xid /\ ~Runs(g, ctx, run) /\ Env(ctx, [run EXCEPT ![g] = None], rev)

-----------------------------------------------------------------------------
(* Styles and directories.                                                 *)

\* vc_getVserverCfgStyle
CfgStyle(g, form) ==
    LET c == conf[g]
        found == IF form = "path" THEN (IF c.vdir \in {"dir", "link"} THEN "full" ELSE "none")
                 ELSE IF c.vdir = "dir" THEN "short"
                 ELSE IF c.old = {"dir", "conf"} THEN "legacy" ELSE "none"
    IN  IF found \in {"full", "short"} /\ c.legacy THEN "legacy" ELSE found

Recent(s) == s \in {"full", "short"}

\* vc_getVserverName; an empty file makes a null pointer of the name
getVserverName(g, s) ==
    CASE s = "none" -> "null"
      [] s = "legacy" -> "id"
      [] OTHER -> CASE conf[g].name = "text" -> "name"
                    [] conf[g].name = "empty" -> "crash"
                    [] OTHER -> "basename"

\* vc_getVserverVdir
getVserverVdir(g, s) ==
    IF (s = "legacy" /\ "dir" \in conf[g].old) \/ (Recent(s) /\ conf[g].vdir = "dir") THEN "dir" ELSE "null"

\* vc_getVserverCfgDir
getVserverCfgDir(g, s) == IF Recent(s) THEN "dir" ELSE "null"

\* vc_getVserverAppDir
getVserverAppDir(g, s) == IF Recent(s) /\ conf[g].apps THEN "dir" ELSE "null"

\* vc_compareVserverById of two guests by their directories: the differences of
\* device and inode are added.
compareVserverById(g, h) == conf[g].dev + conf[g].ino = conf[h].dev + conf[h].ino

Answer(o) == out' = o /\ pc' = "end"

style == CfgStyle(q.guest, q.form)

\* NAME, CFGDIR, APPDIR, VDIR; getDir aborts when it does not find its way back.
askDirectory ==
    /\ pc = "ask" /\ q.fn \in Directories
    /\ \/ Answer(CASE q.fn = "NAME" -> getVserverName(q.guest, style)
                   [] q.fn = "CFGDIR" -> getVserverCfgDir(q.guest, style)
                   [] q.fn = "APPDIR" -> getVserverAppDir(q.guest, style)
                   [] q.fn = "VDIR" -> getVserverVdir(q.guest, style))
       \/ q.fn = "VDIR" /\ q.static /\ style # "none" /\ Answer("abort")
    /\ UNCHANGED <<asked, world, res, name>>

-----------------------------------------------------------------------------
(* The context of a guest: vc_getVserverCtx.                               *)

CtxQueries == {"RUNNING", "CONTEXT", "xidopt", "nidopt", "tagopt"}

\* "self" is an id of the process that asks, a number is itself, and the rest a guest,
\* whose static id is in the file of that name.
Number == 10
vc_xidopt2xid == [self |-> 11, file |-> "context"]
vc_nidopt2nid == [self |-> 12, file |-> "ncontext"]
vc_tagopt2tag == [self |-> 13, file |-> "tag"]
Option == [xidopt |-> vc_xidopt2xid, nidopt |-> vc_nidopt2nid, tagopt |-> vc_tagopt2tag]

askOption ==
    /\ pc = "ask" /\ q.form \in {"self", "number"}
    /\ q.fn \in DOMAIN Option
    /\ res' = (IF q.form = "self" THEN Option[q.fn].self ELSE Number) /\ Answer("number")
    /\ UNCHANGED <<asked, world, name>>

\* extractLegacyXID: no file, a number, or a file without one
extractLegacyXID(g) == conf[g].sctx

askCtx ==
    /\ pc = "ask" /\ q.fn \in CtxQueries /\ q.form \notin {"self", "number"}
    /\ CASE style = "none" -> Answer("null") /\ UNCHANGED res
         [] style = "legacy" ->
              IF extractLegacyXID(q.guest) = 0 THEN Answer("crash") /\ UNCHANGED res
              ELSE res' = extractLegacyXID(q.guest)
                   /\ Answer(IF extractLegacyXID(q.guest) = None THEN "null" ELSE "legacy")
         [] OTHER -> pc' = "run" /\ UNCHANGED <<res, out>>
    /\ UNCHANGED <<asked, world, name>>

Type == IF q.fn \in {"nidopt", "tagopt"} THEN q.fn ELSE "xidopt"

\* The number of a network context or a tag is taken as it is.
Taken(r) ==
    /\ res' = r
    /\ IF r = None THEN pc' = "static" /\ UNCHANGED out
       ELSE IF Type = "xidopt" THEN pc' = "info" /\ UNCHANGED out
       ELSE Answer("run")

\* The run file: its length, and then what is in it.  When it was empty and is not
\* any more, the two do not fit and there is no number.
getCtxFromFile ==
    /\ pc = "run"
    /\ IF run[q.guest] = Empty THEN pc' = "sized" /\ UNCHANGED <<res, out>> ELSE Taken(run[q.guest])
    /\ UNCHANGED <<asked, world, name>>

readsEmpty ==
    /\ pc = "sized" /\ Taken(IF run[q.guest] = Empty THEN Empty ELSE None)
    /\ UNCHANGED <<asked, world, name>>

Exists(ok, errno) == ok \/ errno # "ESRCH"

There(x) == x \in Xid /\ ctx[x] # "none"

\* vc_get_vx_info: without the context ESRCH, with it perhaps another error
vxInfo ==
    /\ pc = "info"
    /\ \E errno \in {"none", "ENOSYS", "ESRCH"} :
          /\ IF There(res) THEN errno # "ESRCH" /\ (q.kernel => errno = "none") ELSE errno = "ESRCH"
          /\ pc' = IF Exists(errno = "none", errno) THEN "name" ELSE "static"
          /\ res' = IF Exists(errno = "none", errno) THEN res ELSE None
    /\ UNCHANGED <<asked, world, name, out>>

\* Fault: the guest of the context is not compared with the one asked for.
Same_Any(g, h) == h # "none"

Same(g, h) == h # "none" /\ compareVserverById(g, h)

HasLink(x) == x \in Xid /\ rev[x] # "none"

\* vc_getVserverByCtx_Internal without validation, for a style that is known: the vhi
\* name of the context, or else the link, which no guest equals when it is not there
NameOf(x) == IF q.kernel /\ There(x) THEN ctx[x] ELSE IF HasLink(x) THEN rev[x] ELSE "none"

byCtx ==
    /\ pc = "name" /\ name' = NameOf(res)
    /\ IF Same(q.guest, name')
       THEN Answer(IF q.kernel /\ There(res) THEN "running" ELSE "linked") /\ UNCHANGED res
       ELSE pc' = "static" /\ res' = None /\ UNCHANGED out
    /\ UNCHANGED <<asked, world>>

Static(g, t) ==
    LET own == conf[g][Option[t].file]
    IN  IF own = None THEN conf[g].context ELSE own

\* The configured ids, when they count
static ==
    /\ pc = "static"
    /\ res' = IF q.static THEN Static(q.guest, Type) ELSE None
    /\ Answer(IF res' = None THEN "null" ELSE "static")
    /\ UNCHANGED <<asked, world, name>>

-----------------------------------------------------------------------------
(* The guest of a context: vc_getVserverByCtx with validation (ID).        *)

askId ==
    /\ pc = "ask" /\ q.fn = "ID" /\ pc' = "vhi"
    /\ \E x \in Xid : res' = x
    /\ UNCHANGED <<asked, world, name, out>>

\* The vhi name comes first; when there is none, or it is not valid, the link.
byCtxName ==
    /\ pc = "vhi"
    /\ IF q.kernel /\ There(res) THEN name' = ctx[res] /\ pc' = "vhi file" ELSE pc' = "link" /\ UNCHANGED name
    /\ UNCHANGED <<asked, world, res, out>>

\* handleLegacy: the first old .ctx file with the number, in the order of the directory;
\* nobody validates it, and one without S_CONTEXT on the way there is a null pointer
handleLegacy(x) ==
    \/ \E g \in Guest : extractLegacyXID(g) = x /\ name' = g /\ Answer("old id")
    \/ UNCHANGED name /\ 0 \in {extractLegacyXID(g) : g \in Guest} /\ Answer("crash")
    \/ UNCHANGED name /\ {0, x} \cap {extractLegacyXID(g) : g \in Guest} = {} /\ Answer("null")

byCtxLink ==
    /\ pc = "link"
    /\ IF HasLink(res) THEN name' = rev[res] /\ pc' = "link file" /\ UNCHANGED out ELSE handleLegacy(res)
    /\ UNCHANGED <<asked, world, res>>

\* vc_getVserverCtx of the name finds the context again: the run file of the guest has
\* the number, the context exists, and its name, or the link, is that guest's.  The
\* link is a path: each look follows it anew, and it equals itself.
Linked(x) == IF HasLink(x) THEN {rev[x]} ELSE {}

Valid(x) ==
    CASE pc = "vhi file" -> run[name] = x
      [] pc = "link file" -> \E g \in Linked(x) : run[g] = x
      [] pc \in {"vhi info", "link info"} -> There(x)
      [] pc = "vhi name" -> Same(name, NameOf(x))
      [] OTHER -> q.kernel /\ There(x) => \E g \in Linked(x) : Same(g, ctx[x])

IsValid ==
    CASE pc = "vhi file" -> pc' = "vhi info" /\ UNCHANGED out
      [] pc = "vhi info" -> pc' = "vhi name" /\ UNCHANGED out
      [] pc = "link file" -> pc' = "link info" /\ UNCHANGED out
      [] pc = "link info" -> pc' = "link name" /\ UNCHANGED out
      [] OTHER -> Answer("id")

\* A vhi name that is not valid leaves the link.
NotValid == IF pc \in {"vhi file", "vhi info", "vhi name"} THEN pc' = "link" /\ UNCHANGED out ELSE Answer("null")

validate ==
    /\ pc \in {"vhi file", "vhi info", "vhi name", "link file", "link info", "link name"}
    /\ IF Valid(res) THEN IsValid ELSE NotValid
    /\ UNCHANGED <<asked, world, res, name>>

-----------------------------------------------------------------------------
(* The init process of a context: INITPID.  Without vx_info it is looked   *)
(* for in /proc, and a process is read until its line initpid has a number.*)

\* RUNNING of a number: whether there is such a context
askNumber ==
    /\ pc = "ask" /\ q.fn = "RUNNING" /\ q.form = "number"
    /\ \E x \in Xid : res' = x
    /\ pc' = "native"
    /\ UNCHANGED <<asked, world, name, out>>

\* XID, NID, TAG: the ids of a process, which may have ended
getCtxId ==
    /\ pc = "ask" /\ q.fn \in {"XID", "NID", "TAG"}
    /\ \/ Answer("null") /\ UNCHANGED res
       \/ \E x \in Xid : There(x) /\ res' = x /\ Answer("number")
    /\ UNCHANGED <<asked, world, name>>

\* INITPID_PID: the context of a process, then the init process of that context,
\* when it is still there
getInitPidPid ==
    /\ pc = "ask" /\ q.fn = "INITPID_PID"
    /\ \/ Answer("null") /\ UNCHANGED res
       \/ \E x \in Xid : There(x) /\ res' = x /\ pc' = "native" /\ UNCHANGED out
    /\ UNCHANGED <<asked, world, name>>

askInitPid ==
    /\ pc = "ask" /\ q.fn = "INITPID"
    /\ \E x \in Xid : res' = x
    /\ pc' = IF q.kernel THEN "native" ELSE "scan"
    /\ UNCHANGED <<asked, world, name, out>>

getInitPidNative ==
    /\ pc = "native" /\ Answer(IF There(res) THEN "pid" ELSE "null")
    /\ UNCHANGED <<asked, world, res, name>>

HasInit(x) == conf[ctx[x]].init

Again == There(res) /\ ~HasInit(res)

getInitPidEmulated ==
    /\ pc = "scan"
    /\ IF There(res) /\ HasInit(res) THEN Answer("pid")
       ELSE IF Again THEN UNCHANGED <<pc, out>>
       ELSE Answer("null")
    /\ UNCHANGED <<asked, world, res, name>>

-----------------------------------------------------------------------------
Lookup ==
    \/ askDirectory \/ askOption \/ askCtx \/ getCtxFromFile \/ readsEmpty \/ vxInfo
    \/ byCtx \/ static \/ askId \/ byCtxName \/ byCtxLink \/ validate
    \/ askNumber \/ getCtxId \/ getInitPidPid \/ askInitPid \/ getInitPidNative \/ getInitPidEmulated

Next ==
    \/ Lookup
    \/ guestStarts \/ saveCreates \/ saveWrites \/ saveUnlinks \/ saveLinks \/ guestEnds \/ staleRemoved

Spec == Init /\ [][Next]_vars

-----------------------------------------------------------------------------
\* The variables have their types.
TypeOK ==
    /\ ctx \in [Xid -> Guest \cup {"none"}] /\ rev \in [Xid -> Guest \cup {"none"}]
    /\ run \in [Guest -> Xid \cup {None, Empty}] /\ name \in Guest \cup {"none"}
    /\ res \in Nat /\ steady \in BOOLEAN
    /\ out \in {"none", "null", "dir", "name", "basename", "id", "old id", "crash", "abort", "number",
                "run", "running", "linked", "static", "legacy", "pid"}

\* The sum of the differences of device and inode is zero for some guests on two
\* filesystems, which are then taken for one.
Mixed(g) == \E h \in Guest \ {g} : compareVserverById(g, h)

\* The context that vc_getVserverCtx reports for a running guest was that guest's at
\* some time of the lookup, when the kernel has names for its contexts; the link
\* of run.rev stands in only when the context ended before it was asked for its name.
OwnContext ==
    /\ out = "running" => <<res, q.guest>> \in was \/ Mixed(q.guest)
    /\ out = "linked" /\ q.kernel => \E g \in Guest : <<res, g>> \in was

\* A guest that runs all the time is found with its own context, and neither its
\* static id nor nothing is answered.
RunningIsFound ==
    steady /\ pc = "end" /\ q.fn \in {"RUNNING", "CONTEXT", "xidopt"} /\ q.form \in {"short", "path"} /\ Recent(style)
        => res = run[q.guest] /\ (q.kernel => out = "running")

\* vc_getVserverByCtx names a guest only when the two agree: its run file has the
\* context, and the context has its name; but for the guest of an old .ctx file.
NameIsMutual ==
    out = "id" /\ q.fn = "ID" =>
        /\ steps = 0 => run[name] = res /\ (q.kernel => ctx[res] = name \/ Mixed(name))
        /\ q.kernel => \E g \in Guest : <<res, g>> \in was

Answered == pc = "end" \/ (pc = "scan" /\ There(res) /\ ~HasInit(res))

\* A query ends, but for one: INITPID without vx_info reads the process of a context
\* that has no init process again and again.
LookupEnds == <>Answered
=============================================================================
