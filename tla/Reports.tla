------------------------------- MODULE Reports ------------------------------
(***************************************************************************)
(* vserver-stat and vps: both walk over processes or contexts that come    *)
(* and go meanwhile.  vserver-stat sums up per context, from /proc (with   *)
(* or without cgroups) or from /proc/virtual; vps adds the context to the  *)
(* lines of ps.                                                            *)
(***************************************************************************)
EXTENDS Naturals, Sequences, SequencesExt, FiniteSets, FiniteSetsExt

CONSTANTS
    Pid, Xid,   \* small numbers; context 0 is the host, 1 sees all
    Tools,      \* of "proc", "cgroups", "virtual", "vps", "format"
    Worlds,     \* functions from Pid to the context of its process, or Gone
    Amounts,    \* [mem, days, hh, mm, ss, ms]: amounts to format
    MaxSteps,   \* starts and ends of processes while a tool runs
    MaxFds

Gone == 100     \* no process; VC_NOCTX
Self == 1       \* the tool's own process

VARIABLES
    tool, pc,
    procs,  \* [Pid -> [xid, start, id]]: the processes; id tells reuses of a pid apart
    names,  \* [Xid -> "none" or the guest]: the guests of the contexts
    clock,  \* the uptime
    at,     \* the position in the directory, or the line of ps
    cur,    \* the process, the lines of ps, or the amount that is looked at
    vec,    \* xid_data: [xid, count, oldest, name, vm]; vps: the mapping
    fds,    \* descriptors that are open
    shown,  \* the uptime at the output, and what was written
    was,    \* pairs of context and guest, and of context and process, since the start
    steps

vars == <<tool, pc, procs, names, clock, at, cur, vec, fds, shown, was, steps>>
world == <<procs, names, clock, was, steps>>

Live(p) == procs[p].xid # Gone
History(ps, ns) == {<<"guest", x, ns[x]>> : x \in Xid} \cup {<<"process", ps[p].xid, ps[p].id>> : p \in Pid}

None == [pid |-> 0, xid |-> Gone, start |-> 0, id |-> 0]

Init ==
    /\ tool \in Tools
    /\ IF tool = "format" THEN cur \in Amounts /\ pc = "format" ELSE cur = None /\ pc = "begin"
    /\ IF tool = "format" THEN procs = [p \in Pid |-> [xid |-> Gone, start |-> 0, id |-> 0]]
       ELSE \E w \in Worlds : procs = [p \in Pid |-> [xid |-> w[p], start |-> p % 2, id |-> p]]
    /\ names = [x \in Xid |-> IF x < 2 THEN "host" ELSE IF tool = "format" THEN "none" ELSE "a"]
    /\ clock = 1 /\ at = 0 /\ vec = << >> /\ fds = 0 /\ steps = 0
    /\ shown = [uptime |-> 0, rows |-> << >>]
    /\ was = History(procs, names)

-----------------------------------------------------------------------------
(* Processes start and end; a context that is empty may get another guest. *)

Env(ps, ns) ==
    /\ pc \notin {"begin", "end", "format", "dead"} /\ steps < MaxSteps /\ steps' = steps + 1 /\ clock' = clock + 1
    /\ procs' = ps /\ names' = ns /\ was' = was \cup History(ps, ns)
    /\ UNCHANGED <<tool, pc, at, cur, vec, fds, shown>>

NewId == 1 + Max({procs[p].id : p \in Pid} \cup {h[3] : h \in {g \in was : g[1] = "process"}})

processStarts ==
    \E p \in Pid \ {Self}, x \in Xid :
        ~Live(p) /\ Env([procs EXCEPT ![p] = [xid |-> x, start |-> clock, id |-> NewId]], names)
processEnds == \E p \in Pid \ {Self} : Live(p) /\ Env([procs EXCEPT ![p].xid = Gone], names)
guestChanges ==
    \E x \in Xid : x > 1 /\ (\A p \in Pid : procs[p].xid # x) /\ Env(procs, [names EXCEPT ![x] = IF @ = "a" THEN "b" ELSE "a"])

-----------------------------------------------------------------------------
(* vserver-stat.                                                           *)

statBegins ==
    /\ pc = "begin" /\ tool \in {"proc", "cgroups", "virtual"}
    /\ pc' = "scan" /\ fds' = 1
    /\ UNCHANGED <<tool, world, at, cur, vec, shown>>

Skipped(p) == p = Self

\* readdir: the next entry, or the end
Entries == IF tool = "virtual" THEN {procs[p].xid : p \in {r \in Pid : Live(r) /\ procs[r].xid > 1}}
           ELSE {p \in Pid : Live(p)}
readdir ==
    /\ pc = "scan"
    /\ LET next == {p \in Entries : p > at} IN
       IF next = {} THEN pc' = "names" /\ at' = 0 /\ fds' = fds - 1 /\ UNCHANGED cur
       ELSE /\ at' = Min(next) /\ UNCHANGED fds
            /\ cur' = [None EXCEPT !.pid = Min(next), !.xid = IF tool = "virtual" THEN Min(next) ELSE Gone]
            /\ pc' = (IF tool = "virtual" THEN "virt" ELSE IF Skipped(Min(next)) THEN "scan" ELSE "xid")
    /\ UNCHANGED <<tool, world, vec, shown>>

\* get_process_info: the context first,
getXid ==
    /\ pc = "xid"
    /\ IF Live(cur.pid) THEN pc' = "open" /\ cur' = [cur EXCEPT !.xid = procs[cur.pid].xid]
       ELSE pc' = "scan" /\ UNCHANGED cur
    /\ UNCHANGED <<tool, world, at, vec, fds, shown>>

\* then the file of whoever has the pid now,
openStat ==
    /\ pc = "open"
    /\ IF Live(cur.pid) /\ fds < MaxFds
       THEN pc' = "read" /\ fds' = fds + 1 /\ cur' = [cur EXCEPT !.id = procs[cur.pid].id]
       ELSE pc' = "scan" /\ UNCHANGED <<fds, cur>>
    /\ UNCHANGED <<tool, world, at, vec, shown>>

Closed(n) == n - 1

\* which cannot be read when that process ended: the descriptor is lost then.
readStat ==
    /\ pc = "read"
    /\ IF Live(cur.pid) /\ procs[cur.pid].id = cur.id
       THEN pc' = "register" /\ fds' = Closed(fds) /\ cur' = [cur EXCEPT !.start = procs[cur.pid].start]
       ELSE pc' = "scan" /\ UNCHANGED <<fds, cur>>
    /\ UNCHANGED <<tool, world, at, vec, shown>>

\* Vector_search with cmpData: the place of a context, 0 for none
Place(x) == LET is == {i \in DOMAIN vec : vec[i].xid = x} IN IF is = {} THEN 0 ELSE Min(is)

\* Vector_insert
Inserted(e) ==
    LET after == {i \in DOMAIN vec : e.xid < vec[i].xid}
    IN  IF after = {} THEN Append(vec, e) ELSE InsertAt(vec, Min(after), e)

Row(x, n, start, vm) == [xid |-> x, count |-> n, oldest |-> start, name |-> "none", vm |-> vm]

\* registerXid
registerXid ==
    /\ pc = "register" /\ tool = "proc" /\ pc' = "scan"
    /\ LET i == Place(cur.xid) IN
       vec' = IF i = 0 THEN Inserted(Row(cur.xid, 1, cur.start, "sum"))
              ELSE [vec EXCEPT ![i].count = @ + 1, ![i].oldest = Min({@, cur.start})]
    /\ UNCHANGED <<tool, world, at, cur, fds, shown>>

Members(x) == {p \in Pid : procs[p].xid = x}
Oldest(x) == Min({procs[p].start : p \in Members(x)})

\* registerXidCgroups: the first process of a context that is a guest's
registerXidCgroups ==
    /\ pc = "register" /\ tool = "cgroups"
    /\ pc' = (IF cur.xid < 2 \/ Place(cur.xid) # 0 THEN "scan" ELSE "virt")
    /\ UNCHANGED <<tool, world, at, cur, vec, fds, shown>>

\* vc_virt_stat: the age of the context, which is that of its oldest process here,
virtStat ==
    /\ pc = "virt"
    /\ IF Place(cur.xid) = 0 /\ Members(cur.xid) # {}
       THEN pc' = "limit" /\ cur' = [cur EXCEPT !.start = clock - Oldest(cur.xid)]
       ELSE pc' = "scan" /\ UNCHANGED cur
    /\ UNCHANGED <<tool, world, at, vec, fds, shown>>

\* vc_rlimit_stat: its processes; both fail without the context.
rlimitStat ==
    /\ pc = "limit"
    /\ IF Members(cur.xid) # {}
       THEN pc' = (IF tool = "virtual" THEN "insert" ELSE "group") /\ cur' = [cur EXCEPT !.id = Cardinality(Members(cur.xid))]
       ELSE pc' = "scan" /\ UNCHANGED cur
    /\ UNCHANGED <<tool, world, at, vec, fds, shown>>

\* The name of the context and the files of its group: any of them may fail, and then
\* there is no row; memory.stat stays open, and so does a file that cannot be read.
readGroup ==
    /\ pc = "group" /\ fds' \in fds .. Min({fds + 2, MaxFds})
    /\ pc' \in (IF Members(cur.xid) = {} THEN {"scan"} ELSE {"scan", "insert"})
    /\ UNCHANGED <<tool, world, at, cur, vec, shown>>

\* The uptime, from which the age is taken; without a descriptor left getUptime ends
\* the tool.  With cgroups VmSize is added to what the cell held before.
registerXidVstat ==
    /\ pc = "insert"
    /\ IF fds = MaxFds THEN pc' = "dead" /\ UNCHANGED vec
       ELSE /\ pc' = "scan"
            /\ vec' = Inserted(Row(cur.xid, cur.id, clock - cur.start, IF tool = "virtual" THEN "limit" ELSE "undefined"))
    /\ UNCHANGED <<tool, world, at, cur, fds, shown>>

\* fillName, one context at a time
fillName ==
    /\ pc = "names"
    /\ IF at < Len(vec) THEN at' = at + 1 /\ vec' = [vec EXCEPT ![at + 1].name = names[vec[at + 1].xid]] /\ UNCHANGED pc
       ELSE pc' = "show" /\ UNCHANGED <<at, vec>>
    /\ UNCHANGED <<tool, world, cur, fds, shown>>

\* Fault: the uptime is that of the beginning.
getUptime_First == 1

getUptime == clock

showContexts ==
    /\ pc = "show" /\ pc' = "end"
    /\ shown' = [uptime |-> getUptime, rows |-> vec]
    /\ UNCHANGED <<tool, world, at, cur, vec, fds>>

-----------------------------------------------------------------------------
(* vps.                                                                    *)

\* ps writes its lines, and all of them are read before the first is looked at.
readOutput ==
    /\ pc = "begin" /\ tool = "vps" /\ pc' = "line"
    /\ cur' = SetToSortSeq({p \in Pid : Live(p)}, <)
    /\ UNCHANGED <<tool, world, at, vec, fds, shown>>

\* resolveCtx: a context is looked up once
Resolved(x) == \E i \in DOMAIN vec : vec[i][1] = x

resolveCtx(x) ==
    IF Resolved(x) THEN vec
    ELSE Append(vec, <<x, IF x = Gone THEN "none" ELSE names[x]>>)

NameOf(m, x) ==
    LET is == {i \in DOMAIN m : m[i][1] = x} IN m[IF is = {} THEN 1 ELSE Min(is)][2]

\* processOutput: a line, with the context its pid has now
processOutput ==
    /\ pc = "line" /\ at < Len(cur) /\ at' = at + 1
    /\ LET p == cur[at + 1]
           x == procs[p].xid
       IN  vec' = resolveCtx(x) /\ shown' = [shown EXCEPT !.rows = Append(@, [xid |-> x, name |-> NameOf(vec', x)])]
    /\ UNCHANGED <<tool, world, pc, cur, fds>>

vpsEnds == pc = "line" /\ at = Len(cur) /\ pc' = "end" /\ UNCHANGED <<tool, world, at, cur, vec, fds, shown>>

-----------------------------------------------------------------------------
(* Columns.                                                                *)

Digits(n) == CHOOSE d \in 1 .. 10 : n < 10 ^ d /\ (d = 1 \/ n >= 10 ^ (d - 1))

\* shortenMem: a number below 1000, a tenth when there is one, and a letter
shortenMem[v \in Nat, i \in 0 .. 6, mod \in 0 .. 9] ==
    IF v < 1000 \/ i = 6 THEN Digits(Min({v, 9999})) + (IF mod = 0 \/ v >= 1000 THEN 0 ELSE 2) + 1
    ELSE shortenMem[v \div 1024, i + 1, (10 * (v % 1024)) \div 1024]

\* fillUintZero: zeros in front, and the digits that fit
fillUintZero(v, n) == n

\* shortenTime
shortenTime(t) ==
    CASE t.days > 999 * 999 -> 7
      [] t.days > 999 -> Digits(t.days \div 365) + fillUintZero(t.days % 365, 2) + fillUintZero(t.hh, 2) + 2
      [] t.days > 0 -> Digits(t.days) + fillUintZero(t.hh, 2) + fillUintZero(t.mm, 2) + 2
      [] t.hh > 0 -> Digits(t.hh) + fillUintZero(t.mm, 2) + fillUintZero(t.ss, 2) + 2
      [] OTHER -> Digits(t.mm) + fillUintZero(t.ss, 2) + fillUintZero(t.ms, 2) + 2

format ==
    /\ pc = "format" /\ pc' = "end"
    /\ shown' = [uptime |-> 0, rows |-> <<shortenMem[cur.mem, 0, 0], shortenTime(cur)>>]
    /\ UNCHANGED <<tool, world, at, cur, vec, fds>>

-----------------------------------------------------------------------------
Next ==
    \/ statBegins \/ readdir \/ getXid \/ openStat \/ readStat \/ registerXid \/ registerXidCgroups
    \/ virtStat \/ rlimitStat \/ readGroup \/ registerXidVstat \/ fillName \/ showContexts
    \/ readOutput \/ processOutput \/ vpsEnds \/ format
    \/ processStarts \/ processEnds \/ guestChanges

Spec == Init /\ [][Next]_vars

-----------------------------------------------------------------------------
\* The variables have their types.
TypeOK ==
    /\ pc \in {"begin", "scan", "xid", "open", "read", "register", "virt", "limit", "group", "insert", "names", "show", "line", "format", "end", "dead"}
    /\ fds \in 0 .. MaxFds /\ at \in Nat

Stat == tool \in {"proc", "cgroups", "virtual"}
Ever(x) == {h[3] : h \in {g \in was : g[1] = "process" /\ g[2] = x}}
Now(x) == {p \in Pid \ {Self} : procs[p].xid = x}

\* vserver-stat has one row for a context, in order, and counts at most the processes
\* that were there; when nothing moves it counts every one and no other.
CountsAreTrue ==
    Stat =>
        /\ \A i, j \in DOMAIN vec : i < j => vec[i].xid < vec[j].xid
        /\ tool = "proc" => \A i \in DOMAIN vec : vec[i].count <= Cardinality(Ever(vec[i].xid))
        /\ tool = "proc" /\ pc = "end" /\ steps = 0 =>
              \A x \in Xid : IF Now(x) = {} THEN Place(x) = 0 ELSE vec[Place(x)].count = Cardinality(Now(x))

\* No context is older than the system or younger than nothing: the uptime is read
\* after everything it is compared with.
UptimeIsSane ==
    Stat /\ pc = "end" => \A i \in DOMAIN shown.rows : shown.rows[i].oldest <= shown.uptime

\* The guest named beside a context was the guest of that context at some time since
\* the tool began.
NameWasTrue ==
    tool # "format" /\ pc = "end" =>
        \A i \in DOMAIN shown.rows :
            LET r == shown.rows[i] IN r.name # "none" => <<"guest", r.xid, r.name>> \in was

\* A descriptor is lost only for a process that ended between open and read; with
\* cgroups, which is left out, there is at least one for every guest.
LostOnlyInRace ==
    tool \in {"proc", "virtual"} /\ pc = "scan" => fds <= 1 + steps

\* Amounts fit their columns: seven places for memory, ten for a time.
FitsColumn ==
    tool = "format" /\ pc = "end" => shown.rows[1] <= 7 /\ shown.rows[2] <= 10
=============================================================================
