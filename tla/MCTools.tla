------------------------------ MODULE MCTools -------------------------------
(***************************************************************************)
(* Tools on small inputs.                                                  *)
(***************************************************************************)
EXTENDS Tools, TLC

\* Every version of the interface that a function distinguishes, and for the newer
\* ones what the kernel was configured with.
MCKernels ==
    [ver : {0, \h10000, \h10004, \h10010, \h10011, \h10012, \h10016, \h10021, \h10025, \h20001}, conf : {{}}]
    \cup [ver : {\h20100, \h20103, \h20200, \h20300, \h20304, \h20306},
          conf : {{}, {"SPACES", "PPTAG"}, {"SPACES", "NETV2", "MEMCG"}, {"PPTAG", "NO_DYNAMIC"}}]

\* Elements of a list: names of each table, with every prefix, the words, numbers
\* and what is in no table; on their own and in pairs.
Word(n, f, id, b) == [not |-> n, form |-> f, id |-> id, bits |-> b]
Elements ==
    {Word(n, "name", id, {}) : n \in 0 .. 2, id \in {"lock", "default", "secure", "raw_icmp", "CHOWN", "newns", "UNAME26"}}
    \cup {Word(n, "prefixed", "lock", {}) : n \in 0 .. 1} \cup {Word(n, "all", "", {}) : n \in 0 .. 1}
    \cup {Word(0, "none", "", {}), Word(0, "empty", "", {}), Word(1, "empty", "", {}), Word(0, "name", "foo", {}),
          Word(0, "number", "", {}), Word(1, "number", "", {0, 3})}
MCLists == {<< >>} \cup {<<a>> : a \in Elements} \cup (Elements \X Elements)

\* A guest "a" that is complete, and next to it each kind of guest "b"; the queries
\* that look at directories for those that cannot run, and all others for the rest.
GuestOf(v, l, o, c, n, t, nm, a, s, d, i, in) ==
    [vdir |-> v, legacy |-> l, old |-> o, context |-> c, ncontext |-> n, tag |-> t, name |-> nm,
     apps |-> a, sctx |-> s, dev |-> d, ino |-> i, init |-> in]
NoCtx == 100
GuestA == GuestOf("dir", FALSE, {}, NoCtx, NoCtx, NoCtx, "none", TRUE, NoCtx, 1, 2, TRUE)
Running == {GuestOf("dir", FALSE, {}, 7, 8, NoCtx, "text", FALSE, 0, 1, 3, FALSE),
            GuestOf("dir", FALSE, {}, NoCtx, NoCtx, 4, "long", FALSE, 2, 2, 1, TRUE)}
Others == {GuestOf("dir", TRUE, {"dir"}, 7, NoCtx, 9, "empty", TRUE, 7, 2, 3, TRUE),
           GuestOf("none", FALSE, {"dir", "conf"}, NoCtx, NoCtx, NoCtx, "long", TRUE, 0, 1, 3, TRUE),
           GuestOf("link", FALSE, {"dir"}, 7, NoCtx, 9, "empty", FALSE, NoCtx, 2, 5, TRUE),
           GuestOf("none", FALSE, {"dir"}, NoCtx, NoCtx, NoCtx, "none", FALSE, NoCtx, 1, 3, TRUE)}
Query(f, g, m, st, k) == [fn : f, guest : g, form : m, static : st, kernel : k]
OfDirectory == Query({"NAME", "CFGDIR", "APPDIR", "VDIR"}, {"b"}, {"short", "path"}, BOOLEAN, {TRUE})
               \cup Query({"RUNNING", "nidopt"}, {"b"}, {"short", "path"}, {FALSE}, {TRUE})
OfContext == Query({"RUNNING"}, {"b"}, {"short"}, {FALSE}, BOOLEAN)
             \cup Query({"ID", "INITPID"}, {"a"}, {"short"}, {FALSE}, BOOLEAN)
             \cup Query({"xidopt"}, {"b"}, {"path"}, {TRUE}, BOOLEAN)
             \cup Query({"nidopt", "tagopt"}, {"b"}, {"short"}, {TRUE}, {TRUE})
             \cup Query({"xidopt", "nidopt", "tagopt"}, {"a"}, {"self", "number"}, {TRUE}, {TRUE})
             \cup Query({"XID", "NID", "TAG", "INITPID_PID"}, {"a"}, {"pid"}, {FALSE}, {TRUE})
             \cup Query({"RUNNING"}, {"a"}, {"number"}, {FALSE}, {TRUE})
MCCases == {<<[a |-> GuestA, b |-> b], q>> : b \in Others, q \in OfDirectory}
           \cup {<<[a |-> GuestA, b |-> b], q>> : b \in Running, q \in OfContext}

\* Amounts at the limits of the columns, and the contexts of three processes, one of
\* which may have ended (-1).
Amount(m, d, h) == [mem |-> m, days |-> d, hh |-> h, mm |-> 59, ss |-> 59, ms |-> 999]
MCAmounts == {Amount(m, d, h) : m \in {0, 999, 1000, 1023, 1024, 999 * 1024, 1000 * 1024, 1023999, 2147483647},
                                d \in {0, 1, 999, 1000, 1094, 998001, 998002, 730364}, h \in {0, 23}}
MCWorlds == {<<0, 2, 2>>, <<0, 3, 2>>, <<0, 100, 2>>, <<0, 1, 0>>}

\* A guest with two directories, names for one inode in both, a hidden file whose
\* attributes cannot be had and a mount point; outside a directory that has two of
\* the same names.
File(p, n, t, d, i, l, u, x) ==
    [parent |-> p, name |-> n, type |-> t, dev |-> d, ino |-> i, nlink |-> l, hidden |-> n = ".h",
     unified |-> u, xid |-> x, bad |-> n = ".h"]
Tree(i) ==
    [top |-> File("", "top", "dir", 1, 1, 4, FALSE, 5), a |-> File("top", "a", "dir", 1, 2, 2, FALSE, 5),
     b   |-> File("top", "b", "dir", 1, 3, 2, FALSE, 7), f |-> File("a", "f", "file", 1, 4, 2, TRUE, 5),
     g   |-> File("b", "g", "file", 1, 4, 2, TRUE, 5),   h |-> File("top", ".h", "file", 1, 9, 1, FALSE, 5),
     m   |-> File("top", "m", "dir", 2, i, 2, FALSE, 5), n |-> File("m", "n", "file", 2, 5, 1, TRUE, 0),
     out |-> File("", "out", "dir", 1, 20, 2, FALSE, 0), oa |-> File("out", "a", "dir", 1, 23, 2, FALSE, 0),
     ob  |-> File("out", "b", "dir", 1, 21, 2, FALSE, 0), og |-> File("ob", "g", "file", 1, 22, 1, FALSE, 0)]
MCTrees == <<Tree(6), Tree(2)>>
Walk(tr, to, r, dt, d, l, n) == [tree : tr, tool : to, recurse : r, dot : dt, dir : d, local : l, nounified : n]
MCCalls == Walk({1}, {"setattr", "chxid", "showattr", "lsxid"}, BOOLEAN, {FALSE}, {FALSE}, BOOLEAN, {TRUE})
           \cup Walk({1}, {"lsxid", "chxid"}, BOOLEAN, {TRUE}, BOOLEAN, {FALSE}, {FALSE})
           \cup Walk({1, 2}, {"vdu"}, {TRUE}, {TRUE}, {FALSE}, {TRUE}, {FALSE})

\* Options of vdlimit that agree, contradict each other, come twice or are not
\* numbers; two instances on overlapping filesystems; calls of vkill and vdevmap.
No == -1
Job(t, o, a, x, s) == [tool |-> t, opts |-> o, args |-> a, xid |-> x, sig |-> s]
Opt(f, n, v) == [field |-> f, number |-> n, val |-> v]
Options == {<<Opt("used", TRUE, 3)>>, <<Opt("total", TRUE, 5), Opt("used", TRUE, -1)>>,
            <<Opt("used", TRUE, -2), Opt("total", TRUE, 4), Opt("used", TRUE, 7)>>,
            <<Opt("used", TRUE, 4), Opt("total", TRUE, 4)>>, <<Opt("total", TRUE, 6), Opt("total", TRUE, 2)>>,
            <<Opt("total", TRUE, 3), Opt("used", FALSE, 0)>>, <<Opt("foo", TRUE, 0)>>}
Second == {Job("set", <<Opt("total", TRUE, 3)>>, <<"g">>, 5, << >>), Job("rem", << >>, <<"f">>, 5, << >>),
           Job("print", << >>, <<"g">>, 5, << >>), Job("set", <<Opt("total", TRUE, 3)>>, <<"f">>, No, << >>)}
First == Second \cup {Job("set", o, <<"f", "g">>, 5, << >>) : o \in Options}
Signal(f, k, n) == [form |-> f, known |-> k, num |-> n]
Kills == {Job("kill", << >>, a, x, s) : a \in {<< >>, <<1>>, <<1, 2>>, <<-7>>}, x \in {No, 5},
             s \in {Signal("name", TRUE, 15), Signal("signame", TRUE, 15), Signal("name", FALSE, 0), Signal("number", TRUE, 9)}}
Flag(s, f) == [set |-> s, flag |-> f]
Maps == {Job("devmap", o, << >>, x, [device |-> d, target |-> t]) :
            o \in {<<Flag(TRUE, "open")>>, <<Flag(TRUE, "open"), Flag(FALSE, "remap")>>, <<Flag(FALSE, "create"), Flag(TRUE, "remap")>>},
            x \in {No, 5}, d \in {"", "d"}, t \in {"", "t"}}
MCJobs == (First \X Second) \cup ((Kills \cup Maps) \X {Job("no", << >>, << >>, No, << >>)})

\* Two guests: one of each type of entry, and one with each kind of mark and depends
\* file, whose names differ only in what is escaped.
Conf(n, t, d, v, m, dp) == [name |-> n, type |-> t, disabled |-> d, vdir |-> v, mark |-> m, depends |-> dp]
Text(k, ls, f) == [kind |-> k, lines |-> ls, full |-> f]
NoText == Text("none", << >>, FALSE)
Name(c) == <<"a", c, "b">>
MarkFiles == {NoText, Text("special", << >>, FALSE), Text("regular", << >>, FALSE),
              Text("regular", <<<<"d">>, << >>>>, TRUE), Text("regular", <<<<"#">>, <<"d">>, <<"e">>>>, FALSE)}
DependsFiles == {NoText, Text("regular", <<<<"a">>>>, FALSE), Text("regular", <<Name("/"), <<"#">>, Name("-")>>, FALSE)}
Plain == {Conf(<<"a">>, t, d, TRUE, Text("regular", <<<<"d">>>>, FALSE), NoText) :
             t \in {"dir", "unknown", "hidden", "file", "backup"}, d \in BOOLEAN}
         \cup {Conf(<<"a">>, "dir", FALSE, FALSE, NoText, NoText)}
Marked == {Conf(n, "dir", FALSE, TRUE, m, dp) :
              n \in {Name("-"), <<"a", "\\", "x", "2", "d", "b">>}, m \in MarkFiles, dp \in DependsFiles}
MCConfigs == (Plain \X Marked) \cup (Marked \X {Conf(Name("/"), "dir", FALSE, TRUE, NoText, Text("regular", <<<<"a">>>>, FALSE))})
=============================================================================
