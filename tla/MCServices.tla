----------------------------- MODULE MCServices -----------------------------
(* Services on small inputs: three clients of rebootmgr, fstabs of one and  *)
(* two lines, directories of one and two interfaces.                        *)
EXTENDS Services

MCVserver == <<"v1", "v2">>

Cmd(v, c) == [of |-> v, cmd |-> c]
MCRequests == {[c1 |-> Cmd("v1", "reboot"), c2 |-> Cmd(v, IF v = "v1" THEN "other" ELSE "reboot"),
                c3 |-> Cmd("v2", "halt")] : v \in {"v1", "v2"}}

\* Lines of a fstab: every kind of entry, of destination and of option list, on
\* their own and in pairs; every way of calling secure-mount.
Ent(s, d, t, o) == [src |-> s, dst |-> d, type |-> t, opts |-> o]
Lines == {Ent("dir", "/", "comment", << >>), Ent("dir", "/", "syntax", << >>),
          Ent("dir", "/", "xfs", <<"defaults", "ro">>), Ent("dir", "/", "xfs", <<"bind">>),
          Ent("dir", "/d", "tmpfs", <<"size=1", "users", "dev">>), Ent("dir", "/d", "devpts", <<"defaults">>),
          Ent("dir", "/d", "none", <<"bind", "ro">>), Ent("file", "/d", "none", <<"bind">>),
          Ent("file", "/d/e", "none", <<"r", "nomtab">>), Ent("dir", "/d", "xfs", <<"size=1">>),
          Ent("dir", "/d", "swap", << >>), Ent("dir", "/d", "xfs", <<"user", "noauto">>),
          Ent("dir", "/", "tmpfs", << >>), Ent("dir", "/d", "none", <<"shared", "rec">>)}
Call(a, c, m, t, r) == [all : a, chroot : c, mtab : m, trigger : t, rootfs : r]
MCFstabs == {<<a>> : a \in Lines} \cup (Lines \X Lines)
MCOpts == Call({TRUE}, {TRUE}, BOOLEAN, {FALSE}, {"yes", "no", "only"})
          \cup Call({TRUE}, {FALSE}, {TRUE}, BOOLEAN, {"yes"})
          \cup Call({FALSE}, BOOLEAN, {TRUE}, {FALSE}, {"yes"})

\* Directories below interfaces/ of vserver-start: one that is complete, and after
\* it each kind of one.
Dir(d, ip, m, p, dev, n, x) ==
    [disabled |-> d, ip |-> ip, mask |-> m, prefix |-> p, dev |-> dev, nodev |-> n, indirect |-> x]
GoodDir == Dir(FALSE, TRUE, TRUE, "none", "eth0", FALSE, FALSE)
Dirs == {GoodDir, Dir(TRUE, TRUE, TRUE, "24", "eth0", FALSE, FALSE),
         Dir(FALSE, TRUE, FALSE, "24", "none", TRUE, FALSE), Dir(FALSE, TRUE, FALSE, "none", "eth0", FALSE, FALSE),
         Dir(FALSE, FALSE, TRUE, "none", "eth0", FALSE, FALSE), Dir(FALSE, TRUE, FALSE, "0", "eth0", FALSE, FALSE),
         Dir(FALSE, TRUE, FALSE, "24", "eth0.5", FALSE, FALSE), Dir(FALSE, TRUE, FALSE, "24", "eth0", FALSE, TRUE)}
MCConfigs == [flags : BOOLEAN, dmask : BOOLEAN, ifs : {<< >>} \cup {<<GoodDir, d>> : d \in Dirs}]
=============================================================================
