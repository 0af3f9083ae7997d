----------------------------- MODULE MCLockFile -----------------------------
(* LockFile on small sets of shells, files and pids.                       *)
EXTENDS LockFile

CONSTANTS s1, s2, f1, f2, p1, p2

\* The nesting of vserver.start and vserver.stop: the startup lock first, the
\* interfaces lock inside it.
StartupNest == {<<f1, f2>>}
=============================================================================
