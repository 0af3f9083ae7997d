-------------------------------- MODULE Mutex --------------------------------
(***************************************************************************)
(* What a script that sources scripts/functions relies on when it calls    *)
(* lock and unlock: a set of named mutexes, each held by at most one       *)
(* script, of which a script drops one, several or (when it dies) all at a *)
(* time.  LockFile.tla is shown to implement this specification.           *)
(***************************************************************************)
CONSTANTS
    Shell,      \* the script processes
    File        \* the lock files, one mutex each

VARIABLE
    inside      \* inside[f]: the scripts that believe they hold f

\* The variables have their types.
TypeOK == inside \in [File -> SUBSET Shell]

Init == inside = [f \in File |-> {}]

\* A successful lock: only a mutex that nobody holds can be taken.
Enter(s, f) ==
    /\ inside[f] = {}
    /\ inside' = [inside EXCEPT ![f] = {s}]

\* unlock, or the death of the script: it drops the mutexes F and no other.
Leave(s, F) ==
    /\ \A f \in F : s \in inside[f]
    /\ inside' = [f \in File |-> IF f \in F THEN inside[f] \ {s} ELSE inside[f]]

Next == \E s \in Shell : \/ \E f \in File : Enter(s, f)
                         \/ \E F \in SUBSET File : Leave(s, F)

Spec == Init /\ [][Next]_inside
=============================================================================
