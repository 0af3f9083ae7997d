--------------------------- MODULE MCStartVservers --------------------------
(* StartVservers with three vservers in every acyclic configuration, and    *)
(* with a chain of four.                                                    *)
EXTENDS StartVservers

CONSTANTS v1, v2, v3, v4

Four == {v1, v2, v3, v4}

\* Three vservers, in a numbering in which everybody depends on smaller ones
\* only; the first one mentions a fourth, which has no configuration.
AcyclicThree ==
    {d \in [Four -> SUBSET Four] :
        /\ d[v4] = {} /\ \A v \in {v1, v2, v3} : v4 \in d[v] <=> v = v1
        /\ \E n \in [Four -> 1 .. 4] : \A v \in Four : \A w \in d[v] : n[w] < n[v]}

\* v1 needs v2, v2 needs v3, v3 needs v4.
Chain == {[v \in Four |->
              CASE v = v1 -> {v2} [] v = v2 -> {v3} [] v = v3 -> {v4} [] OTHER -> {}]}

\* What vserver-wrapper asks for; all vservers, with a disabled one by name;
\* names only; and other criteria.
SomeRequests == {WrapperRequest,
                 [names |-> {v3}, kinds |-> {"ALL"}],
                 [names |-> {v1, v4}, kinds |-> {}],
                 [names |-> {}, kinds |-> {"MARKED", "STOPPED"}],
                 [names |-> {v2}, kinds |-> {"!MARK", "RUNNING"}],
                 [names |-> {}, kinds |-> {"UNMARKED"}]}

OneName == {[names |-> {v1}, kinds |-> {}]}
=============================================================================
