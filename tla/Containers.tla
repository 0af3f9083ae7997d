----------------------------- MODULE Containers -----------------------------
(***************************************************************************)
(* The vector and the list of ensc_vector: any sequence of calls, on the   *)
(* cells of the vector and the links of the list, beside the sequence of   *)
(* values that they stand for.                                             *)
(***************************************************************************)
EXTENDS Naturals, Sequences, SequencesExt, FiniteSets, FiniteSetsExt

CONSTANTS
    Value,      \* numbers
    MaxCount,   \* elements
    MaxOps      \* calls

Junk == 0       \* memory that was not written; not in Value

VARIABLES
    kind,   \* "vector" or "list"
    cells,  \* data of the vector, as many cells as are allocated
    count,
    touched,    \* the highest cell that the last call wrote or read
    root,   \* the list: its first item,
    link,   \*   the item after each, 0 for none,
    data,   \*   and the value of each
    abs,    \* the values that ought to be there, in order
    found,  \* the result of the last search: a value, or Junk
    key,    \* what was searched for, or Junk
    ops

vars == <<kind, cells, count, touched, root, link, data, abs, found, key, ops>>
vector == <<cells, count, touched>>
list == <<root, link, data>>

\* Vector_init, List_init
Init ==
    /\ kind \in {"vector", "list"}
    /\ cells = << >> /\ count = 0 /\ touched = 0
    /\ root = 0 /\ link = << >> /\ data = << >>
    /\ abs = << >> /\ found = Junk /\ key = Junk /\ ops = 0

Op(k) == kind = k /\ ops < MaxOps /\ ops' = ops + 1 /\ UNCHANGED kind

-----------------------------------------------------------------------------
(* The vector.                                                             *)

Allocated(n) == (n * 20) \div 16 + 1

\* Vector_resizeInternal: realloc keeps what fits and leaves the rest as it is
resizeInternal(c, n) ==
    [i \in 1 .. Allocated(n) |-> IF i <= Len(c) THEN c[i] ELSE Junk]

\* The cells after the count was raised to n
Grown(n) == IF Len(cells) < n THEN resizeInternal(cells, n) ELSE cells

Set(c, i, v) == [j \in DOMAIN c |-> IF j = i THEN v ELSE c[j]]

Vector_pushback(v) ==
    /\ Op("vector") /\ count < MaxCount
    /\ count' = count + 1 /\ cells' = Set(Grown(count'), count', v) /\ touched' = count'
    /\ abs' = Append(abs, v)
    /\ UNCHANGED <<list, found, key>>

Vector_popback ==
    /\ Op("vector") /\ count > 0 /\ count' = count - 1
    /\ touched' = 0 /\ abs' = Front(abs)
    /\ UNCHANGED <<list, cells, found, key>>

Vector_clear ==
    /\ Op("vector") /\ count' = 0 /\ touched' = 0 /\ abs' = << >>
    /\ UNCHANGED <<list, cells, found, key>>

\* The cells from the place on move up by one.
Place(c, n, at, v) == [i \in DOMAIN c |-> IF i = at THEN v ELSE IF i > at /\ i <= n THEN c[i - 1] ELSE c[i]]

\* Vector_insert: before the first greater one; the vector is to be in order
Vector_insert(v) ==
    /\ Op("vector") /\ count < MaxCount /\ IsSorted(abs, <=)
    /\ LET n == count + 1
           after == {i \in 1 .. count : v < cells[i]}
           at == IF after = {} THEN n ELSE Min(after)
       IN  count' = n /\ cells' = Place(Grown(n), n, at, v) /\ touched' = n
    /\ abs' = SortSeq(Append(abs, v), <)
    /\ UNCHANGED <<list, found, key>>

\* Vector_sort: qsort
Vector_sort ==
    /\ Op("vector") /\ count > 0
    /\ cells' = [i \in DOMAIN cells |-> IF i <= count THEN SortSeq(SubSeq(cells, 1, count), <)[i] ELSE cells[i]]
    /\ abs' = SortSeq(abs, <) /\ touched' = count
    /\ UNCHANGED <<list, count, found, key>>

\* The last cell of the run of equal ones that begins at i
RunEnd(c, n, i) == Max({j \in i .. n : \A k \in i .. j : c[k] = c[i]})

Removed(c, n, i) == RunEnd(c, n, i) - i

\* Vector_unique from index i on, for a vector in order: a pair of cells and count
uniqueFrom[u \in (Seq(Nat) \X Nat \X Nat)] ==
    LET c == u[1] n == u[2] i == u[3] d == Removed(c, n, i) IN
    IF i + 1 > n THEN <<c, n>>
    ELSE uniqueFrom[<<[j \in DOMAIN c |-> IF j > i /\ j + d <= n THEN c[j + d] ELSE c[j]], n - d, i + 1>>]

Vector_unique ==
    /\ Op("vector") /\ IsSorted(abs, <=) /\ touched' = count
    /\ IF count < 2 THEN UNCHANGED <<cells, count>>
       ELSE LET u == uniqueFrom[<<cells, count, 1>>] IN cells' = u[1] /\ count' = u[2]
    /\ abs' = SetToSortSeq(ToSet(abs), <)
    /\ UNCHANGED <<list, found, key>>

\* Vector_resize: gives back what is not needed
Vector_resize ==
    /\ Op("vector") /\ (Len(cells) * 24) \div 16 > count + 1
    /\ cells' = resizeInternal(cells, count)
    /\ touched' = 0
    /\ UNCHANGED <<list, count, abs, found, key>>

\* Fault: a full vector is taken for one that has room.
WithEnd_Full(n) == IF Len(cells) < n THEN Grown(n + 1) ELSE cells

WithEnd(n) == IF Len(cells) <= n THEN Grown(n + 1) ELSE cells

\* Vector_zeroEnd: a cell of zeros behind the last one, for the end of a list
Vector_zeroEnd ==
    /\ Op("vector") /\ touched' = count + 1
    /\ cells' = Set(WithEnd(count), count + 1, Junk)
    /\ UNCHANGED <<list, count, abs, found, key>>

\* Vector_search: bsearch
Vector_search(v) ==
    /\ Op("vector") /\ IsSorted(abs, <=) /\ key' = v /\ touched' = count
    /\ found' = (IF \E i \in 1 .. count : cells[i] = v THEN v ELSE Junk)
    /\ UNCHANGED <<list, cells, count, abs>>

\* A value that was found moves to the front, or up by one.
Organised(s, v, method) ==
    IF v \notin ToSet(s) THEN s
    ELSE LET i == Min({j \in DOMAIN s : s[j] = v})
             to == IF method = "front" THEN 1 ELSE IF i = 1 THEN 1 ELSE i - 1
         IN  SubSeq(s, 1, to - 1) \o <<v>> \o SubSeq(s, to, i - 1) \o SubSeq(s, i + 1, Len(s))

\* Vector_searchSelfOrg: the element is kept aside and the cells before it move
Vector_searchSelfOrg(v, method) ==
    /\ Op("vector") /\ key' = v /\ touched' = count
    /\ LET is == {i \in 1 .. count : cells[i] = v}
       IN  IF is = {} THEN found' = Junk /\ UNCHANGED cells
           ELSE LET i == Min(is)
                    to == IF method = "front" \/ i = 1 THEN 1 ELSE i - 1
                IN  found' = v /\ cells' = Place(cells, i, to, v)
    /\ abs' = Organised(abs, v, method)
    /\ UNCHANGED <<list, count>>

-----------------------------------------------------------------------------
(* The list.                                                               *)

\* List_add, List_insertInternal: a new item before the first
List_add(v) ==
    /\ Op("list") /\ count < MaxCount
    /\ count' = count + 1 /\ link' = Append(link, root) /\ data' = Append(data, v) /\ root' = count'
    /\ abs' = <<v>> \o abs
    /\ UNCHANGED <<cells, touched, found, key>>

\* The items from the first one on, as far as they go
Items ==
    LET at[i \in 0 .. count] == IF i = 0 THEN root ELSE IF at[i - 1] = 0 THEN 0 ELSE link[at[i - 1]]
    IN  SelectSeq([i \in 1 .. count + 1 |-> at[i - 1]], LAMBDA x : x # 0)

\* List_search, List_at
List_search(v) ==
    /\ Op("list") /\ key' = v
    /\ found' = (IF \E i \in DOMAIN Items : data[Items[i]] = v THEN v ELSE Junk)
    /\ UNCHANGED <<vector, list, abs>>

\* The links after the i-th item went to the front
Relink(i) == [link EXCEPT ![Items[i - 1]] = link[Items[i]], ![Items[i]] = root]

\* The links after the i-th item and the one before it changed places
Swapped(i) ==
    LET l == [link EXCEPT ![Items[i - 1]] = link[Items[i]], ![Items[i]] = Items[i - 1]]
    IN  IF i = 2 THEN l ELSE [l EXCEPT ![Items[i - 2]] = Items[i]]

List_searchSelfOrg(v, method) ==
    /\ Op("list") /\ key' = v
    /\ LET is == {i \in DOMAIN Items : data[Items[i]] = v}
           i == Min(is)
       IN  IF is = {} THEN found' = Junk /\ UNCHANGED <<root, link>>
           ELSE /\ found' = v
                /\ IF i = 1 THEN UNCHANGED <<root, link>>
                   ELSE IF method = "front" THEN link' = Relink(i) /\ root' = Items[i]
                   ELSE link' = Swapped(i) /\ root' = (IF i = 2 THEN Items[2] ELSE root)
    /\ abs' = Organised(abs, v, method)
    /\ UNCHANGED <<vector, data>>

-----------------------------------------------------------------------------
Next ==
    \/ Vector_popback \/ Vector_clear \/ Vector_sort \/ Vector_unique \/ Vector_resize \/ Vector_zeroEnd
    \/ \E v \in Value :
          \/ Vector_pushback(v) \/ Vector_insert(v) \/ Vector_search(v) \/ List_add(v) \/ List_search(v)
          \/ \E m \in {"front", "once"} : Vector_searchSelfOrg(v, m) \/ List_searchSelfOrg(v, m)

Spec == Init /\ [][Next]_vars

-----------------------------------------------------------------------------
\* The variables have their types.
TypeOK ==
    /\ cells \in Seq(Value \cup {Junk}) /\ count \in 0 .. MaxCount
    /\ root \in 0 .. Len(link) /\ Len(data) = Len(link)
    /\ found \in {Junk, key}

\* What the vector or the list holds is what the calls put there, in the order they
\* promise: sorted after a sort or an insert, without duplicates after unique, the
\* element that was found in front or one place up.
Holds ==
    IF kind = "vector" THEN count <= Len(cells) /\ SubSeq(cells, 1, count) = abs
    ELSE Len(Items) = count /\ [i \in DOMAIN Items |-> data[Items[i]]] = abs

\* No call touches memory that is not allocated, the cell behind the end included.
InBounds == touched <= Len(cells)

SearchIsRight == key' # key \/ found' # found => (found' = key') = (key' \in ToSet(abs))

\* A search finds exactly what is there.
FoundIffThere == [][SearchIsRight]_vars
=============================================================================
