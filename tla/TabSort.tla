------------------------------- MODULE TabSort -------------------------------
(***************************************************************************)
(* table.sort of src/lua/tablib.cpp: the elements are copied into an       *)
(* array, sorted there by a quicksort that calls a Lua comparator, and     *)
(* written back.  Every call of the comparator is a step, and may fail.    *)
(* What the comparator answers is a relation fixed for the call of sort:   *)
(* a strict weak order if the program respects the contract, or anything.  *)
(* Indices are those of the code: the array is 0 .. n - 1.                 *)
(***************************************************************************)
EXTENDS Integers, Sequences, FiniteSets, Functions

CONSTANTS
  Elem,     \* the values to sort
  Order,    \* the relations a comparator may compute
  Lengths,  \* lengths of the table
  Cutoff    \* 16 in sort_qsort

(* sort returns at once when there is nothing to sort, and a partition has  *)
(* three elements or more.                                                  *)
ASSUME SortBounds == Lengths \subseteq Nat \ {0} /\ Cutoff \in Nat \ {0}

VARIABLES
  table,   \* the table's elements, t[i + 1] under i
  lt,      \* the comparator's answers
  input,   \* history: the table when sort was called
  a,       \* the array being sorted
  ranges,  \* the activations of sort_qsort: what each has still to sort
  pc,      \* the comparison to make next
  i, j,    \* the variables of these names, in the loop that pc stands in
  held     \* sort_insertion's v or sort_qsort's pivot

vars == <<table, lt, input, a, ranges, pc, i, j, held>>

n == Cardinality(DOMAIN table)

Less(x, y) == <<x, y>> \in lt
Inside(k) == k \in DOMAIN a
Swapped(k, l) == [a EXCEPT ![k] = a[l], ![l] = a[k]]

lo == ranges[Len(ranges)][1]
hi == ranges[Len(ranges)][2]
mid == lo + (hi - lo) \div 2

Callers == SubSeq(ranges, 1, Len(ranges) - 1)

(* An array of one element is neither sorted nor checked: the range is      *)
(* empty and so is the check.                                               *)
Init ==
  /\ \E len \in Lengths : table \in [0 .. len - 1 -> Elem]
  /\ lt \in Order
  /\ input = table /\ a = table
  /\ ranges = <<<<0, n - 1>>>>
  /\ pc = "range"
  /\ i = 0 /\ j = 0
  /\ held \in {table[0]}

Same == UNCHANGED <<table, lt, input>>

-----------------------------------------------------------------------------
(* The head of sort_qsort's loop, and its return to its caller. *)
Partitioned == lo + Cutoff < hi

Return ==
  /\ ranges' = Callers
  /\ pc' = IF Len(ranges) > 1 THEN "range" ELSE "check"
  /\ i' = 1

BeginPartition ==
  /\ pc = "range" /\ Partitioned
  /\ pc' = "median1"
  /\ UNCHANGED <<a, ranges, i, j, held>> /\ Same

BeginInsertion ==
  /\ pc = "range" /\ ~Partitioned /\ lo < hi
  /\ pc' = "insert"
  /\ i' = lo + 1 /\ j' = lo /\ held' = a[lo + 1]
  /\ UNCHANGED <<a, ranges>> /\ Same

FinishRange ==
  /\ pc = "range" /\ ~Partitioned /\ lo >= hi
  /\ Return
  /\ UNCHANGED <<a, j, held>> /\ Same

-----------------------------------------------------------------------------
(* sort_insertion: one turn of the inner while, or the end of it. *)
Home == j + 1
Below == j - 1

Shift ==
  /\ pc = "insert" /\ j >= lo /\ Less(held, a[j])
  /\ a' = [a EXCEPT ![j + 1] = a[j]]
  /\ j' = Below
  /\ UNCHANGED <<ranges, pc, i, held>> /\ Same

Place ==
  /\ pc = "insert" /\ (j >= lo => ~Less(held, a[j]))
  /\ a' = [a EXCEPT ![Home] = held]
  /\ IF i < hi
       THEN /\ i' = i + 1 /\ j' = i /\ held' = a[i + 1]
            /\ UNCHANGED <<pc, ranges>>
       ELSE Return /\ UNCHANGED <<j, held>>
  /\ Same

-----------------------------------------------------------------------------
(* sort_median3: three compare-and-swaps, then the median goes to hi - 1. *)
Ordered(k, l) == IF Less(a[l], a[k]) THEN Swapped(k, l) ELSE a

Median1 ==
  /\ pc = "median1" /\ pc' = "median2"
  /\ a' = Ordered(lo, mid)
  /\ UNCHANGED <<ranges, i, j, held>> /\ Same

Median2 ==
  /\ pc = "median2" /\ pc' = "median3"
  /\ a' = Ordered(mid, hi)
  /\ UNCHANGED <<ranges, i, j, held>> /\ Same

Median3 ==
  /\ pc = "median3" /\ pc' = "up"
  /\ LET b == Ordered(lo, mid) IN
       /\ a' = [b EXCEPT ![mid] = b[hi - 1], ![hi - 1] = b[mid]]
       /\ held' = b[mid]
  /\ i' = lo /\ j' = hi - 1
  /\ UNCHANGED ranges /\ Same

-----------------------------------------------------------------------------
(* The partition loop: `while (less(a[++i], pivot))', which checks no bound.*)
(* An index outside the array is undefined behaviour, where the model ends. *)
ScanUp ==
  /\ pc = "up"
  /\ i' = i + 1
  /\ pc' = IF ~Inside(i + 1) THEN "outside" ELSE IF Less(a[i + 1], held) THEN "up" ELSE "down"
  /\ UNCHANGED <<a, ranges, j, held>> /\ Same

(* `while (less(pivot, a[--j]))'. *)
ScanDown ==
  /\ pc = "down"
  /\ Inside(j - 1) => Less(held, a[j - 1])
  /\ j' = j - 1
  /\ pc' = IF Inside(j - 1) THEN "down" ELSE "outside"
  /\ UNCHANGED <<a, ranges, i, held>> /\ Same

(* Both scans have stopped on the wrong side of each other. *)
Exchange ==
  /\ pc = "down" /\ Inside(j - 1) /\ ~Less(held, a[j - 1])
  /\ i < j - 1
  /\ a' = Swapped(i, j - 1)
  /\ j' = j - 1
  /\ pc' = "up"
  /\ UNCHANGED <<ranges, i, held>> /\ Same

PivotLeft == a
RestorePivot == Swapped(i, hi - 1)

(* The recursive call first, its caller left with the other side. *)
SplitInOrder == Callers \o <<<<i + 1, hi>>, <<lo, i - 1>>>>
Split ==
  IF i - lo < hi - i
    THEN Callers \o <<<<i + 1, hi>>, <<lo, i - 1>>>>
    ELSE Callers \o <<<<lo, i - 1>>, <<i + 1, hi>>>>

EndPartition ==
  /\ pc = "down" /\ Inside(j - 1) /\ ~Less(held, a[j - 1])
  /\ i >= j - 1
  /\ a' = RestorePivot
  /\ ranges' = Split
  /\ j' = j - 1
  /\ pc' = "range"
  /\ UNCHANGED <<i, held>> /\ Same

-----------------------------------------------------------------------------
(* The totalness check over adjacent elements, then the write back. *)
Incoherent(k) == Less(a[k], a[k - 1]) /\ Less(a[k - 1], a[k])

CheckPair ==
  /\ pc = "check" /\ i < n
  /\ IF Incoherent(i) THEN pc' = "failed" /\ UNCHANGED i ELSE i' = i + 1 /\ UNCHANGED pc
  /\ UNCHANGED <<a, ranges, j, held>> /\ Same

WriteBack ==
  /\ pc = "check" /\ i >= n
  /\ table' = a
  /\ pc' = "done"
  /\ UNCHANGED <<lt, input, a, ranges, i, j, held>>

(* The comparator raises an error: the array is dropped. *)
Comparing == \/ pc \in {"insert", "median1", "median2", "median3"} /\ (pc = "insert" => j >= lo)
             \/ pc = "up" /\ Inside(i + 1)
             \/ pc = "down" /\ Inside(j - 1)
             \/ pc = "check" /\ i < n

ComparatorFails ==
  /\ Comparing
  /\ pc' = "failed"
  /\ UNCHANGED <<a, ranges, i, j, held>> /\ Same

Progress ==
  \/ BeginPartition \/ BeginInsertion \/ FinishRange
  \/ Shift \/ Place
  \/ Median1 \/ Median2 \/ Median3
  \/ ScanUp \/ ScanDown \/ Exchange \/ EndPartition
  \/ CheckPair \/ WriteBack

Next == Progress \/ ComparatorFails

Spec == Init /\ [][Next]_vars

(* sort is a loop, and the comparator returns. *)
FairSpec == Spec /\ WF_vars(Progress)

-----------------------------------------------------------------------------
TypeOK ==
  /\ table \in [0 .. n - 1 -> Elem] /\ a \in [0 .. n - 1 -> Elem]
  /\ pc \in {"range", "insert", "median1", "median2", "median3", "up", "down",
             "outside", "check", "done", "failed"}
  /\ \A k \in DOMAIN ranges : ranges[k][1] \in 0 .. n /\ ranges[k][2] \in -1 .. n - 1
  /\ i \in 0 .. n /\ j \in -1 .. n - 1

(* The array as the sort sees it: an insertion in progress holds one of its *)
(* elements in `held'.                                                      *)
Contents == IF pc = "insert" THEN [a EXCEPT ![j + 1] = held] ELSE a

(* Whatever the comparator answers, no element of the array is lost or      *)
(* duplicated, even when the partition runs into other ranges.              *)
Permutation == pc # "failed" =>
  \A x \in Elem : Cardinality({k \in DOMAIN a : Contents[k] = x})
               = Cardinality({k \in DOMAIN a : input[k] = x})

(* The contract of a comparator: a strict weak order. *)
Coherent ==
  /\ \A x, y \in Elem : Less(x, y) => ~Less(y, x)
  /\ \A x, y, z \in Elem : Less(x, y) => Less(x, z) \/ Less(z, y)

(* With a coherent comparator, no element of the result belongs before an   *)
(* earlier one.                                                             *)
SortedWhenDone == Coherent /\ pc = "done" => \A k, l \in DOMAIN table : k < l => ~Less(table[l], table[k])

(* The scans of the partition find their sentinels: the median at the low   *)
(* end, the pivot at hi - 1.                                                *)
ScansInBounds == Coherent => pc # "outside"

(* tablib.cpp: "recurse on the smaller side; loop on the larger (so         *)
(* worst-case stack depth is O(log n))": every activation is at most as     *)
(* long as what its caller has still to sort.                               *)
Span(r) == r[2] - r[1]
SmallerSideFirst == Coherent =>
  \A k \in 2 .. Len(ranges) : Span(ranges[k]) <= Span(ranges[k - 1])

(* table.sort returns, by the sorted table or the error of its comparator.  *)
SortEnds == Coherent => <>(pc \in {"done", "failed"})

-----------------------------------------------------------------------------
(* What a call of sort returns, and where its loops and recursion stay.     *)
SortResult == TypeOK /\ Permutation /\ SortedWhenDone
SortStaysIn == ScansInBounds /\ SmallerSideFirst

(* The inductive invariant.  Whatever the comparator answers: the types, of *)
(* everything and as far as the loops rely on them, *)
Places == 0 .. n - 1

Types ==
  /\ n \in Nat \ {0}
  /\ table \in [Places -> Elem] /\ a \in [Places -> Elem] /\ input \in [Places -> Elem]
  /\ held \in Elem
  /\ pc \in {"range", "insert", "median1", "median2", "median3", "up", "down",
             "outside", "check", "done", "failed"}
  /\ ranges \in Seq((0 .. n) \X (-1 .. n - 1))
  /\ i \in 0 .. n /\ j \in -1 .. n - 1

(* where the loops stand in the range of the activation that runs, *)
Loops ==
  /\ pc \notin {"check", "done", "failed"} => ranges # <<>>
  /\ pc \in {"check", "done"} => ranges = <<>>
  /\ pc = "done" => table = a
  /\ pc = "insert" => lo < i /\ i <= hi /\ lo - 1 <= j /\ j < i
  /\ pc \in {"median1", "median2", "median3", "up", "down"} => Partitioned
  /\ pc \in {"up", "down"} => i < n /\ j >= 0

(* and the elements moved about.                                            *)
Rearranged == pc # "failed" =>
  \E f \in Bijection(Places, Places) : \A x \in Places : Contents[x] = input[f[x]]

(* With a coherent comparator: the activations' ranges are disjoint, *)
Covers(r, x) == r[1] <= x /\ x <= r[2]
Together(x, y) == \E k \in DOMAIN ranges : Covers(ranges[k], x) /\ Covers(ranges[k], y)
Fits(x, y) == ~Less(y, x)

Disjoint == Coherent =>
  \A k, l \in DOMAIN ranges : k < l =>
    ranges[k][2] < ranges[l][1] \/ ranges[l][2] < ranges[k][1]

(* two elements that no range has between them are in order, *)
Settled == Coherent /\ pc # "failed" =>
  \A x, y \in Places : x < y /\ ~Together(x, y) => Fits(Contents[x], Contents[y])

(* the insertion has sorted what is before i but for the element it holds,  *)
(* which belongs before all that it has passed, *)
Inserting == Coherent /\ pc = "insert" =>
  \A x, y \in lo .. i : x < y /\ y # j + 1 => Fits(Contents[x], Contents[y])

(* the median is found step by step, *)
Median == Coherent =>
  /\ pc = "median2" => Fits(a[lo], a[mid])
  /\ pc = "median3" => Fits(a[lo], a[hi]) /\ Fits(a[mid], a[hi])

(* and the scans have sentinels, and leave what they passed on its side.    *)
Scanning == Coherent /\ pc \in {"up", "down"} =>
  /\ lo <= i /\ j < hi /\ a[hi - 1] = held
  /\ \A x \in lo .. i - 1 : Fits(a[x], held)
  /\ \A x \in j .. hi : Fits(held, a[x])
  /\ pc = "up" => i < j /\ Fits(a[i], held)
  /\ pc = "down" => lo < i /\ i <= j /\ Fits(held, a[i])

IInv ==
  /\ Types /\ Loops /\ Rearranged
  /\ Disjoint /\ Settled /\ Inserting /\ Median /\ Scanning
  /\ ScansInBounds /\ SmallerSideFirst
=============================================================================
