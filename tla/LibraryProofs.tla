--------------------------- MODULE LibraryProofs ---------------------------
(***************************************************************************)
(* Two loops of the standard library are correct for inputs of every       *)
(* length.                                                                 *)
(*                                                                         *)
(* table.sort: with any comparator the elements stay those that were       *)
(* there, and with one that respects its contract no scan leaves the       *)
(* array, the recursion stays on the smaller side, and the result is in    *)
(* order.  The argument is that of quicksort: only elements of the range   *)
(* that is being sorted change places, so whatever is in order across the  *)
(* borders of ranges stays so.                                             *)
(*                                                                         *)
(* string.find, gmatch and gsub: with any matcher that keeps within the    *)
(* subject, the three report the matches of one scan, and gsub replaces    *)
(* exactly these.  The result is read as pieces, one for each match, each  *)
(* the bytes since the last match and the replacement; a step adds a byte  *)
(* to the open piece or closes it.                                         *)
(***************************************************************************)
EXTENDS TabSort, Strings, FunctionTheorems, FiniteSetTheorems, SequenceTheorems, WellFoundedInduction, TLAPS

-----------------------------------------------------------------------------
(* Orders.                                                                  *)

LEMMA FitsOrders ==
  ASSUME Coherent
  PROVE  /\ \A x \in Elem : Fits(x, x)
         /\ \A x, y \in Elem : Less(x, y) => Fits(x, y)
         /\ \A x, y, z \in Elem : Fits(x, y) /\ Fits(y, z) => Fits(x, z)
BY DEF Coherent, Fits

(* The median is picked from three places, two of them different from hi - 1.*)
LEMMA Middle ==
  ASSUME NEW p \in Int, NEW q \in Int, p + 1 < q
  PROVE  /\ p + (q - p) \div 2 \in Int
         /\ p < p + (q - p) \div 2 /\ p + (q - p) \div 2 < q
OBVIOUS

-----------------------------------------------------------------------------
(* Exchanging two elements.                                                 *)
Swap(c, k, l) == [c EXCEPT ![k] = c[l], ![l] = c[k]]

LEMMA SwapBijects ==
  ASSUME NEW P, NEW f \in Bijection(P, P), NEW k \in P, NEW l \in P
  PROVE  /\ Swap(f, k, l) \in Bijection(P, P)
         /\ Swap(f, k, l)[k] = f[l] /\ Swap(f, k, l)[l] = f[k]
         /\ \A x \in P : x # k /\ x # l => Swap(f, k, l)[x] = f[x]
<1> DEFINE g == Swap(f, k, l)
<1>1. /\ f \in [P -> P]
      /\ \A x, y \in P : f[x] = f[y] => x = y
      /\ \A z \in P : \E x \in P : f[x] = z
  BY Fun_BijectionProperties
<1>2. /\ g \in [P -> P]
      /\ g[k] = f[l] /\ g[l] = f[k]
      /\ \A x \in P : x # k /\ x # l => g[x] = f[x]
  <2>1. f \in [P -> P]
    BY <1>1
  <2> QED
    BY <2>1 DEF Swap
<1> HIDE DEF g
<1>3. \A x, y \in P : g[x] = g[y] => x = y
  BY <1>1, <1>2
<1>4. \A z \in P : \E x \in P : g[x] = z
  <2> SUFFICES ASSUME NEW z \in P PROVE \E x \in P : g[x] = z
    OBVIOUS
  <2>1. PICK x \in P : f[x] = z
    BY <1>1
  <2>2. CASE x = k
    BY <2>1, <2>2, <1>2
  <2>3. CASE x = l
    BY <2>1, <2>3, <1>2
  <2>4. CASE x # k /\ x # l
    BY <2>1, <2>4, <1>2
  <2> QED
    BY <2>2, <2>3, <2>4
<1>5. g \in Bijection(P, P)
  BY <1>2, <1>3, <1>4, Fun_IsBij
<1> QED
  BY <1>2, <1>5 DEF g

-----------------------------------------------------------------------------
(* The array and the activations.                                           *)
Pair == (0 .. n) \X (-1 .. n - 1)

LEMMA Bounds ==
  ASSUME Types
  PROVE  /\ n \in Nat /\ n > 0 /\ Places \subseteq Int
         /\ DOMAIN a = Places /\ DOMAIN table = Places
         /\ \A x : Inside(x) <=> x \in Places
         /\ \A x \in Int : x \in Places <=> 0 <= x /\ x < n
         /\ i \in Int /\ j \in Int
BY DEF Types, Places, Inside

LEMMA RangesAre ==
  ASSUME Types, NEW k \in DOMAIN ranges
  PROVE  /\ ranges[k] = <<ranges[k][1], ranges[k][2]>>
         /\ ranges[k][1] \in Int /\ 0 <= ranges[k][1] /\ ranges[k][1] <= n
         /\ ranges[k][2] \in Int /\ -1 <= ranges[k][2] /\ ranges[k][2] < n
         /\ ranges[k] \in Pair
<1>1. n \in Nat
  BY Bounds
<1>2. ranges[k] \in Pair
  BY DEF Types, Pair
<1> QED
  BY <1>1, <1>2 DEF Pair

(* The activation that runs and those that wait for it.                     *)
LEMMA TopIs ==
  ASSUME Types, ranges # <<>>
  PROVE  /\ Len(ranges) \in Nat /\ Len(ranges) > 0 /\ DOMAIN ranges = 1 .. Len(ranges)
         /\ lo \in Int /\ 0 <= lo /\ lo <= n
         /\ hi \in Int /\ -1 <= hi /\ hi < n
         /\ ranges[Len(ranges)] = <<lo, hi>>
         /\ Callers \in Seq(Pair) /\ Len(Callers) = Len(ranges) - 1
         /\ \A k \in 1 .. Len(ranges) - 1 : Callers[k] = ranges[k]
<1>1. ranges \in Seq(Pair)
  BY DEF Types, Pair
<1>2. Len(ranges) \in Nat /\ Len(ranges) > 0 /\ DOMAIN ranges = 1 .. Len(ranges)
  BY <1>1
<1>3. Len(ranges) \in DOMAIN ranges
  BY <1>2
<1>4. /\ lo \in Int /\ 0 <= lo /\ lo <= n
      /\ hi \in Int /\ -1 <= hi /\ hi < n
      /\ ranges[Len(ranges)] = <<lo, hi>>
  BY <1>3, RangesAre DEF lo, hi
<1>5. /\ Callers \in Seq(Pair) /\ Len(Callers) = Len(ranges) - 1
      /\ \A k \in 1 .. Len(ranges) - 1 : Callers[k] = ranges[k]
  <2>1. PICK m \in Nat : Len(ranges) = m + 1
    <3>1. Len(ranges) - 1 \in Nat /\ Len(ranges) = (Len(ranges) - 1) + 1
      BY <1>2
    <3> QED
      BY <3>1
  <2>2. Callers = SubSeq(ranges, 1, m)
    BY <2>1 DEF Callers
  <2> QED
    BY <1>1, <2>1, <2>2
<1> QED
  BY <1>2, <1>4, <1>5
InTop(x) == lo <= x /\ x <= hi

LEMMA TopOnly ==
  ASSUME Types, Disjoint, Coherent, ranges # <<>>, NEW x \in Int, InTop(x), NEW y \in Int
  PROVE  /\ Together(x, y) <=> InTop(y)
         /\ Together(y, x) <=> InTop(y)
<1>1. Len(ranges) \in DOMAIN ranges /\ ranges[Len(ranges)][1] = lo /\ ranges[Len(ranges)][2] = hi
  BY TopIs DEF lo, hi
<1>2. ASSUME NEW k \in DOMAIN ranges, Covers(ranges[k], x)
      PROVE  k = Len(ranges)
  <2>1. k \in 1 .. Len(ranges) /\ Len(ranges) \in Nat
    BY TopIs
  <2>2. CASE k < Len(ranges)
    <3>1. ranges[k][2] < lo \/ hi < ranges[k][1]
      BY <1>1, <2>2 DEF Disjoint
    <3>2. ranges[k][1] \in Int /\ ranges[k][2] \in Int /\ lo \in Int /\ hi \in Int
      BY RangesAre, TopIs
    <3> QED
      BY <1>2, <3>1, <3>2 DEF Covers, InTop
  <2> QED
    BY <2>1, <2>2
<1>3. Covers(ranges[Len(ranges)], y) <=> InTop(y)
  BY <1>1 DEF Covers, InTop
<1>4. Covers(ranges[Len(ranges)], x)
  BY <1>1 DEF Covers, InTop
<1> QED
  BY <1>1, <1>2, <1>3, <1>4 DEF Together

(* An arrangement of the elements: they are those of the table, and those   *)
(* that no range has between them are in order.                             *)
Good(c) ==
  /\ c \in [Places -> Elem]
  /\ \E f \in Bijection(Places, Places) : \A x \in Places : c[x] = input[f[x]]
  /\ Coherent => \A x, y \in Places : x < y /\ ~Together(x, y) => Fits(c[x], c[y])

(* It stays one when elements of the running activation's range change      *)
(* places (and with a comparator that answers anything, wherever they are). *)
LEMMA SwapGood ==
  ASSUME Types, Disjoint, ranges # <<>>, NEW c, Good(c),
         NEW k \in Places, NEW l \in Places, Coherent => InTop(k) /\ InTop(l)
  PROVE  Good(Swap(c, k, l))
<1> DEFINE d == Swap(c, k, l)
<1>1. c \in [Places -> Elem]
  BY DEF Good
<1>2. /\ d \in [Places -> Elem] /\ d[k] = c[l] /\ d[l] = c[k]
      /\ \A x \in Places : x # k /\ x # l => d[x] = c[x]
  BY <1>1 DEF Swap
<1>3. \E f \in Bijection(Places, Places) : \A x \in Places : d[x] = input[f[x]]
  <2>1. PICK f \in Bijection(Places, Places) : \A x \in Places : c[x] = input[f[x]]
    BY DEF Good
  <2>2. /\ Swap(f, k, l) \in Bijection(Places, Places)
        /\ Swap(f, k, l)[k] = f[l] /\ Swap(f, k, l)[l] = f[k]
        /\ \A x \in Places : x # k /\ x # l => Swap(f, k, l)[x] = f[x]
    BY SwapBijects
  <2> HIDE DEF d
  <2>5. \A x \in Places : d[x] = input[Swap(f, k, l)[x]]
    BY <1>2, <2>1, <2>2
  <2> QED
    BY <2>2, <2>5
<1>4. ASSUME Coherent, NEW x \in Places, NEW y \in Places, x < y, ~Together(x, y)
      PROVE  Fits(d[x], d[y])
  <2> HIDE DEF d
  <2>1. \A v, w \in Places : v < w /\ ~Together(v, w) => Fits(c[v], c[w])
    BY <1>4 DEF Good
  <2>2. \A v \in Places : v \in Int
    BY Bounds
  <2>3. lo \in Int /\ hi \in Int
    BY TopIs
  <2>4. ~(InTop(x) /\ InTop(y))
    BY <1>4, <2>2, TopOnly
  <2>5. PICK v \in Places : d[x] = c[v] /\ (v = x \/ (InTop(x) /\ InTop(v)))
    BY <1>2, <1>4
  <2>6. PICK w \in Places : d[y] = c[w] /\ (w = y \/ (InTop(y) /\ InTop(w)))
    BY <1>2, <1>4
  <2>7. v < w
    BY <1>4, <2>2, <2>3, <2>4, <2>5, <2>6 DEF InTop
  <2>8. ~Together(v, w)
    <3>1. CASE InTop(x)
      <4>1. InTop(v) /\ w = y /\ ~InTop(y)
        BY <2>4, <2>5, <2>6, <3>1
      <4> QED
        BY <1>4, <2>2, <4>1, TopOnly
    <3>2. CASE InTop(y)
      <4>1. InTop(w) /\ v = x /\ ~InTop(x)
        BY <2>4, <2>5, <2>6, <3>2
      <4> QED
        BY <1>4, <2>2, <4>1, TopOnly
    <3>3. CASE ~InTop(x) /\ ~InTop(y)
      BY <1>4, <2>5, <2>6, <3>3
    <3> QED
      BY <3>1, <3>2, <3>3
  <2> QED
    BY <2>1, <2>5, <2>6, <2>7, <2>8
<1>5. Good(d)
  <2> HIDE DEF d
  <2> QED
    BY <1>2, <1>3, <1>4 DEF Good
<1> QED
  BY <1>5 DEF d

(* The invariant says so of the array, the element in hand put back.        *)
LEMMA ContentsGood ==
  ASSUME IInv, pc # "failed"
  PROVE  Good(Contents) /\ (pc # "insert" => Contents = a)
<1>1. pc = "insert" => j + 1 \in Places
  <2>1. pc = "insert" => ranges # <<>>
    BY DEF IInv, Loops
  <2> QED
    BY <2>1, TopIs, Bounds DEF IInv, Loops
<1>2. Contents \in [Places -> Elem]
  BY <1>1 DEF IInv, Types, Contents
<1>3. Good(Contents)
  BY <1>2 DEF IInv, Rearranged, Settled, Good
<1> QED
  BY <1>3 DEF Contents

-----------------------------------------------------------------------------
(* Steps.  Those that leave the table and the comparator alone, and those   *)
(* that keep the activations too.                                           *)
LEMMA SameIs ==
  ASSUME Types, Same
  PROVE  /\ n' = n /\ Places' = Places /\ input' = input /\ Pair' = Pair
         /\ Coherent' <=> Coherent
         /\ \A x, y : (Fits(x, y)' <=> Fits(x, y)) /\ (Less(x, y)' <=> Less(x, y))
<1>1. n' = n
  BY DEF Same, n
<1> QED
  BY <1>1 DEF Same, Places, Pair, Coherent, Fits, Less

LEMMA RangesKept ==
  ASSUME IInv, Same, ranges' = ranges
  PROVE  /\ lo' = lo /\ hi' = hi /\ mid' = mid /\ Callers' = Callers
         /\ Partitioned' <=> Partitioned
         /\ \A x, y : Together(x, y)' <=> Together(x, y)
         /\ Disjoint' /\ SmallerSideFirst'
<1>1. Coherent' <=> Coherent
  BY SameIs DEF IInv
<1>2. lo' = lo /\ hi' = hi
  BY DEF lo, hi
<1>3. mid' = mid /\ Callers' = Callers /\ (Partitioned' <=> Partitioned)
  BY <1>2 DEF mid, Callers, Partitioned
<1>4. \A x, y : Together(x, y)' <=> Together(x, y)
  BY DEF Together, Covers
<1>5. Disjoint'
  BY <1>1 DEF IInv, Disjoint
<1>6. SmallerSideFirst'
  BY <1>1 DEF IInv, SmallerSideFirst, Span
<1> QED
  BY <1>2, <1>3, <1>4, <1>5, <1>6

(* The next arrangement, when the ranges stay, is good again.               *)
LEMMA Arranged ==
  ASSUME IInv, Same, ranges' = ranges, NEW c, Good(c), Contents' = c
  PROVE  Rearranged' /\ Settled'
<1>1. /\ Places' = Places /\ input' = input /\ (Coherent' <=> Coherent)
      /\ \A x, y : Fits(x, y)' <=> Fits(x, y)
  BY SameIs DEF IInv
<1>2. \A x, y : Together(x, y)' <=> Together(x, y)
  BY RangesKept
<1>3. Rearranged'
  BY <1>1 DEF Good, Rearranged
<1>4. Settled'
  BY <1>1, <1>2 DEF Good, Settled
<1> QED
  BY <1>3, <1>4
LEMMA TypesStep ==
  ASSUME Types, Same, a' \in [Places -> Elem], held' \in Elem,
         pc' \in {"range", "insert", "median1", "median2", "median3", "up", "down",
                  "outside", "check", "done", "failed"},
         ranges' \in Seq(Pair), i' \in 0 .. n, j' \in -1 .. n - 1
  PROVE  Types'
<1>1. n' = n /\ Places' = Places /\ input' = input /\ table' = table
  BY SameIs DEF Same
<1>2. n \in Nat \ {0} /\ table \in [Places -> Elem] /\ input \in [Places -> Elem]
  BY DEF Types
<1> QED
  BY <1>1, <1>2 DEF Types, Pair

LEMMA QuietStep ==
  ASSUME IInv, Same, ranges' = ranges, NEW c, Good(c), Contents' = c,
         Types', Loops', Inserting', Median', Scanning', ScansInBounds'
  PROVE  IInv'
BY RangesKept, Arranged DEF IInv

(* The places that a partition looks at.                                    *)
LEMMA PartitionPlaces ==
  ASSUME Types, ranges # <<>>, Partitioned
  PROVE  /\ lo \in Int /\ mid \in Int /\ hi \in Int
         /\ lo < mid /\ mid < hi /\ 0 <= lo /\ hi < n
         /\ \A x \in {lo, mid, hi - 1, hi} : x \in Places /\ InTop(x)
<1>1. lo \in Int /\ hi \in Int /\ 0 <= lo /\ hi < n
  BY TopIs
<1>2. lo + 1 < hi
  BY <1>1, SortBounds DEF Partitioned
<1>3. mid \in Int /\ lo < mid /\ mid < hi
  BY <1>1, <1>2, Middle DEF mid
<1>4. n \in Nat
  BY Bounds
<1> QED
  BY <1>1, <1>2, <1>3, <1>4 DEF Places, InTop

LEMMA BeginPartitionStep ==
  ASSUME IInv, BeginPartition
  PROVE  IInv'
<1>1. /\ pc = "range" /\ pc' = "median1" /\ Partitioned
      /\ Same /\ a' = a /\ ranges' = ranges /\ i' = i /\ j' = j /\ held' = held
  BY DEF BeginPartition
<1>2. Good(a) /\ Contents' = a
  BY <1>1, ContentsGood DEF Contents
<1>3. Types'
  BY <1>1, TypesStep DEF IInv, Types, Pair
<1>4. Loops'
  BY <1>1, RangesKept DEF IInv, Loops
<1>5. Inserting' /\ Median' /\ Scanning' /\ ScansInBounds'
  BY <1>1 DEF Inserting, Median, Scanning, ScansInBounds
<1> QED
  BY <1>1, <1>2, <1>3, <1>4, <1>5, QuietStep

(* One compare-and-swap of the median.                                      *)
LEMMA OrderedIs ==
  ASSUME IInv, pc \notin {"failed", "insert"}, ranges # <<>>,
         NEW k \in Places, NEW l \in Places, InTop(k), InTop(l), k # l
  PROVE  LET o == Ordered(k, l) IN
         /\ Good(o) /\ o \in [Places -> Elem]
         /\ Coherent => Fits(o[k], o[l])
         /\ \A x \in Places : x # k /\ x # l => o[x] = a[x]
         /\ \/ o[k] = a[k] /\ o[l] = a[l]
            \/ o[k] = a[l] /\ o[l] = a[k]
<1>1. Good(a)
  BY ContentsGood
<1>2. a \in [Places -> Elem]
  BY DEF IInv, Types
<1>3. /\ Swap(a, k, l) \in [Places -> Elem]
      /\ Swap(a, k, l)[k] = a[l] /\ Swap(a, k, l)[l] = a[k]
      /\ \A x \in Places : x # k /\ x # l => Swap(a, k, l)[x] = a[x]
  BY <1>2 DEF Swap
<1>4. Swapped(k, l) = Swap(a, k, l)
  BY DEF Swapped, Swap
<1>5. CASE Less(a[l], a[k])
  <2>1. Ordered(k, l) = Swap(a, k, l)
    BY <1>4, <1>5 DEF Ordered
  <2>2. Good(Swap(a, k, l))
    BY <1>1, SwapGood DEF IInv
  <2>3. Coherent => Fits(a[l], a[k])
    BY <1>2, <1>5, FitsOrders
  <2> QED
    BY <1>3, <2>1, <2>2, <2>3
<1>6. CASE ~Less(a[l], a[k])
  <2>1. Ordered(k, l) = a
    BY <1>6 DEF Ordered
  <2> QED
    BY <1>1, <1>2, <1>6, <2>1 DEF Fits
<1> QED
  BY <1>5, <1>6

LEMMA Median1Step ==
  ASSUME IInv, Median1
  PROVE  IInv'
<1>1. /\ pc = "median1" /\ pc' = "median2"
      /\ Same /\ ranges' = ranges /\ i' = i /\ j' = j /\ held' = held
      /\ ranges # <<>> /\ Partitioned
  BY DEF Median1, IInv, Loops
<1>2. /\ lo \in Places /\ mid \in Places /\ lo # mid /\ InTop(lo) /\ InTop(mid)
      /\ lo \in Int /\ mid \in Int /\ hi \in Int
  BY <1>1, PartitionPlaces DEF IInv
<1>3. /\ Good(a') /\ a' \in [Places -> Elem]
      /\ Coherent => Fits(a'[lo], a'[mid])
  BY <1>1, <1>2, OrderedIs DEF Median1
<1>4. Contents' = a'
  BY <1>1 DEF Contents
<1>5. Types'
  BY <1>1, <1>3, TypesStep DEF IInv, Types, Pair
<1>6. Loops'
  BY <1>1, RangesKept DEF IInv, Loops
<1>7. Median'
  <2>1. lo' = lo /\ mid' = mid
    BY <1>1, RangesKept
  <2>2. (Coherent' <=> Coherent) /\ \A x, y : Fits(x, y)' <=> Fits(x, y)
    BY <1>1, SameIs DEF IInv
  <2> QED
    BY <1>1, <1>3, <2>1, <2>2 DEF Median
<1>8. Inserting' /\ Scanning' /\ ScansInBounds'
  BY <1>1 DEF Inserting, Scanning, ScansInBounds
<1> QED
  BY <1>1, <1>3, <1>4, <1>5, <1>6, <1>7, <1>8, QuietStep

LEMMA Median2Step ==
  ASSUME IInv, Median2
  PROVE  IInv'
<1>1. /\ pc = "median2" /\ pc' = "median3"
      /\ Same /\ ranges' = ranges /\ i' = i /\ j' = j /\ held' = held
      /\ ranges # <<>> /\ Partitioned
  BY DEF Median2, IInv, Loops
<1>2. /\ lo \in Places /\ mid \in Places /\ hi \in Places
      /\ lo # mid /\ mid # hi /\ lo # hi
      /\ InTop(mid) /\ InTop(hi)
  BY <1>1, PartitionPlaces DEF IInv
<1>3. /\ Good(a') /\ a' \in [Places -> Elem]
      /\ Coherent => Fits(a'[mid], a'[hi])
      /\ a'[lo] = a[lo]
      /\ \/ a'[mid] = a[mid] /\ a'[hi] = a[hi]
         \/ a'[mid] = a[hi] /\ a'[hi] = a[mid]
  BY <1>1, <1>2, OrderedIs DEF Median2
<1>4. Contents' = a'
  BY <1>1 DEF Contents
<1>5. Types'
  BY <1>1, <1>3, TypesStep DEF IInv, Types, Pair
<1>6. Loops'
  BY <1>1, RangesKept DEF IInv, Loops
<1>7. Median'
  <2>1. lo' = lo /\ mid' = mid /\ hi' = hi
    BY <1>1, RangesKept
  <2>2. (Coherent' <=> Coherent) /\ \A x, y : Fits(x, y)' <=> Fits(x, y)
    BY <1>1, SameIs DEF IInv
  <2>3. ASSUME Coherent PROVE Fits(a'[lo], a'[hi])
    <3>1. Fits(a[lo], a[mid])
      BY <1>1, <2>3 DEF IInv, Median
    <3>2. a[lo] \in Elem /\ a[mid] \in Elem /\ a[hi] \in Elem
      BY <1>2 DEF IInv, Types
    <3> QED
      BY <1>3, <2>3, <3>1, <3>2, FitsOrders
  <2> QED
    BY <1>1, <1>3, <2>1, <2>2, <2>3 DEF Median
<1>8. Inserting' /\ Scanning' /\ ScansInBounds'
  BY <1>1 DEF Inserting, Scanning, ScansInBounds
<1> QED
  BY <1>1, <1>3, <1>4, <1>5, <1>6, <1>7, <1>8, QuietStep
(* What the scans keep, said of the next state. *)
LEMMA ScanningKept ==
  ASSUME IInv, Same, ranges' = ranges,
         Coherent /\ pc' \in {"up", "down"} =>
           /\ lo <= i' /\ j' < hi /\ a'[hi - 1] = held'
           /\ \A x \in lo .. i' - 1 : Fits(a'[x], held')
           /\ \A x \in j' .. hi : Fits(held', a'[x])
           /\ pc' = "up" => i' < j' /\ Fits(a'[i'], held')
           /\ pc' = "down" => lo < i' /\ i' <= j' /\ Fits(held', a'[i'])
  PROVE  Scanning'
<1>1. lo' = lo /\ hi' = hi
  BY RangesKept
<1>2. (Coherent' <=> Coherent) /\ \A x, y : Fits(x, y)' <=> Fits(x, y)
  BY SameIs DEF IInv
<1> QED
  BY <1>1, <1>2 DEF Scanning

LEMMA Median3Step ==
  ASSUME IInv, Median3
  PROVE  IInv'
<1> DEFINE b == Ordered(lo, mid)
<1>1. /\ pc = "median3" /\ pc' = "up"
      /\ Same /\ ranges' = ranges /\ i' = lo /\ j' = hi - 1 /\ held' = b[mid]
      /\ a' = Swap(b, mid, hi - 1)
      /\ ranges # <<>> /\ Partitioned
  BY DEF Median3, IInv, Loops, Swap
<1>2. /\ lo \in Int /\ mid \in Int /\ hi \in Int
      /\ lo < mid /\ mid < hi /\ 0 <= lo /\ hi < n
      /\ lo \in Places /\ mid \in Places /\ hi - 1 \in Places /\ hi \in Places
      /\ InTop(lo) /\ InTop(mid) /\ InTop(hi - 1) /\ n \in Nat
  BY <1>1, PartitionPlaces, Bounds DEF IInv
<1>3. /\ Good(b) /\ b \in [Places -> Elem]
      /\ Coherent => Fits(b[lo], b[mid])
      /\ b[hi] = a[hi]
      /\ b[mid] \in {a[lo], a[mid]}
  BY <1>1, <1>2, OrderedIs
<1> HIDE DEF b
<1>4. Good(a')
  BY <1>1, <1>2, <1>3, SwapGood DEF IInv
<1>5. /\ a' \in [Places -> Elem] /\ a'[mid] = b[hi - 1] /\ a'[hi - 1] = b[mid]
      /\ \A x \in Places : x # mid /\ x # hi - 1 => a'[x] = b[x]
  BY <1>1, <1>2, <1>3 DEF Swap
<1>6. Contents' = a'
  BY <1>1 DEF Contents
<1>7. Types'
  <2>1. held' \in Elem /\ i' \in 0 .. n /\ j' \in -1 .. n - 1
    BY <1>1, <1>2, <1>3
  <2>2. ranges' \in Seq(Pair)
    BY <1>1 DEF IInv, Types, Pair
  <2> QED
    BY <1>1, <1>5, <2>1, <2>2, TypesStep DEF IInv
<1>8. Loops'
  <2>1. n' = n /\ (Partitioned' <=> Partitioned)
    BY <1>1, RangesKept, SameIs DEF IInv
  <2> QED
    BY <1>1, <1>2, <2>1 DEF Loops
<1>9. Scanning'
  <2> SUFFICES ASSUME Coherent
               PROVE  /\ lo <= i' /\ j' < hi /\ a'[hi - 1] = held'
                      /\ \A x \in lo .. i' - 1 : Fits(a'[x], held')
                      /\ \A x \in j' .. hi : Fits(held', a'[x])
                      /\ i' < j' /\ Fits(a'[i'], held')
    BY <1>1, ScanningKept
  <2>1. Fits(a[lo], a[hi]) /\ Fits(a[mid], a[hi])
    BY <1>1 DEF IInv, Median
  <2>2. lo <= i' /\ j' < hi /\ i' < j' /\ a'[hi - 1] = held'
    BY <1>1, <1>2, <1>5
  <2>3. \A x \in lo .. i' - 1 : Fits(a'[x], held')
    BY <1>1, <1>2
  <2>4. Fits(held', a'[hi])
    BY <1>1, <1>2, <1>3, <1>5, <2>1
  <2>5. Fits(held', held')
    BY <1>1, <1>2, <1>3, FitsOrders
  <2>6. \A x \in j' .. hi : x = hi - 1 \/ x = hi
    BY <1>1, <1>2
  <2>7. \A x \in j' .. hi : Fits(held', a'[x])
    BY <2>2, <2>4, <2>5, <2>6
  <2>8. Fits(a'[i'], held')
    BY <1>1, <1>2, <1>3, <1>5
  <2> QED
    BY <2>2, <2>3, <2>7, <2>8
<1>10. Inserting' /\ Median' /\ ScansInBounds'
  BY <1>1 DEF Inserting, Median, ScansInBounds
<1> QED
  BY <1>1, <1>4, <1>6, <1>7, <1>8, <1>9, <1>10, QuietStep

(* The places of the scans, and that with a coherent comparator the next    *)
(* element is in the array.                                                 *)
LEMMA ScanPlaces ==
  ASSUME IInv, pc \in {"up", "down"}
  PROVE  /\ Partitioned /\ ranges # <<>>
         /\ lo \in Int /\ hi \in Int /\ lo + 1 < hi /\ 0 <= lo /\ hi < n
         /\ i \in Int /\ j \in Int /\ n \in Nat
         /\ 0 <= i /\ i < n /\ 0 <= j /\ j < n
         /\ i \in Places /\ hi - 1 \in Places
         /\ \A x \in Int : Inside(x) <=> 0 <= x /\ x < n
<1>1. Types /\ Partitioned /\ ranges # <<>> /\ i < n /\ j >= 0
  BY DEF IInv, Loops
<1>2. lo \in Int /\ hi \in Int /\ 0 <= lo /\ hi < n
  BY <1>1, TopIs
<1>3. lo + 1 < hi
  BY <1>1, <1>2, SortBounds DEF Partitioned
<1>4. /\ n \in Nat /\ i \in Int /\ j \in Int
      /\ \A x \in Int : Inside(x) <=> 0 <= x /\ x < n
  BY <1>1, Bounds
<1>5. 0 <= i /\ i < n /\ 0 <= j /\ j < n
  BY <1>1, <1>4 DEF Types
<1> QED
  BY <1>1, <1>2, <1>3, <1>4, <1>5 DEF Places

LEMMA ScanUpStep ==
  ASSUME IInv, ScanUp
  PROVE  IInv'
<1>1. /\ pc = "up" /\ i' = i + 1 /\ Same /\ ranges' = ranges
      /\ a' = a /\ j' = j /\ held' = held
  BY DEF ScanUp
<1>2. /\ Partitioned /\ ranges # <<>>
      /\ lo \in Int /\ hi \in Int /\ lo + 1 < hi /\ 0 <= lo /\ hi < n
      /\ i \in Int /\ j \in Int /\ n \in Nat
      /\ 0 <= i /\ i < n /\ 0 <= j /\ j < n
      /\ Inside(i + 1) <=> i + 1 < n
  BY <1>1, ScanPlaces
<1>3. /\ pc' \in {"outside", "up", "down"}
      /\ pc' = "outside" => ~Inside(i + 1)
      /\ pc' \in {"up", "down"} => Inside(i + 1)
      /\ pc' = "up" => Less(a[i + 1], held)
      /\ pc' = "down" => ~Less(a[i + 1], held)
  BY DEF ScanUp
<1>4. Good(a) /\ Contents' = a
  BY <1>1, <1>3, ContentsGood DEF Contents
<1>5. Types'
  <2>1. i' \in 0 .. n
    BY <1>1, <1>2
  <2> QED
    BY <1>1, <1>3, <2>1, TypesStep DEF IInv, Types, Pair
<1>6. Loops'
  <2>1. n' = n /\ (Partitioned' <=> Partitioned)
    BY <1>1, RangesKept, SameIs DEF IInv
  <2> QED
    BY <1>1, <1>2, <1>3, <2>1 DEF Loops
<1>7. ASSUME Coherent
      PROVE  /\ lo <= i /\ i + 1 <= j /\ j < hi /\ a[hi - 1] = held
             /\ \A x \in lo .. i : Fits(a[x], held)
             /\ \A x \in j .. hi : Fits(held, a[x])
  <2>1. /\ lo <= i /\ j < hi /\ a[hi - 1] = held
        /\ \A x \in lo .. i - 1 : Fits(a[x], held)
        /\ \A x \in j .. hi : Fits(held, a[x])
        /\ i < j /\ Fits(a[i], held)
    BY <1>1, <1>7 DEF IInv, Scanning
  <2>2. \A x \in lo .. i : x \in lo .. i - 1 \/ x = i
    BY <1>2
  <2> QED
    BY <1>2, <2>1, <2>2
<1>8. ScansInBounds'
  <2>1. Coherent' <=> Coherent
    BY <1>1, SameIs DEF IInv
  <2> QED
    BY <1>2, <1>3, <1>7, <2>1 DEF ScansInBounds
<1>9. Scanning'
  <2> SUFFICES ASSUME Coherent, pc' \in {"up", "down"}
               PROVE  /\ lo <= i' /\ j' < hi /\ a'[hi - 1] = held'
                      /\ \A x \in lo .. i' - 1 : Fits(a'[x], held')
                      /\ \A x \in j' .. hi : Fits(held', a'[x])
                      /\ pc' = "up" => i' < j' /\ Fits(a'[i'], held')
                      /\ pc' = "down" => lo < i' /\ i' <= j' /\ Fits(held', a'[i'])
    BY <1>1, ScanningKept
  <2>1. i' - 1 = i
    BY <1>1, <1>2
  <2>2. /\ lo <= i' /\ j' < hi /\ a'[hi - 1] = held'
        /\ \A x \in lo .. i' - 1 : Fits(a'[x], held')
        /\ \A x \in j' .. hi : Fits(held', a'[x])
    BY <1>1, <1>2, <1>7, <2>1
  <2>3. ASSUME pc' = "up" PROVE i' < j' /\ Fits(a'[i'], held')
    <3>1. i + 1 # j
      BY <1>2, <1>3, <1>7, <2>3 DEF Fits
    <3>2. a[i + 1] \in Elem /\ held \in Elem
      BY <1>2, <1>7 DEF IInv, Types, Places
    <3>3. Fits(a[i + 1], held)
      BY <1>3, <2>3, <3>2, FitsOrders
    <3> QED
      BY <1>1, <1>2, <1>7, <3>1, <3>3
  <2>4. ASSUME pc' = "down" PROVE lo < i' /\ i' <= j' /\ Fits(held', a'[i'])
    BY <1>1, <1>2, <1>3, <1>7, <2>4 DEF Fits
  <2> QED
    BY <2>2, <2>3, <2>4
<1>10. Inserting' /\ Median'
  BY <1>3 DEF Inserting, Median
<1> QED
  BY <1>1, <1>4, <1>5, <1>6, <1>8, <1>9, <1>10, QuietStep
LEMMA ScanDownStep ==
  ASSUME IInv, ScanDown
  PROVE  IInv'
<1>1. /\ pc = "down" /\ j' = j - 1 /\ Same /\ ranges' = ranges
      /\ a' = a /\ i' = i /\ held' = held
      /\ Inside(j - 1) => Less(held, a[j - 1]) /\ pc' = "down"
      /\ ~Inside(j - 1) => pc' = "outside"
  BY DEF ScanDown
<1>2. /\ Partitioned /\ ranges # <<>>
      /\ lo \in Int /\ hi \in Int /\ lo + 1 < hi /\ 0 <= lo /\ hi < n
      /\ i \in Int /\ j \in Int /\ n \in Nat
      /\ 0 <= i /\ i < n /\ 0 <= j /\ j < n
      /\ Inside(j - 1) <=> 0 <= j - 1
  BY <1>1, ScanPlaces
<1>3. Good(a) /\ Contents' = a
  BY <1>1, ContentsGood DEF Contents
<1>4. Types'
  <2>1. j' \in -1 .. n - 1
    BY <1>1, <1>2
  <2> QED
    BY <1>1, <2>1, TypesStep DEF IInv, Types, Pair
<1>5. Loops'
  <2>1. n' = n /\ (Partitioned' <=> Partitioned)
    BY <1>1, RangesKept, SameIs DEF IInv
  <2> QED
    BY <1>1, <1>2, <2>1 DEF Loops
<1>6. ASSUME Coherent
      PROVE  /\ lo < i /\ i <= j - 1 /\ j < hi /\ a[hi - 1] = held
             /\ \A x \in lo .. i - 1 : Fits(a[x], held)
             /\ \A x \in j - 1 .. hi : Fits(held, a[x])
             /\ Fits(held, a[i])
             /\ pc' = "down"
  <2>1. /\ j < hi /\ a[hi - 1] = held
        /\ \A x \in lo .. i - 1 : Fits(a[x], held)
        /\ \A x \in j .. hi : Fits(held, a[x])
        /\ lo < i /\ i <= j /\ Fits(held, a[i])
    BY <1>1, <1>6 DEF IInv, Scanning
  <2>2. Less(held, a[j - 1]) /\ pc' = "down"
    BY <1>1, <1>2, <2>1
  <2>3. i <= j - 1
    <3>1. CASE i = j
      <4>1. j - 1 \in lo .. i - 1
        BY <1>2, <2>1, <3>1
      <4> QED
        BY <2>1, <2>2, <4>1 DEF Fits
    <3> QED
      BY <1>2, <2>1, <3>1
  <2>4. Fits(held, a[j - 1])
    <3>1. a[j - 1] \in Elem /\ held \in Elem
      BY <1>2, <2>1 DEF IInv, Types, Places
    <3> QED
      BY <1>6, <2>2, <3>1, FitsOrders
  <2>5. \A x \in j - 1 .. hi : x \in j .. hi \/ x = j - 1
    BY <1>2
  <2> QED
    BY <2>1, <2>2, <2>3, <2>4, <2>5
<1>7. Scanning'
  <2> SUFFICES ASSUME Coherent
               PROVE  /\ lo <= i' /\ j' < hi /\ a'[hi - 1] = held'
                      /\ \A x \in lo .. i' - 1 : Fits(a'[x], held')
                      /\ \A x \in j' .. hi : Fits(held', a'[x])
                      /\ lo < i' /\ i' <= j' /\ Fits(held', a'[i']) /\ pc' = "down"
    BY <1>1, ScanningKept
  <2> QED
    BY <1>1, <1>2, <1>6
<1>8. ScansInBounds'
  <2>1. Coherent' <=> Coherent
    BY <1>1, SameIs DEF IInv
  <2> QED
    BY <1>6, <2>1 DEF ScansInBounds
<1>9. Inserting' /\ Median'
  BY <1>1 DEF Inserting, Median
<1> QED
  BY <1>1, <1>3, <1>4, <1>5, <1>7, <1>8, <1>9, QuietStep

(* What the scans know when both have stopped. *)
LEMMA BothStopped ==
  ASSUME IInv, pc = "down", Inside(j - 1), ~Less(held, a[j - 1]), Coherent
  PROVE  /\ lo < i /\ i <= j /\ j < hi /\ a[hi - 1] = held
         /\ \A x \in lo .. i - 1 : Fits(a[x], held)
         /\ \A x \in j .. hi : Fits(held, a[x])
         /\ Fits(held, a[i]) /\ Fits(a[j - 1], held)
BY DEF IInv, Scanning, Fits

LEMMA ExchangeStep ==
  ASSUME IInv, Exchange
  PROVE  IInv'
<1>1. /\ pc = "down" /\ pc' = "up" /\ j' = j - 1 /\ Same /\ ranges' = ranges
      /\ a' = Swap(a, i, j - 1) /\ i' = i /\ held' = held
      /\ Inside(j - 1) /\ ~Less(held, a[j - 1]) /\ i < j - 1
  BY DEF Exchange, Swapped, Swap
<1>2. /\ Partitioned /\ ranges # <<>>
      /\ lo \in Int /\ hi \in Int /\ lo + 1 < hi /\ 0 <= lo /\ hi < n
      /\ i \in Int /\ j \in Int /\ n \in Nat
      /\ 0 <= i /\ i < n /\ 0 <= j /\ j < n
      /\ i \in Places /\ j - 1 \in Places
  BY <1>1, ScanPlaces, Bounds DEF IInv
<1>3. /\ a' \in [Places -> Elem] /\ a'[i] = a[j - 1] /\ a'[j - 1] = a[i]
      /\ \A x \in Places : x # i /\ x # j - 1 => a'[x] = a[x]
  BY <1>1, <1>2 DEF IInv, Types, Swap
<1>4. Contents' = a'
  BY <1>1 DEF Contents
<1>5. Types'
  <2>1. j' \in -1 .. n - 1
    BY <1>1, <1>2
  <2> QED
    BY <1>1, <1>3, <2>1, TypesStep DEF IInv, Types, Pair
<1>6. Loops'
  <2>1. n' = n /\ (Partitioned' <=> Partitioned)
    BY <1>1, RangesKept, SameIs DEF IInv
  <2>2. j' >= 0 /\ i' < n
    BY <1>1, <1>2
  <2> QED
    BY <1>1, <1>2, <2>1, <2>2 DEF Loops
<1>7. ASSUME Coherent
      PROVE  /\ lo < i /\ j < hi /\ a[hi - 1] = held
             /\ \A x \in lo .. i - 1 : Fits(a[x], held)
             /\ \A x \in j .. hi : Fits(held, a[x])
             /\ Fits(held, a[i]) /\ Fits(a[j - 1], held)
  BY <1>1, <1>7, BothStopped
<1>8. Good(a')
  <2>1. Good(a)
    BY <1>1, ContentsGood
  <2>2. Coherent => InTop(i) /\ InTop(j - 1)
    BY <1>1, <1>2, <1>7 DEF InTop
  <2> QED
    BY <1>1, <1>2, <2>1, <2>2, SwapGood DEF IInv
<1>9. Scanning'
  <2> SUFFICES ASSUME Coherent
               PROVE  /\ lo <= i' /\ j' < hi /\ a'[hi - 1] = held'
                      /\ \A x \in lo .. i' - 1 : Fits(a'[x], held')
                      /\ \A x \in j' .. hi : Fits(held', a'[x])
                      /\ i' < j' /\ Fits(a'[i'], held')
    BY <1>1, ScanningKept
  <2>1. lo <= i' /\ j' < hi /\ i' < j'
    BY <1>1, <1>2, <1>7
  <2>2. hi - 1 \in Places /\ hi - 1 # i /\ hi - 1 # j - 1
    BY <1>1, <1>2, <1>7 DEF Places
  <2>3. a'[hi - 1] = held'
    BY <1>1, <1>3, <1>7, <2>2
  <2>4. \A x \in lo .. i' - 1 : Fits(a'[x], held')
    <3> SUFFICES ASSUME NEW x \in lo .. i - 1 PROVE Fits(a'[x], held)
      BY <1>1
    <3>1. x \in Places /\ x # i /\ x # j - 1
      BY <1>1, <1>2 DEF Places
    <3> QED
      BY <1>3, <1>7, <3>1
  <2>5. \A x \in j' .. hi : Fits(held', a'[x])
    <3> SUFFICES ASSUME NEW x \in j - 1 .. hi PROVE Fits(held, a'[x])
      BY <1>1
    <3>1. CASE x = j - 1
      BY <1>3, <1>7, <3>1
    <3>2. CASE x # j - 1
      <4>1. x \in Places /\ x # i /\ x \in j .. hi
        BY <1>1, <1>2, <3>2 DEF Places
      <4> QED
        BY <1>3, <1>7, <3>2, <4>1
    <3> QED
      BY <3>1, <3>2
  <2>6. Fits(a'[i'], held')
    BY <1>1, <1>3, <1>7
  <2> QED
    BY <2>1, <2>3, <2>4, <2>5, <2>6
<1>10. Inserting' /\ Median' /\ ScansInBounds'
  BY <1>1 DEF Inserting, Median, ScansInBounds
<1> QED
  BY <1>1, <1>4, <1>5, <1>6, <1>8, <1>9, <1>10, QuietStep
-----------------------------------------------------------------------------
(* The insertion.                                                           *)
LEMMA InsertionPlaces ==
  ASSUME Types, Loops, pc = "insert"
  PROVE  /\ ranges # <<>> /\ lo \in Int /\ hi \in Int /\ 0 <= lo /\ hi < n
         /\ i \in Int /\ j \in Int /\ n \in Nat
         /\ lo < i /\ i <= hi /\ lo - 1 <= j /\ j < i
         /\ j + 1 \in Places /\ InTop(j + 1)
<1>1. ranges # <<>> /\ lo < i /\ i <= hi /\ lo - 1 <= j /\ j < i
  BY DEF Loops
<1>2. lo \in Int /\ hi \in Int /\ 0 <= lo /\ hi < n /\ i \in Int /\ j \in Int /\ n \in Nat
  BY <1>1, TopIs, Bounds
<1> QED
  BY <1>1, <1>2 DEF Places, InTop

(* What the insertion keeps, said of the next state. *)
LEMMA InsertingKept ==
  ASSUME IInv, Same, ranges' = ranges,
         Coherent /\ pc' = "insert" =>
           \A x, y \in lo .. i' : x < y /\ y # j' + 1 => Fits(Contents'[x], Contents'[y])
  PROVE  Inserting'
<1>1. lo' = lo
  BY RangesKept
<1>2. (Coherent' <=> Coherent) /\ \A x, y : Fits(x, y)' <=> Fits(x, y)
  BY SameIs DEF IInv
<1> QED
  BY <1>1, <1>2 DEF Inserting

LEMMA BeginInsertionStep ==
  ASSUME IInv, BeginInsertion
  PROVE  IInv'
<1>1. /\ pc = "range" /\ pc' = "insert" /\ lo < hi /\ Same /\ ranges' = ranges
      /\ a' = a /\ i' = lo + 1 /\ j' = lo /\ held' = a[lo + 1]
      /\ ranges # <<>>
  BY DEF BeginInsertion, IInv, Loops
<1>2. /\ lo \in Int /\ hi \in Int /\ 0 <= lo /\ hi < n /\ n \in Nat
      /\ a \in [Places -> Elem] /\ lo + 1 \in Places
  <2>1. lo \in Int /\ hi \in Int /\ 0 <= lo /\ hi < n /\ n \in Nat
    BY <1>1, TopIs, Bounds DEF IInv
  <2> QED
    BY <1>1, <2>1 DEF IInv, Types, Places
<1>3. Contents' = a
  <2>1. Contents' = [a EXCEPT ![lo + 1] = a[lo + 1]]
    BY <1>1 DEF Contents
  <2> QED
    BY <1>2, <2>1
<1>4. Good(a)
  BY <1>1, ContentsGood
<1>5. Types'
  <2>1. held' \in Elem /\ i' \in 0 .. n /\ j' \in -1 .. n - 1
    BY <1>1, <1>2
  <2> QED
    BY <1>1, <1>2, <2>1, TypesStep DEF IInv, Types, Pair
<1>6. Loops'
  <2>1. lo' = lo /\ hi' = hi
    BY <1>1, RangesKept
  <2> QED
    BY <1>1, <1>2, <2>1 DEF Loops
<1>7. Inserting'
  <2>1. \A x, y \in lo .. i' : x < y => y = j' + 1
    BY <1>1, <1>2
  <2> QED
    BY <1>1, <2>1, InsertingKept
<1>8. Median' /\ Scanning' /\ ScansInBounds'
  BY <1>1 DEF Median, Scanning, ScansInBounds
<1> QED
  BY <1>1, <1>3, <1>4, <1>5, <1>6, <1>7, <1>8, QuietStep

LEMMA ShiftStep ==
  ASSUME IInv, Shift
  PROVE  IInv'
<1> DEFINE c == Contents
           d == Swap(c, j, j + 1)
<1>1. /\ pc = "insert" /\ pc' = "insert" /\ j >= lo /\ Less(held, a[j])
      /\ Same /\ ranges' = ranges
      /\ a' = [a EXCEPT ![j + 1] = a[j]] /\ i' = i /\ j' = j - 1 /\ held' = held
  BY DEF Shift, Below
<1>2. /\ ranges # <<>> /\ lo \in Int /\ hi \in Int /\ 0 <= lo /\ hi < n
      /\ i \in Int /\ j \in Int /\ n \in Nat
      /\ lo < i /\ i <= hi /\ lo - 1 <= j /\ j < i
      /\ j + 1 \in Places /\ InTop(j + 1)
  BY <1>1, InsertionPlaces DEF IInv
<1>3. /\ j \in Places /\ InTop(j) /\ a \in [Places -> Elem] /\ held \in Elem
  BY <1>1, <1>2 DEF IInv, Types, Places, InTop
<1>4. Good(c) /\ c = [a EXCEPT ![j + 1] = held]
  BY <1>1, ContentsGood DEF Contents
<1>5. /\ c \in [Places -> Elem] /\ c[j + 1] = held /\ c[j] = a[j]
      /\ \A x \in Places : x # j + 1 => c[x] = a[x]
  BY <1>2, <1>3, <1>4
<1>6. Contents' = d
  <2>1. j - 1 + 1 = j /\ j # j + 1
    BY <1>2
  <2>2. Contents' = [a' EXCEPT ![j] = held]
    BY <1>1, <2>1 DEF Contents
  <2> QED
    BY <1>1, <1>2, <1>3, <1>4, <2>1, <2>2 DEF Swap
<1> HIDE DEF c
<1>7. Good(d)
  BY <1>2, <1>3, <1>4, SwapGood DEF IInv
<1>8. /\ d[j] = held /\ d[j + 1] = c[j]
      /\ \A x \in Places : x # j /\ x # j + 1 => d[x] = c[x]
  BY <1>2, <1>3, <1>5 DEF Swap
<1> HIDE DEF d
<1>9. Types'
  <2>1. j' \in -1 .. n - 1
    BY <1>1, <1>2
  <2>2. a' \in [Places -> Elem]
    BY <1>1, <1>3
  <2> QED
    BY <1>1, <2>1, <2>2, TypesStep DEF IInv, Types, Pair
<1>10. Loops'
  <2>1. lo' = lo /\ hi' = hi
    BY <1>1, RangesKept
  <2> QED
    BY <1>1, <1>2, <2>1 DEF Loops
<1>11. Inserting'
  <2> SUFFICES ASSUME Coherent, NEW x \in lo .. i, NEW y \in lo .. i, x < y, y # j
               PROVE  Fits(d[x], d[y])
    <3>1. j' + 1 = j
      BY <1>1, <1>2
    <3> QED
      BY <1>1, <1>6, <3>1, InsertingKept
  <2>1. \A v, w \in lo .. i : v < w /\ w # j + 1 => Fits(c[v], c[w])
    BY <1>1 DEF IInv, Inserting, c
  <2>2. x \in Int /\ y \in Int /\ x \in Places /\ y \in Places /\ j \in lo .. i /\ j + 1 \in lo .. i
    BY <1>1, <1>2 DEF Places
  <2>3. Fits(held, c[j])
    BY <1>1, <1>3, <1>5, FitsOrders
  <2>4. CASE x # j /\ x # j + 1 /\ y # j + 1
    BY <1>8, <2>1, <2>2, <2>4
  <2>5. CASE x = j /\ y = j + 1
    BY <1>8, <2>3, <2>5
  <2>6. CASE x = j /\ y # j + 1
    <3>1. j + 1 < y
      BY <1>2, <2>2, <2>6
    <3>2. Fits(c[j + 1], c[y])
      BY <2>1, <2>2, <2>6, <3>1
    <3> QED
      BY <1>5, <1>8, <2>2, <2>6, <3>2
  <2>7. CASE x = j + 1
    <3>1. j < y /\ y # j + 1
      BY <1>2, <2>2, <2>7
    <3>2. Fits(c[j], c[y])
      BY <2>1, <2>2, <3>1
    <3> QED
      BY <1>8, <2>2, <2>7, <3>1, <3>2
  <2>8. CASE x # j /\ y = j + 1
    <3>1. x < j
      BY <1>2, <2>2, <2>8
    <3>2. Fits(c[x], c[j])
      BY <1>2, <2>1, <2>2, <3>1
    <3> QED
      BY <1>2, <1>8, <2>2, <2>8, <3>1, <3>2
  <2> QED
    BY <2>4, <2>5, <2>6, <2>7, <2>8
<1>12. Median' /\ Scanning' /\ ScansInBounds'
  BY <1>1 DEF Median, Scanning, ScansInBounds
<1> QED
  BY <1>1, <1>6, <1>7, <1>9, <1>10, <1>11, <1>12, QuietStep
(* An activation of sort_qsort returns: what it has sorted is in order. *)
LEMMA ReturnStep ==
  ASSUME IInv, Same, Return, ranges # <<>>, pc # "failed", NEW c, Good(c), a' = c,
         j' = j, held' = held,
         Coherent => \A x, y \in Places : x < y /\ InTop(x) /\ InTop(y) => Fits(c[x], c[y])
  PROVE  IInv'
<1>1. /\ ranges' = Callers /\ i' = 1
      /\ pc' \in {"range", "check"}
      /\ pc' = "range" => Len(ranges) > 1
      /\ pc' = "check" => ~(Len(ranges) > 1)
  BY DEF Return
<1>2. /\ Len(ranges) \in Nat /\ Len(ranges) > 0 /\ DOMAIN ranges = 1 .. Len(ranges)
      /\ lo \in Int /\ hi \in Int
      /\ ranges[Len(ranges)] = <<lo, hi>>
      /\ Callers \in Seq(Pair) /\ Len(Callers) = Len(ranges) - 1
      /\ \A k \in 1 .. Len(ranges) - 1 : Callers[k] = ranges[k]
  BY TopIs DEF IInv
<1>3. /\ n' = n /\ Places' = Places /\ input' = input /\ (Coherent' <=> Coherent)
      /\ \A x, y : Fits(x, y)' <=> Fits(x, y)
  BY SameIs DEF IInv
<1>4. n \in Nat /\ n > 0 /\ \A x \in Places : x \in Int
  BY Bounds DEF IInv
<1>5. Contents' = c
  BY <1>1 DEF Contents
<1>6. Types'
  <2>1. i' \in 0 .. n
    BY <1>1, <1>4
  <2>2. j' \in -1 .. n - 1 /\ held' \in Elem
    BY DEF IInv, Types
  <2>3. a' \in [Places -> Elem]
    BY DEF Good
  <2> QED
    BY <1>1, <1>2, <2>1, <2>2, <2>3, TypesStep DEF IInv
<1>7. Loops'
  <2>1. pc' = "range" => ranges' # <<>>
    BY <1>1, <1>2
  <2>2. pc' = "check" => ranges' = <<>>
    BY <1>1, <1>2
  <2> QED
    BY <1>1, <2>1, <2>2 DEF Loops
<1>8. Rearranged'
  BY <1>3, <1>5 DEF Good, Rearranged
<1>9. DOMAIN ranges' = 1 .. Len(ranges) - 1 /\ Len(ranges') = Len(ranges) - 1
  BY <1>1, <1>2
<1>10. \A k \in DOMAIN ranges' : k \in DOMAIN ranges /\ ranges'[k] = ranges[k]
  BY <1>1, <1>2, <1>9
<1>11. Disjoint'
  BY <1>3, <1>10 DEF IInv, Disjoint
<1>12. SmallerSideFirst'
  <2> SUFFICES ASSUME Coherent, NEW k \in 2 .. Len(ranges')
               PROVE  Span(ranges'[k]) <= Span(ranges'[k - 1])
    BY <1>3 DEF SmallerSideFirst, Span
  <2>1. k \in 2 .. Len(ranges) /\ k \in DOMAIN ranges' /\ k - 1 \in DOMAIN ranges'
    BY <1>2, <1>9
  <2>2. Span(ranges[k]) <= Span(ranges[k - 1])
    BY <2>1 DEF IInv, SmallerSideFirst
  <2> QED
    BY <1>10, <2>1, <2>2
<1>13. Settled'
  <2> SUFFICES ASSUME Coherent, NEW x \in Places, NEW y \in Places, x < y, ~Together(x, y)'
               PROVE  Fits(c[x], c[y])
    BY <1>3, <1>5 DEF Settled
  <2>1. CASE Together(x, y)
    <3>1. PICK k \in DOMAIN ranges : Covers(ranges[k], x) /\ Covers(ranges[k], y)
      BY <2>1 DEF Together
    <3>2. k \notin DOMAIN ranges'
      BY <1>10, <3>1 DEF Together, Covers
    <3>3. k = Len(ranges)
      BY <1>2, <1>9, <3>2
    <3>4. InTop(x) /\ InTop(y)
      BY <1>2, <3>1, <3>3 DEF Covers, InTop
    <3> QED
      BY <3>4
  <2>2. CASE ~Together(x, y)
    BY <2>2 DEF Good
  <2> QED
    BY <2>1, <2>2
<1>14. Inserting' /\ Median' /\ Scanning' /\ ScansInBounds'
  BY <1>1 DEF Inserting, Median, Scanning, ScansInBounds
<1> QED
  BY <1>6, <1>7, <1>8, <1>11, <1>12, <1>13, <1>14 DEF IInv

LEMMA FinishRangeStep ==
  ASSUME IInv, FinishRange
  PROVE  IInv'
<1>1. /\ pc = "range" /\ lo >= hi /\ Return /\ Same
      /\ a' = a /\ j' = j /\ held' = held /\ ranges # <<>>
  BY DEF FinishRange, IInv, Loops
<1>2. Good(a)
  BY <1>1, ContentsGood
<1>3. \A x, y \in Places : x < y /\ InTop(x) /\ InTop(y) => Fits(a[x], a[y])
  <2>1. lo \in Int /\ hi \in Int /\ \A x \in Places : x \in Int
    BY <1>1, TopIs, Bounds DEF IInv
  <2> QED
    BY <1>1, <2>1 DEF InTop
<1> QED
  BY <1>1, <1>2, <1>3, ReturnStep

LEMMA PlaceStep ==
  ASSUME IInv, Place
  PROVE  IInv'
<1> DEFINE c == Contents
<1>1. /\ pc = "insert" /\ (j >= lo => ~Less(held, a[j])) /\ Same
      /\ a' = [a EXCEPT ![j + 1] = held]
  BY DEF Place, Home
<1>2. /\ ranges # <<>> /\ lo \in Int /\ hi \in Int /\ 0 <= lo /\ hi < n
      /\ i \in Int /\ j \in Int /\ n \in Nat
      /\ lo < i /\ i <= hi /\ lo - 1 <= j /\ j < i
      /\ j + 1 \in Places /\ InTop(j + 1)
  BY <1>1, InsertionPlaces DEF IInv
<1>3. a \in [Places -> Elem] /\ held \in Elem
  BY DEF IInv, Types
<1>4. Good(c) /\ c = [a EXCEPT ![j + 1] = held]
  BY <1>1, ContentsGood DEF Contents
<1>5. /\ c \in [Places -> Elem] /\ c[j + 1] = held
      /\ \A x \in Places : x # j + 1 => c[x] = a[x]
  BY <1>2, <1>3, <1>4
<1>6. a' = c
  BY <1>1, <1>4
<1>7. ASSUME Coherent, NEW x \in lo .. i, NEW y \in lo .. i, x < y
      PROVE  Fits(c[x], c[y])
  <2>1. \A v, w \in lo .. i : v < w /\ w # j + 1 => Fits(c[v], c[w])
    BY <1>1, <1>7 DEF IInv, Inserting
  <2> HIDE DEF c
  <2>2. CASE y # j + 1
    BY <1>7, <2>1, <2>2
  <2>3. CASE y = j + 1
    <3>1. j >= lo /\ j \in lo .. i /\ j \in Places /\ x \in Places /\ j # j + 1 /\ (x < j \/ x = j)
      BY <1>2, <1>7, <2>3 DEF Places
    <3>2. Fits(c[j], held)
      BY <1>1, <1>5, <3>1 DEF Fits
    <3>3. x < j => Fits(c[x], c[j])
      BY <1>7, <2>1, <3>1
    <3>4. c[x] \in Elem /\ c[j] \in Elem
      BY <1>5, <3>1
    <3> QED
      BY <1>3, <1>5, <1>7, <2>3, <3>1, <3>2, <3>3, <3>4, FitsOrders
  <2> QED
    BY <2>2, <2>3
<1>8. CASE i < hi
  <2>1. /\ i' = i + 1 /\ j' = i /\ held' = a[i + 1] /\ pc' = "insert" /\ ranges' = ranges
    BY <1>1, <1>8 DEF Place
  <2>2. i + 1 \in Places /\ i + 1 # j + 1
    BY <1>2, <1>8 DEF Places
  <2>3. Contents' = c
    <3>1. c[i + 1] = a[i + 1]
      BY <1>5, <2>2
    <3>2. Contents' = [a' EXCEPT ![i + 1] = a[i + 1]]
      BY <2>1 DEF Contents
    <3> HIDE DEF c
    <3>3. [c EXCEPT ![i + 1] = c[i + 1]] = c
      BY <1>5, <2>2
    <3> QED
      BY <1>6, <3>1, <3>2, <3>3
  <2>4. Types'
    <3>1. held' \in Elem /\ i' \in 0 .. n /\ j' \in -1 .. n - 1
      BY <1>2, <1>3, <1>8, <2>1, <2>2
    <3>2. a' \in [Places -> Elem]
      BY <1>5, <1>6
    <3> QED
      BY <1>1, <2>1, <3>1, <3>2, TypesStep DEF IInv, Types, Pair
  <2>5. Loops'
    <3>1. lo' = lo /\ hi' = hi
      BY <1>1, <2>1, RangesKept
    <3> QED
      BY <1>2, <1>8, <2>1, <3>1 DEF Loops
  <2>6. Inserting'
    <3> SUFFICES ASSUME Coherent, NEW x \in lo .. i', NEW y \in lo .. i', x < y, y # j' + 1
                 PROVE  Fits(c[x], c[y])
      BY <1>1, <2>1, <2>3, InsertingKept
    <3>1. x \in lo .. i /\ y \in lo .. i
      BY <1>2, <2>1
    <3> QED
      BY <1>7, <3>1
  <2>7. Median' /\ Scanning' /\ ScansInBounds'
    BY <2>1 DEF Median, Scanning, ScansInBounds
  <2> QED
    BY <1>1, <1>4, <2>1, <2>3, <2>4, <2>5, <2>6, <2>7, QuietStep
<1>9. CASE ~(i < hi)
  <2>1. Return /\ j' = j /\ held' = held
    BY <1>9 DEF Place
  <2>2. Coherent => \A x, y \in Places : x < y /\ InTop(x) /\ InTop(y) => Fits(c[x], c[y])
    <3> SUFFICES ASSUME Coherent, NEW x \in Places, NEW y \in Places, x < y, InTop(x), InTop(y)
                 PROVE  Fits(c[x], c[y])
      OBVIOUS
    <3>1. x \in Int /\ y \in Int
      BY Bounds DEF IInv
    <3>2. x \in lo .. i /\ y \in lo .. i
      BY <1>2, <1>9, <3>1 DEF InTop
    <3> QED
      BY <1>7, <3>2
  <2> HIDE DEF c
  <2> QED
    BY <1>1, <1>2, <1>4, <1>6, <2>1, <2>2, ReturnStep
<1> QED
  BY <1>8, <1>9
-----------------------------------------------------------------------------
(* The end of a partition: the range falls apart at the pivot.              *)
LEMMA TwoMore ==
  ASSUME NEW S, NEW c \in Seq(S), NEW r \in S, NEW s \in S
  PROVE  /\ c \o <<r, s>> \in Seq(S) /\ Len(c \o <<r, s>>) = Len(c) + 2
         /\ \A k \in 1 .. Len(c) : (c \o <<r, s>>)[k] = c[k]
         /\ (c \o <<r, s>>)[Len(c) + 1] = r /\ (c \o <<r, s>>)[Len(c) + 2] = s
<1> DEFINE t == <<r, s>>
<1>1. t \in Seq(S) /\ Len(t) = 2 /\ t[1] = r /\ t[2] = s
  OBVIOUS
<1>2. Len(c) \in Nat
  OBVIOUS
<1> HIDE DEF t
<1>3. c \o t \in Seq(S)
  BY <1>1, ConcatProperties
<1>4. Len(c \o t) = Len(c) + Len(t)
  BY <1>1, ConcatProperties
<1>5. \A k \in 1 .. Len(c) + Len(t) :
         (c \o t)[k] = IF k <= Len(c) THEN c[k] ELSE t[k - Len(c)]
  BY <1>1, ConcatProperties
<1>6. \A k \in 1 .. Len(c) : (c \o t)[k] = c[k]
  BY <1>1, <1>2, <1>5
<1>7. (c \o t)[Len(c) + 1] = t[1] /\ (c \o t)[Len(c) + 2] = t[2]
  <2>1. /\ Len(c) + 1 \in 1 .. Len(c) + Len(t) /\ ~(Len(c) + 1 <= Len(c)) /\ Len(c) + 1 - Len(c) = 1
        /\ Len(c) + 2 \in 1 .. Len(c) + Len(t) /\ ~(Len(c) + 2 <= Len(c)) /\ Len(c) + 2 - Len(c) = 2
    BY <1>1, <1>2
  <2> QED
    BY <1>5, <2>1
<1> QED
  BY <1>1, <1>3, <1>4, <1>6, <1>7 DEF t

LEMMA SplitIs ==
  ASSUME Types, ranges # <<>>, 0 <= i, i < n
  PROVE  LET m == Len(ranges) IN
         /\ Split \in Seq(Pair) /\ Len(Split) = m + 1
         /\ \A k \in 1 .. m - 1 : Split[k] = ranges[k]
         /\ \/ Split[m] = <<i + 1, hi>> /\ Split[m + 1] = <<lo, i - 1>> /\ i - lo < hi - i
            \/ Split[m] = <<lo, i - 1>> /\ Split[m + 1] = <<i + 1, hi>> /\ ~(i - lo < hi - i)
<1> DEFINE m == Len(ranges)
<1>1. /\ m \in Nat /\ m > 0 /\ Callers \in Seq(Pair) /\ Len(Callers) = m - 1
      /\ \A k \in 1 .. m - 1 : Callers[k] = ranges[k]
      /\ lo \in Int /\ 0 <= lo /\ lo <= n /\ hi \in Int /\ -1 <= hi /\ hi < n
  BY TopIs
<1>2. n \in Nat /\ i \in Int
  BY Bounds
<1>3. <<i + 1, hi>> \in Pair /\ <<lo, i - 1>> \in Pair
  BY <1>1, <1>2 DEF Pair
<1> HIDE DEF m
<1>4. ASSUME NEW r \in Pair, NEW s \in Pair
      PROVE  LET q == Callers \o <<r, s>> IN
             /\ q \in Seq(Pair) /\ Len(q) = m + 1
             /\ \A k \in 1 .. m - 1 : q[k] = ranges[k]
             /\ q[m] = r /\ q[m + 1] = s
  BY <1>1, TwoMore
<1>5. CASE i - lo < hi - i
  <2>1. Split = Callers \o <<<<i + 1, hi>>, <<lo, i - 1>>>>
    BY <1>5 DEF Split
  <2> QED
    BY <1>3, <1>4, <1>5, <2>1 DEF m
<1>6. CASE ~(i - lo < hi - i)
  <2>1. Split = Callers \o <<<<lo, i - 1>>, <<i + 1, hi>>>>
    BY <1>6 DEF Split
  <2> QED
    BY <1>3, <1>4, <1>6, <2>1 DEF m
<1> QED
  BY <1>5, <1>6

LEMMA EndPartitionStep ==
  ASSUME IInv, EndPartition
  PROVE  IInv'
<1> DEFINE m == Len(ranges)
           Low == <<lo, i - 1>>
           High == <<i + 1, hi>>
<1>1. /\ pc = "down" /\ pc' = "range" /\ j' = j - 1 /\ Same /\ ranges' = Split
      /\ a' = Swap(a, i, hi - 1) /\ i' = i /\ held' = held
      /\ Inside(j - 1) /\ ~Less(held, a[j - 1]) /\ i >= j - 1
  BY DEF EndPartition, RestorePivot, Swapped, Swap
<1>2. /\ ranges # <<>>
      /\ lo \in Int /\ hi \in Int /\ lo + 1 < hi /\ 0 <= lo /\ hi < n
      /\ i \in Int /\ j \in Int /\ n \in Nat
      /\ 0 <= i /\ i < n /\ 0 <= j /\ j < n
      /\ i \in Places /\ hi - 1 \in Places
  BY <1>1, ScanPlaces
<1>3. /\ a' \in [Places -> Elem] /\ a'[i] = a[hi - 1] /\ a'[hi - 1] = a[i]
      /\ \A x \in Places : x # i /\ x # hi - 1 => a'[x] = a[x]
  BY <1>1, <1>2 DEF IInv, Types, Swap
<1>4. /\ m \in Nat /\ m > 0 /\ DOMAIN ranges = 1 .. m /\ ranges[m] = <<lo, hi>>
  BY <1>2, TopIs DEF IInv
<1>5. /\ ranges' \in Seq(Pair) /\ Len(ranges') = m + 1
      /\ \A k \in 1 .. m - 1 : ranges'[k] = ranges[k]
      /\ \/ ranges'[m] = High /\ ranges'[m + 1] = Low /\ i - lo < hi - i
         \/ ranges'[m] = Low /\ ranges'[m + 1] = High /\ ~(i - lo < hi - i)
  BY <1>1, <1>2, SplitIs DEF IInv
<1>6. DOMAIN ranges' = 1 .. m + 1
  BY <1>5
<1>7. /\ Low[1] = lo /\ Low[2] = i - 1 /\ High[1] = i + 1 /\ High[2] = hi
      /\ ranges[m][1] = lo /\ ranges[m][2] = hi
  BY <1>4
<1> HIDE DEF m, Low, High
<1>8. /\ n' = n /\ Places' = Places /\ input' = input /\ (Coherent' <=> Coherent)
      /\ \A x, y : Fits(x, y)' <=> Fits(x, y)
  BY <1>1, SameIs DEF IInv
<1>9. ASSUME Coherent
      PROVE  /\ lo < i /\ i < hi /\ a'[i] = held
             /\ \A x \in lo .. i - 1 : Fits(a'[x], held)
             /\ \A x \in i + 1 .. hi : Fits(held, a'[x])
  <2>1. /\ lo < i /\ i <= j /\ j < hi /\ a[hi - 1] = held
        /\ \A x \in lo .. i - 1 : Fits(a[x], held)
        /\ \A x \in j .. hi : Fits(held, a[x])
        /\ Fits(held, a[i])
    BY <1>1, <1>9, BothStopped
  <2>2. \A x \in lo .. i - 1 : Fits(a'[x], held)
    <3> SUFFICES ASSUME NEW x \in lo .. i - 1 PROVE Fits(a'[x], held)
      OBVIOUS
    <3>1. x \in Places /\ x # i /\ x # hi - 1
      BY <1>2, <2>1 DEF Places
    <3> QED
      BY <1>3, <2>1, <3>1
  <2>3. \A x \in i + 1 .. hi : Fits(held, a'[x])
    <3> SUFFICES ASSUME NEW x \in i + 1 .. hi PROVE Fits(held, a'[x])
      OBVIOUS
    <3>1. x \in Places /\ x # i /\ x \in j .. hi
      BY <1>1, <1>2, <2>1 DEF Places
    <3>2. CASE x = hi - 1
      BY <1>3, <2>1, <3>2
    <3>3. CASE x # hi - 1
      BY <1>3, <2>1, <3>1, <3>3
    <3> QED
      BY <3>2, <3>3
  <2> QED
    BY <1>2, <1>3, <2>1, <2>2, <2>3
<1>10. Good(a') /\ Contents' = a'
  <2>1. Good(a)
    BY <1>1, ContentsGood
  <2>2. Coherent => InTop(i) /\ InTop(hi - 1)
    BY <1>2, <1>9 DEF InTop
  <2> QED
    BY <1>1, <1>2, <2>1, <2>2, SwapGood DEF IInv, Contents
<1>11. Types'
  <2>1. j' \in -1 .. n - 1
    BY <1>1, <1>2
  <2>2. held' \in Elem /\ i' \in 0 .. n
    BY <1>1 DEF IInv, Types
  <2> QED
    BY <1>1, <1>3, <1>5, <2>1, <2>2, TypesStep DEF IInv
<1>12. Loops'
  <2>1. ranges' # <<>>
    BY <1>4, <1>5
  <2> QED
    BY <1>1, <2>1 DEF Loops
<1>13. Rearranged'
  BY <1>8, <1>10 DEF Good, Rearranged
<1>14. Disjoint'
  <2> SUFFICES ASSUME Coherent, NEW k \in DOMAIN ranges', NEW l \in DOMAIN ranges', k < l
               PROVE  ranges'[k][2] < ranges'[l][1] \/ ranges'[l][2] < ranges'[k][1]
    BY <1>8 DEF Disjoint
  <2>1. CASE k < m /\ l < m
    <3>1. k \in DOMAIN ranges /\ l \in DOMAIN ranges /\ ranges'[k] = ranges[k] /\ ranges'[l] = ranges[l]
      BY <1>4, <1>5, <1>6, <2>1
    <3> QED
      BY <3>1 DEF IInv, Disjoint
  <2>2. CASE k < m /\ ~(l < m)
    <3>1. k \in DOMAIN ranges /\ m \in DOMAIN ranges /\ ranges'[k] = ranges[k] /\ (l = m \/ l = m + 1)
      BY <1>4, <1>5, <1>6, <2>2
    <3>2. ranges[k][2] < lo \/ hi < ranges[k][1]
      BY <1>7, <2>2, <3>1 DEF IInv, Disjoint
    <3>3. ranges[k][1] \in Int /\ ranges[k][2] \in Int
      BY <3>1, RangesAre DEF IInv
    <3>4. ranges'[l] = Low \/ ranges'[l] = High
      BY <1>5, <3>1
    <3> QED
      BY <1>2, <1>7, <1>9, <3>1, <3>2, <3>3, <3>4
  <2>3. CASE ~(k < m)
    <3>1. k = m /\ l = m + 1
      BY <1>4, <1>6, <2>3
    <3> QED
      BY <1>2, <1>5, <1>7, <3>1
  <2> QED
    BY <2>1, <2>2, <2>3
<1>15. SmallerSideFirst'
  <2> SUFFICES ASSUME Coherent, NEW k \in 2 .. Len(ranges')
               PROVE  Span(ranges'[k]) <= Span(ranges'[k - 1])
    BY <1>8 DEF SmallerSideFirst, Span
  <2>1. CASE k < m
    <3>1. k \in 2 .. Len(ranges) /\ ranges'[k] = ranges[k] /\ ranges'[k - 1] = ranges[k - 1]
      BY <1>4, <1>5, <2>1 DEF m
    <3> QED
      BY <3>1 DEF IInv, SmallerSideFirst
  <2>2. CASE k = m
    <3>1. m \in 2 .. Len(ranges) /\ m - 1 \in DOMAIN ranges /\ ranges'[m - 1] = ranges[m - 1]
      BY <1>4, <1>5, <2>2 DEF m
    <3>2. Span(ranges[m]) <= Span(ranges[m - 1])
      BY <3>1 DEF IInv, SmallerSideFirst
    <3>3. Span(ranges'[m]) <= Span(ranges[m])
      BY <1>2, <1>5, <1>7, <1>9 DEF Span
    <3>4. Span(ranges[m - 1]) \in Int
      <4>1. ranges[m - 1][1] \in Int /\ ranges[m - 1][2] \in Int
        BY <3>1, RangesAre DEF IInv
      <4> QED
        BY <4>1 DEF Span
    <3>5. Span(ranges[m]) \in Int
      BY <1>2, <1>7 DEF Span
    <3>6. Span(ranges'[m]) \in Int
      <4>1. Span(Low) \in Int /\ Span(High) \in Int
        BY <1>2, <1>7 DEF Span
      <4> QED
        BY <1>5, <4>1
    <3> QED
      BY <2>2, <3>1, <3>2, <3>3, <3>4, <3>5, <3>6
  <2>3. CASE ~(k < m) /\ k # m
    <3>1. k = m + 1 /\ k - 1 = m
      BY <1>4, <1>5, <2>3
    <3> QED
      BY <1>2, <1>5, <1>7, <3>1 DEF Span
  <2> QED
    BY <2>1, <2>2, <2>3
<1>16. Settled'
  <2> SUFFICES ASSUME Coherent, NEW x \in Places, NEW y \in Places, x < y, ~Together(x, y)'
               PROVE  Fits(a'[x], a'[y])
    BY <1>8, <1>10 DEF Settled
  <2>1. CASE ~Together(x, y)
    BY <1>10, <2>1 DEF Good
  <2>2. CASE Together(x, y)
    <3>1. PICK k \in DOMAIN ranges : Covers(ranges[k], x) /\ Covers(ranges[k], y)
      BY <2>2 DEF Together
    <3>2. ASSUME NEW l \in DOMAIN ranges'
          PROVE  ~(Covers(ranges'[l], x) /\ Covers(ranges'[l], y))
      BY DEF Together, Covers
    <3>3. k = m
      <4>1. CASE k < m
        <5>1. k \in DOMAIN ranges' /\ ranges'[k] = ranges[k]
          BY <1>4, <1>5, <1>6, <4>1
        <5> QED
          BY <3>1, <3>2, <5>1
      <4> QED
        BY <1>4, <4>1
    <3>4. lo <= x /\ y <= hi /\ x \in Int /\ y \in Int
      BY <1>7, <3>1, <3>3, Bounds DEF IInv, Covers
    <3>5. ~(x < i /\ y < i) /\ ~(x > i /\ y > i)
      <4>1. m \in DOMAIN ranges' /\ m + 1 \in DOMAIN ranges'
        BY <1>4, <1>6
      <4>2. ~(Covers(Low, x) /\ Covers(Low, y)) /\ ~(Covers(High, x) /\ Covers(High, y))
        BY <1>5, <3>2, <4>1
      <4> QED
        BY <1>2, <1>7, <3>4, <4>2 DEF Covers
    <3>6. Fits(a'[x], held) /\ Fits(held, a'[y])
      <4>1. held \in Elem /\ Fits(held, held)
        BY FitsOrders DEF IInv, Types
      <4>2. x < i \/ x = i
        BY <1>2, <3>4, <3>5
      <4>3. y > i \/ y = i
        BY <1>2, <3>4, <3>5
      <4>4. Fits(a'[x], held)
        <5>1. x < i => x \in lo .. i - 1
          BY <1>2, <3>4
        <5> QED
          BY <1>9, <4>1, <4>2, <5>1
      <4>5. Fits(held, a'[y])
        <5>1. y > i => y \in i + 1 .. hi
          BY <1>2, <3>4
        <5> QED
          BY <1>9, <4>1, <4>3, <5>1
      <4> QED
        BY <4>4, <4>5
    <3>7. a'[x] \in Elem /\ a'[y] \in Elem /\ held \in Elem
      BY <1>3 DEF IInv, Types
    <3> QED
      BY <3>6, <3>7, FitsOrders
  <2> QED
    BY <2>1, <2>2
<1>17. Inserting' /\ Median' /\ Scanning' /\ ScansInBounds'
  BY <1>1 DEF Inserting, Median, Scanning, ScansInBounds
<1> QED
  BY <1>11, <1>12, <1>13, <1>14, <1>15, <1>16, <1>17 DEF IInv
-----------------------------------------------------------------------------
(* The check, the write back, and a comparator that fails.                  *)
LEMMA CheckPairStep ==
  ASSUME IInv, CheckPair
  PROVE  IInv'
<1>1. /\ pc = "check" /\ i < n /\ Same /\ ranges' = ranges /\ ranges = <<>>
      /\ a' = a /\ j' = j /\ held' = held
      /\ pc' \in {"check", "failed"} /\ i' \in {i, i + 1}
  BY DEF CheckPair, IInv, Loops
<1>2. Good(a) /\ Contents' = a
  BY <1>1, ContentsGood DEF Contents
<1>3. Types'
  <2>1. n \in Nat /\ i \in Int
    BY Bounds DEF IInv
  <2>2. i \in 0 .. n
    BY DEF IInv, Types
  <2>3. i' \in 0 .. n
    BY <1>1, <2>1, <2>2
  <2> QED
    BY <1>1, <2>3, TypesStep DEF IInv, Types, Pair
<1>4. Loops'
  BY <1>1 DEF Loops
<1>5. Inserting' /\ Median' /\ Scanning' /\ ScansInBounds'
  BY <1>1 DEF Inserting, Median, Scanning, ScansInBounds
<1> QED
  BY <1>1, <1>2, <1>3, <1>4, <1>5, QuietStep

LEMMA WriteBackStep ==
  ASSUME IInv, WriteBack
  PROVE  IInv'
<1>1. /\ pc = "check" /\ pc' = "done" /\ table' = a /\ lt' = lt /\ input' = input
      /\ a' = a /\ ranges' = ranges /\ i' = i /\ j' = j /\ held' = held /\ ranges = <<>>
  BY DEF WriteBack, IInv, Loops
<1>2. n' = n /\ Places' = Places
  <2>1. DOMAIN a = DOMAIN table
    BY Bounds DEF IInv
  <2> QED
    BY <1>1, <2>1 DEF n, Places
<1>3. Types'
  BY <1>1, <1>2 DEF IInv, Types
<1>4. Loops'
  BY <1>1 DEF Loops
<1>5. Contents' = Contents
  BY <1>1 DEF Contents
<1>6. (Coherent' <=> Coherent) /\ \A x, y : Fits(x, y)' <=> Fits(x, y)
  BY <1>1 DEF Coherent, Fits, Less
<1>7. Rearranged'
  BY <1>1, <1>2, <1>5 DEF IInv, Rearranged
<1>8. Settled'
  <2>1. \A x, y : Together(x, y)' <=> Together(x, y)
    BY <1>1 DEF Together, Covers
  <2> QED
    BY <1>1, <1>2, <1>5, <1>6, <2>1 DEF IInv, Settled
<1>9. Disjoint' /\ SmallerSideFirst'
  BY <1>1, <1>6 DEF IInv, Disjoint, SmallerSideFirst, Span
<1>10. Inserting' /\ Median' /\ Scanning' /\ ScansInBounds'
  BY <1>1 DEF Inserting, Median, Scanning, ScansInBounds
<1> QED
  BY <1>3, <1>4, <1>7, <1>8, <1>9, <1>10 DEF IInv

LEMMA ComparatorFailsStep ==
  ASSUME IInv, ComparatorFails
  PROVE  IInv'
<1>1. /\ pc' = "failed" /\ Same /\ ranges' = ranges
      /\ a' = a /\ i' = i /\ j' = j /\ held' = held
  BY DEF ComparatorFails
<1>2. Types'
  BY <1>1, TypesStep DEF IInv, Types, Pair
<1>3. Loops' /\ Rearranged' /\ Settled' /\ Inserting' /\ Median' /\ Scanning' /\ ScansInBounds'
  BY <1>1 DEF Loops, Rearranged, Settled, Inserting, Median, Scanning, ScansInBounds
<1> QED
  BY <1>1, <1>2, <1>3, RangesKept DEF IInv

LEMMA StutterStep ==
  ASSUME IInv, UNCHANGED vars
  PROVE  IInv'
<1>1. /\ Same /\ ranges' = ranges /\ pc' = pc
      /\ a' = a /\ i' = i /\ j' = j /\ held' = held
  BY DEF vars, Same
<1>2. /\ n' = n /\ Places' = Places /\ input' = input /\ table' = table
      /\ Coherent' <=> Coherent
      /\ \A x, y : Fits(x, y)' <=> Fits(x, y)
  BY <1>1, SameIs DEF IInv, Same
<1>3. /\ lo' = lo /\ hi' = hi /\ mid' = mid
      /\ Partitioned' <=> Partitioned
      /\ \A x, y : Together(x, y)' <=> Together(x, y)
      /\ Disjoint' /\ SmallerSideFirst'
  BY <1>1, RangesKept
<1>4. Contents' = Contents
  BY <1>1 DEF Contents
<1>5. Types' /\ Loops'
  BY <1>1, <1>2, <1>3 DEF IInv, Types, Loops
<1>6. Rearranged' /\ Settled'
  BY <1>1, <1>2, <1>3, <1>4 DEF IInv, Rearranged, Settled
<1>7. Inserting' /\ Median'
  BY <1>1, <1>2, <1>3, <1>4 DEF IInv, Inserting, Median
<1>8. Scanning' /\ ScansInBounds'
  BY <1>1, <1>2, <1>3 DEF IInv, Scanning, ScansInBounds
<1> QED
  BY <1>3, <1>5, <1>6, <1>7, <1>8 DEF IInv

-----------------------------------------------------------------------------
LEMMA Start ==
  ASSUME Init
  PROVE  IInv
<1>1. PICK len \in Lengths : table \in [0 .. len - 1 -> Elem]
  BY DEF Init
<1>2. len \in Nat /\ len > 0
  BY SortBounds
<1>3. n = len
  <2>1. DOMAIN table = 0 .. len - 1
    BY <1>1
  <2>2. Cardinality(0 .. len - 1) = len
    BY <1>2, FS_Interval
  <2> QED
    BY <2>1, <2>2 DEF n
<1>4. /\ input = table /\ a = table /\ ranges = <<<<0, n - 1>>>>
      /\ pc = "range" /\ i = 0 /\ j = 0 /\ held = table[0]
  BY DEF Init
<1>5. n \in Nat /\ n > 0 /\ table \in [Places -> Elem] /\ 0 \in Places
  BY <1>1, <1>2, <1>3 DEF Places
<1>6. /\ Len(ranges) = 1 /\ DOMAIN ranges = {1}
      /\ ranges[1] = <<0, n - 1>> /\ ranges[1][1] = 0 /\ ranges[1][2] = n - 1
  BY <1>4
<1>7. Types
  <2>1. <<0, n - 1>> \in Pair
    BY <1>5 DEF Pair
  <2>2. ranges \in Seq(Pair)
    BY <1>4, <2>1
  <2>3. held \in Elem /\ i \in 0 .. n /\ j \in -1 .. n - 1
    BY <1>4, <1>5
  <2> QED
    BY <1>4, <1>5, <2>2, <2>3 DEF Types, Pair
<1>8. Loops
  BY <1>4, <1>6 DEF Loops
<1>9. Contents = a
  BY <1>4 DEF Contents
<1>10. Rearranged
  <2> DEFINE f == [x \in Places |-> x]
  <2>1. f \in Bijection(Places, Places)
    <3>1. f \in [Places -> Places]
      OBVIOUS
    <3>2. \A x, y \in Places : f[x] = f[y] => x = y
      OBVIOUS
    <3>3. \A x \in Places : \E y \in Places : f[y] = x
      OBVIOUS
    <3> QED
      BY <3>1, <3>2, <3>3, Fun_IsBij
  <2>2. \A x \in Places : Contents[x] = input[f[x]]
    BY <1>4, <1>9
  <2> QED
    BY <2>1, <2>2 DEF Rearranged
<1>11. Settled
  <2>1. \A x, y \in Places : Together(x, y)
    BY <1>5, <1>6 DEF Together, Covers, Places
  <2> QED
    BY <2>1 DEF Settled
<1>12. Disjoint /\ SmallerSideFirst
  BY <1>6 DEF Disjoint, SmallerSideFirst
<1>13. Inserting /\ Median /\ Scanning /\ ScansInBounds
  BY <1>4 DEF Inserting, Median, Scanning, ScansInBounds
<1> QED
  BY <1>7, <1>8, <1>10, <1>11, <1>12, <1>13 DEF IInv

LEMMA Step ==
  ASSUME IInv, [Next]_vars
  PROVE  IInv'
<1>1. CASE BeginPartition BY <1>1, BeginPartitionStep
<1>2. CASE BeginInsertion BY <1>2, BeginInsertionStep
<1>3. CASE FinishRange BY <1>3, FinishRangeStep
<1>4. CASE Shift BY <1>4, ShiftStep
<1>5. CASE Place BY <1>5, PlaceStep
<1>6. CASE Median1 BY <1>6, Median1Step
<1>7. CASE Median2 BY <1>7, Median2Step
<1>8. CASE Median3 BY <1>8, Median3Step
<1>9. CASE ScanUp BY <1>9, ScanUpStep
<1>10. CASE ScanDown BY <1>10, ScanDownStep
<1>11. CASE Exchange BY <1>11, ExchangeStep
<1>12. CASE EndPartition BY <1>12, EndPartitionStep
<1>13. CASE CheckPair BY <1>13, CheckPairStep
<1>14. CASE WriteBack BY <1>14, WriteBackStep
<1>15. CASE ComparatorFails BY <1>15, ComparatorFailsStep
<1>16. CASE UNCHANGED vars BY <1>16, StutterStep
<1> QED
  BY <1>1, <1>2, <1>3, <1>4, <1>5, <1>6, <1>7, <1>8, <1>9, <1>10, <1>11, <1>12,
     <1>13, <1>14, <1>15, <1>16 DEF Next, Progress

(* Every call of table.sort (tablib.cpp:490) keeps the invariant, for every *)
(* length, cutoff and comparator.                                           *)
THEOREM Invariance == Spec => []IInv
<1>1. Init => IInv
  BY Start
<1>2. IInv /\ [Next]_vars => IInv'
  BY Step
<1> QED
  BY <1>1, <1>2, PTL DEF Spec

-----------------------------------------------------------------------------
(* No element is lost or doubled, whatever the comparator answers. *)
LEMMA Permutes ==
  ASSUME IInv
  PROVE  Permutation
<1> SUFFICES ASSUME pc # "failed", NEW e \in Elem
             PROVE  Cardinality({k \in DOMAIN a : Contents[k] = e})
                      = Cardinality({k \in DOMAIN a : input[k] = e})
  BY DEF Permutation
<1>1. DOMAIN a = Places /\ n \in Nat
  BY Bounds DEF IInv
<1>2. PICK f \in Bijection(Places, Places) : \A x \in Places : Contents[x] = input[f[x]]
  BY DEF IInv, Rearranged
<1>3. /\ f \in [Places -> Places]
      /\ \A x, y \in Places : f[x] = f[y] => x = y
      /\ \A z \in Places : \E x \in Places : f[x] = z
  BY Fun_BijectionProperties
<1> DEFINE X == {k \in Places : Contents[k] = e}
           Y == {k \in Places : input[k] = e}
           g == [x \in X |-> f[x]]
<1>4. g \in [X -> Y]
  BY <1>2, <1>3
<1>5. \A x, y \in X : g[x] = g[y] => x = y
  BY <1>3
<1>6. \A z \in Y : \E x \in X : g[x] = z
  BY <1>2, <1>3
<1>7. IsFiniteSet(X)
  <2>1. IsFiniteSet(Places)
    BY <1>1, FS_Interval DEF Places
  <2> QED
    BY <2>1, FS_Subset
<1>8. g \in Bijection(X, Y)
  <2> HIDE DEF g, X, Y
  <2> QED
    BY <1>4, <1>5, <1>6, Fun_IsBij
<1>9. Cardinality(Y) = Cardinality(X)
  <2> HIDE DEF g, X, Y
  <2>1. ExistsBijection(X, Y)
    BY <1>8 DEF ExistsBijection
  <2> QED
    BY <1>7, <2>1, FS_Bijection
<1> QED
  BY <1>1, <1>9

LEMMA TypesHold ==
  ASSUME IInv
  PROVE  TypeOK
<1>1. \A k \in DOMAIN ranges : ranges[k][1] \in 0 .. n /\ ranges[k][2] \in -1 .. n - 1
  <2> SUFFICES ASSUME NEW k \in DOMAIN ranges
               PROVE  ranges[k][1] \in 0 .. n /\ ranges[k][2] \in -1 .. n - 1
    OBVIOUS
  <2>1. ranges[k] \in Pair
    BY RangesAre DEF IInv
  <2> QED
    BY <2>1 DEF Pair
<1> QED
  BY <1>1 DEF IInv, Types, TypeOK, Places

LEMMA Sorted ==
  ASSUME IInv
  PROVE  SortedWhenDone
<1> SUFFICES ASSUME Coherent, pc = "done", NEW k \in DOMAIN table, NEW l \in DOMAIN table, k < l
             PROVE  ~Less(table[l], table[k])
  BY DEF SortedWhenDone
<1>1. ranges = <<>> /\ table = a /\ Contents = a
  BY DEF IInv, Loops, Contents
<1>2. k \in Places /\ l \in Places
  BY Bounds DEF IInv
<1>3. ~Together(k, l)
  BY <1>1 DEF Together
<1>4. Fits(Contents[k], Contents[l])
  BY <1>2, <1>3 DEF IInv, Settled
<1> QED
  BY <1>1, <1>4 DEF Fits

(* table.sort returns the elements of the table, each as often as before,   *)
(* and in order if the comparator is a strict weak order (tablib.cpp:545).  *)
THEOREM Sorts == Spec => []SortResult
<1>1. IInv => SortResult
  BY Permutes, TypesHold, Sorted DEF SortResult
<1> QED
  BY <1>1, Invariance, PTL

(* With such a comparator no scan of a partition leaves the array, although *)
(* none checks a bound (tablib.cpp:499), and every activation has at most   *)
(* as much to sort as its caller (tablib.cpp:513).                          *)
THEOREM StaysIn == Spec => []SortStaysIn
<1>1. IInv => SortStaysIn
  BY DEF IInv, SortStaysIn
<1> QED
  BY <1>1, Invariance, PTL

-----------------------------------------------------------------------------
(* Joining a sequence of sequences.                                         *)
Flattens(f, s, size) == \A x \in 1 .. size : f[x] = IF x = 1 THEN s[x] ELSE f[x - 1] \o s[x]

LEMMA FlattenUnique ==
  ASSUME NEW f, NEW g, NEW s, NEW t, NEW size \in Nat,
         Flattens(f, s, size), Flattens(g, t, size), \A x \in 1 .. size : s[x] = t[x]
  PROVE  \A x \in 1 .. size : f[x] = g[x]
<1> DEFINE T == {m \in 1 .. size : f[m] # g[m]}
           R == {ss \in Nat \X Nat : ss[1] < ss[2]}
<1> SUFFICES ASSUME T # {} PROVE FALSE OBVIOUS
<1>1. IsWellFoundedOn(R, Nat) BY NatLessThanWellFounded DEF OpToRel
<1>2. T \subseteq Nat OBVIOUS
<1> HIDE DEF R, T
<1>3. PICK m \in T : \A y \in T : ~(<<y, m>> \in R) BY <1>1, <1>2, WFMin
<1>4. \A y \in T : ~(y < m) BY <1>2, <1>3 DEF R
<1>5. m \in 1 .. size /\ f[m] # g[m] BY DEF T
<1>6. CASE m = 1 BY <1>5, <1>6 DEF Flattens
<1>7. CASE m # 1
  <2>1. m - 1 \in 1 .. size /\ m - 1 < m BY <1>5, <1>7
  <2>2. f[m - 1] = g[m - 1] BY <1>4, <2>1 DEF T
  <2>3. f[m] = f[m - 1] \o s[m] BY <1>5, <1>7 DEF Flattens
  <2>4. g[m] = g[m - 1] \o t[m] BY <1>5, <1>7 DEF Flattens
  <2> QED BY <1>5, <2>2, <2>3, <2>4
<1> QED BY <1>6, <1>7

LEMMA FlattenExists ==
  ASSUME NEW S, NEW s \in Seq(Seq(S)), NEW size \in 0 .. Len(s)
  PROVE  \E f \in [1 .. size -> Seq(S)] : Flattens(f, s, size)
<1> DEFINE T == {m \in 0 .. Len(s) : ~ \E f \in [1 .. m -> Seq(S)] : Flattens(f, s, m)}
           R == {ss \in Nat \X Nat : ss[1] < ss[2]}
<1> SUFFICES ASSUME T # {} PROVE FALSE OBVIOUS
<1>1. IsWellFoundedOn(R, Nat) BY NatLessThanWellFounded DEF OpToRel
<1>2. T \subseteq Nat OBVIOUS
<1> HIDE DEF R, T
<1>3. PICK m \in T : \A y \in T : ~(<<y, m>> \in R) BY <1>1, <1>2, WFMin
<1>4. \A y \in T : ~(y < m) BY <1>2, <1>3 DEF R
<1>5. m \in 0 .. Len(s) /\ ~ \E f \in [1 .. m -> Seq(S)] : Flattens(f, s, m) BY DEF T
<1>6. CASE m = 0
  <2>1. [x \in 1 .. 0 |-> <<>>] \in [1 .. 0 -> Seq(S)] OBVIOUS
  <2>2. Flattens([x \in 1 .. 0 |-> <<>>], s, 0) BY DEF Flattens
  <2> QED BY <1>5, <1>6, <2>1, <2>2
<1>7. CASE m # 0
  <2>1. m - 1 \in 0 .. Len(s) /\ m - 1 < m /\ m \in 1 .. Len(s) BY <1>5, <1>7, LenProperties
  <2>2. PICK f \in [1 .. m - 1 -> Seq(S)] : Flattens(f, s, m - 1) BY <1>4, <2>1 DEF T
  <2> DEFINE last == IF m = 1 THEN s[m] ELSE f[m - 1] \o s[m]
             g == [x \in 1 .. m |-> IF x = m THEN last ELSE f[x]]
  <2>3. s[m] \in Seq(S) BY <2>1, ElementOfSeq
  <2>4. last \in Seq(S)
    <3>1. CASE m = 1 BY <2>3, <3>1
    <3>2. CASE m # 1
      <4>1. f[m - 1] \in Seq(S) BY <2>1, <3>2
      <4>2. f[m - 1] \o s[m] \in Seq(S) BY <2>3, <4>1, ConcatProperties
      <4> QED BY <3>2, <4>2
    <3> QED BY <3>1, <3>2
  <2> HIDE DEF last
  <2>5. g \in [1 .. m -> Seq(S)] BY <2>1, <2>4
  <2>6. ASSUME NEW x \in 1 .. m PROVE g[x] = IF x = 1 THEN s[x] ELSE g[x - 1] \o s[x]
    <3>1. CASE x = m
      <4>1. CASE m = 1 BY <3>1, <4>1 DEF last
      <4>2. CASE m # 1
        <5>1. m - 1 \in 1 .. m /\ g[m - 1] = f[m - 1] BY <2>1, <4>2
        <5>2. g[x] = last BY <3>1
        <5>3. last = f[m - 1] \o s[m] BY <4>2 DEF last
        <5> HIDE DEF g
        <5> QED BY <3>1, <4>2, <5>1, <5>2, <5>3
      <4> QED BY <4>1, <4>2
    <3>2. CASE x # m
      <4>1. x \in 1 .. m - 1 /\ g[x] = f[x] BY <2>1, <3>2
      <4>2. x # 1 => x - 1 \in 1 .. m /\ g[x - 1] = f[x - 1] BY <2>1, <3>2
      <4>3. f[x] = IF x = 1 THEN s[x] ELSE f[x - 1] \o s[x] BY <2>2, <4>1 DEF Flattens
      <4> HIDE DEF g
      <4> QED BY <4>1, <4>2, <4>3
    <3> QED BY <3>1, <3>2
  <2>7. Flattens(g, s, m)
    <3> HIDE DEF g
    <3> QED BY <2>6 DEF Flattens
  <2> HIDE DEF g
  <2> QED BY <1>5, <2>5, <2>7
<1> QED BY <1>6, <1>7

LEMMA FlattenIs ==
  ASSUME NEW S, NEW s \in Seq(Seq(S)), Len(s) # 0, NEW f, Flattens(f, s, Len(s))
  PROVE  FlattenSeq(s) = f[Len(s)]
<1> DEFINE Body(h) == [x \in 1 .. Len(s) |-> IF x = 1 THEN s[x] ELSE h[x - 1] \o s[x]]
           flat == CHOOSE h : h = Body(h)
<1>1. Len(s) \in Nat BY LenProperties
<1>2. PICK g \in [1 .. Len(s) -> Seq(S)] : Flattens(g, s, Len(s)) BY <1>1, FlattenExists
<1>3. g = Body(g) BY <1>2 DEF Flattens
<1>4. flat = Body(flat)
  <2> HIDE DEF Body
  <2> QED BY <1>3
<1>5. FlattenSeq(s) = flat[Len(s)] BY DEF FlattenSeq
<1> HIDE DEF flat
<1>6. Flattens(flat, s, Len(s))
  <2>1. ASSUME NEW x \in 1 .. Len(s) PROVE flat[x] = IF x = 1 THEN s[x] ELSE flat[x - 1] \o s[x]
    <3>1. flat[x] = Body(flat)[x] BY <1>4
    <3> QED BY <3>1
  <2> QED BY <2>1 DEF Flattens
<1>7. flat[Len(s)] = f[Len(s)]
  <2>1. Len(s) \in 1 .. Len(s) BY <1>1
  <2> QED BY <1>1, <1>6, <2>1, FlattenUnique
<1> QED BY <1>5, <1>7

LEMMA FlattenType ==
  ASSUME NEW S, NEW s \in Seq(Seq(S))
  PROVE  FlattenSeq(s) \in Seq(S)
<1>1. Len(s) \in Nat BY LenProperties
<1>2. CASE Len(s) = 0
  <2>1. s = <<>> BY <1>2
  <2> QED BY <1>2, <2>1 DEF FlattenSeq
<1>3. CASE Len(s) # 0
  <2>1. PICK g \in [1 .. Len(s) -> Seq(S)] : Flattens(g, s, Len(s)) BY <1>1, FlattenExists
  <2>2. Len(s) \in 1 .. Len(s) BY <1>1, <1>3
  <2> QED BY <1>3, <2>1, <2>2, FlattenIs
<1> QED BY <1>2, <1>3

LEMMA FlattenAppend ==
  ASSUME NEW S, NEW s \in Seq(Seq(S)), NEW e \in Seq(S)
  PROVE  FlattenSeq(Append(s, e)) = FlattenSeq(s) \o e
<1> DEFINE size == Len(s)
           t == Append(s, e)
<1>1. size \in Nat BY LenProperties
<1>2. t \in Seq(Seq(S)) /\ Len(t) = size + 1 /\ t[size + 1] = e /\ \A x \in 1 .. size : t[x] = s[x]
  BY AppendProperties
<1> HIDE DEF t
<1>3. PICK g \in [1 .. size + 1 -> Seq(S)] : Flattens(g, t, size + 1)
  <2>1. size + 1 \in 0 .. Len(t) BY <1>1, <1>2
  <2> HIDE DEF size
  <2> QED BY <1>2, <2>1, FlattenExists
<1>4. FlattenSeq(t) = g[size + 1] BY <1>1, <1>2, <1>3, FlattenIs
<1>5. CASE size = 0
  <2>1. s = <<>> BY <1>5
  <2>2. FlattenSeq(s) = <<>> BY <2>1, <1>5 DEF FlattenSeq
  <2>3. g[1] = e BY <1>2, <1>3, <1>5 DEF Flattens
  <2>4. <<>> \o e = e BY ConcatEmptySeq
  <2> QED BY <1>4, <1>5, <2>2, <2>3, <2>4 DEF t
<1>6. CASE size # 0
  <2>1. Flattens(g, s, size)
    <3>1. ASSUME NEW x \in 1 .. size PROVE g[x] = IF x = 1 THEN s[x] ELSE g[x - 1] \o s[x]
      <4>1. x \in 1 .. size + 1 BY <1>1
      <4>2. g[x] = IF x = 1 THEN t[x] ELSE g[x - 1] \o t[x] BY <1>3, <4>1 DEF Flattens
      <4>3. t[x] = s[x] BY <1>2
      <4> QED BY <4>2, <4>3
    <3> QED BY <3>1 DEF Flattens
  <2>2. FlattenSeq(s) = g[size] BY <1>6, <2>1, FlattenIs
  <2>3. g[size + 1] = g[size] \o e
    <3>1. size + 1 \in 1 .. size + 1 /\ size + 1 # 1 /\ (size + 1) - 1 = size BY <1>1, <1>6
    <3>2. g[size + 1] = g[(size + 1) - 1] \o t[size + 1] BY <1>3, <3>1 DEF Flattens
    <3> QED BY <1>2, <3>1, <3>2
  <2> QED BY <1>4, <2>2, <2>3 DEF t
<1> QED BY <1>5, <1>6

-----------------------------------------------------------------------------
(* Parts of a sequence.                                                     *)
LEMMA SliceIn ==
  ASSUME NEW S, NEW s \in Seq(S), NEW x \in 0 .. Len(s), NEW size \in Int, x + size <= Len(s)
  PROVE  Slice(s, x, size) \in Seq(S)
<1>1. \A y \in x + 1 .. x + size : s[y] \in S
  <2> SUFFICES ASSUME NEW y \in x + 1 .. x + size PROVE s[y] \in S OBVIOUS
  <2>1. y \in 1 .. Len(s) BY LenProperties
  <2> QED BY <2>1, ElementOfSeq
<1>2. x + 1 \in Int /\ x + size \in Int OBVIOUS
<1> QED BY <1>1, <1>2, SubSeqProperties DEF Slice

LEMMA SliceJoin ==
  ASSUME NEW S, NEW s \in Seq(S), NEW x \in 0 .. Len(s), NEW y \in x .. Len(s), NEW z \in y .. Len(s)
  PROVE  Slice(s, x, y - x) \o Slice(s, y, z - y) = Slice(s, x, z - x)
<1>1. Len(s) \in Nat BY LenProperties
<1>2. /\ x + 1 \in 1 .. Len(s) + 1
      /\ y \in x + 1 - 1 .. Len(s) /\ z \in y .. Len(s)
      /\ x + (y - x) = y /\ y + (z - y) = z /\ x + (z - x) = z
  BY <1>1
<1>3. SubSeq(s, x + 1, y) \o SubSeq(s, y + 1, z) = SubSeq(s, x + 1, z) BY <1>2, ConcatAdjacentSubSeq
<1> QED BY <1>2, <1>3 DEF Slice

LEMMA SliceNone ==
  ASSUME NEW s, NEW x \in Int, NEW size \in Int, size <= 0
  PROVE  Slice(s, x, size) = <<>>
<1>1. x + 1 \in Int /\ x + size \in Int /\ x + size < x + 1 OBVIOUS
<1> QED BY <1>1, SubSeqEmpty DEF Slice

LEMMA SliceWhole ==
  ASSUME NEW S, NEW s \in Seq(S)
  PROVE  Slice(s, 0, Len(s)) = s
<1>1. 0 + 1 = 1 /\ 0 + Len(s) = Len(s) BY LenProperties
<1> QED BY <1>1, SubSeqFull DEF Slice

LEMMA SliceByte ==
  ASSUME NEW x \in 0 .. Len(subj), subj \in Seq(Bytes)
  PROVE  /\ x < Len(subj) => Byte(x) = Slice(subj, x, 1)
         /\ x = Len(subj) => Byte(x) = <<>>
<1>1. Len(subj) \in Nat BY LenProperties
<1>2. CASE x = Len(subj) BY <1>1, <1>2 DEF Byte
<1>3. CASE x < Len(subj)
  <2>1. x + 1 \in 1 .. Len(subj) /\ x + 1 \in x + 1 .. Len(subj) BY <1>1, <1>3
  <2>2. SubSeq(subj, x + 1, x + 1) = <<subj[x + 1]>> \o SubSeq(subj, x + 1 + 1, x + 1)
    BY <2>1, SubSeqRecursiveFirst
  <2>3. SubSeq(subj, x + 1 + 1, x + 1) = <<>> BY <2>1, SubSeqEmpty
  <2>4. subj[x + 1] \in Bytes BY <2>1, ElementOfSeq
  <2>5. <<subj[x + 1]>> \in Seq(Bytes) BY <2>4
  <2>6. <<subj[x + 1]>> \o <<>> = <<subj[x + 1]>> BY <2>5, ConcatEmptySeq
  <2> QED BY <1>3, <2>2, <2>3, <2>6 DEF Byte, Slice
<1> QED BY <1>1, <1>2, <1>3

-----------------------------------------------------------------------------
(* The arguments of a call, and what the matcher gives for them.            *)
LEMMA ArgTypes ==
  ASSUME ScanArgs
  PROVE  /\ subj \in Seq(Bytes) /\ Len(subj) \in Nat
         /\ pat.anchored \in BOOLEAN /\ pat.items \in Seq(Items(Bytes))
         /\ init \in Int /\ limit \in Int
         /\ \A t \in Texts : t \in Seq(Bytes)
BY StringsAssumption, LenProperties DEF ScanArgs, PatternsOver

Capture(size) ==
  {c \in [start : 0 .. size, len : {Position} \cup 0 .. size] :
     c.len = Position \/ c.start + c.len <= size}

LEMMA AtOutcome ==
  ASSUME ScanArgs, NEW x \in 0 .. Len(subj)
  PROVE  /\ At(x).end \in {NoMatch, Malformed} \cup x .. Len(subj)
         /\ At(x).captures \in Seq(Capture(Len(subj)))
<1>1. At(x) \in Attempts(x, Len(subj)) BY StringsAssumption DEF ScanArgs, At
<1> QED BY <1>1 DEF Attempts, Capture

LEMMA AtPlace ==
  ASSUME NEW x, PatternAt(subj, x, pat).end # Malformed
  PROVE  PatternAt(subj, x, pat) = At(x)
BY DEF PatternAt, At

LEMMA PlaceTypes ==
  ASSUME ScanArgs
  PROVE  /\ GmatchPos(init, Len(subj)) \in Nat
         /\ RelPos(init, Len(subj)) \in 0 .. Len(subj)
<1>1. Len(subj) \in Nat /\ init \in Int BY ArgTypes
<1>2. FromEnd(init, Len(subj)) \in Int BY <1>1 DEF FromEnd
<1>3. GmatchPos(init, Len(subj)) \in Nat BY <1>1, <1>2 DEF GmatchPos
<1>4. FromEnd(init, Len(subj)) <= Len(subj) => GmatchPos(init, Len(subj)) <= Len(subj)
  BY <1>1, <1>2 DEF GmatchPos
<1> QED BY <1>1, <1>2, <1>3, <1>4 DEF RelPos

LEMMA PosNat ==
  ASSUME ScanArgs, ScanTypeOK
  PROVE  pos \in Nat
<1>1. Len(subj) \in Nat BY ArgTypes
<1>2. GmatchPos(init, Len(subj)) \in Nat BY PlaceTypes
<1>3. pos \in 0 .. Len(subj) + 1 \/ pos = GmatchPos(init, Len(subj)) BY DEF ScanTypeOK
<1> QED BY <1>1, <1>2, <1>3

-----------------------------------------------------------------------------
(* What a match gives to the caller.                                        *)
Match(m) == /\ m.start \in 0 .. Len(subj) /\ m.end \in m.start .. Len(subj)
            /\ m.captures \in Seq(Capture(Len(subj)))

LEMMA WholeTyped ==
  ASSUME ScanArgs, NEW m, Match(m)
  PROVE  WholeMatch(subj, m.start, m.end) \in Seq(Bytes)
<1>1. Len(subj) \in Nat /\ subj \in Seq(Bytes) BY ArgTypes
<1>2. m.start \in 0 .. Len(subj) /\ m.end - m.start \in Int /\ m.start + (m.end - m.start) <= Len(subj)
  BY <1>1 DEF Match
<1> QED BY <1>1, <1>2, SliceIn DEF WholeMatch

LEMMA CapturesTyped ==
  ASSUME ScanArgs, NEW caps \in Seq(Capture(Len(subj)))
  PROVE  CapsToLua(subj, caps) \in Seq(Lua) /\ DOMAIN CapsToLua(subj, caps) = 1 .. Len(caps)
<1> DEFINE v(k) == IF caps[k].len = Position THEN [position |-> caps[k].start + 1]
                   ELSE [text |-> Slice(subj, caps[k].start, caps[k].len)]
<1>1. Len(subj) \in Nat /\ subj \in Seq(Bytes) BY ArgTypes
<1>2. DOMAIN caps = 1 .. Len(caps) /\ Len(caps) \in Nat BY LenProperties
<1>3. ASSUME NEW k \in 1 .. Len(caps) PROVE v(k) \in Lua
  <2>1. caps[k] \in Capture(Len(subj)) BY <1>3, ElementOfSeq
  <2>2. CASE caps[k].len = Position
    <3>1. caps[k].start + 1 \in Nat BY <1>1, <2>1 DEF Capture
    <3> QED BY <2>2, <3>1 DEF Lua
  <2>3. CASE caps[k].len # Position
    <3>1. /\ caps[k].start \in 0 .. Len(subj) /\ caps[k].len \in Int
          /\ caps[k].start + caps[k].len <= Len(subj)
      BY <1>1, <2>1, <2>3 DEF Capture
    <3>2. Slice(subj, caps[k].start, caps[k].len) \in Seq(Bytes) BY <1>1, <3>1, SliceIn
    <3> QED BY <2>3, <3>2 DEF Lua
  <2> QED BY <2>2, <2>3
<1>4. CapsToLua(subj, caps) = [k \in 1 .. Len(caps) |-> v(k)] BY <1>2 DEF CapsToLua
<1> HIDE DEF v
<1> QED BY <1>2, <1>3, <1>4, SeqDef

LEMMA GivenTyped ==
  ASSUME ScanArgs, NEW m, Match(m)
  PROVE  Given(subj, m) \in Seq(Lua)
<1>1. CASE m.captures = <<>>
  <2>1. [text |-> WholeMatch(subj, m.start, m.end)] \in Lua BY WholeTyped DEF Lua
  <2> QED BY <1>1, <2>1 DEF Given
<1>2. CASE m.captures # <<>>
  <2>1. CapsToLua(subj, m.captures) \in Seq(Lua) BY CapturesTyped DEF Match
  <2> QED BY <1>2, <2>1 DEF Given
<1> QED BY <1>1, <1>2

LEMMA ItemTyped ==
  ASSUME ScanArgs, NEW m, Match(m), NEW tmpl \in Templates, ~ReplFails(tmpl, m), NEW k \in DOMAIN tmpl
  PROVE  ItemText(subj, m, tmpl[k]) \in Seq(Bytes)
<1> DEFINE item == tmpl[k]
<1>1. tmpl \in Seq([op : {"literal"}, byte : Bytes] \cup [op : {"capture"}, n : 0 .. 9] \cup {BadEscape})
  BY StringsAssumption
<1>2. item \in [op : {"literal"}, byte : Bytes] \cup [op : {"capture"}, n : 0 .. 9]
  <2>1. k \in 1 .. Len(tmpl) BY <1>1, LenProperties
  <2>2. item \in [op : {"literal"}, byte : Bytes] \cup [op : {"capture"}, n : 0 .. 9] \cup {BadEscape}
    BY <1>1, <2>1, ElementOfSeq
  <2>3. item # BadEscape BY DEF ReplFails
  <2> QED BY <2>2, <2>3
<1>3. item.op = "capture" => ~(item.n > Len(m.captures) /\ item.n > 1) BY DEF ReplFails
<1> HIDE DEF item
<1>4. CASE item \in [op : {"literal"}, byte : Bytes]
  <2>1. item.op = "literal" /\ <<item.byte>> \in Seq(Bytes) BY <1>4
  <2>2. ItemText(subj, m, item) = <<item.byte>> BY <2>1 DEF ItemText
  <2> QED BY <2>1, <2>2 DEF item
<1>5. CASE item \in [op : {"capture"}, n : 0 .. 9]
  <2>1. item.op = "capture" /\ item.op # "literal" /\ item.n \in 0 .. 9 BY <1>5
  <2>2. CASE item.n = 0 \/ item.n > Len(m.captures)
    <3>1. ItemText(subj, m, item) = WholeMatch(subj, m.start, m.end) BY <2>1, <2>2 DEF ItemText
    <3> QED BY <3>1, WholeTyped DEF item
  <2>3. CASE ~(item.n = 0 \/ item.n > Len(m.captures))
    <3> DEFINE v == CapsToLua(subj, m.captures)[item.n]
    <3>1. m.captures \in Seq(Capture(Len(subj))) BY DEF Match
    <3>2. item.n \in 1 .. Len(m.captures) BY <2>1, <2>3, <3>1, LenProperties
    <3>3. m.captures[item.n] \in Capture(Len(subj)) BY <3>1, <3>2, ElementOfSeq
    <3>4. v = IF m.captures[item.n].len = Position THEN [position |-> m.captures[item.n].start + 1]
              ELSE [text |-> Slice(subj, m.captures[item.n].start, m.captures[item.n].len)]
      BY <3>1, <3>2, LenProperties DEF CapsToLua
    <3>5. ItemText(subj, m, item) = IF "text" \in DOMAIN v THEN v.text ELSE Numeral(v.position)
      BY <2>1, <2>3 DEF ItemText
    <3>6. Len(subj) \in Nat /\ subj \in Seq(Bytes) /\ subj \in Subjects BY ArgTypes DEF ScanArgs
    <3>7. CASE m.captures[item.n].len = Position
      <4>1. v = [position |-> m.captures[item.n].start + 1] BY <3>4, <3>7
      <4>2. "text" \notin DOMAIN v /\ v.position = m.captures[item.n].start + 1 BY <4>1
      <4>3. m.captures[item.n].start + 1 \in 1 .. Len(subj) + 1 BY <3>3, <3>6 DEF Capture
      <4>4. Numeral(m.captures[item.n].start + 1) \in Seq(Bytes) BY <3>6, <4>3, NumeralAssumption
      <4> HIDE DEF v
      <4> QED BY <3>5, <4>2, <4>4 DEF item
    <3>8. CASE m.captures[item.n].len # Position
      <4>1. v = [text |-> Slice(subj, m.captures[item.n].start, m.captures[item.n].len)] BY <3>4, <3>8
      <4>2. "text" \in DOMAIN v /\ v.text = Slice(subj, m.captures[item.n].start, m.captures[item.n].len)
        BY <4>1
      <4>3. /\ m.captures[item.n].start \in 0 .. Len(subj) /\ m.captures[item.n].len \in Int
            /\ m.captures[item.n].start + m.captures[item.n].len <= Len(subj)
        BY <3>3, <3>6, <3>8 DEF Capture
      <4>4. v.text \in Seq(Bytes) BY <3>6, <4>2, <4>3, SliceIn
      <4> HIDE DEF v
      <4> QED BY <3>5, <4>2, <4>4 DEF item
    <3> QED BY <3>7, <3>8
  <2> QED BY <2>2, <2>3
<1> QED BY <1>2, <1>4, <1>5

LEMMA ReplTyped ==
  ASSUME ScanArgs, NEW m, Match(m), NEW tmpl \in Templates, ~ReplFails(tmpl, m)
  PROVE  ApplyRepl(tmpl, subj, m) \in Seq(Bytes)
<1> DEFINE s == [k \in DOMAIN tmpl |-> ItemText(subj, m, tmpl[k])]
<1>1. tmpl \in Seq([op : {"literal"}, byte : Bytes] \cup [op : {"capture"}, n : 0 .. 9] \cup {BadEscape})
  BY StringsAssumption
<1>2. DOMAIN tmpl = 1 .. Len(tmpl) /\ Len(tmpl) \in Nat BY <1>1, LenProperties
<1>3. s \in [1 .. Len(tmpl) -> Seq(Bytes)] BY <1>2, ItemTyped
<1>4. s \in Seq(Seq(Bytes)) BY <1>2, <1>3, SeqDef
<1> HIDE DEF s
<1>5. FlattenSeq(s) \in Seq(Bytes) BY <1>4, FlattenType
<1> QED BY <1>5 DEF ApplyRepl, s

-----------------------------------------------------------------------------
(* The log of matches.                                                      *)
LEMMA LogFacts ==
  ASSUME ScanArgs, LogOrdered
  PROVE  /\ Len(log) \in Nat /\ DOMAIN log = 1 .. Len(log)
         /\ \A k \in 1 .. Len(log) : log[k] \in Entry
BY LenProperties, ElementOfSeq DEF LogOrdered

LEMMA EntriesTyped ==
  ASSUME NEW L \in Seq(Entry), NEW k \in DOMAIN L
  PROVE  L[k].end \in 0 .. Len(subj) /\ \A v \in Range(L[k].given) : v \in Lua
<1>1. k \in 1 .. Len(L) BY LenProperties
<1>2. L[k] \in Entry BY <1>1, ElementOfSeq
<1>3. L[k].given \in Seq(Lua) /\ L[k].end \in 0 .. Len(subj) BY <1>2 DEF Entry
<1>4. Range(L[k].given) \in SUBSET Lua BY <1>3, RangeOfSeq
<1> QED BY <1>3, <1>4

LEMMA SameArgs ==
  ASSUME ScanArgs, UNCHANGED args
  PROVE  ScanArgs' /\ (Len(subj))' = Len(subj) /\ \A x : At(x)' = At(x)
BY DEF ScanArgs, args, IsText, At

LEMMA SameLog ==
  ASSUME LogOrdered, UNCHANGED args, log' = log
  PROVE  LogOrdered'
BY DEF LogOrdered, args, Entry, At

LEMMA LogGrows ==
  ASSUME ScanArgs, LogOrdered, UNCHANGED args,
         NEW e \in Entry, e.start <= e.end, e.end = At(e.start).end,
         log # <<>> => e.start >= log[Len(log)].end /\ e.end > log[Len(log)].end,
         log' = Append(log, e)
  PROVE  /\ LogOrdered' /\ log' # <<>> /\ (Len(log))' = Len(log) + 1
         /\ log'[Len(log) + 1] = e /\ \A k \in 1 .. Len(log) : log'[k] = log[k]
<1>1. /\ Len(log) \in Nat /\ DOMAIN log = 1 .. Len(log)
      /\ log \in Seq(Entry)
  BY LogFacts DEF LogOrdered
<1>2. /\ log' \in Seq(Entry) /\ Len(log') = Len(log) + 1 /\ log' # <<>>
      /\ log'[Len(log) + 1] = e /\ \A k \in 1 .. Len(log) : log'[k] = log[k]
  BY <1>1, AppendProperties
<1>3. DOMAIN log' = 1 .. Len(log) + 1 BY <1>2, LenProperties
<1>4. Entry' = Entry BY DEF Entry, args
<1>5. \A x : At(x)' = At(x) BY SameArgs
<1>6. ASSUME NEW k \in DOMAIN log' PROVE log'[k].start <= log'[k].end /\ log'[k].end = At(log'[k].start).end
  <2>1. CASE k = Len(log) + 1 BY <1>2, <2>1
  <2>2. CASE k # Len(log) + 1
    <3>1. k \in 1 .. Len(log) BY <1>1, <1>3, <2>2
    <3> QED BY <1>1, <1>2, <3>1 DEF LogOrdered
  <2> QED BY <2>1, <2>2
<1>7. ASSUME NEW k \in 2 .. Len(log') PROVE log'[k].start >= log'[k - 1].end /\ log'[k].end > log'[k - 1].end
  <2>1. k - 1 \in 1 .. Len(log) /\ log'[k - 1] = log[k - 1] BY <1>1, <1>2
  <2>2. CASE k = Len(log) + 1
    <3>1. Len(log) # 0 /\ log # <<>> /\ k - 1 = Len(log) BY <1>1, <2>1, <2>2
    <3> QED BY <1>2, <2>1, <2>2, <3>1
  <2>3. CASE k # Len(log) + 1
    <3>1. k \in 2 .. Len(log) /\ k \in 1 .. Len(log) BY <1>1, <1>2, <2>3
    <3>2. log[k].start >= log[k - 1].end /\ log[k].end > log[k - 1].end BY <3>1 DEF LogOrdered
    <3> QED BY <1>2, <2>1, <3>1, <3>2
  <2> QED BY <2>2, <2>3
<1>8. LogOrdered' BY <1>2, <1>4, <1>5, <1>6, <1>7 DEF LogOrdered
<1> QED BY <1>2, <1>8

(* A new match answers for the places it covers.                            *)
LEMMA LeftmostGrows ==
  ASSUME ScanArgs, LogOrdered, ScanIsLeftmost, scan = "running", UNCHANGED args,
         NEW e \in Entry, e.start <= e.end, e.end = At(e.start).end,
         log # <<>> => e.start >= log[Len(log)].end /\ e.end > log[Len(log)].end,
         log' = Append(log, e),
         ~pat.anchored =>
           \A x \in Passed' \cap 0 .. Len(subj) :
             \/ x \in Passed \/ x = e.start \/ x \in e.start .. e.end - 1 \/ At(x).end = NoMatch
             \/ At(x).end = x /\ (\E k \in DOMAIN log : x = log[k].end)
  PROVE  ScanIsLeftmost'
<1> SUFFICES ASSUME ~pat.anchored
             PROVE  /\ \A k \in DOMAIN log' :
                         /\ log'[k].end = At(log'[k].start).end
                         /\ k > 1 => /\ log'[k].start >= log'[k - 1].end
                                     /\ log'[k].end > log'[k - 1].end
                    /\ \A x \in Passed' \cap 0 .. Len(subj) :
                         \/ At(x).end = NoMatch
                         \/ \E k \in DOMAIN log' : x = log'[k].start \/ x \in log'[k].start .. log'[k].end - 1
                         \/ At(x).end = x /\ (\E k \in DOMAIN log' : x = log'[k].end)
  BY SameArgs DEF ScanIsLeftmost, args
<1>1. /\ LogOrdered' /\ (Len(log))' = Len(log) + 1 /\ log' \in Seq(Entry)
      /\ log'[Len(log) + 1] = e /\ \A k \in 1 .. Len(log) : log'[k] = log[k]
  BY LogGrows, AppendProperties DEF LogOrdered
<1>2. Len(log) \in Nat /\ DOMAIN log = 1 .. Len(log) BY LogFacts
<1>3. DOMAIN log' = 1 .. Len(log) + 1 BY <1>1, LenProperties
<1>4. ASSUME NEW k \in DOMAIN log'
      PROVE  /\ log'[k].end = At(log'[k].start).end
             /\ k > 1 => log'[k].start >= log'[k - 1].end /\ log'[k].end > log'[k - 1].end
  <2>1. log'[k].end = At(log'[k].start).end BY <1>1, SameArgs DEF LogOrdered
  <2>2. k > 1 => k \in 2 .. Len(log') BY <1>1, <1>2, <1>3
  <2> QED BY <1>1, <2>1, <2>2 DEF LogOrdered
<1>5. ASSUME NEW x \in Passed' \cap 0 .. Len(subj)
      PROVE  \/ At(x).end = NoMatch
             \/ \E k \in DOMAIN log' : x = log'[k].start \/ x \in log'[k].start .. log'[k].end - 1
             \/ At(x).end = x /\ (\E k \in DOMAIN log' : x = log'[k].end)
  <2>1. CASE x = e.start \/ x \in e.start .. e.end - 1
    <3>1. Len(log) + 1 \in DOMAIN log' BY <1>2, <1>3
    <3> QED BY <1>1, <2>1, <3>1
  <2>2. CASE At(x).end = x /\ (\E k \in DOMAIN log : x = log[k].end)
    <3>1. PICK k \in DOMAIN log : x = log[k].end BY <2>2
    <3>2. k \in DOMAIN log' /\ log'[k] = log[k] BY <1>1, <1>2, <1>3
    <3> QED BY <2>2, <3>1, <3>2
  <2>3. CASE x \in Passed
    <3>1. \/ At(x).end = NoMatch
          \/ \E k \in DOMAIN log : x = log[k].start \/ x \in log[k].start .. log[k].end - 1
          \/ At(x).end = x /\ (\E k \in DOMAIN log : x = log[k].end)
      BY <2>3 DEF ScanIsLeftmost
    <3>2. CASE \E k \in DOMAIN log : x = log[k].start \/ x \in log[k].start .. log[k].end - 1
      <4>1. PICK k \in DOMAIN log : x = log[k].start \/ x \in log[k].start .. log[k].end - 1 BY <3>2
      <4>2. k \in DOMAIN log' /\ log'[k] = log[k] BY <1>1, <1>2, <1>3
      <4> QED BY <4>1, <4>2
    <3>3. CASE At(x).end = x /\ (\E k \in DOMAIN log : x = log[k].end)
      <4>1. PICK k \in DOMAIN log : x = log[k].end BY <3>3
      <4>2. k \in DOMAIN log' /\ log'[k] = log[k] BY <1>1, <1>2, <1>3
      <4> QED BY <3>3, <4>1, <4>2
    <3> QED BY <3>1, <3>2, <3>3
  <2> QED BY <2>1, <2>2, <2>3
<1> QED BY <1>4, <1>5

-----------------------------------------------------------------------------
(* The result of gsub, piece by piece.                                      *)
Pieces == [k \in DOMAIN log |-> Gap(k, log[k].start) \o log[k].text]

LEMMA EndTyped ==
  ASSUME ScanArgs, LogOrdered, NEW k \in 1 .. Len(log)
  PROVE  EndBefore(k) \in 0 .. log[k].start
<1>1. Len(log) \in Nat /\ \A m \in 1 .. Len(log) : log[m] \in Entry BY LogFacts
<1>2. Len(subj) \in Nat BY ArgTypes
<1>3. CASE k = 1 BY <1>1, <1>2, <1>3 DEF EndBefore, Entry
<1>4. CASE k # 1
  <2>1. k - 1 \in 1 .. Len(log) /\ k \in 2 .. Len(log) BY <1>1, <1>4
  <2>2. log[k].start >= log[k - 1].end BY <2>1 DEF LogOrdered
  <2>3. log[k - 1].end \in Nat /\ log[k].start \in Nat BY <1>1, <1>2, <2>1 DEF Entry
  <2> QED BY <1>4, <2>2, <2>3 DEF EndBefore
<1> QED BY <1>3, <1>4

LEMMA PiecesTyped ==
  ASSUME ScanArgs, LogOrdered
  PROVE  Pieces \in Seq(Seq(Bytes)) /\ Len(Pieces) = Len(log)
<1>1. /\ Len(log) \in Nat /\ DOMAIN log = 1 .. Len(log)
      /\ \A m \in 1 .. Len(log) : log[m] \in Entry
  BY LogFacts
<1>2. Len(subj) \in Nat /\ subj \in Seq(Bytes) BY ArgTypes
<1>3. ASSUME NEW k \in 1 .. Len(log) PROVE Gap(k, log[k].start) \o log[k].text \in Seq(Bytes)
  <2>1. EndBefore(k) \in 0 .. log[k].start BY EndTyped
  <2>2. log[k].start \in 0 .. Len(subj) /\ log[k].text \in Seq(Bytes) BY <1>1 DEF Entry
  <2>3. /\ EndBefore(k) \in 0 .. Len(subj) /\ log[k].start - EndBefore(k) \in Int
        /\ EndBefore(k) + (log[k].start - EndBefore(k)) <= Len(subj)
    BY <1>2, <2>1, <2>2
  <2>4. Gap(k, log[k].start) \in Seq(Bytes) BY <1>2, <2>3, SliceIn DEF Gap
  <2> QED BY <2>2, <2>4, ConcatProperties
<1>4. Pieces \in [1 .. Len(log) -> Seq(Bytes)] BY <1>1, <1>3 DEF Pieces
<1>5. Pieces \in Seq(Seq(Bytes)) BY <1>1, <1>4, SeqDef
<1> QED BY <1>1, <1>4, <1>5, LenProperties

LEMMA PiecesGrow ==
  ASSUME ScanArgs, LogOrdered, UNCHANGED args,
         NEW e \in Entry, e.start <= e.end, e.end = At(e.start).end,
         log # <<>> => e.start >= log[Len(log)].end /\ e.end > log[Len(log)].end,
         log' = Append(log, e),
         Gap(Len(log) + 1, e.start) \in Seq(Bytes)
  PROVE  Pieces' = Append(Pieces, Gap(Len(log) + 1, e.start) \o e.text)
<1> DEFINE size == Len(log)
           piece == Gap(size + 1, e.start) \o e.text
<1>1. size \in Nat /\ DOMAIN log = 1 .. size /\ Pieces \in Seq(Seq(Bytes)) /\ Len(Pieces) = size
  BY LogFacts, PiecesTyped
<1>2. /\ log' \in Seq(Entry) /\ Len(log') = size + 1
      /\ log'[size + 1] = e /\ \A k \in 1 .. size : log'[k] = log[k]
  BY LogGrows, AppendProperties DEF LogOrdered
<1>3. DOMAIN log' = 1 .. size + 1 BY <1>2, LenProperties
<1>4. piece \in Seq(Bytes)
  <2>1. e.text \in Seq(Bytes) BY DEF Entry
  <2> QED BY <2>1, ConcatProperties
<1> HIDE DEF piece
<1>5. /\ Append(Pieces, piece) \in Seq(Seq(Bytes)) /\ Len(Append(Pieces, piece)) = size + 1
      /\ Append(Pieces, piece)[size + 1] = piece
      /\ \A k \in 1 .. size : Append(Pieces, piece)[k] = Pieces[k]
  BY <1>1, <1>4, AppendProperties
<1>6. \A k \in 1 .. size + 1 : EndBefore(k)' = EndBefore(k)
  <2> SUFFICES ASSUME NEW k \in 1 .. size + 1 PROVE EndBefore(k)' = EndBefore(k) OBVIOUS
  <2>1. k # 1 => k - 1 \in 1 .. size BY <1>1
  <2> QED BY <1>2, <2>1 DEF EndBefore
<1>7. ASSUME NEW k \in 1 .. size + 1 PROVE Pieces'[k] = Append(Pieces, piece)[k]
  <2>1. Pieces'[k] = Slice(subj, EndBefore(k), log'[k].start - EndBefore(k)) \o log'[k].text
    BY <1>3, <1>6 DEF Pieces, Gap, args
  <2>2. CASE k = size + 1 BY <1>2, <1>5, <2>1, <2>2 DEF piece, Gap
  <2>3. CASE k # size + 1
    <3>1. k \in 1 .. size BY <1>1, <2>3
    <3>2. Pieces[k] = Slice(subj, EndBefore(k), log[k].start - EndBefore(k)) \o log[k].text
      BY <1>1, <3>1 DEF Pieces, Gap
    <3> QED BY <1>2, <1>5, <2>1, <3>1, <3>2
  <2> QED BY <2>2, <2>3
<1>8. DOMAIN Pieces' = 1 .. size + 1 BY <1>3 DEF Pieces
<1>9. Append(Pieces, piece) \in [1 .. size + 1 -> Seq(Bytes)] BY <1>5, LenProperties
<1>10. Pieces' = [k \in 1 .. size + 1 |-> Pieces'[k]] BY <1>8 DEF Pieces
<1> HIDE DEF size
<1>11. Pieces' = Append(Pieces, piece) BY <1>7, <1>9, <1>10
<1> QED BY <1>11 DEF piece, size

LEMMA GsubPlace ==
  ASSUME ScanIInv, op = "gsub", scan = "running"
  PROVE  /\ pos \in 0 .. Len(subj) + 1 /\ CopiedSoFar \in 0 .. Len(subj)
         /\ EndBefore(Len(log) + 1) \in 0 .. CopiedSoFar
         /\ result = FlattenSeq(Pieces) \o Gap(Len(log) + 1, CopiedSoFar)
         /\ FlattenSeq(Pieces) \in Seq(Bytes)
         /\ Gap(Len(log) + 1, CopiedSoFar) \in Seq(Bytes)
         /\ IF log = <<>> THEN prevEnd = None /\ EndBefore(Len(log) + 1) = 0
            ELSE prevEnd = log[Len(log)].end /\ EndBefore(Len(log) + 1) = prevEnd /\ prevEnd <= pos
<1>1. Len(subj) \in Nat /\ subj \in Seq(Bytes) BY ArgTypes DEF ScanIInv
<1>2. Len(log) \in Nat /\ \A k \in 1 .. Len(log) : log[k] \in Entry BY LogFacts DEF ScanIInv
<1>3. pos \in 0 .. Len(subj) + 1
  <2>1. pos \in Nat BY PosNat DEF ScanIInv, ScansAgree
  <2> QED BY <1>1, <2>1 DEF ScanIInv, ScanPlace
<1>4. CopiedSoFar \in 0 .. Len(subj) BY <1>1, <1>3 DEF CopiedSoFar
<1>5. IF log = <<>> THEN prevEnd = None /\ EndBefore(Len(log) + 1) = 0
      ELSE prevEnd = log[Len(log)].end /\ EndBefore(Len(log) + 1) = prevEnd /\ prevEnd <= pos
  <2>1. CASE log = <<>>
    <3>1. Len(log) + 1 = 1 BY <2>1
    <3> QED BY <2>1, <3>1 DEF ScanIInv, ScanPlace, EndBefore
  <2>2. CASE log # <<>>
    <3>1. Len(log) # 0 BY <2>2, EmptySeq DEF ScanIInv, LogOrdered
    <3>2. Len(log) + 1 # 1 /\ (Len(log) + 1) - 1 = Len(log) BY <1>2, <3>1
    <3> QED BY <2>2, <3>2 DEF ScanIInv, ScanPlace, EndBefore
  <2> QED BY <2>1, <2>2
<1>6. EndBefore(Len(log) + 1) \in 0 .. CopiedSoFar
  <2>1. CASE log = <<>> BY <1>4, <1>5, <2>1
  <2>2. CASE log # <<>>
    <3>1. Len(log) \in 1 .. Len(log) BY <1>2, <2>2, EmptySeq DEF ScanIInv, LogOrdered
    <3>2. log[Len(log)].end \in 0 .. Len(subj) BY <1>2, <3>1 DEF Entry
    <3> QED BY <1>1, <1>3, <1>5, <2>2, <3>2 DEF CopiedSoFar
  <2> QED BY <2>1, <2>2
<1>7. FlattenSeq(Pieces) \in Seq(Bytes) BY PiecesTyped, FlattenType DEF ScanIInv
<1>8. Gap(Len(log) + 1, CopiedSoFar) \in Seq(Bytes)
  <2>1. /\ EndBefore(Len(log) + 1) \in 0 .. Len(subj) /\ CopiedSoFar - EndBefore(Len(log) + 1) \in Int
        /\ EndBefore(Len(log) + 1) + (CopiedSoFar - EndBefore(Len(log) + 1)) <= Len(subj)
    BY <1>1, <1>4, <1>6
  <2> QED BY <1>1, <2>1, SliceIn DEF Gap
<1>9. result = FlattenSeq(Pieces) \o Gap(Len(log) + 1, CopiedSoFar)
  BY DEF ScanIInv, ScansAgree, ResultIsSplice, Pieces
<1> QED BY <1>3, <1>4, <1>5, <1>6, <1>7, <1>8, <1>9

(* The attempt gsub makes is the matcher's, unless it is not allowed one.   *)
LEMMA GsubAttempt ==
  ASSUME ScanIInv, Looping
  PROVE  /\ op = "gsub" /\ scan = "running" /\ pos \in 0 .. Len(subj) /\ CopiedSoFar = pos
         /\ Attempt.end # Malformed => \/ pat.anchored /\ pos > 0 /\ Attempt.end = NoMatch
                                       \/ ~(pat.anchored /\ pos > 0) /\ Attempt = At(pos)
<1>1. op = "gsub" /\ scan = "running" /\ pos <= Len(subj) BY DEF Looping
<1>2. pos \in 0 .. Len(subj) /\ CopiedSoFar = pos
  <2>1. pos \in 0 .. Len(subj) + 1 /\ Len(subj) \in Nat BY <1>1, GsubPlace, ArgTypes DEF ScanIInv
  <2> QED BY <1>1, <2>1 DEF CopiedSoFar
<1>3. Attempt.end # Malformed => \/ pat.anchored /\ pos > 0 /\ Attempt.end = NoMatch
                                 \/ ~(pat.anchored /\ pos > 0) /\ Attempt = At(pos)
  BY DEF Attempt, PatternAt, At
<1> QED BY <1>1, <1>2, <1>3

-----------------------------------------------------------------------------
(* Every action keeps the invariant.                                        *)
LEMMA FailKeeps ==
  ASSUME ScanIInv, Fail
  PROVE  ScanIInv'
<1>1. UNCHANGED args /\ log' = log /\ scan' = "error" /\ pos' = pos /\ prevEnd' = prevEnd
      /\ count' = count /\ result' = result
  BY DEF Fail
<1>2. op' = op /\ subj' = subj /\ init' = init BY <1>1 DEF args
<1>3. ScanArgs' /\ LogOrdered' BY <1>1, SameArgs, SameLog DEF ScanIInv
<1>4. ScanPlace' BY <1>1, <1>2 DEF ScanIInv, ScanPlace
<1>5. NothingCounted' BY <1>1 DEF ScanIInv, NothingCounted
<1>6. ScanTypeOK' BY <1>1, <1>2 DEF ScanIInv, ScansAgree, ScanTypeOK
<1>7. ScanIsLeftmost' /\ ResultIsSplice' BY <1>1 DEF ScanIsLeftmost, ResultIsSplice
<1> QED BY <1>3, <1>4, <1>5, <1>6, <1>7 DEF ScanIInv, ScansAgree

LEMMA CopyByte ==
  ASSUME subj \in Seq(Bytes), NEW x \in 0 .. Len(subj)
  PROVE  Byte(x) = Slice(subj, x, (IF x + 1 > Len(subj) THEN Len(subj) ELSE x + 1) - x)
<1>1. Len(subj) \in Nat BY LenProperties
<1>2. CASE x = Len(subj)
  <2>1. Byte(x) = <<>> BY <1>2, SliceByte
  <2>2. (IF x + 1 > Len(subj) THEN Len(subj) ELSE x + 1) - x = 0 BY <1>1, <1>2
  <2>3. Slice(subj, x, 0) = <<>> BY SliceNone
  <2> QED BY <2>1, <2>2, <2>3
<1>3. CASE x < Len(subj)
  <2>1. (IF x + 1 > Len(subj) THEN Len(subj) ELSE x + 1) - x = 1 BY <1>1, <1>3
  <2> QED BY <1>3, <2>1, SliceByte
<1> QED BY <1>1, <1>2, <1>3

LEMMA GsubCopyKeeps ==
  ASSUME ScanIInv, GsubCopy
  PROVE  ScanIInv'
<1>1. /\ Looping /\ UNCHANGED args /\ scan' = scan /\ log' = log /\ pos' = pos + 1
      /\ prevEnd' = prevEnd /\ count' = count /\ result' = result \o Byte(pos)
      /\ Attempt.end # Malformed /\ (Attempt.end = NoMatch \/ Suppressed(Attempt.end))
  BY DEF GsubCopy
<1>2. /\ op = "gsub" /\ scan = "running" /\ pos \in 0 .. Len(subj) /\ CopiedSoFar = pos
      /\ subj \in Seq(Bytes) /\ Len(subj) \in Nat
  BY <1>1, GsubAttempt, ArgTypes DEF ScanIInv
<1>3. op' = op /\ subj' = subj /\ init' = init /\ pat' = pat BY <1>1 DEF args
<1> DEFINE c == IF pos + 1 > Len(subj) THEN Len(subj) ELSE pos + 1
           E == EndBefore(Len(log) + 1)
           F == FlattenSeq(Pieces)
<1>4. CopiedSoFar' = c /\ c \in pos .. Len(subj) BY <1>1, <1>2, <1>3 DEF CopiedSoFar
<1>5. Byte(pos) = Slice(subj, pos, c - pos) BY <1>2, CopyByte
<1>6. /\ E \in 0 .. pos /\ F \in Seq(Bytes) /\ Slice(subj, E, pos - E) \in Seq(Bytes)
      /\ result = F \o Slice(subj, E, pos - E)
  BY <1>2, GsubPlace DEF Gap
<1> HIDE DEF c, E, F
<1>7. Byte(pos) \in Seq(Bytes)
  <2>1. c - pos \in Int /\ pos + (c - pos) <= Len(subj) BY <1>2, <1>4
  <2> QED BY <1>2, <1>5, <2>1, SliceIn
<1>8. ScanArgs' /\ LogOrdered' BY <1>1, SameArgs, SameLog DEF ScanIInv
<1>9. ScanPlace'
  <2>1. prevEnd \in Int BY <1>2 DEF ScanIInv, ScansAgree, ScanTypeOK, None
  <2>2. IF log = <<>> THEN prevEnd = None ELSE prevEnd = log[Len(log)].end /\ prevEnd <= pos
    BY <1>2 DEF ScanIInv, ScanPlace
  <2> QED BY <1>1, <1>2, <1>3, <2>1, <2>2 DEF ScanPlace
<1>10. NothingCounted'
  <2>1. result' \in Seq(Bytes) BY <1>1, <1>7, ConcatProperties DEF ScanIInv, NothingCounted
  <2>2. ASSUME count = 0 PROVE result' = Slice(subj, 0, c)
    <3>1. result = Slice(subj, 0, pos) BY <1>2, <2>2 DEF ScanIInv, NothingCounted
    <3>2. 0 \in 0 .. Len(subj) /\ pos \in 0 .. Len(subj) /\ c \in pos .. Len(subj) /\ pos - 0 = pos /\ c - 0 = c
      BY <1>2, <1>4
    <3>3. Slice(subj, 0, pos) \o Slice(subj, pos, c - pos) = Slice(subj, 0, c) BY <1>2, <3>2, SliceJoin
    <3> QED BY <1>1, <1>5, <3>1, <3>3
  <2> QED BY <1>1, <1>3, <1>4, <2>1, <2>2 DEF NothingCounted
<1>11. ScanTypeOK'
  <2>1. pos' \in 0 .. Len(subj) + 1 BY <1>1, <1>2
  <2> QED BY <1>1, <1>3, <2>1 DEF ScanIInv, ScansAgree, ScanTypeOK
<1>12. ScanIsLeftmost'
  <2> SUFFICES ASSUME ~pat.anchored PROVE ScanIsLeftmost' BY <1>3 DEF ScanIsLeftmost
  <2>1. ASSUME NEW x \in Passed' \cap 0 .. Len(subj), x \notin Passed
        PROVE  \/ At(x).end = NoMatch
               \/ At(x).end = x /\ (\E k \in DOMAIN log : x = log[k].end)
    <3>1. Passed' = 0 .. (pos + 1) - 1 /\ Passed = 0 .. pos - 1 BY <1>1, <1>2, <1>3 DEF Passed, From
    <3>2. x = pos BY <1>2, <2>1, <3>1
    <3>3. Attempt = At(pos) BY <1>1, GsubAttempt
    <3>4. CASE Attempt.end = NoMatch BY <3>2, <3>3, <3>4
    <3>5. CASE Suppressed(Attempt.end)
      <4>1. At(pos).end = pos /\ pos = prevEnd BY <3>3, <3>5 DEF Suppressed
      <4>2. log # <<>> /\ prevEnd = log[Len(log)].end BY <1>2, <4>1, GsubPlace DEF None
      <4>3. Len(log) \in DOMAIN log BY <4>2, LogFacts, EmptySeq DEF ScanIInv, LogOrdered
      <4> QED BY <3>2, <4>1, <4>2, <4>3
    <3> QED BY <1>1, <3>4, <3>5
  <2>2. \A x : At(x)' = At(x) BY <1>1, SameArgs DEF ScanIInv
  <2>3. ScanIsLeftmost BY DEF ScanIInv, ScansAgree
  <2> QED BY <1>1, <1>2, <1>3, <2>1, <2>2, <2>3 DEF ScanIsLeftmost
<1>13. ResultIsSplice'
  <2>1. result' = (F \o Slice(subj, E, pos - E)) \o Slice(subj, pos, c - pos) BY <1>1, <1>5, <1>6
  <2>2. @ = F \o (Slice(subj, E, pos - E) \o Slice(subj, pos, c - pos))
    <3>1. /\ F \in Seq(Bytes) /\ Slice(subj, E, pos - E) \in Seq(Bytes)
          /\ Slice(subj, pos, c - pos) \in Seq(Bytes)
      BY <1>5, <1>6, <1>7
    <3> QED BY <3>1, ConcatAssociative
  <2>3. /\ E \in 0 .. Len(subj) /\ pos \in E .. Len(subj) /\ c \in pos .. Len(subj) BY <1>2, <1>4, <1>6
  <2>4. Slice(subj, E, pos - E) \o Slice(subj, pos, c - pos) = Slice(subj, E, c - E) BY <1>2, <2>3, SliceJoin
  <2>5. result' = F \o Slice(subj, E, c - E) BY <2>1, <2>2, <2>4
  <2> QED BY <1>1, <1>2, <1>3, <1>4, <2>5 DEF ResultIsSplice, Gap, EndBefore, E, F, Pieces
<1> QED BY <1>8, <1>9, <1>10, <1>11, <1>12, <1>13 DEF ScanIInv, ScansAgree

LEMMA MatchHere ==
  ASSUME ScanIInv, Looping, Attempt.end >= 0
  PROVE  /\ Attempt = At(pos) /\ Attempt.end \in pos .. Len(subj)
         /\ Match(Found(pos, Attempt))
         /\ Found(pos, Attempt).start = pos /\ Found(pos, Attempt).end = Attempt.end
<1>1. Attempt.end # Malformed /\ Attempt.end # NoMatch BY DEF Malformed, NoMatch
<1>2. Attempt = At(pos) /\ pos \in 0 .. Len(subj) BY <1>1, GsubAttempt
<1>3. /\ At(pos).end \in {NoMatch, Malformed} \cup pos .. Len(subj)
      /\ At(pos).captures \in Seq(Capture(Len(subj)))
  BY <1>2, AtOutcome DEF ScanIInv
<1>4. Attempt.end \in pos .. Len(subj) BY <1>1, <1>2, <1>3
<1>5. /\ Found(pos, Attempt).start = pos /\ Found(pos, Attempt).end = Attempt.end
      /\ Found(pos, Attempt).captures = Attempt.captures
  BY DEF Found
<1> QED BY <1>2, <1>3, <1>4, <1>5 DEF Match

LEMMA ReplacedKeeps ==
  ASSUME ScanIInv, Looping, Attempt.end >= 0, ~Suppressed(Attempt.end),
         NEW text \in Seq(Bytes), NEW counts \in BOOLEAN,
         Replaced(Found(pos, Attempt), text, counts),
         ~counts => text = WholeMatch(subj, pos, Attempt.end)
  PROVE  ScanIInv' /\ pos' > pos
<1> DEFINE m == Found(pos, Attempt)
           end == Attempt.end
           tail == IF end > pos THEN <<>> ELSE Byte(pos)
           e == [start |-> m.start, end |-> m.end, text |-> text, given |-> Given(subj, m)]
           E == EndBefore(Len(log) + 1)
           F == FlattenSeq(Pieces)
           G == Slice(subj, E, pos - E)
<1>1. /\ Match(m) /\ m.start = pos /\ m.end = end
      /\ Attempt = At(pos) /\ end = At(pos).end /\ end \in pos .. Len(subj)
  BY MatchHere
<1>2. /\ UNCHANGED args /\ scan' = scan /\ result' = result \o text \o tail
      /\ pos' = (IF end > pos THEN end ELSE pos + 1) /\ prevEnd' = end
      /\ count' = (IF counts THEN count + 1 ELSE count) /\ log' = Append(log, e)
  BY <1>1 DEF Replaced
<1>3. op' = op /\ subj' = subj /\ init' = init /\ pat' = pat BY <1>2 DEF args
<1>4. /\ op = "gsub" /\ scan = "running" /\ pos \in 0 .. Len(subj) /\ CopiedSoFar = pos
      /\ subj \in Seq(Bytes) /\ Len(subj) \in Nat
  BY GsubAttempt, ArgTypes DEF ScanIInv
<1>5. e \in Entry /\ e.start = pos /\ e.end = end /\ e.text = text
  <2>1. Given(subj, m) \in Seq(Lua) BY <1>1, GivenTyped DEF ScanIInv
  <2> HIDE DEF m
  <2> QED BY <1>1, <1>4, <2>1 DEF Entry
<1> HIDE DEF e, m
<1>6. log # <<>> => e.start >= log[Len(log)].end /\ e.end > log[Len(log)].end
  <2> SUFFICES ASSUME log # <<>> PROVE e.start >= log[Len(log)].end /\ e.end > log[Len(log)].end OBVIOUS
  <2>1. prevEnd = log[Len(log)].end /\ prevEnd <= pos BY <1>4, GsubPlace
  <2>2. ~(end = pos /\ pos = prevEnd) BY DEF Suppressed
  <2>3. prevEnd \in Int BY <1>4 DEF ScanIInv, ScansAgree, ScanTypeOK, None
  <2> QED BY <1>1, <1>4, <1>5, <2>1, <2>2, <2>3
<1>7. e.start <= e.end /\ e.end = At(e.start).end BY <1>1, <1>4, <1>5
<1>8. ScanArgs' BY <1>2, SameArgs DEF ScanIInv
<1>9. /\ LogOrdered' /\ log' # <<>> /\ (Len(log))' = Len(log) + 1
      /\ log'[Len(log) + 1] = e /\ \A k \in 1 .. Len(log) : log'[k] = log[k]
  BY <1>2, <1>5, <1>6, <1>7, LogGrows DEF ScanIInv
<1>10. /\ E \in 0 .. pos /\ F \in Seq(Bytes) /\ G \in Seq(Bytes)
       /\ result = F \o G /\ Gap(Len(log) + 1, pos) = G
  BY <1>4, GsubPlace DEF Gap
<1> DEFINE c == IF pos' > Len(subj) THEN Len(subj) ELSE pos'
<1>11. CopiedSoFar' = c /\ c \in end .. Len(subj) BY <1>1, <1>2, <1>3, <1>4 DEF CopiedSoFar
<1>12. tail = Slice(subj, end, c - end)
  <2>1. CASE end > pos
    <3>1. c = end BY <1>1, <1>2, <1>4, <2>1
    <3>2. Slice(subj, end, 0) = <<>> BY <1>1, <1>4, SliceNone
    <3>3. c - end = 0 /\ tail = <<>> BY <1>1, <1>4, <2>1, <3>1
    <3> QED BY <3>2, <3>3
  <2>2. CASE end = pos
    <3>1. c = IF pos + 1 > Len(subj) THEN Len(subj) ELSE pos + 1 BY <1>2, <1>4, <2>2
    <3> QED BY <1>4, <2>2, <3>1, CopyByte
  <2> QED BY <1>1, <1>4, <2>1, <2>2
<1> HIDE DEF tail, c, E, F, G
<1>13. tail \in Seq(Bytes)
  <2>1. end \in 0 .. Len(subj) /\ c - end \in Int /\ end + (c - end) <= Len(subj) BY <1>1, <1>4, <1>11
  <2> HIDE DEF end
  <2> QED BY <1>4, <1>12, <2>1, SliceIn
<1>14. pos' \in 0 .. Len(subj) + 1 /\ pos' > pos /\ end <= pos' BY <1>1, <1>2, <1>4
<1>15. ScanPlace'
  <2>1. log'[Len(log')] = e BY <1>9
  <2> QED BY <1>2, <1>3, <1>4, <1>5, <1>9, <1>14, <2>1 DEF ScanPlace
<1>16. NothingCounted'
  <2>1. result \in Seq(Bytes) BY DEF ScanIInv, NothingCounted
  <2>2. result \o text \in Seq(Bytes) BY <2>1, ConcatProperties
  <2>3. result' \in Seq(Bytes) BY <1>2, <1>13, <2>2, ConcatProperties
  <2>4. ASSUME count' = 0 PROVE result' = Slice(subj, 0, c)
    <3>1. count \in 0 .. Len(log) /\ Len(log) \in Nat BY LogFacts DEF ScanIInv, ScansAgree, ScanTypeOK
    <3>2. count = 0 /\ ~counts BY <1>2, <2>4, <3>1
    <3>3. result = Slice(subj, 0, pos) BY <1>4, <3>2 DEF ScanIInv, NothingCounted
    <3>4. text = Slice(subj, pos, end - pos) BY <3>2 DEF WholeMatch
    <3>5. /\ 0 \in 0 .. Len(subj) /\ pos \in 0 .. Len(subj) /\ end \in pos .. Len(subj)
          /\ end \in 0 .. Len(subj) /\ c \in end .. Len(subj) /\ pos - 0 = pos /\ c - 0 = c /\ end - 0 = end
      BY <1>1, <1>4, <1>11
    <3> HIDE DEF end
    <3>6. result \o text = Slice(subj, 0, end) BY <1>4, <3>3, <3>4, <3>5, SliceJoin
    <3>7. Slice(subj, 0, end) \o tail = Slice(subj, 0, c) BY <1>4, <1>12, <3>5, SliceJoin
    <3> QED BY <1>2, <3>6, <3>7
  <2> QED BY <1>3, <1>11, <2>3, <2>4 DEF NothingCounted
<1>17. ScanTypeOK'
  <2>1. count' \in 0 .. Len(log')
    <3>1. count \in 0 .. Len(log) /\ Len(log) \in Nat BY LogFacts DEF ScanIInv, ScansAgree, ScanTypeOK
    <3> QED BY <1>2, <1>9, <3>1
  <2>2. \A k \in DOMAIN log' : log'[k].end \in 0 .. Len(subj) /\ \A v \in Range(log'[k].given) : v \in Lua
    <3>1. log' \in Seq(Entry) BY <1>2, <1>5, AppendProperties DEF ScanIInv, LogOrdered
    <3> QED BY <3>1, EntriesTyped
  <2>3. prevEnd' \in 0 .. Len(subj) BY <1>1, <1>2, <1>4
  <2> QED BY <1>2, <1>3, <1>4, <1>14, <2>1, <2>2, <2>3 DEF ScanTypeOK
<1>18. ScanIsLeftmost'
  <2>1. ASSUME NEW x \in Passed' \cap 0 .. Len(subj)
        PROVE  x \in Passed \/ x = e.start \/ x \in e.start .. e.end - 1
    <3>1. Passed' = 0 .. pos' - 1 /\ Passed = 0 .. pos - 1 BY <1>2, <1>3, <1>4 DEF Passed, From
    <3>2. CASE end > pos BY <1>1, <1>2, <1>4, <1>5, <2>1, <3>1, <3>2
    <3>3. CASE ~(end > pos) BY <1>1, <1>2, <1>4, <1>5, <2>1, <3>1, <3>3
    <3> QED BY <3>2, <3>3
  <2> QED BY <1>2, <1>4, <1>5, <1>6, <1>7, <2>1, LeftmostGrows DEF ScanIInv, ScansAgree
<1>19. ResultIsSplice'
  <2>1. Pieces' = Append(Pieces, G \o text)
    BY <1>2, <1>5, <1>6, <1>7, <1>10, PiecesGrow DEF ScanIInv
  <2>2. Pieces \in Seq(Seq(Bytes)) BY PiecesTyped DEF ScanIInv
  <2>3. G \o text \in Seq(Bytes) BY <1>10, ConcatProperties
  <2>4. FlattenSeq(Pieces') = F \o (G \o text) BY <2>1, <2>2, <2>3, FlattenAppend DEF F
  <2>5. @ = result \o text
    <3>1. F \in Seq(Bytes) /\ G \in Seq(Bytes) /\ text \in Seq(Bytes) BY <1>10
    <3>2. (F \o G) \o text = F \o (G \o text) BY <3>1, ConcatAssociative
    <3>3. result = F \o G BY <1>10
    <3> QED BY <3>2, <3>3
  <2>6. result' = FlattenSeq(Pieces') \o Slice(subj, end, c - end) BY <1>2, <1>12, <2>4, <2>5
  <2>7. EndBefore(Len(log) + 1)' = end
    <3>1. Len(log) \in Nat BY LogFacts DEF ScanIInv
    <3>2. Len(log') + 1 # 1 /\ (Len(log') + 1) - 1 = Len(log) + 1 BY <1>9, <3>1
    <3> QED BY <1>5, <1>9, <3>2 DEF EndBefore
  <2>8. Gap(Len(log) + 1, CopiedSoFar)' = Slice(subj, end, c - end) BY <1>3, <1>11, <2>7 DEF Gap
  <2>9. result' = (FlattenSeq(Pieces) \o Gap(Len(log) + 1, CopiedSoFar))' BY <2>6, <2>8
  <2> QED BY <1>2, <1>4, <2>9 DEF ResultIsSplice, Pieces
<1> QED BY <1>8, <1>9, <1>14, <1>15, <1>16, <1>17, <1>18, <1>19 DEF ScanIInv, ScansAgree

LEMMA GsubMatchKeeps ==
  ASSUME ScanIInv, GsubMatch
  PROVE  ScanIInv' /\ (scan' = "error" \/ pos' > pos)
<1> DEFINE m == Found(pos, Attempt)
<1>1. Looping /\ Attempt.end >= 0 /\ ~Suppressed(Attempt.end) /\ m.end = Attempt.end /\ m.start = pos
  BY DEF GsubMatch, Found
<1>2. Match(m) BY <1>1, MatchHere
<1> HIDE DEF m
<1>3. CASE Fail BY <1>3, FailKeeps DEF Fail
<1>4. CASE repl # Computed /\ ~ReplFails(repl, m) /\ Replaced(m, ApplyRepl(repl, subj, m), TRUE)
  <2>1. repl \in Templates BY <1>4 DEF ScanIInv, ScanArgs
  <2>2. ApplyRepl(repl, subj, m) \in Seq(Bytes) BY <1>2, <1>4, <2>1, ReplTyped DEF ScanIInv
  <2> QED BY <1>1, <1>4, <2>2, ReplacedKeeps DEF m
<1>5. ASSUME NEW text \in Texts, Replaced(m, text, TRUE) PROVE ScanIInv' /\ pos' > pos
  <2>1. text \in Seq(Bytes) BY ArgTypes DEF ScanIInv
  <2> QED BY <1>1, <1>5, <2>1, ReplacedKeeps DEF m
<1>6. CASE Replaced(m, WholeMatch(subj, m.start, m.end), FALSE)
  <2>1. WholeMatch(subj, m.start, m.end) \in Seq(Bytes) BY <1>2, WholeTyped DEF ScanIInv
  <2> QED BY <1>1, <1>6, <2>1, ReplacedKeeps DEF m
<1> QED BY <1>3, <1>4, <1>5, <1>6 DEF GsubMatch, m

LEMMA GsubEndKeeps ==
  ASSUME ScanIInv, GsubEnd
  PROVE  ScanIInv'
<1> DEFINE size == Len(subj)
           E == EndBefore(Len(log) + 1)
           F == FlattenSeq(Pieces)
           G == Slice(subj, E, CopiedSoFar - E)
           rest == Slice(subj, pos, size - pos)
<1>1. /\ op = "gsub" /\ scan = "running" /\ scan' = "done" /\ UNCHANGED args
      /\ pos' = pos /\ prevEnd' = prevEnd /\ count' = count /\ log' = log
      /\ result' = IF count = 0 THEN subj ELSE result \o rest
  BY DEF GsubEnd
<1>2. op' = op /\ subj' = subj /\ init' = init /\ pat' = pat BY <1>1 DEF args
<1>3. subj \in Seq(Bytes) /\ size \in Nat BY ArgTypes DEF ScanIInv
<1>4. /\ pos \in 0 .. size + 1 /\ CopiedSoFar \in 0 .. size
      /\ E \in 0 .. CopiedSoFar
      /\ result = F \o G /\ F \in Seq(Bytes) /\ G \in Seq(Bytes)
  BY <1>1, GsubPlace DEF Gap
<1>5. rest = Slice(subj, CopiedSoFar, size - CopiedSoFar)
  <2>1. CASE pos > size
    <3>1. /\ CopiedSoFar = size /\ size - pos <= 0 /\ size - CopiedSoFar <= 0
          /\ size - pos \in Int /\ size - CopiedSoFar \in Int
      BY <1>3, <1>4, <2>1 DEF CopiedSoFar
    <3>2. rest = <<>> BY <1>4, <3>1, SliceNone
    <3>3. Slice(subj, CopiedSoFar, size - CopiedSoFar) = <<>> BY <1>4, <3>1, SliceNone
    <3> QED BY <3>2, <3>3
  <2>2. CASE ~(pos > size) BY <2>2 DEF CopiedSoFar
  <2> QED BY <2>1, <2>2
<1>6. rest \in Seq(Bytes)
  <2>1. /\ CopiedSoFar \in 0 .. Len(subj) /\ size - CopiedSoFar \in Int
        /\ CopiedSoFar + (size - CopiedSoFar) <= Len(subj)
    BY <1>3, <1>4
  <2> QED BY <1>3, <1>5, <2>1, SliceIn
<1>7. count = 0 => result \o rest = subj
  <2> SUFFICES ASSUME count = 0 PROVE result \o rest = subj OBVIOUS
  <2>1. result = Slice(subj, 0, CopiedSoFar) BY <1>1 DEF ScanIInv, NothingCounted
  <2>2. /\ 0 \in 0 .. Len(subj) /\ CopiedSoFar \in 0 .. Len(subj) /\ size \in CopiedSoFar .. Len(subj)
        /\ CopiedSoFar - 0 = CopiedSoFar /\ size - 0 = size
    BY <1>3, <1>4
  <2>3. Slice(subj, 0, CopiedSoFar) \o Slice(subj, CopiedSoFar, size - CopiedSoFar) = Slice(subj, 0, size)
    BY <1>3, <2>2, SliceJoin
  <2> QED BY <1>3, <1>5, <2>1, <2>3, SliceWhole
<1>8. result' = result \o rest BY <1>1, <1>7
<1>9. ScanArgs' /\ LogOrdered' BY <1>1, SameArgs, SameLog DEF ScanIInv
<1>10. ScanPlace' BY <1>1, <1>2 DEF ScanIInv, ScanPlace
<1>11. NothingCounted'
  <2>1. result' \in Seq(Bytes) BY <1>6, <1>8, ConcatProperties DEF ScanIInv, NothingCounted
  <2> QED BY <1>1, <2>1 DEF NothingCounted
<1>12. ScanTypeOK' BY <1>1, <1>2 DEF ScanIInv, ScansAgree, ScanTypeOK
<1>13. ScanIsLeftmost'
  <2>1. Passed' = Passed BY <1>1, <1>2 DEF Passed, From
  <2>2. \A x : At(x)' = At(x) BY <1>1, SameArgs DEF ScanIInv
  <2> QED BY <1>1, <1>2, <2>1, <2>2 DEF ScanIInv, ScansAgree, ScanIsLeftmost
<1>14. ResultIsSplice'
  <2>1. result' = F \o (G \o rest)
    <3> HIDE DEF F, G, rest
    <3>1. (F \o G) \o rest = F \o (G \o rest)
      <4>1. F \in Seq(Bytes) /\ G \in Seq(Bytes) /\ rest \in Seq(Bytes) BY <1>4, <1>6
      <4> QED BY <4>1, ConcatAssociative
    <3>2. result = F \o G BY <1>4
    <3> QED BY <1>8, <3>1, <3>2
  <2>2. /\ E \in 0 .. Len(subj) /\ CopiedSoFar \in E .. Len(subj) /\ size \in CopiedSoFar .. Len(subj)
    BY <1>3, <1>4
  <2> HIDE DEF E
  <2>3. G \o rest = Slice(subj, E, size - E) BY <1>3, <1>5, <2>2, SliceJoin
  <2>4. result' = F \o Slice(subj, E, size - E) BY <2>1, <2>3
  <2> QED BY <1>1, <1>2, <2>4 DEF ResultIsSplice, Gap, EndBefore, E, Pieces
<1> QED BY <1>9, <1>10, <1>11, <1>12, <1>13, <1>14 DEF ScanIInv, ScansAgree

-----------------------------------------------------------------------------
(* gmatch.                                                                  *)
LEMMA LeastIs ==
  ASSUME NEW S \in SUBSET Nat, S # {}
  PROVE  Least(S) \in S /\ \A x \in S : Least(S) <= x
<1> DEFINE R == {ss \in Nat \X Nat : ss[1] < ss[2]}
<1>1. IsWellFoundedOn(R, Nat) BY NatLessThanWellFounded DEF OpToRel
<1> HIDE DEF R
<1>2. PICK m \in S : \A y \in S : ~(<<y, m>> \in R) BY <1>1, WFMin
<1>3. ASSUME NEW y \in S PROVE m <= y
  <2>1. ~(y < m) BY <1>2 DEF R
  <2>2. y \in Nat /\ m \in Nat OBVIOUS
  <2> QED BY <2>1, <2>2
<1> QED BY <1>2, <1>3 DEF Least

LEMMA TriedFrom ==
  ASSUME ScanIInv
  PROVE  Tried \subseteq pos .. Len(subj) /\ Tried \subseteq Nat /\ (~pat.anchored => Tried = pos .. Len(subj))
<1>1. pos \in Nat /\ Len(subj) \in Nat BY PosNat, ArgTypes DEF ScanIInv, ScansAgree
<1> QED BY <1>1 DEF Tried

(* A place gmatch tries and passes over has no match it could report.       *)
LEMMA PassedOver ==
  ASSUME ScanIInv, op = "gmatch", NEW x \in Tried \ Stops
  PROVE  \/ At(x).end = NoMatch
         \/ At(x).end = x /\ (\E k \in DOMAIN log : x = log[k].end)
<1>1. x \in Nat BY TriedFrom
<1>2. PatternAt(subj, x, pat).end = NoMatch \/ SuppressedAt(x) BY DEF Stops
<1>3. PatternAt(subj, x, pat).end # Malformed BY <1>1, <1>2 DEF NoMatch, Malformed, SuppressedAt
<1>4. PatternAt(subj, x, pat) = At(x) BY <1>3, AtPlace
<1>5. ASSUME SuppressedAt(x) PROVE At(x).end = x /\ (\E k \in DOMAIN log : x = log[k].end)
  <2>1. x = prevEnd /\ At(x).end = x BY <1>4, <1>5 DEF SuppressedAt
  <2>2. log # <<>> /\ prevEnd = log[Len(log)].end BY <1>1, <2>1 DEF ScanIInv, ScanPlace, None
  <2>3. Len(log) \in DOMAIN log BY <2>2, LogFacts, EmptySeq DEF ScanIInv, LogOrdered
  <2> QED BY <2>1, <2>2, <2>3
<1> QED BY <1>2, <1>4, <1>5

LEMMA GmatchYieldKeeps ==
  ASSUME ScanIInv, GmatchYield
  PROVE  ScanIInv' /\ (scan' = "error" \/ pos' > pos)
<1> DEFINE s == Least(Stops)
           p == PatternAt(subj, s, pat)
           m == Found(s, p)
           e == [start |-> m.start, end |-> m.end, text |-> <<>>, given |-> Given(subj, m)]
<1>1. op = "gmatch" /\ scan = "running" /\ Stops # {} BY DEF GmatchYield
<1>2. pos \in Nat /\ Len(subj) \in Nat /\ subj \in Seq(Bytes)
  BY PosNat, ArgTypes DEF ScanIInv, ScansAgree
<1>3. s \in Stops /\ \A x \in Stops : s <= x
  <2>1. Stops \in SUBSET Nat BY TriedFrom DEF Stops
  <2> QED BY <1>1, <2>1, LeastIs
<1>4. s \in Tried /\ s \in pos .. Len(subj) /\ p.end # NoMatch /\ ~SuppressedAt(s)
  BY <1>3, TriedFrom DEF Stops
<1>5. m.start = s /\ m.end = p.end /\ m.captures = p.captures BY DEF Found
<1> HIDE DEF s, p, m
<1>6. CASE m.end = Malformed
  <2>1. Fail BY <1>6 DEF GmatchYield, m, p, s
  <2> QED BY <2>1, FailKeeps DEF Fail
<1>7. CASE m.end # Malformed
  <2>1. /\ pos' = (IF m.end = m.start THEN m.end + 1 ELSE m.end) /\ prevEnd' = m.end
        /\ log' = Append(log, e) /\ UNCHANGED args /\ scan' = scan /\ count' = count /\ result' = result
    BY <1>7 DEF GmatchYield, m, p, s
  <2>2. op' = op /\ subj' = subj /\ init' = init /\ pat' = pat BY <2>1 DEF args
  <2>3. p = At(s) BY <1>5, <1>7, AtPlace DEF p
  <2>4. m.end = At(s).end /\ m.end \in s .. Len(subj) /\ m.captures \in Seq(Capture(Len(subj)))
    <3>1. s \in 0 .. Len(subj) BY <1>2, <1>4
    <3>2. /\ At(s).end \in {NoMatch, Malformed} \cup s .. Len(subj)
          /\ At(s).captures \in Seq(Capture(Len(subj)))
      BY <3>1, AtOutcome DEF ScanIInv
    <3> QED BY <1>4, <1>5, <1>7, <2>3, <3>2
  <2>5. Match(m) BY <1>2, <1>4, <1>5, <2>4 DEF Match
  <2>6. e \in Entry /\ e.start = s /\ e.end = m.end
    <3>1. Given(subj, m) \in Seq(Lua) BY <2>5, GivenTyped DEF ScanIInv
    <3>2. <<>> \in Seq(Bytes) OBVIOUS
    <3> QED BY <1>2, <1>4, <1>5, <2>4, <3>1, <3>2 DEF Entry
  <2> HIDE DEF e
  <2>7. log # <<>> => prevEnd = log[Len(log)].end /\ prevEnd <= pos /\ prevEnd \in Int
    BY <1>1 DEF ScanIInv, ScanPlace, ScansAgree, ScanTypeOK, None
  <2>8. log # <<>> => e.start >= log[Len(log)].end /\ e.end > log[Len(log)].end
    <3> SUFFICES ASSUME log # <<>> PROVE e.start >= log[Len(log)].end /\ e.end > log[Len(log)].end OBVIOUS
    <3>1. ~(s = prevEnd /\ m.end = s) BY <1>4, <1>5 DEF SuppressedAt, p
    <3> QED BY <1>2, <1>4, <2>4, <2>6, <2>7, <3>1
  <2>9. e.start <= e.end /\ e.end = At(e.start).end BY <1>2, <1>4, <2>4, <2>6
  <2>10. ScanArgs' BY <2>1, SameArgs DEF ScanIInv
  <2>11. /\ LogOrdered' /\ log' # <<>> /\ (Len(log))' = Len(log) + 1
         /\ log'[Len(log) + 1] = e /\ \A k \in 1 .. Len(log) : log'[k] = log[k]
    BY <2>1, <2>6, <2>8, <2>9, LogGrows DEF ScanIInv
  <2>12. pos' \in 0 .. Len(subj) + 1 /\ pos' > pos /\ m.end <= pos' BY <1>2, <1>4, <1>5, <2>1, <2>4
  <2>13. ScanPlace'
    <3>1. log'[Len(log')] = e BY <2>11
    <3> QED BY <1>1, <2>1, <2>2, <2>6, <2>11, <2>12, <3>1 DEF ScanPlace
  <2>14. NothingCounted' BY <1>1, <2>1, <2>2 DEF ScanIInv, NothingCounted
  <2>15. ScanTypeOK'
    <3>1. count' \in 0 .. Len(log')
      <4>1. count \in 0 .. Len(log) /\ Len(log) \in Nat BY LogFacts DEF ScanIInv, ScansAgree, ScanTypeOK
      <4> QED BY <2>1, <2>11, <4>1
    <3>2. \A k \in DOMAIN log' : log'[k].end \in 0 .. Len(subj) /\ \A v \in Range(log'[k].given) : v \in Lua
      <4>1. log' \in Seq(Entry) BY <2>1, <2>6, AppendProperties DEF ScanIInv, LogOrdered
      <4> QED BY <4>1, EntriesTyped
    <3>3. prevEnd' \in 0 .. Len(subj) BY <1>2, <1>4, <2>1, <2>4
    <3> QED BY <1>1, <2>1, <2>2, <2>12, <3>1, <3>2, <3>3 DEF ScanTypeOK
  <2>16. ScanIsLeftmost'
    <3>1. ASSUME ~pat.anchored, NEW x \in Passed' \cap 0 .. Len(subj)
          PROVE  \/ x \in Passed \/ x = e.start \/ x \in e.start .. e.end - 1 \/ At(x).end = NoMatch
                 \/ At(x).end = x /\ (\E k \in DOMAIN log : x = log[k].end)
      <4>1. Passed' = GmatchPos(init, Len(subj)) .. pos' - 1 /\ Passed = GmatchPos(init, Len(subj)) .. pos - 1
        BY <1>1, <2>1, <2>2 DEF Passed, From
      <4>2. GmatchPos(init, Len(subj)) \in Nat BY PlaceTypes DEF ScanIInv
      <4>3. CASE x < pos BY <1>2, <3>1, <4>1, <4>2, <4>3
      <4>4. CASE x >= pos /\ x < s
        <5>1. x \in Tried \ Stops BY <1>2, <1>3, <1>4, <3>1, <4>4, TriedFrom
        <5> QED BY <1>1, <5>1, PassedOver
      <4>5. CASE x >= s
        <5>1. x \in GmatchPos(init, Len(subj)) .. pos' - 1 BY <3>1, <4>1
        <5>2. x <= pos' - 1 BY <5>1
        <5> QED BY <1>2, <1>4, <1>5, <2>1, <2>4, <2>6, <3>1, <4>5, <5>2
      <4> QED BY <1>2, <1>4, <3>1, <4>3, <4>4, <4>5
    <3> QED BY <1>1, <2>1, <2>6, <2>8, <2>9, <3>1, LeftmostGrows DEF ScanIInv, ScansAgree
  <2>17. ResultIsSplice' BY <1>1, <2>2 DEF ResultIsSplice
  <2> QED BY <2>10, <2>11, <2>12, <2>13, <2>14, <2>15, <2>16, <2>17 DEF ScanIInv, ScansAgree
<1> QED BY <1>6, <1>7

LEMMA GmatchEndKeeps ==
  ASSUME ScanIInv, GmatchEnd
  PROVE  ScanIInv'
<1>1. /\ op = "gmatch" /\ scan = "running" /\ Stops = {} /\ scan' = "done" /\ UNCHANGED args
      /\ pos' = pos /\ prevEnd' = prevEnd /\ count' = count /\ log' = log /\ result' = result
  BY DEF GmatchEnd
<1>2. op' = op /\ subj' = subj /\ init' = init /\ pat' = pat BY <1>1 DEF args
<1>3. ScanArgs' /\ LogOrdered' BY <1>1, SameArgs, SameLog DEF ScanIInv
<1>4. ScanPlace' BY <1>1, <1>2 DEF ScanIInv, ScanPlace
<1>5. NothingCounted' BY <1>1, <1>2 DEF ScanIInv, NothingCounted
<1>6. ScanTypeOK' BY <1>1, <1>2 DEF ScanIInv, ScansAgree, ScanTypeOK
<1>7. ResultIsSplice' BY <1>1, <1>2 DEF ResultIsSplice
<1>8. ScanIsLeftmost'
  <2> SUFFICES ASSUME ~pat.anchored PROVE ScanIsLeftmost' BY <1>2 DEF ScanIsLeftmost
  <2>1. ScanIsLeftmost BY DEF ScanIInv, ScansAgree
  <2>2. ASSUME NEW x \in Passed' \cap 0 .. Len(subj), x \notin Passed
        PROVE  \/ At(x).end = NoMatch
               \/ At(x).end = x /\ (\E k \in DOMAIN log : x = log[k].end)
    <3>1. Passed = GmatchPos(init, Len(subj)) .. pos - 1 /\ Passed' \subseteq GmatchPos(init, Len(subj)) .. Len(subj)
      BY <1>1, <1>2 DEF Passed, From
    <3>2. pos \in Nat /\ Len(subj) \in Nat /\ GmatchPos(init, Len(subj)) \in Nat
      BY PosNat, ArgTypes, PlaceTypes DEF ScanIInv, ScansAgree
    <3>3. x \in pos .. Len(subj) BY <2>2, <3>1, <3>2
    <3>4. x \in Tried \ Stops BY <1>1, <3>3, TriedFrom
    <3> QED BY <1>1, <3>4, PassedOver
  <2>3. \A x : At(x)' = At(x) BY <1>1, SameArgs DEF ScanIInv
  <2> QED BY <1>1, <1>2, <2>1, <2>2, <2>3 DEF ScanIsLeftmost
<1> QED BY <1>3, <1>4, <1>5, <1>6, <1>7, <1>8 DEF ScanIInv, ScansAgree

-----------------------------------------------------------------------------
(* find.                                                                    *)

(* What a search from a place on reports.                                   *)
Searched(m, from) ==
  \/ /\ m = NotFound
     /\ ~pat.anchored => \A x \in from .. Len(subj) : At(x).end = NoMatch
  \/ /\ m # NotFound /\ Match(m) /\ m.start >= from /\ m.end = At(m.start).end
     /\ ~pat.anchored => \A x \in from .. m.start - 1 : At(x).end = NoMatch

LEMMA PatternSearch ==
  ASSUME ScanArgs, NEW from \in 0 .. Len(subj), PatternFind(subj, from, pat).end # Malformed
  PROVE  Searched(PatternFind(subj, from, pat), from)
<1> DEFINE places == IF pat.anchored THEN {from} ELSE from .. Len(subj)
           stops == {x \in places : At(x).end # NoMatch}
           m == Found(Least(stops), At(Least(stops)))
<1>1. Len(subj) \in Nat /\ places \subseteq from .. Len(subj) BY ArgTypes
<1>2. PatternFind(subj, from, pat) = IF stops = {} THEN NotFound ELSE m
  <2>1. (IF from > Len(subj) THEN Len(subj) ELSE from) = from BY <1>1
  <2> QED BY <2>1, Zenon DEF PatternFind, At
<1>3. CASE stops = {}
  <2>1. ~pat.anchored => \A x \in from .. Len(subj) : At(x).end = NoMatch BY <1>3
  <2> QED BY <1>2, <1>3, <2>1 DEF Searched
<1>4. CASE stops # {}
  <2>1. stops \in SUBSET Nat BY <1>1
  <2>2. Least(stops) \in stops /\ \A x \in stops : Least(stops) <= x BY <1>4, <2>1, LeastIs
  <2> DEFINE s == Least(stops)
  <2>3. s \in from .. Len(subj) /\ s \in 0 .. Len(subj) /\ At(s).end # NoMatch BY <1>1, <2>2
  <2>4. m.start = s /\ m.end = At(s).end /\ m.captures = At(s).captures BY DEF Found
  <2>5. m.end # Malformed BY <1>2, <1>4
  <2> HIDE DEF s
  <2>6. At(s).end \in {NoMatch, Malformed} \cup s .. Len(subj) /\ At(s).captures \in Seq(Capture(Len(subj)))
    BY <2>3, AtOutcome
  <2>7. Match(m) BY <1>1, <2>3, <2>4, <2>5, <2>6 DEF Match
  <2>8. m # NotFound BY <2>3, <2>4 DEF NotFound, Found
  <2>9. m.start >= from BY <1>1, <2>3, <2>4
  <2>10. ASSUME ~pat.anchored, NEW x \in from .. m.start - 1 PROVE At(x).end = NoMatch
    <3>1. x \in places /\ ~(s <= x) BY <1>1, <2>3, <2>4, <2>10
    <3> QED BY <2>2, <3>1 DEF s
  <2>11. m.end = At(m.start).end BY <2>4
  <2> HIDE DEF m
  <2>12. Searched(m, from) BY <2>7, <2>8, <2>9, <2>10, <2>11 DEF Searched
  <2> QED BY <1>2, <1>4, <2>12
<1> QED BY <1>3, <1>4

LEMMA TextTyped ==
  ASSUME ScanArgs, IsText(pat)
  PROVE  TextOf(pat) \in Seq(Bytes) /\ Len(TextOf(pat)) = Len(pat.items) /\ Len(pat.items) \in Nat
<1>1. pat.items \in Seq(Items(Bytes)) BY ArgTypes
<1>2. DOMAIN pat.items = 1 .. Len(pat.items) /\ Len(pat.items) \in Nat BY <1>1, LenProperties
<1>3. ASSUME NEW k \in 1 .. Len(pat.items) PROVE (CHOOSE b \in pat.items[k].set : TRUE) \in Bytes
  <2>1. PICK b \in Bytes : pat.items[k] = Class({b}, "") BY <1>2 DEF IsText
  <2>2. Class({b}, "").set = {b} BY DEF Class
  <2> QED BY <2>1, <2>2, Zenon
<1>4. TextOf(pat) \in [1 .. Len(pat.items) -> Bytes] BY <1>2, <1>3 DEF TextOf
<1>5. TextOf(pat) \in Seq(Bytes) BY <1>2, <1>4, SeqDef
<1> QED BY <1>2, <1>4, <1>5, LenProperties

LEMMA PlainSearch ==
  ASSUME ScanArgs, IsText(pat), NEW from \in 0 .. Len(subj)
  PROVE  Searched(PlainFind(subj, from, TextOf(pat)), from)
<1> DEFINE text == TextOf(pat)
           size == Len(pat.items)
           hits == {x \in from .. Len(subj) - Len(text) : Slice(subj, x, Len(text)) = text}
           m == Found(Least(hits), [end |-> Least(hits) + Len(text), captures |-> <<>>])
<1>1. Len(subj) \in Nat /\ size \in Nat /\ Len(text) = size BY ArgTypes, TextTyped
<1> HIDE DEF size
<1>2. ASSUME NEW x \in 0 .. Len(subj)
      PROVE  At(x).end = IF x + size <= Len(subj) /\ Slice(subj, x, size) = text THEN x + size ELSE NoMatch
  BY StringsAssumption DEF ScanArgs, At, size
<1> HIDE DEF text
<1>3. PlainFind(subj, from, text) = IF hits = {} THEN NotFound ELSE m
  <2>1. (IF from > Len(subj) THEN Len(subj) ELSE from) = from BY <1>1
  <2> QED BY <2>1, Zenon DEF PlainFind
<1>4. ASSUME NEW x \in from .. Len(subj), x \notin hits PROVE At(x).end = NoMatch
  <2>1. ~(x + size <= Len(subj) /\ Slice(subj, x, size) = text) BY <1>1, <1>4
  <2>2. x \in 0 .. Len(subj) OBVIOUS
  <2> QED BY <1>2, <2>1, <2>2
<1>5. CASE hits = {}
  <2>1. ~pat.anchored => \A x \in from .. Len(subj) : At(x).end = NoMatch BY <1>4, <1>5
  <2> QED BY <1>3, <1>5, <2>1 DEF Searched, text
<1>6. CASE hits # {}
  <2>1. hits \in SUBSET Nat BY <1>1
  <2> DEFINE s == Least(hits)
  <2>2. s \in hits /\ \A x \in hits : s <= x BY <1>6, <2>1, LeastIs
  <2>3. m.start = s /\ m.end = s + size /\ m.captures = <<>> BY <1>1 DEF Found
  <2> HIDE DEF s, m
  <2>4. s \in from .. Len(subj) /\ s \in 0 .. Len(subj) /\ s + size <= Len(subj) /\ Slice(subj, s, size) = text
    BY <1>1, <2>2
  <2>5. At(s).end = s + size BY <1>2, <2>4
  <2>6. Match(m)
    <3>1. <<>> \in Seq(Capture(Len(subj))) OBVIOUS
    <3> QED BY <1>1, <2>3, <2>4, <3>1 DEF Match
  <2>7. m # NotFound
    <3>1. NotFound.end = NoMatch BY DEF NotFound, Found
    <3> QED BY <1>1, <2>3, <2>4, <3>1 DEF NoMatch
  <2>8. ASSUME NEW x \in from .. m.start - 1 PROVE At(x).end = NoMatch
    <3>1. x \in from .. Len(subj) /\ ~(s <= x) BY <1>1, <2>3, <2>4
    <3> QED BY <1>4, <2>2, <3>1
  <2>9. m.start >= from /\ m.end = At(m.start).end BY <2>3, <2>4, <2>5
  <2>10. Searched(m, from) BY <2>6, <2>7, <2>8, <2>9 DEF Searched
  <2> QED BY <1>3, <1>6, <2>10 DEF text
<1> QED BY <1>5, <1>6

LEMMA FindKeeps ==
  ASSUME ScanIInv, FindCall
  PROVE  ScanIInv' /\ scan' # "running"
<1> DEFINE from == RelPos(init, Len(subj))
           m == IF op = "plain" THEN PlainFind(subj, from, TextOf(pat)) ELSE PatternFind(subj, from, pat)
           e == [start |-> m.start, end |-> m.end, text |-> <<>>, given |-> Given(subj, m)]
<1>1. op \in {"find", "plain"} /\ scan = "running" BY DEF FindCall
<1>2. from \in 0 .. Len(subj) /\ Len(subj) \in Nat BY PlaceTypes, ArgTypes DEF ScanIInv
<1>3. op = "plain" => IsText(pat) BY DEF ScanIInv, ScanArgs
<1> HIDE DEF from
<1>4. CASE m.end = Malformed
  <2>1. Fail BY <1>4 DEF FindCall, from
  <2> QED BY <2>1, FailKeeps DEF Fail
<1>5. CASE m.end # Malformed
  <2>1. Searched(m, from)
    <3>1. CASE op = "plain" BY <1>2, <1>3, <3>1, PlainSearch DEF ScanIInv
    <3>2. CASE op # "plain" BY <1>2, <1>5, <3>2, PatternSearch DEF ScanIInv
    <3> QED BY <3>1, <3>2
  <2>2. /\ scan' = "done" /\ log' = (IF m = NotFound THEN <<>> ELSE <<e>>)
        /\ UNCHANGED args /\ pos' = pos /\ prevEnd' = prevEnd /\ count' = count /\ result' = result
    BY <1>5 DEF FindCall, from
  <2>3. op' = op /\ subj' = subj /\ init' = init /\ pat' = pat BY <2>2 DEF args
  <2>4. ScanArgs' /\ \A x : At(x)' = At(x) BY <2>2, SameArgs DEF ScanIInv
  <2>5. log = <<>> /\ count = 0
    <3>1. log = <<>> BY <1>1 DEF ScanIInv, ScanPlace
    <3> QED BY <3>1 DEF ScanIInv, ScansAgree, ScanTypeOK
  <2>6. From' = from BY <1>1, <2>3 DEF From, from
  <2> HIDE DEF m, e
  <2>7. ScanPlace' BY <1>1, <2>2, <2>3 DEF ScanPlace
  <2>8. NothingCounted' BY <1>1, <2>2, <2>3 DEF ScanIInv, NothingCounted
  <2>9. ResultIsSplice' BY <1>1, <2>3 DEF ResultIsSplice
  <2>10. CASE m = NotFound
    <3>1. log' = log BY <2>2, <2>5, <2>10
    <3>2. LogOrdered' BY <2>2, <3>1, SameLog DEF ScanIInv
    <3>3. ScanTypeOK' BY <2>2, <2>3, <3>1 DEF ScanIInv, ScansAgree, ScanTypeOK
    <3>4. ~pat.anchored => \A x \in from .. Len(subj) : At(x).end = NoMatch BY <2>1, <2>10 DEF Searched
    <3>5. Passed' = from .. Len(subj) BY <1>1, <2>2, <2>3, <2>5, <2>6, <3>1 DEF Passed
    <3>6. DOMAIN log' = {} BY <2>5, <3>1
    <3>7. ScanIsLeftmost' BY <2>3, <2>4, <3>4, <3>5, <3>6 DEF ScanIsLeftmost
    <3> QED BY <2>2, <2>4, <2>7, <2>8, <2>9, <3>2, <3>3, <3>7 DEF ScanIInv, ScansAgree
  <2>11. CASE m # NotFound
    <3>1. /\ Match(m) /\ m.start >= from /\ m.end = At(m.start).end
          /\ ~pat.anchored => \A x \in from .. m.start - 1 : At(x).end = NoMatch
      BY <2>1, <2>11 DEF Searched
    <3>2. e \in Entry /\ e.start = m.start /\ e.end = m.end
      <4>1. Given(subj, m) \in Seq(Lua) BY <3>1, GivenTyped DEF ScanIInv
      <4>2. <<>> \in Seq(Bytes) OBVIOUS
      <4>3. m.start \in 0 .. Len(subj) /\ m.end \in 0 .. Len(subj) BY <1>2, <3>1 DEF Match
      <4> QED BY <4>1, <4>2, <4>3 DEF Entry, e
    <3>3. log' = Append(log, e)
      <4>1. log' = <<e>> BY <2>2, <2>11
      <4>2. Append(<<>>, e) = <<e>> OBVIOUS
      <4> QED BY <2>5, <4>1, <4>2
    <3>4. e.start <= e.end /\ e.end = At(e.start).end BY <1>2, <3>1, <3>2 DEF Match
    <3>5. /\ LogOrdered' /\ (Len(log))' = Len(log) + 1 /\ log' # <<>> /\ log'[Len(log) + 1] = e
      BY <2>2, <2>5, <3>2, <3>3, <3>4, LogGrows DEF ScanIInv
    <3>6. ScanTypeOK'
      <4>1. Len(log) = 0 BY <2>5
      <4>2. count' \in 0 .. Len(log') BY <2>2, <2>5, <3>5, <4>1
      <4>3. \A k \in DOMAIN log' : log'[k].end \in 0 .. Len(subj) /\ \A v \in Range(log'[k].given) : v \in Lua
        <5>1. log' \in Seq(Entry) BY <3>2, <3>3, AppendProperties DEF ScanIInv, LogOrdered
        <5> QED BY <5>1, EntriesTyped
      <4> QED BY <2>2, <2>3, <4>2, <4>3 DEF ScanIInv, ScansAgree, ScanTypeOK
    <3>7. ScanIsLeftmost'
      <4>1. log'[1] = e
        <5>1. Len(log) + 1 = 1 BY <2>5
        <5> QED BY <3>5, <5>1
      <4>2. Passed' = from .. e.start BY <1>1, <2>2, <2>3, <2>6, <3>5, <4>1 DEF Passed
      <4>3. ASSUME ~pat.anchored, NEW x \in Passed' \cap 0 .. Len(subj)
            PROVE  x = e.start \/ At(x).end = NoMatch
        <5>1. x \in from .. e.start BY <4>2, <4>3
        <5>2. x = e.start \/ x \in from .. m.start - 1 BY <1>2, <3>1, <3>2, <5>1 DEF Match
        <5> QED BY <3>1, <4>3, <5>2
      <4> QED BY <1>1, <2>2, <2>5, <3>2, <3>3, <3>4, <4>3, LeftmostGrows DEF ScanIInv, ScansAgree
    <3> QED BY <2>2, <2>4, <2>7, <2>8, <2>9, <3>5, <3>6, <3>7 DEF ScanIInv, ScansAgree
  <2> QED BY <2>2, <2>10, <2>11
<1> QED BY <1>4, <1>5

-----------------------------------------------------------------------------
LEMMA ScanStarts == ScanInit => ScanIInv
<1> SUFFICES ASSUME ScanInit PROVE ScanIInv OBVIOUS
<1>1. /\ op \in {"gsub", "gmatch", "find", "plain"} /\ scan = "running"
      /\ prevEnd = None /\ count = 0 /\ result = <<>> /\ log = <<>>
      /\ pos = IF op = "gsub" THEN 0 ELSE GmatchPos(init, Len(subj))
  BY DEF ScanInit
<1>2. ScanArgs
  <2>1. -1 \in Int /\ 1 \in Int OBVIOUS
  <2>2. Inits \subseteq Int /\ Limits \subseteq Int BY StringsAssumption
  <2>3. repl \in Templates \cup {Computed} /\ init \in Int /\ limit \in Int BY <1>1, <2>1, <2>2 DEF ScanInit
  <2> QED BY <2>3 DEF ScanArgs, ScanInit
<1>3. Len(subj) \in Nat /\ GmatchPos(init, Len(subj)) \in Nat BY <1>2, ArgTypes, PlaceTypes
<1>4. Len(log) = 0 /\ DOMAIN log = {} /\ log \in Seq(Entry) BY <1>1
<1>5. LogOrdered BY <1>4 DEF LogOrdered
<1>6. ScanPlace BY <1>1, <1>3 DEF ScanPlace
<1>7. Slice(subj, 0, 0) = <<>> BY SliceNone
<1>8. op = "gsub" => CopiedSoFar = 0 BY <1>1, <1>3 DEF CopiedSoFar
<1>9. NothingCounted BY <1>1, <1>7, <1>8 DEF NothingCounted
<1>10. ScanTypeOK BY <1>1, <1>3, <1>4 DEF ScanTypeOK
<1>11. ScanIsLeftmost
  <2>1. Passed = {} BY <1>1, <1>3 DEF Passed, From
  <2> QED BY <1>4, <2>1 DEF ScanIsLeftmost
<1>12. ResultIsSplice
  <2> SUFFICES ASSUME op = "gsub" PROVE result = FlattenSeq(Pieces) \o Gap(Len(log) + 1, CopiedSoFar)
    BY <1>1 DEF ResultIsSplice, Pieces
  <2>1. Pieces = <<>> BY <1>4 DEF Pieces
  <2>2. FlattenSeq(Pieces) = <<>> BY <2>1 DEF FlattenSeq
  <2>3. EndBefore(Len(log) + 1) = 0 BY <1>4 DEF EndBefore
  <2>4. Gap(Len(log) + 1, CopiedSoFar) = <<>> BY <1>7, <1>8, <2>3 DEF Gap
  <2>5. <<>> \o <<>> = <<>> OBVIOUS
  <2> QED BY <1>1, <2>2, <2>4, <2>5
<1> QED BY <1>2, <1>5, <1>6, <1>9, <1>10, <1>11, <1>12 DEF ScanIInv, ScansAgree

LEMMA ScanSteps ==
  ASSUME ScanIInv, ScanNext
  PROVE  ScanIInv' /\ (scan' # "running" \/ pos' > pos)
<1>1. CASE GsubCopy
  <2>1. pos \in Nat BY PosNat DEF ScanIInv, ScansAgree
  <2>2. pos' > pos BY <1>1, <2>1 DEF GsubCopy
  <2> QED BY <1>1, <2>2, GsubCopyKeeps
<1>2. CASE GsubMatch BY <1>2, GsubMatchKeeps
<1>3. CASE GsubMalformed
  <2>1. Fail BY <1>3 DEF GsubMalformed
  <2> QED BY <2>1, FailKeeps DEF Fail
<1>4. CASE GsubEnd
  <2>1. scan' # "running" BY <1>4 DEF GsubEnd
  <2> QED BY <1>4, <2>1, GsubEndKeeps
<1>5. CASE GmatchYield BY <1>5, GmatchYieldKeeps
<1>6. CASE GmatchEnd
  <2>1. scan' # "running" BY <1>6 DEF GmatchEnd
  <2> QED BY <1>6, <2>1, GmatchEndKeeps
<1>7. CASE FindCall BY <1>7, FindKeeps
<1> QED BY <1>1, <1>2, <1>3, <1>4, <1>5, <1>6, <1>7 DEF ScanNext

LEMMA ScanStutters ==
  ASSUME ScanIInv, UNCHANGED scanVars
  PROVE  ScanIInv'
<1>1. /\ UNCHANGED args /\ scan' = scan /\ pos' = pos /\ prevEnd' = prevEnd /\ count' = count
      /\ log' = log /\ result' = result
  BY DEF scanVars, args
<1>2. op' = op /\ subj' = subj /\ init' = init /\ pat' = pat BY <1>1 DEF args
<1>3. ScanArgs' /\ LogOrdered' /\ \A x : At(x)' = At(x) BY <1>1, SameArgs, SameLog DEF ScanIInv
<1>4. ScanPlace' BY <1>1, <1>2 DEF ScanIInv, ScanPlace
<1>5. NothingCounted' BY <1>1, <1>2 DEF ScanIInv, NothingCounted, CopiedSoFar
<1>6. ScanTypeOK' BY <1>1, <1>2 DEF ScanIInv, ScansAgree, ScanTypeOK
<1>7. ScanIsLeftmost'
  <2>1. Passed' = Passed BY <1>1, <1>2 DEF Passed, From
  <2> QED BY <1>1, <1>2, <1>3, <2>1 DEF ScanIInv, ScansAgree, ScanIsLeftmost
<1>8. ResultIsSplice' BY <1>1, <1>2 DEF ScanIInv, ScansAgree, ResultIsSplice, Gap, EndBefore, CopiedSoFar
<1> QED BY <1>3, <1>4, <1>5, <1>6, <1>7, <1>8 DEF ScanIInv, ScansAgree

(* The inductive invariant of find, gsub and gmatch: the log is in order,   *)
(* each entry as the matcher found it, and ends where the loop stands or    *)
(* before; what gsub has copied while nothing was substituted is the        *)
(* subject itself (strlib.cpp, b_gsub).                                     *)
THEOREM ScanInvariance == ScanSpec => []ScanIInv
<1>1. ScanInit => ScanIInv BY ScanStarts
<1>2. ScanIInv /\ [ScanNext]_scanVars => ScanIInv' BY ScanSteps, ScanStutters
<1> QED BY <1>1, <1>2, PTL DEF ScanSpec

(* With any matcher, for every subject and pattern, find, gmatch and gsub   *)
(* report the matches of one scan from left to right that misses none, and  *)
(* the result of gsub is the subject with exactly these replaced.           *)
THEOREM ScansRight == ScanSpec => []ScansAgree
<1>1. ScanIInv => ScansAgree BY DEF ScanIInv
<1> QED BY <1>1, ScanInvariance, PTL

(* With any matcher, every step of gsub and gmatch moves on in the subject, *)
(* an empty match included (prev_end of b_gsub, state.e of b_gmatch_iter).  *)
THEOREM ScansMoveOn == ScanSpec => MovesOn
<1>1. ScanIInv /\ [ScanNext]_scanVars => [scan' # "running" \/ pos' > pos]_scanVars BY ScanSteps
<1> QED BY <1>1, ScanInvariance, PTL DEF ScanSpec, MovesOn
=============================================================================
