---------------------------- MODULE TablesProofs ----------------------------
(***************************************************************************)
(* Proofs about the tables of a program: the loops over a table            *)
(* (Iteration), the functions of the table library that move a range of it *)
(* (TabRange) and the walks along __index and __newindex (Metatables).     *)
(***************************************************************************)
EXTENDS TabRange, Metatables, Iteration,
        FunctionTheorems, FiniteSetTheorems, SequenceTheorems, WellFoundedInduction, TLAPS

-----------------------------------------------------------------------------
(* Iteration.                                                               *)

LEMMA Removed ==
  ASSUME NEW S, NEW s \in Seq(S), NEW p \in 1 .. Len(s)
  PROVE  /\ RemoveAt(s, p) \in Seq(S) /\ Len(RemoveAt(s, p)) = Len(s) - 1
         /\ \A x \in 1 .. Len(s) - 1 : RemoveAt(s, p)[x] = IF x < p THEN s[x] ELSE s[x + 1]
<1>1. Len(s) \in Nat /\ p \in Int /\ p - 1 \in Int /\ p + 1 \in Int /\ 1 \in Int /\ Len(s) \in Int OBVIOUS
<1>2. /\ \A x \in 1 .. p - 1 : s[x] \in S
      /\ \A x \in p + 1 .. Len(s) : s[x] \in S
  OBVIOUS
<1> DEFINE s1 == SubSeq(s, 1, p - 1)
           s2 == SubSeq(s, p + 1, Len(s))
<1>3. /\ s1 \in Seq(S) /\ Len(s1) = p - 1 /\ \A x \in 1 .. p - 1 : s1[x] = s[x]
  <2>1. /\ SubSeq(s, 1, p - 1) \in Seq(S)
        /\ Len(SubSeq(s, 1, p - 1)) = IF 1 <= p - 1 THEN (p - 1) - 1 + 1 ELSE 0
        /\ \A x \in 1 .. (p - 1) - 1 + 1 : SubSeq(s, 1, p - 1)[x] = s[1 + x - 1]
    BY <1>1, <1>2, SubSeqProperties
  <2> QED BY <1>1, <2>1
<1>4. /\ s2 \in Seq(S) /\ Len(s2) = Len(s) - p /\ \A x \in 1 .. Len(s) - p : s2[x] = s[p + x]
  <2>1. /\ SubSeq(s, p + 1, Len(s)) \in Seq(S)
        /\ Len(SubSeq(s, p + 1, Len(s))) = IF p + 1 <= Len(s) THEN Len(s) - (p + 1) + 1 ELSE 0
        /\ \A x \in 1 .. Len(s) - (p + 1) + 1 : SubSeq(s, p + 1, Len(s))[x] = s[(p + 1) + x - 1]
    BY <1>1, <1>2, SubSeqProperties
  <2> QED BY <1>1, <2>1
<1> HIDE DEF s1, s2
<1>5. /\ s1 \o s2 \in Seq(S) /\ Len(s1 \o s2) = Len(s1) + Len(s2)
      /\ \A x \in 1 .. Len(s1) + Len(s2) : (s1 \o s2)[x] = IF x <= Len(s1) THEN s1[x] ELSE s2[x - Len(s1)]
  BY <1>3, <1>4, ConcatProperties
<1>6. RemoveAt(s, p) = s1 \o s2 BY DEF RemoveAt, s1, s2
<1>7. ASSUME NEW x \in 1 .. Len(s) - 1
      PROVE  (s1 \o s2)[x] = IF x < p THEN s[x] ELSE s[x + 1]
  <2>1. x \in 1 .. Len(s1) + Len(s2) BY <1>1, <1>3, <1>4
  <2>2. CASE x < p BY <1>1, <1>3, <1>4, <1>5, <2>1, <2>2
  <2>3. CASE ~(x < p)
    <3>1. x - Len(s1) \in 1 .. Len(s) - p /\ p + (x - Len(s1)) = x + 1 BY <1>1, <1>3, <2>3
    <3>2. s2[x - Len(s1)] = s[x + 1] BY <1>4, <3>1
    <3> QED BY <1>1, <1>3, <1>5, <2>1, <2>3, <3>2
  <2> QED BY <2>2, <2>3
<1>8. Len(s1 \o s2) = Len(s) - 1 BY <1>1, <1>3, <1>4, <1>5
<1> HIDE DEF s1, s2
<1> QED BY <1>5, <1>6, <1>7, <1>8

(* What the order of the hash gives. *)
LEMMA OrderFacts ==
  ASSUME order \in Seq(Key), IsInjective(order)
  PROVE  /\ Len(order) \in Nat /\ DOMAIN order = 1 .. Len(order)
         /\ Keys = {order[x] : x \in 1 .. Len(order)} /\ Keys \subseteq Key
         /\ \A x, y \in 1 .. Len(order) : order[x] = order[y] => x = y
         /\ \A x \in 1 .. Len(order) : order[x] \in Keys /\ PlaceOf(order[x]) = x
         /\ \A q \in Keys : PlaceOf(q) \in 1 .. Len(order) /\ order[PlaceOf(q)] = q
<1>1. Len(order) \in Nat /\ DOMAIN order = 1 .. Len(order) OBVIOUS
<1>2. Keys = {order[x] : x \in 1 .. Len(order)} BY <1>1 DEF Keys, Range
<1>3. Keys \subseteq Key BY <1>2
<1>4. \A x, y \in 1 .. Len(order) : order[x] = order[y] => x = y BY <1>1 DEF IsInjective
<1>5. \A q \in Keys : PlaceOf(q) \in 1 .. Len(order) /\ order[PlaceOf(q)] = q
  <2>1. TAKE q \in Keys
  <2>2. \E x \in DOMAIN order : order[x] = q BY <1>1, <1>2
  <2> QED BY <1>1, <2>2 DEF PlaceOf
<1>6. \A x \in 1 .. Len(order) : order[x] \in Keys BY <1>2
<1> QED BY <1>1, <1>2, <1>3, <1>4, <1>5, <1>6

LEMMA KeysApart ==
  /\ NoKey \notin Key /\ NoKey \notin [int : Nat] /\ NoKey \notin [object : Objects]
  /\ \A q \in [int : Nat] : q \notin [object : Objects] /\ q \notin [name : Named]
  /\ \A x \in Nat : IntKey(x) \in [int : Nat] /\ IntKey(x).int = x
  /\ \A q \in IntKeys : q \in [int : Nat] /\ q.int \in 1 .. MaxInt
<1> QED BY IterAssumption DEF Key, IntKeys, NoKey, IntKey

(* next yields the key that follows, unless that is a table or a function.  *)
LEMMA NextFacts ==
  ASSUME order \in Seq(Key), IsInjective(order), NEW q, q = NoKey \/ q \in Key
  PROVE  \/ /\ NextKey(q) = NoKey
            /\ \/ order = <<>>
               \/ q # NoKey /\ (q \notin Keys \/ PlaceOf(q) = Len(order))
               \/ \E m \in Keys : KeyValue(m) = NoKey
         \/ /\ NextKey(q) \in Keys /\ NextKey(q) # NoKey /\ KeyValue(NextKey(q)) = NextKey(q)
            /\ PlaceOf(NextKey(q)) = IF q = NoKey THEN 1 ELSE PlaceOf(q) + 1
            /\ q # NoKey => q \in Keys
<1> USE OrderFacts
<1> DEFINE p == IF q = NoKey THEN 1 ELSE PlaceOf(q) + 1
<1>1. CASE order = <<>> BY <1>1 DEF NextKey
<1>2. CASE order # <<>> /\ q # NoKey /\ (q \notin Keys \/ PlaceOf(q) = Len(order)) BY <1>2 DEF NextKey
<1>3. CASE order # <<>> /\ (q = NoKey \/ (q \in Keys /\ PlaceOf(q) # Len(order)))
  <2>1. p \in 1 .. Len(order)
    <3>1. Len(order) # 0 BY <1>3, EmptySeq
    <3> QED BY <1>3, <3>1
  <2>2. NextKey(q) = KeyValue(order[p]) BY <1>3 DEF NextKey
  <2>3. order[p] \in Keys /\ PlaceOf(order[p]) = p /\ order[p] # NoKey BY <2>1, KeysApart
  <2>4. CASE KeyValue(order[p]) = NoKey BY <2>2, <2>3, <2>4
  <2>5. CASE KeyValue(order[p]) # NoKey
    <3>1. KeyValue(order[p]) = order[p] BY <2>5 DEF KeyValue
    <3>2. q # NoKey => q \in Keys BY <1>3
    <3> HIDE DEF KeyValue, NextKey
    <3> QED BY <2>2, <2>3, <3>1, <3>2
  <2> QED BY <2>4, <2>5
<1> QED BY <1>1, <1>2, <1>3

LEMMA EmptyTable == order = <<>> => Keys = {}
<1>1. DOMAIN <<>> = {} OBVIOUS
<1> QED BY <1>1 DEF Keys, Range

LEMMA IterStart == IterInit => IterIInv
<1> SUFFICES ASSUME IterInit PROVE IterIInv OBVIOUS
<1>1. order \in Seq(Key) /\ IsInjective(order)
  <2>1. /\ order \in UNION {[1 .. m -> Key] : m \in 0 .. Cardinality(Key)}
        /\ \A x, y \in DOMAIN order : order[x] = order[y] => x = y
    BY DEF IterInit
  <2>2. PICK m \in 0 .. Cardinality(Key) : order \in [1 .. m -> Key] BY <2>1
  <2>3. m \in Nat BY <2>2
  <2>4. order \in Seq(Key) BY <2>2, <2>3
  <2> QED BY <2>1, <2>4 DEF IsInjective
<1>2. Range(order) \subseteq Key BY <1>1, OrderFacts DEF Keys
<1>3. IterTypeOK BY <1>1, <1>2 DEF IterInit, IterTypeOK
<1> QED
  BY <1>1, <1>3 DEF IterInit, IterIInv, BeforeLoop, PairsPlace, IpairsPlace, OnlyErased, Going,
     PairsComplete, PairsNoRepeat

LEMMA StartInv ==
  ASSUME IterIInv, NEW kind \in {"pairs", "ipairs"}, Start(kind)
  PROVE  IterIInv'
<1> USE DEF IterIInv, Start
<1>1. order' = order /\ Keys' = Keys /\ always' = Keys BY DEF Keys
<1>2. seen = {} /\ ~again /\ changed = {} BY DEF BeforeLoop
<1>3. IterTypeOK'
  BY <1>1 DEF IterTypeOK, IntKey, Keys
<1>4. PairsPlace' BY <1>2, KeysApart DEF PairsPlace, Going, IntKey
<1>5. IpairsPlace' BY <1>2, KeysApart DEF IpairsPlace, Going
<1> QED BY <1>1, <1>2, <1>3, <1>4, <1>5 DEF BeforeLoop, OnlyErased, PairsComplete, PairsNoRepeat

(* Nothing of the table changes when the iterator is called. *)
LEMMA StepPairsInv == IterIInv /\ StepPairs => IterIInv'
<1> SUFFICES ASSUME IterIInv, StepPairs PROVE IterIInv' OBVIOUS
<1> DEFINE next == NextKey(control)
<1>1. /\ loop = "pairs" /\ ~over /\ order \in Seq(Key) /\ IsInjective(order)
      /\ control = NoKey \/ control \in Key
      /\ UNCHANGED <<order, loop, always, changed>>
  BY DEF IterIInv, IterTypeOK, PairsPlace, Going, StepPairs, Iterate
<1>2. Keys' = Keys /\ \A q : PlaceOf(q)' = PlaceOf(q) /\ UpTo(q)' = UpTo(q)
  BY <1>1 DEF Keys, PlaceOf, UpTo
<1>3. /\ IF control = NoKey THEN seen = {} ELSE control \in seen
      /\ "insert" \notin changed /\ control \in Keys => seen \cap Keys \subseteq UpTo(control)
      /\ changed \cap {"insert", "erase current"} = {} /\ control # NoKey =>
           control \in Keys /\ UpTo(control) \subseteq seen
      /\ "insert" \notin changed => always = Keys /\ ~again
      /\ IterTypeOK
  BY <1>1 DEF IterIInv, PairsPlace, OnlyErased, PairsNoRepeat, Going
<1> USE OrderFacts
<1>4. CASE next = NoKey
  <2>1. over' = TRUE /\ UNCHANGED <<control, seen, again>> BY <1>4 DEF StepPairs, Iterate
  <2>2. PairsComplete'
    <3> SUFFICES ASSUME changed \cap {"insert", "erase current"} = {}, \A q \in always : KeyValue(q) # NoKey
                 PROVE  always \subseteq seen
      BY <1>1, <2>1 DEF PairsComplete
    <3>1. always = Keys BY <1>3
    <3>2. \/ order = <<>>
          \/ control # NoKey /\ (control \notin Keys \/ PlaceOf(control) = Len(order))
      <4>1. ~\E m \in Keys : KeyValue(m) = NoKey BY <3>1
      <4> QED BY <1>1, <1>4, <4>1, NextFacts
    <3>3. CASE order = <<>>
      <4>1. Keys = {} BY <3>3, EmptyTable
      <4> QED BY <3>1, <4>1
    <3>4. CASE control # NoKey /\ PlaceOf(control) = Len(order)
      <4>1. UpTo(control) \subseteq seen BY <1>3, <3>4
      <4>2. UpTo(control) = Keys BY <1>1, <3>4 DEF UpTo
      <4> QED BY <3>1, <4>1, <4>2
    <3> QED BY <1>3, <3>2, <3>3, <3>4
  <2>3. IterTypeOK' BY <1>1, <1>2, <1>3, <2>1 DEF IterTypeOK
  <2> QED BY <1>1, <1>2, <1>3, <2>1, <2>2, <2>3
    DEF IterIInv, BeforeLoop, PairsPlace, IpairsPlace, OnlyErased, PairsNoRepeat, Going
<1>5. CASE next # NoKey
  <2>1. /\ over' = over /\ control' = next /\ seen' = seen \cup {next} /\ again' = (again \/ next \in seen)
    BY <1>5 DEF StepPairs, Iterate
  <2>2. /\ next \in Keys /\ PlaceOf(next) = IF control = NoKey THEN 1 ELSE PlaceOf(control) + 1
        /\ control # NoKey => control \in Keys
    BY <1>1, <1>5, NextFacts
  <2> HIDE DEF next
  <2>3. IF control = NoKey THEN UpTo(next) = {next} ELSE UpTo(next) = UpTo(control) \cup {next}
    <3>1. PlaceOf(next) \in 1 .. Len(order) /\ order[PlaceOf(next)] = next BY <1>1, <2>2
    <3>2. CASE control = NoKey BY <1>1, <2>2, <3>1, <3>2 DEF UpTo
    <3>3. CASE control # NoKey
      <4>1. PlaceOf(control) \in 1 .. Len(order) /\ PlaceOf(next) = PlaceOf(control) + 1 BY <1>1, <2>2, <3>3
      <4>2. 1 .. PlaceOf(next) = 1 .. PlaceOf(control) \cup {PlaceOf(next)} BY <4>1
      <4> QED BY <1>1, <3>1, <3>3, <4>2 DEF UpTo
    <3> QED BY <3>2, <3>3
  <2>4. "insert" \notin changed => next \notin seen
    <3> SUFFICES ASSUME "insert" \notin changed, next \in seen PROVE FALSE OBVIOUS
    <3>1. control # NoKey /\ control \in Keys BY <1>3, <2>2
    <3>2. next \in UpTo(control) BY <1>3, <2>2, <3>1
    <3>3. PICK x \in 1 .. PlaceOf(control) : next = order[x] BY <3>2 DEF UpTo
    <3>4. PlaceOf(control) \in 1 .. Len(order) /\ PlaceOf(next) = PlaceOf(control) + 1 BY <1>1, <2>2, <3>1
    <3>5. x \in 1 .. Len(order) /\ PlaceOf(next) = x BY <1>1, <3>3, <3>4
    <3> QED BY <3>3, <3>4, <3>5
  <2>5. next \in Key BY <1>1, <2>2
  <2>6. IterTypeOK' BY <1>1, <1>2, <1>3, <2>1, <2>5 DEF IterTypeOK
  <2>7. PairsPlace'
    <3> HIDE OrderFacts
    <3>1. "insert" \notin changed => seen' \cap Keys \subseteq UpTo(next)
      <4>1. CASE control = NoKey BY <1>3, <2>1, <2>3, <4>1
      <4>2. CASE control # NoKey BY <1>3, <2>1, <2>2, <2>3, <4>2
      <4> QED BY <4>1, <4>2
    <3>2. changed \cap {"insert", "erase current"} = {} => UpTo(next) \subseteq seen'
      <4>1. CASE control = NoKey BY <2>1, <2>3, <4>1
      <4>2. CASE control # NoKey BY <1>3, <2>1, <2>3, <4>2
      <4> QED BY <4>1, <4>2
    <3>3. UpTo(control)' = UpTo(next) BY <1>1, <2>1 DEF UpTo, PlaceOf
    <3>4. changed' = changed /\ next # NoKey /\ next \in seen' BY <1>1, <1>5, <2>1 DEF next
    <3> QED BY <1>2, <2>1, <2>2, <2>5, <3>1, <3>2, <3>3, <3>4 DEF PairsPlace
  <2>8. PairsNoRepeat' BY <1>1, <1>3, <2>1, <2>4 DEF PairsNoRepeat
  <2>9. OnlyErased' BY <1>1, <1>2, <1>3 DEF OnlyErased
  <2> QED BY <1>1, <2>1, <2>6, <2>7, <2>8, <2>9
    DEF IterIInv, BeforeLoop, IpairsPlace, Going, PairsComplete
<1> QED BY <1>4, <1>5

LEMMA StepIpairsInv == IterIInv /\ StepIpairs => IterIInv'
<1> SUFFICES ASSUME IterIInv, StepIpairs PROVE IterIInv' OBVIOUS
<1> DEFINE next == IpairsIter(control)
<1>1. /\ loop = "ipairs" /\ ~over /\ order \in Seq(Key) /\ IterTypeOK
      /\ control \in [int : Nat] /\ \A q \in seen : q \in [int : Nat] /\ q.int <= control.int
      /\ "insert" \notin changed => always = Keys /\ ~again
      /\ UNCHANGED <<order, loop, always, changed>>
  BY DEF IterIInv, IpairsPlace, OnlyErased, PairsNoRepeat, Going, StepIpairs, Iterate
<1>2. Keys' = Keys BY <1>1 DEF Keys
<1>3. CASE next = NoKey
  <2>1. over' = TRUE /\ UNCHANGED <<control, seen, again>> BY <1>3 DEF StepIpairs, Iterate
  <2>2. IterTypeOK' BY <1>1, <1>2, <2>1 DEF IterTypeOK
  <2> QED BY <1>1, <1>2, <2>1, <2>2
    DEF IterIInv, BeforeLoop, PairsPlace, IpairsPlace, OnlyErased, PairsComplete, PairsNoRepeat, Going
<1>4. CASE next # NoKey
  <2>1. over' = over /\ control' = next /\ seen' = seen \cup {next} /\ again' = (again \/ next \in seen)
    BY <1>4 DEF StepIpairs, Iterate
  <2>2. next = IntKey(control.int + 1) /\ next \in Keys BY <1>4 DEF IpairsIter
  <2>3. control.int \in Nat /\ control.int + 1 \in Nat BY <1>1
  <2>4. next \in [int : Nat] /\ next.int = control.int + 1 BY <2>2, <2>3, KeysApart
  <2> HIDE DEF next
  <2>5. next \notin seen BY <1>1, <2>3, <2>4
  <2>6. next \in Key BY <1>1, <2>2 DEF IterTypeOK, Keys
  <2>7. IterTypeOK' BY <1>1, <1>2, <2>1, <2>6 DEF IterTypeOK
  <2>8. IpairsPlace' BY <1>1, <2>1, <2>3, <2>4 DEF IpairsPlace
  <2> QED BY <1>1, <1>2, <2>1, <2>5, <2>7, <2>8
    DEF IterIInv, BeforeLoop, PairsPlace, OnlyErased, PairsComplete, PairsNoRepeat, Going
<1> QED BY <1>3, <1>4

(* An insertion puts every key in one place again. *)
LEMMA InsertedOnce ==
  ASSUME order \in Seq(Key), IsInjective(order), NEW q \in Key, q \notin Keys,
         NEW s \in [1 .. Len(order) + 1 -> Keys \cup {q}], Range(s) = Keys \cup {q}
  PROVE  s \in Seq(Key) /\ IsInjective(s)
<1>1. /\ Len(order) \in Nat /\ DOMAIN order = 1 .. Len(order) /\ Keys \subseteq Key
      /\ Keys = {order[x] : x \in 1 .. Len(order)}
      /\ \A x, y \in 1 .. Len(order) : order[x] = order[y] => x = y
  BY OrderFacts
<1> DEFINE S == 1 .. Len(order) + 1
           T == Keys \cup {q}
<1>2. s \in Seq(Key) BY <1>1
<1>3. IsFiniteSet(1 .. Len(order)) /\ Cardinality(1 .. Len(order)) = Len(order)
  <2>1. Len(order) \in Int /\ 1 \in Int BY <1>1
  <2>2. /\ IsFiniteSet(1 .. Len(order))
        /\ Cardinality(1 .. Len(order)) = IF 1 > Len(order) THEN 0 ELSE Len(order) - 1 + 1
    BY <2>1, FS_Interval
  <2> QED BY <1>1, <2>2
<1>4. order \in Surjection(1 .. Len(order), Keys) /\ order \in Injection(1 .. Len(order), Keys)
  <2>1. order \in [1 .. Len(order) -> Keys] BY <1>1
  <2> QED BY <1>1, <2>1 DEF Surjection, Injection, IsInjective
<1>5. IsFiniteSet(Keys) /\ Cardinality(Keys) = Len(order)
  BY <1>3, <1>4, FS_Surjection
<1>6. IsFiniteSet(T) /\ Cardinality(T) = Len(order) + 1 BY <1>5, FS_AddElement
<1>7. IsFiniteSet(S) /\ Cardinality(S) = Len(order) + 1
  <2>1. Len(order) + 1 \in Int /\ 1 \in Int BY <1>1
  <2>2. IsFiniteSet(S) /\ Cardinality(S) = IF 1 > Len(order) + 1 THEN 0 ELSE (Len(order) + 1) - 1 + 1
    BY <2>1, FS_Interval
  <2> QED BY <1>1, <2>2
<1>8. s \in Surjection(S, T) BY DEF Surjection, Range
<1> HIDE DEF S, T
<1>9. s \in Injection(S, T) BY <1>6, <1>7, <1>8, FS_SurjSameCardinalityImpliesInj
<1> QED BY <1>2, <1>9 DEF Injection

LEMMA InsertInv ==
  ASSUME IterIInv, NEW q \in Key, Insert(q)
  PROVE  IterIInv'
<1>1. /\ loop # "none" /\ ~over /\ q \notin Keys /\ order \in Seq(Key) /\ IsInjective(order)
      /\ order' \in [1 .. Len(order) + 1 -> Keys \cup {q}] /\ Range(order') = Keys \cup {q}
      /\ changed' = changed \cup {"insert"}
      /\ UNCHANGED <<loop, over, control, seen, again, always>>
      /\ IterTypeOK
  BY DEF IterIInv, IterTypeOK, Insert, InBody
<1>2. order' \in Seq(Key) /\ IsInjective(order') BY <1>1, InsertedOnce
<1>3. Keys' = Keys \cup {q} BY <1>1 DEF Keys
<1>4. Keys \subseteq Key BY <1>1 DEF IterTypeOK, Keys
<1>5. IterTypeOK'
  <2>1. Range(order)' \subseteq Key /\ always' \subseteq Keys' BY <1>1, <1>3, <1>4 DEF IterTypeOK
  <2> QED BY <1>1, <1>2, <2>1 DEF IterTypeOK
<1>6. PairsPlace' BY <1>1 DEF IterIInv, PairsPlace, Going
<1>7. IpairsPlace' BY <1>1 DEF IterIInv, IpairsPlace, Going
<1> QED BY <1>1, <1>2, <1>5, <1>6, <1>7
  DEF IterIInv, BeforeLoop, OnlyErased, PairsComplete, PairsNoRepeat

(* Erasing a key leaves the others in their order. *)
LEMMA ErasedFacts ==
  ASSUME order \in Seq(Key), IsInjective(order), NEW q \in Keys, order' = RemoveAt(order, PlaceOf(q))
  PROVE  /\ order' \in Seq(Key) /\ IsInjective(order') /\ Keys' = Keys \ {q}
         /\ \A z \in Key : z \in Keys' => UpTo(z)' = UpTo(z) \ {q}
<1> DEFINE p == PlaceOf(q)
           L == Len(order)
<1>1. /\ L \in Nat /\ Keys = {order[x] : x \in 1 .. L}
      /\ \A x, y \in 1 .. L : order[x] = order[y] => x = y
      /\ p \in 1 .. L /\ order[p] = q
      /\ \A z \in Keys : PlaceOf(z) \in 1 .. L /\ order[PlaceOf(z)] = z
  BY OrderFacts
<1>2. /\ order' \in Seq(Key) /\ Len(order') = L - 1
      /\ \A x \in 1 .. L - 1 : order'[x] = IF x < p THEN order[x] ELSE order[x + 1]
  <2> HIDE DEF p
  <2>1. /\ RemoveAt(order, p) \in Seq(Key) /\ Len(RemoveAt(order, p)) = L - 1
        /\ \A x \in 1 .. L - 1 : RemoveAt(order, p)[x] = IF x < p THEN order[x] ELSE order[x + 1]
    <3>1. RemoveAt(order, p) \in Seq(Key) BY <1>1, Removed
    <3>2. Len(RemoveAt(order, p)) = L - 1 BY <1>1, Removed
    <3>3. ASSUME NEW x \in 1 .. L - 1
          PROVE  RemoveAt(order, p)[x] = IF x < p THEN order[x] ELSE order[x + 1]
      BY <1>1, Removed
    <3> QED BY <3>1, <3>2, <3>3
  <2> QED BY <2>1 DEF p
<1> HIDE DEF p, L
<1>3. DOMAIN order' = 1 .. L - 1 BY <1>1, <1>2
<1>4. IsInjective(order')
  <2>1. ASSUME NEW x \in 1 .. L - 1, NEW y \in 1 .. L - 1, order'[x] = order'[y]
        PROVE  x = y
    <3>1. CASE x < p /\ y < p BY <1>1, <1>2, <2>1, <3>1
    <3>2. CASE ~(x < p) /\ ~(y < p)
      <4>1. x + 1 \in 1 .. L /\ y + 1 \in 1 .. L /\ order[x + 1] = order[y + 1] BY <1>1, <1>2, <2>1, <3>2
      <4> QED BY <1>1, <4>1
    <3>3. CASE x < p /\ ~(y < p)
      <4>1. x \in 1 .. L /\ y + 1 \in 1 .. L /\ order[x] = order[y + 1] BY <1>1, <1>2, <2>1, <3>3
      <4>2. x = y + 1 BY <1>1, <4>1
      <4> QED BY <1>1, <3>3, <4>2
    <3>4. CASE ~(x < p) /\ y < p
      <4>1. y \in 1 .. L /\ x + 1 \in 1 .. L /\ order[y] = order[x + 1] BY <1>1, <1>2, <2>1, <3>4
      <4>2. y = x + 1 BY <1>1, <4>1
      <4> QED BY <1>1, <3>4, <4>2
    <3> QED BY <3>1, <3>2, <3>3, <3>4
  <2> QED BY <1>3, <2>1 DEF IsInjective
(* Every other key is where it was, or one place before. *)
<1> DEFINE Now(z) == IF PlaceOf(z) < p THEN PlaceOf(z) ELSE PlaceOf(z) - 1
<1>5. ASSUME NEW z \in Keys, z # q
      PROVE  Now(z) \in 1 .. L - 1 /\ order'[Now(z)] = z
  <2>1. PlaceOf(z) \in 1 .. L /\ order[PlaceOf(z)] = z /\ PlaceOf(z) # p BY <1>1, <1>5
  <2>2. CASE PlaceOf(z) < p BY <1>1, <1>2, <2>1, <2>2
  <2>3. CASE PlaceOf(z) > p
    <3>1. Now(z) = PlaceOf(z) - 1 /\ Now(z) \in 1 .. L - 1 /\ ~(Now(z) < p) BY <1>1, <2>1, <2>3
    <3>2. order'[Now(z)] = order[Now(z) + 1] BY <1>2, <3>1
    <3>3. Now(z) + 1 = PlaceOf(z) BY <1>1, <2>1, <3>1
    <3> QED BY <2>1, <3>1, <3>2, <3>3
  <2> QED BY <1>1, <2>1, <2>2, <2>3
<1>6. ASSUME NEW x \in 1 .. L - 1 PROVE order'[x] \in Keys /\ order'[x] # q
  <2>1. CASE x < p BY <1>1, <1>2, <2>1
  <2>2. CASE ~(x < p)
    <3>1. x + 1 \in 1 .. L /\ x + 1 # p /\ order'[x] = order[x + 1] BY <1>1, <1>2, <2>2
    <3> QED BY <1>1, <3>1
  <2> QED BY <2>1, <2>2
<1> HIDE DEF Now
<1>7. Keys' = Keys \ {q}
  <2>1. Keys' = {order'[x] : x \in 1 .. L - 1} BY <1>3 DEF Keys, Range
  <2>2. \A z \in Keys \ {q} : z \in Keys' BY <1>5, <2>1
  <2>3. \A z \in Keys' : z \in Keys \ {q} BY <1>6, <2>1
  <2> QED BY <2>2, <2>3
<1>8. ASSUME NEW z \in Keys, z # q PROVE PlaceOf(z)' = Now(z)
  <2>1. Now(z) \in DOMAIN order' /\ order'[Now(z)] = z BY <1>3, <1>5, <1>8
  <2>2. PlaceOf(z)' = CHOOSE x \in DOMAIN order' : order'[x] = z BY DEF PlaceOf
  <2>3. \A x, y \in DOMAIN order' : order'[x] = order'[y] => x = y BY <1>4 DEF IsInjective
  <2> QED BY <2>1, <2>2, <2>3
<1>9. ASSUME NEW z \in Keys, z # q PROVE UpTo(z)' = UpTo(z) \ {q}
  <2>1. UpTo(z)' = {order'[x] : x \in 1 .. Now(z)} BY <1>8, <1>9 DEF UpTo
  <2>2. UpTo(z) = {order[x] : x \in 1 .. PlaceOf(z)} BY DEF UpTo
  <2>3. Now(z) \in 1 .. L - 1 /\ PlaceOf(z) \in 1 .. L /\ PlaceOf(z) # p BY <1>1, <1>5, <1>9
  <2>4. ASSUME NEW x \in 1 .. Now(z) PROVE order'[x] \in UpTo(z) /\ order'[x] # q
    <3>1. x \in 1 .. L - 1 BY <1>1, <2>3
    <3>2. CASE x < p
      <4>1. x \in 1 .. PlaceOf(z) /\ order'[x] = order[x] BY <1>1, <1>2, <2>3, <3>1, <3>2 DEF Now
      <4> QED BY <1>6, <2>2, <3>1, <4>1
    <3>3. CASE ~(x < p)
      <4>1. x + 1 \in 1 .. PlaceOf(z) /\ order'[x] = order[x + 1] BY <1>1, <1>2, <2>3, <3>1, <3>3 DEF Now
      <4> QED BY <1>6, <2>2, <3>1, <4>1
    <3> QED BY <3>2, <3>3
  <2>5. ASSUME NEW x \in 1 .. PlaceOf(z), order[x] # q PROVE order[x] \in UpTo(z)'
    <3>1. x # p /\ x \in 1 .. L BY <1>1, <2>3, <2>5
    <3>2. CASE x < p
      <4>1. x \in 1 .. Now(z) /\ order'[x] = order[x] BY <1>1, <1>2, <2>3, <3>1, <3>2 DEF Now
      <4> QED BY <2>1, <4>1
    <3>3. CASE x > p
      <4>1. x - 1 \in 1 .. Now(z) /\ x - 1 \in 1 .. L - 1 /\ ~(x - 1 < p) /\ (x - 1) + 1 = x
        BY <1>1, <2>3, <3>1, <3>3 DEF Now
      <4>2. order'[x - 1] = order[x] BY <1>2, <4>1
      <4> QED BY <2>1, <4>1, <4>2
    <3> QED BY <1>1, <3>1, <3>2, <3>3
  <2>6. UpTo(z)' \subseteq UpTo(z) \ {q} BY <2>1, <2>4
  <2>7. UpTo(z) \ {q} \subseteq UpTo(z)' BY <2>2, <2>5
  <2> QED BY <2>6, <2>7
<1> QED BY <1>2, <1>4, <1>7, <1>9

LEMMA EraseInv ==
  ASSUME IterIInv, NEW q \in Key, Erase(q)
  PROVE  IterIInv'
<1>1. /\ loop # "none" /\ ~over /\ q \in Keys /\ order \in Seq(Key) /\ IsInjective(order)
      /\ order' = RemoveAt(order, PlaceOf(q)) /\ always' = always \ {q}
      /\ changed' = changed \cup {IF q = control THEN "erase current"
                                  ELSE IF q \in seen THEN "erase old" ELSE "erase"}
      /\ UNCHANGED <<loop, over, control, seen, again>>
      /\ IterTypeOK
  BY DEF IterIInv, IterTypeOK, Erase, InBody
<1>2. /\ order' \in Seq(Key) /\ IsInjective(order') /\ Keys' = Keys \ {q}
      /\ \A z \in Key : z \in Keys' => UpTo(z)' = UpTo(z) \ {q}
  BY <1>1, ErasedFacts
<1>3. /\ "insert" \notin changed' => "insert" \notin changed
      /\ changed' \cap {"insert", "erase current"} = {} =>
           changed \cap {"insert", "erase current"} = {} /\ q # control
  BY <1>1
<1>4. IterTypeOK'
  <2>1. Range(order)' \subseteq Key /\ always' \subseteq Keys' BY <1>1, <1>2 DEF IterTypeOK, Keys
  <2>2. changed' \subseteq {"insert", "erase", "erase old", "erase current"} BY <1>1 DEF IterTypeOK
  <2> QED BY <1>1, <1>2, <2>1, <2>2 DEF IterTypeOK
<1>5. PairsPlace'
  <2> SUFFICES ASSUME loop = "pairs"
               PROVE  /\ control \in Key \cup {NoKey}
                      /\ IF control = NoKey THEN seen = {} ELSE control \in seen
                      /\ "insert" \notin changed' /\ control \in Keys' => seen \cap Keys' \subseteq UpTo(control)'
                      /\ changed' \cap {"insert", "erase current"} = {} /\ control # NoKey =>
                           control \in Keys' /\ UpTo(control)' \subseteq seen
    BY <1>1 DEF PairsPlace, Going
  <2>1. /\ control \in Key \cup {NoKey}
        /\ IF control = NoKey THEN seen = {} ELSE control \in seen
        /\ "insert" \notin changed /\ control \in Keys => seen \cap Keys \subseteq UpTo(control)
        /\ changed \cap {"insert", "erase current"} = {} /\ control # NoKey =>
             control \in Keys /\ UpTo(control) \subseteq seen
    BY <1>1 DEF IterIInv, PairsPlace, Going
  <2>2. ASSUME control \in Keys' PROVE UpTo(control)' = UpTo(control) \ {q}
    <3>1. control \in Key BY <1>1, <1>2, <2>2 DEF IterTypeOK, Keys
    <3>2. PICK c \in Key : c = control BY <3>1
    <3>3. UpTo(control)' = UpTo(c)' BY <1>1, <3>2 DEF UpTo, PlaceOf
    <3>4. UpTo(control) = UpTo(c) BY <3>2
    <3> QED BY <1>2, <2>2, <3>2, <3>3, <3>4
  <2> QED BY <1>1, <1>2, <1>3, <2>1, <2>2
<1>6. IpairsPlace' BY <1>1 DEF IterIInv, IpairsPlace, Going
<1>7. OnlyErased' BY <1>1, <1>2, <1>3 DEF IterIInv, OnlyErased
<1> QED BY <1>1, <1>2, <1>3, <1>4, <1>5, <1>6, <1>7
  DEF IterIInv, BeforeLoop, PairsComplete, PairsNoRepeat

LEMMA IterStep == IterIInv /\ [IterNext]_iterVars => IterIInv'
<1> SUFFICES ASSUME IterIInv, [IterNext]_iterVars PROVE IterIInv' OBVIOUS
<1>1. CASE \E kind \in {"pairs", "ipairs"} : Start(kind) BY <1>1, StartInv
<1>2. CASE StepPairs BY <1>2, StepPairsInv
<1>3. CASE StepIpairs BY <1>3, StepIpairsInv
<1>4. CASE Break
  <2>1. over' = TRUE /\ loop' = "none" /\ UNCHANGED <<order, control, seen, again, always, changed>>
    BY <1>4 DEF Break
  <2>2. Keys' = Keys BY <2>1 DEF Keys
  <2>3. InBody BY <1>4 DEF Break
  <2>4. IterTypeOK' BY <2>1, <2>2 DEF IterIInv, IterTypeOK
  <2>5. PairsNoRepeat' BY <2>1 DEF IterIInv, PairsNoRepeat
  <2> QED BY <2>1, <2>2, <2>4, <2>5
    DEF IterIInv, BeforeLoop, PairsPlace, IpairsPlace, OnlyErased, PairsComplete, Going
<1>5. CASE \E q \in Key : Insert(q) BY <1>5, InsertInv
<1>6. CASE \E q \in Key : Erase(q) BY <1>6, EraseInv
<1>7. CASE UNCHANGED iterVars
  <2>1. Keys' = Keys /\ UpTo(control)' = UpTo(control) BY <1>7 DEF iterVars, Keys, UpTo, PlaceOf
  <2>2. IterTypeOK' BY <1>7, <2>1 DEF iterVars, IterIInv, IterTypeOK
  <2> QED BY <1>7, <2>1, <2>2
    DEF iterVars, IterIInv, BeforeLoop, PairsPlace, IpairsPlace, OnlyErased, PairsComplete, PairsNoRepeat, Going
<1> QED BY <1>1, <1>2, <1>3, <1>4, <1>5, <1>6, <1>7 DEF IterNext

(* The inductive invariant of a loop: where it stands among the keys, in    *)
(* whatever order the hash has them and after any change by its body.       *)
THEOREM IterInvariance == IterSpec => []IterIInv
BY IterStart, IterStep, PTL DEF IterSpec

(* pairs runs its body for every key that stays, and for none twice, for    *)
(* tables of every size.                                                    *)
THEOREM PairsVisitsAll == IterSpec => []PairsExact
<1>1. IterIInv => PairsExact BY DEF IterIInv, PairsExact
<1> QED BY <1>1, IterInvariance, PTL
-----------------------------------------------------------------------------
(* TabRange.                                                                *)

LEMMA MachineIntegers ==
  /\ MaxI \in Nat /\ MaxI >= 1 /\ MinI = -MaxI - 1 /\ Word = 2 * MaxI + 2
  /\ \A x : x \in Int64 <=> x \in Int /\ MinI <= x /\ x <= MaxI
  /\ MaxUnpack \in Nat /\ MaxUnpack <= MaxI
  /\ Absent \notin Int64 /\ New \notin Int64 /\ Absent # New
<1>1. MaxI \in Nat /\ MaxI >= 1 BY RangeAssumption
<1>2. MinI = -MaxI - 1 /\ MinI \in Int BY <1>1 DEF MinI
<1>3. Word = 2 * MaxI + 2 BY <1>1 DEF Word
<1>4. \A x : x \in Int64 <=> x \in Int /\ MinI <= x /\ x <= MaxI BY <1>1, <1>2 DEF Int64
<1>5. MaxUnpack \in Nat /\ MaxUnpack <= MaxI BY <1>1, RangeAssumption
<1>6. Absent \notin Int64 /\ New \notin Int64 /\ Absent # New BY RangeAssumption
<1> QED BY <1>1, <1>2, <1>3, <1>4, <1>5, <1>6

LEMMA CallTypes ==
  ASSUME call \in Calls
  PROVE  /\ Is({"append", "insert", "remove", "remove_last"}) => call.pos \in Int64
         /\ Is({"move", "copy"}) => call.f \in Int64 /\ call.e \in Int64 /\ call.tt \in Int64
         /\ Is({"unpack"}) => call.i \in Int64 /\ call.j \in Int64
<1>1. \/ call \in [fn : {"append", "insert", "remove", "remove_last"}, pos : Int64]
      \/ call \in [fn : {"move", "copy"}, f : Int64, e : Int64, tt : Int64]
      \/ call \in [fn : {"unpack"}, i : Int64, j : Int64]
  BY RangeAssumption
<1> QED BY <1>1 DEF Is

(* The border of a table: some key is missing, and the first one is next.   *)
LEMMA BorderExists ==
  ASSUME NEW p \in Present, NEW tab, tab = [x \in Int64 |-> IF x \in p THEN x ELSE Absent]
  PROVE  Border(tab) \in 0 .. MaxI - 1
<1> USE MachineIntegers
<1> DEFINE T == {b \in 0 .. MaxI - 1 : tab[b + 1] = Absent}
           R == {ss \in Nat \X Nat : ss[1] < ss[2]}
<1>1. T # {}
  <2>1. PICK x \in 1 .. MaxI : x \notin p BY RangeAssumption
  <2>2. x \in Int64 /\ tab[x] = Absent BY <2>1
  <2>3. x - 1 \in 0 .. MaxI - 1 /\ (x - 1) + 1 = x BY <2>1
  <2>4. x - 1 \in T BY <2>2, <2>3
  <2> QED BY <2>4
<1>2. IsWellFoundedOn(R, Nat) BY NatLessThanWellFounded DEF OpToRel
<1>3. T \subseteq Nat OBVIOUS
<1> HIDE DEF R, T
<1>4. PICK b \in T : \A y \in T : ~(<<y, b>> \in R) BY <1>1, <1>2, <1>3, WFMin
<1>5. \A y \in T : ~(y < b) BY <1>3, <1>4 DEF R
<1>6. b \in 0 .. MaxI - 1 /\ tab[b + 1] = Absent BY DEF T
<1>7. ASSUME NEW m \in 1 .. b, tab[m] = Absent PROVE FALSE
  <2>1. m - 1 \in 0 .. MaxI - 1 /\ (m - 1) + 1 = m BY <1>6
  <2>2. m - 1 \in T BY <1>7, <2>1 DEF T
  <2> QED BY <1>5, <1>6, <2>2
<1>8. \E c \in 0 .. MaxI - 1 : (\A m \in 1 .. c : tab[m] # Absent) /\ tab[c + 1] = Absent BY <1>6, <1>7
<1> QED BY <1>8 DEF Border

(* Machine arithmetic where it agrees with the integers. *)
LEMMA Wrapping ==
  /\ \A x \in 0 .. MaxI : Unsigned(x) = x /\ Signed(x) = x
  /\ \A x \in Int : Unsigned(x) \in 0 .. Word - 1
  /\ \A x \in Int : 0 <= x /\ x < Word => Unsigned(x) = x
  /\ \A x \in Int : -Word <= x /\ x < 0 => Unsigned(x) = x + Word
<1> USE MachineIntegers
<1>1. Word \in Nat /\ Word > 0 OBVIOUS
<1> DEFINE W == Word
<1> HIDE DEF W
<1>2. W \in Nat /\ W > 0 BY <1>1 DEF W
<1> HIDE MachineIntegers
<1>3. \A x \in Int : 0 <= x /\ x < W => x % W = x BY <1>2
<1>4. \A x \in Int : -W <= x /\ x < 0 => x % W = x + W BY <1>2
<1>5. \A x \in Int : x % W \in 0 .. W - 1 BY <1>2
<1>6. \A x \in 0 .. MaxI : x \in Int /\ 0 <= x /\ x < W BY MachineIntegers DEF W
<1>7. \A x \in 0 .. MaxI : Unsigned(x) = x BY <1>3, <1>6 DEF Unsigned, W
<1>8. \A x \in 0 .. MaxI : Signed(x) = x BY MachineIntegers DEF Signed
<1> QED BY <1>3, <1>4, <1>5, <1>7, <1>8 DEF Unsigned, W

LEMMA RangeStart == RangeInit => RangeIInv
<1> SUFFICES ASSUME RangeInit PROVE RangeIInv OBVIOUS
<1> USE DEF RangeInit
<1>1. PICK p \in Present : orig = [x \in Int64 |-> IF x \in p THEN x ELSE Absent] OBVIOUS
<1>2. Border(orig) \in Int64 BY <1>1, BorderExists, MachineIntegers
<1>3. length \in Int64 BY <1>2, MachineIntegers, RangeAssumption
<1>4. RangeTypeOK
  <2>1. orig \in [Int64 -> Int64 \cup {Absent}] BY <1>1
  <2>2. dest \in [Int64 -> Int64 \cup {Absent}] BY DEF Empty
  <2>3. 0 \in Int64 /\ 0 \in 0 .. Word - 1 /\ Len(<<>>) <= MaxUnpack + 1 BY MachineIntegers
  <2> QED BY <1>3, <2>1, <2>2, <2>3 DEF RangeTypeOK
<1> QED
  BY <1>4 DEF RangeIInv, RangeResults, ChecksExact, NothingDone, InsertPlace, RemovePlace, MovePlace, UnpackPlace, Looping,
     InsertShifts, RemoveShifts, MoveCopies, UnpackReturnsRange, MoveRefusalsExact, NoOverflow

LEMMA BeginInsertInv == RangeIInv /\ BeginInsert => RangeIInv'
<1> SUFFICES ASSUME RangeIInv, BeginInsert PROVE RangeIInv' OBVIOUS
<1> USE MachineIntegers
<1>1. /\ status = "start" /\ Is({"append", "insert"}) /\ t = orig /\ RangeTypeOK /\ call \in Calls
      /\ length \in Int64 /\ call.pos \in Int64 /\ call.fn \in {"append", "insert"}
  BY CallTypes DEF BeginInsert, RangeIInv, RangeResults, RangeTypeOK, NothingDone, Is
<1>2. CASE End("error") \/ (length + 1 \notin Int64 /\ End("undefined"))
  <2>1. UNCHANGED <<call, orig, t, dest, length, pos, k, out>> /\ status' \in {"error", "undefined"} BY <1>2 DEF End
  <2>2. status' = "undefined" => length = MaxI BY <1>1, <1>2 DEF End
  <2>3. RangeTypeOK' BY <1>1, <2>1 DEF RangeTypeOK, Is
  <2> QED BY <1>1, <2>1, <2>2, <2>3
    DEF RangeIInv, RangeResults, ChecksExact, NothingDone, InsertPlace, RemovePlace, MovePlace, UnpackPlace, Looping,
        InsertShifts, RemoveShifts, MoveCopies, UnpackReturnsRange, MoveRefusalsExact, NoOverflow, Is
<1>3. CASE /\ length + 1 \in Int64
           /\ \/ OpenGap(length + 1)
              \/ Is({"insert"}) /\ call.pos >= 1 /\ call.pos <= length + 1 /\ OpenGap(call.pos)
  <2>1. /\ status' = "loop" /\ k' = length /\ UNCHANGED <<call, orig, t, dest, length, out>>
        /\ pos' \in Int64 /\ pos' <= length + 1 /\ pos' > MinI
    BY <1>1, <1>3 DEF OpenGap
  <2>2. InsertPlace'
    <3>1. length < MaxI /\ length \in pos' - 1 .. length BY <1>1, <1>3, <2>1
    <3>2. t = [x \in Int64 |-> IF x \in length + 2 .. length + 1 THEN orig[x - 1] ELSE orig[x]]
      <4>1. \A x \in Int64 : x \notin length + 2 .. length + 1 BY <1>1
      <4>2. orig = [x \in Int64 |-> orig[x]] BY <1>1 DEF RangeTypeOK
      <4> QED BY <1>1, <4>1, <4>2
    <3> QED BY <2>1, <3>1, <3>2 DEF InsertPlace
  <2>3. RangeTypeOK' BY <1>1, <2>1 DEF RangeTypeOK, Is
  <2> QED BY <1>1, <2>1, <2>2, <2>3
    DEF RangeIInv, RangeResults, ChecksExact, NothingDone, RemovePlace, MovePlace, UnpackPlace, Looping,
        InsertShifts, RemoveShifts, MoveCopies, UnpackReturnsRange, MoveRefusalsExact, NoOverflow, Is
<1> QED
  <2>1. CASE Is({"insert"}) /\ call.pos < 1 BY <1>2, <2>1 DEF BeginInsert
  <2>2. CASE ~(Is({"insert"}) /\ call.pos < 1) /\ length + 1 \notin Int64 BY <1>2, <2>2 DEF BeginInsert
  <2>3. CASE ~(Is({"insert"}) /\ call.pos < 1) /\ length + 1 \in Int64 /\ Is({"append"})
    BY <1>3, <2>3 DEF BeginInsert
  <2>4. CASE ~(Is({"insert"}) /\ call.pos < 1) /\ length + 1 \in Int64 /\ ~Is({"append"})
    <3>1. Is({"insert"}) /\ call.pos \in Int /\ call.pos >= 1 BY <1>1, <2>4 DEF Is
    <3>2. CASE call.pos > length + 1 BY <1>2, <2>4, <3>2 DEF BeginInsert
    <3>3. CASE ~(call.pos > length + 1)
      <4>1. OpenGap(call.pos) BY <2>4, <3>3 DEF BeginInsert
      <4> QED BY <1>1, <1>3, <2>4, <3>1, <3>3, <4>1
    <3> QED BY <3>2, <3>3
  <2> QED BY <2>1, <2>2, <2>3, <2>4

LEMMA ShiftUpInv == RangeIInv /\ ShiftUp => RangeIInv'
<1> SUFFICES ASSUME RangeIInv, ShiftUp PROVE RangeIInv' OBVIOUS
<1> USE MachineIntegers
<1>1. /\ status = "loop" /\ call.fn \in {"append", "insert"} /\ RangeTypeOK /\ k >= pos
      /\ length \in Int64 /\ pos \in Int64 /\ k \in Int64 /\ orig \in [Int64 -> Int64 \cup {Absent}]
      /\ length < MaxI /\ pos <= length + 1 /\ pos > MinI /\ k \in pos - 1 .. length
      /\ t = [x \in Int64 |-> IF x \in k + 2 .. length + 1 THEN orig[x - 1] ELSE orig[x]]
  BY DEF ShiftUp, ShiftMore, RangeIInv, RangeResults, RangeTypeOK, InsertPlace, Looping, Is
<1>2. t' = [t EXCEPT ![k + 1] = t[k]] /\ k' = k - 1 /\ UNCHANGED <<call, orig, dest, length, pos, out, status>>
  BY DEF ShiftUp
<1>3. k - 1 \in pos - 1 .. length /\ k - 1 \in Int64 /\ k + 1 \in Int64 BY <1>1
<1>4. t[k] = orig[k]
  <2>1. k \notin k + 2 .. length + 1 BY <1>1
  <2> QED BY <1>1, <2>1
<1>5. t' = [x \in Int64 |-> IF x \in k' + 2 .. length' + 1 THEN orig'[x - 1] ELSE orig'[x]]
  <2>1. t' = [x \in Int64 |-> IF x = k + 1 THEN orig[k] ELSE t[x]] BY <1>1, <1>2, <1>4
  <2>2. ASSUME NEW x \in Int64
        PROVE  (IF x = k + 1 THEN orig[k] ELSE t[x])
                 = IF x \in k' + 2 .. length' + 1 THEN orig[x - 1] ELSE orig[x]
    <3>1. CASE x = k + 1
      <4>1. x \in k' + 2 .. length' + 1 /\ x - 1 = k BY <1>1, <1>2, <3>1
      <4> QED BY <3>1, <4>1
    <3>2. CASE x # k + 1
      <4>1. x \in k' + 2 .. length' + 1 <=> x \in k + 2 .. length + 1 BY <1>1, <1>2, <3>2
      <4> QED BY <1>1, <3>2, <4>1
    <3> QED BY <3>1, <3>2
  <2> QED BY <1>2, <2>1, <2>2
<1>6. RangeTypeOK'
  <2>1. t' \in [Int64 -> Int64 \cup {Absent, New}] BY <1>1, <1>2, <1>3 DEF RangeTypeOK
  <2> QED BY <1>1, <1>2, <1>3, <2>1 DEF RangeTypeOK, Is
<1>7. InsertPlace' BY <1>1, <1>2, <1>3, <1>5 DEF InsertPlace
<1> QED BY <1>1, <1>2, <1>6, <1>7
  DEF RangeIInv, RangeResults, ChecksExact, NothingDone, RemovePlace, MovePlace, UnpackPlace, Looping,
      InsertShifts, RemoveShifts, MoveCopies, UnpackReturnsRange, MoveRefusalsExact, NoOverflow, Is

LEMMA FinishInsertInv == RangeIInv /\ FinishInsert => RangeIInv'
<1> SUFFICES ASSUME RangeIInv, FinishInsert PROVE RangeIInv' OBVIOUS
<1> USE MachineIntegers
<1>1. /\ status = "loop" /\ call.fn \in {"append", "insert"} /\ RangeTypeOK /\ k = pos - 1
      /\ length \in Int64 /\ pos \in Int64 /\ orig \in [Int64 -> Int64 \cup {Absent}]
      /\ length < MaxI /\ pos <= length + 1
      /\ t = [x \in Int64 |-> IF x \in k + 2 .. length + 1 THEN orig[x - 1] ELSE orig[x]]
  BY DEF FinishInsert, ShiftMore, RangeIInv, RangeResults, RangeTypeOK, InsertPlace, Looping, Is
<1>2. /\ t' = [t EXCEPT ![pos] = New] /\ status' = "done" /\ UNCHANGED <<call, orig, dest, length, pos, k, out>>
  BY DEF FinishInsert
<1>3. t' = [x \in Int64 |-> IF x = pos THEN New
                            ELSE IF x \in pos + 1 .. length + 1 THEN orig[x - 1] ELSE orig[x]]
  <2>1. k + 2 = pos + 1 BY <1>1
  <2> QED BY <1>1, <1>2, <2>1
<1>4. t' \in [Int64 -> Int64 \cup {Absent, New}] BY <1>1, <1>2 DEF RangeTypeOK
<1>5. RangeTypeOK' BY <1>1, <1>2, <1>4 DEF RangeTypeOK, Is
<1>6. InsertShifts' BY <1>2, <1>3 DEF InsertShifts
<1> QED BY <1>1, <1>2, <1>5, <1>6
  DEF RangeIInv, RangeResults, ChecksExact, NothingDone, InsertPlace, RemovePlace, MovePlace, UnpackPlace, Looping,
      RemoveShifts, MoveCopies, UnpackReturnsRange, MoveRefusalsExact, NoOverflow, Is

LEMMA BeginRemoveInv == RangeIInv /\ BeginRemove => RangeIInv'
<1> SUFFICES ASSUME RangeIInv, BeginRemove PROVE RangeIInv' OBVIOUS
<1> USE MachineIntegers
<1>1. /\ status = "start" /\ call.fn \in {"remove", "remove_last"} /\ t = orig /\ RangeTypeOK
      /\ length \in Int64 /\ Target \in Int64 /\ orig \in [Int64 -> Int64 \cup {Absent}]
  BY CallTypes DEF BeginRemove, RangeIInv, RangeResults, RangeTypeOK, NothingDone, Is, Target
<1>2. CASE End("error") \/ (length = 0 /\ End("done"))
  <2>1. /\ UNCHANGED <<call, orig, t, dest, length, pos, k, out>> /\ status' \in {"error", "done"}
        /\ status' = "done" => length = 0
    BY <1>2 DEF End
  <2>2. RangeTypeOK' BY <1>1, <2>1 DEF RangeTypeOK, Is
  <2> QED BY <1>1, <2>1, <2>2
    DEF RangeIInv, RangeResults, ChecksExact, NothingDone, InsertPlace, RemovePlace, MovePlace, UnpackPlace, Looping,
        InsertShifts, RemoveShifts, MoveCopies, UnpackReturnsRange, MoveRefusalsExact, NoOverflow, Is
<1>3. CASE /\ Target \in 1 .. length /\ pos' = Target /\ k' = Target /\ out' = <<t[Target]>> /\ status' = "loop"
           /\ UNCHANGED <<call, orig, t, dest, length>>
  <2>1. RemovePlace'
    <3>1. pos' \in 1 .. length /\ k' \in pos' .. length /\ out' = <<orig[pos']>> BY <1>1, <1>3
    <3>2. t = [x \in Int64 |-> IF x \in pos' .. k' - 1 THEN orig[x + 1] ELSE orig[x]]
      <4>1. \A x \in Int64 : x \notin pos' .. k' - 1 BY <1>1, <1>3
      <4>2. orig = [x \in Int64 |-> orig[x]] BY <1>1
      <4> QED BY <1>1, <4>1, <4>2
    <3> QED BY <1>3, <3>1, <3>2 DEF RemovePlace
  <2>2. RangeTypeOK' BY <1>1, <1>3 DEF RangeTypeOK, Is
  <2> QED BY <1>1, <1>3, <2>1, <2>2
    DEF RangeIInv, RangeResults, ChecksExact, NothingDone, InsertPlace, MovePlace, UnpackPlace, Looping,
        InsertShifts, RemoveShifts, MoveCopies, UnpackReturnsRange, MoveRefusalsExact, NoOverflow, Is
<1> QED BY <1>1, <1>2, <1>3 DEF BeginRemove

LEMMA ShiftDownInv == RangeIInv /\ ShiftDown => RangeIInv'
<1> SUFFICES ASSUME RangeIInv, ShiftDown PROVE RangeIInv' OBVIOUS
<1> USE MachineIntegers
<1>1. /\ status = "loop" /\ call.fn \in {"remove", "remove_last"} /\ RangeTypeOK /\ k < length
      /\ length \in Int64 /\ pos \in 1 .. length /\ k \in pos .. length /\ out = <<orig[pos]>>
      /\ orig \in [Int64 -> Int64 \cup {Absent}]
      /\ t = [x \in Int64 |-> IF x \in pos .. k - 1 THEN orig[x + 1] ELSE orig[x]]
  BY DEF ShiftDown, RangeIInv, RangeResults, RangeTypeOK, RemovePlace, Looping, Is
<1>2. t' = [t EXCEPT ![k] = t[k + 1]] /\ k' = k + 1 /\ UNCHANGED <<call, orig, dest, length, pos, out, status>>
  BY DEF ShiftDown
<1>3. k + 1 \in pos .. length /\ k \in Int64 /\ k + 1 \in Int64 /\ pos \in Int64 BY <1>1
<1>4. t[k + 1] = orig[k + 1]
  <2>1. k + 1 \notin pos .. k - 1 BY <1>1
  <2> QED BY <1>1, <1>3, <2>1
<1>5. t' = [x \in Int64 |-> IF x \in pos' .. k' - 1 THEN orig'[x + 1] ELSE orig'[x]]
  <2>1. t' = [x \in Int64 |-> IF x = k THEN orig[k + 1] ELSE t[x]] BY <1>1, <1>2, <1>4
  <2>2. ASSUME NEW x \in Int64
        PROVE  (IF x = k THEN orig[k + 1] ELSE t[x]) = IF x \in pos' .. k' - 1 THEN orig[x + 1] ELSE orig[x]
    <3>1. CASE x = k
      <4>1. x \in pos' .. k' - 1 BY <1>1, <1>2, <3>1
      <4> QED BY <3>1, <4>1
    <3>2. CASE x # k
      <4>1. x \in pos' .. k' - 1 <=> x \in pos .. k - 1 BY <1>1, <1>2, <3>2
      <4> QED BY <1>1, <3>2, <4>1
    <3> QED BY <3>1, <3>2
  <2> QED BY <1>2, <2>1, <2>2
<1>6. t' \in [Int64 -> Int64 \cup {Absent, New}] BY <1>1, <1>2, <1>3 DEF RangeTypeOK
<1>7. RangeTypeOK' BY <1>1, <1>2, <1>3, <1>6 DEF RangeTypeOK, Is
<1>8. RemovePlace' BY <1>1, <1>2, <1>3, <1>5 DEF RemovePlace
<1> QED BY <1>1, <1>2, <1>7, <1>8
  DEF RangeIInv, RangeResults, ChecksExact, NothingDone, InsertPlace, MovePlace, UnpackPlace, Looping,
      InsertShifts, RemoveShifts, MoveCopies, UnpackReturnsRange, MoveRefusalsExact, NoOverflow, Is

LEMMA FinishRemoveInv == RangeIInv /\ FinishRemove => RangeIInv'
<1> SUFFICES ASSUME RangeIInv, FinishRemove PROVE RangeIInv' OBVIOUS
<1> USE MachineIntegers
<1>1. /\ status = "loop" /\ call.fn \in {"remove", "remove_last"} /\ RangeTypeOK /\ k = length
      /\ length \in Int64 /\ pos \in 1 .. length /\ out = <<orig[pos]>>
      /\ orig \in [Int64 -> Int64 \cup {Absent}]
      /\ t = [x \in Int64 |-> IF x \in pos .. k - 1 THEN orig[x + 1] ELSE orig[x]]
  BY DEF FinishRemove, RangeIInv, RangeResults, RangeTypeOK, RemovePlace, Looping, Is
<1>2. t' = [t EXCEPT ![length] = Absent] /\ status' = "done" /\ UNCHANGED <<call, orig, dest, length, pos, k, out>>
  BY DEF FinishRemove, LastErased
<1>3. t' = [x \in Int64 |-> IF x = length THEN Absent
                            ELSE IF x \in pos .. length - 1 THEN orig[x + 1] ELSE orig[x]]
  BY <1>1, <1>2
<1>4. t' \in [Int64 -> Int64 \cup {Absent, New}] BY <1>1, <1>2 DEF RangeTypeOK
<1>5. RangeTypeOK' BY <1>1, <1>2, <1>4 DEF RangeTypeOK, Is
<1>6. RemoveShifts' BY <1>1, <1>2, <1>3 DEF RemoveShifts
<1> QED BY <1>1, <1>2, <1>5, <1>6
  DEF RangeIInv, RangeResults, ChecksExact, NothingDone, InsertPlace, RemovePlace, MovePlace, UnpackPlace, Looping,
      InsertShifts, MoveCopies, UnpackReturnsRange, MoveRefusalsExact, NoOverflow, Is

(* The checks of move in wrapping arithmetic. *)
LEMMA MoveArithmetic ==
  ASSUME call.f \in Int64, call.e \in Int64, call.tt \in Int64, call.f <= call.e
  PROVE  /\ MoveSpan = LastOffset /\ LastOffset \in Nat
         /\ TooMany <=> LastOffset + 1 > MaxI
         /\ ~TooMany => (Wraps <=> call.tt + LastOffset > MaxI)
<1> USE MachineIntegers
<1> DEFINE f == call.f
           e == call.e
           tt == call.tt
           d == e - f
<1>1. f \in Int /\ e \in Int /\ tt \in Int /\ MinI <= f /\ f <= e /\ e <= MaxI /\ MinI <= tt /\ tt <= MaxI OBVIOUS
<1> HIDE DEF f, e, tt
<1>2. d \in Nat /\ d < Word BY <1>1
<1>3. MoveSpan = d
  <2>1. CASE f >= 0
    <3>1. Unsigned(e) = e /\ Unsigned(f) = f BY <1>1, <2>1, Wrapping
    <3>2. Unsigned(d) = d BY <1>2, Wrapping
    <3> QED BY <3>1, <3>2 DEF MoveSpan, e, f
  <2>2. CASE e < 0
    <3>1. Unsigned(e) = e + Word /\ Unsigned(f) = f + Word BY <1>1, <2>2, Wrapping
    <3>2. Unsigned(d) = d /\ (e + Word) - (f + Word) = d BY <1>1, <1>2, Wrapping
    <3> QED BY <3>1, <3>2 DEF MoveSpan, e, f
  <2>3. CASE f < 0 /\ e >= 0
    <3>1. Unsigned(e) = e /\ Unsigned(f) = f + Word BY <1>1, <2>3, Wrapping
    <3>2. e - (f + Word) \in Int /\ -Word <= e - (f + Word) /\ e - (f + Word) < 0 BY <1>1, <2>3
    <3>3. Unsigned(e - (f + Word)) = (e - (f + Word)) + Word BY <3>2, Wrapping
    <3>4. (e - (f + Word)) + Word = d BY <1>1
    <3> QED BY <3>1, <3>3, <3>4 DEF MoveSpan, e, f
  <2> QED BY <1>1, <2>1, <2>2, <2>3
<1>4. TooMany <=> d + 1 > MaxI BY <1>2, <1>3 DEF TooMany
<1>5. ASSUME ~TooMany PROVE Wraps <=> tt + d > MaxI
  <2>0. d < MaxI BY <1>2, <1>4, <1>5
  <2>1. CASE tt >= 0
    <3>1. Unsigned(tt) = tt BY <1>1, <2>1, Wrapping
    <3>2. tt + d \in Int /\ 0 <= tt + d /\ tt + d < Word BY <1>1, <1>2, <2>0, <2>1
    <3>3. Unsigned(tt + d) = tt + d BY <3>2, Wrapping
    <3> QED BY <1>3, <2>1, <3>1, <3>3 DEF Wraps, tt
  <2>2. CASE tt < 0
    <3>1. Unsigned(tt) = tt + Word BY <1>1, <2>2, Wrapping
    <3>2. MaxI - (tt + Word) \in Int /\ -Word <= MaxI - (tt + Word) /\ MaxI - (tt + Word) < 0 BY <1>1, <2>2
    <3>3. Unsigned(MaxI - (tt + Word)) = (MaxI - (tt + Word)) + Word BY <3>2, Wrapping
    <3>4. (MaxI - (tt + Word)) + Word = MaxI - tt BY <1>1
    <3>5. d > MaxI - tt <=> tt + d > MaxI BY <1>1, <1>2
    <3>6. Wraps <=> MoveSpan > Unsigned(MaxI - Unsigned(tt)) BY <1>1, <2>2 DEF Wraps, tt
    <3> QED BY <1>3, <3>1, <3>3, <3>4, <3>5, <3>6
  <2> QED BY <1>1, <2>1, <2>2
<1> QED BY <1>2, <1>3, <1>4, <1>5 DEF LastOffset, e, f, tt

LEMMA BeginMoveInv == RangeIInv /\ BeginMove => RangeIInv'
<1> SUFFICES ASSUME RangeIInv, BeginMove PROVE RangeIInv' OBVIOUS
<1> USE MachineIntegers
<1>1. /\ status = "start" /\ call.fn \in {"move", "copy"} /\ t = orig /\ dest = Empty /\ RangeTypeOK
      /\ call.f \in Int64 /\ call.e \in Int64 /\ call.tt \in Int64 /\ orig \in [Int64 -> Int64 \cup {Absent}]
  BY CallTypes DEF BeginMove, RangeIInv, RangeResults, RangeTypeOK, NothingDone, Is
<1>2. CASE call.e < call.f
  <2>1. UNCHANGED <<call, orig, t, dest, length, pos, k, out>> /\ status' = "done" BY <1>2 DEF BeginMove, End
  <2>2. RangeTypeOK' BY <1>1, <2>1 DEF RangeTypeOK, Is
  <2>3. Moved(orig) = orig /\ Moved(Empty) = Empty
    <3>1. \A x \in Int64 : x \notin call.tt .. call.tt + (call.e - call.f) BY <1>1, <1>2
    <3> QED BY <1>1, <3>1 DEF Moved, Empty
  <2>4. MoveCopies' BY <1>1, <2>1, <2>3 DEF MoveCopies, Moved
  <2>5. MoveRefusalsExact' BY <1>1, <1>2, <2>1 DEF MoveRefusalsExact
  <2> QED BY <1>1, <2>1, <2>2, <2>4, <2>5
    DEF RangeIInv, RangeResults, ChecksExact, NothingDone, InsertPlace, RemovePlace, MovePlace, UnpackPlace, Looping,
        InsertShifts, RemoveShifts, UnpackReturnsRange, NoOverflow, Is
<1>3. CASE call.e >= call.f /\ (TooMany \/ Wraps)
  <2>1. UNCHANGED <<call, orig, t, dest, length, pos, k, out>> /\ status' = "error"
    BY <1>1, <1>3 DEF BeginMove, End
  <2>2. RangeTypeOK' BY <1>1, <2>1 DEF RangeTypeOK, Is
  <2>3. call.e - call.f + 1 > MaxI \/ call.tt + (call.e - call.f) > MaxI
    BY <1>1, <1>3, MoveArithmetic DEF LastOffset
  <2>4. MoveRefusalsExact' BY <1>3, <2>1, <2>3 DEF MoveRefusalsExact
  <2> QED BY <1>1, <2>1, <2>2, <2>4
    DEF RangeIInv, RangeResults, ChecksExact, NothingDone, InsertPlace, RemovePlace, MovePlace, UnpackPlace, Looping,
        InsertShifts, RemoveShifts, MoveCopies, UnpackReturnsRange, NoOverflow, Is
<1>4. CASE call.e >= call.f /\ ~(TooMany \/ Wraps)
  <2>1. /\ k' = (IF Backward THEN call.e - call.f ELSE 0) /\ status' = "loop"
        /\ UNCHANGED <<call, orig, t, dest, length, pos, out>>
    BY <1>1, <1>4 DEF BeginMove
  <2>2. LastOffset \in 0 .. MaxI - 1 /\ call.tt + LastOffset <= MaxI BY <1>1, <1>4, MoveArithmetic DEF LastOffset
  <2>3. k' \in IF Backward THEN -1 .. LastOffset ELSE 0 .. LastOffset + 1
    BY <2>1, <2>2 DEF LastOffset
  <2>4. k' \in Int64 BY <2>1, <2>2 DEF LastOffset
  <2>5. RangeTypeOK' BY <1>1, <2>1, <2>4 DEF RangeTypeOK, Is
  <2>6. MovedSoFar(orig)' = orig /\ MovedSoFar(Empty)' = Empty
    <3>1. \A x \in Int64 : x \notin IF Backward THEN call.tt + k' + 1 .. call.tt + LastOffset
                                    ELSE call.tt .. call.tt + k' - 1
      BY <1>1, <2>1, <2>2 DEF LastOffset
    <3> QED BY <1>1, <2>1, <3>1 DEF MovedSoFar, Empty, Backward, LastOffset
  <2>7. MovePlace'
    BY <1>1, <2>1, <2>2, <2>3, <2>6 DEF MovePlace, Backward, LastOffset, Is
  <2>8. MoveRefusalsExact' BY <1>1, <2>1, <2>2 DEF MoveRefusalsExact, LastOffset
  <2> QED BY <1>1, <2>1, <2>5, <2>7, <2>8
    DEF RangeIInv, RangeResults, ChecksExact, NothingDone, InsertPlace, RemovePlace, UnpackPlace, Looping,
        InsertShifts, RemoveShifts, MoveCopies, UnpackReturnsRange, NoOverflow, Is
<1> QED BY <1>1, <1>2, <1>3, <1>4

(* What is read now has not been written over yet, whichever way the copy goes. *)
LEMMA MoveOneInv == RangeIInv /\ MoveOne => RangeIInv'
<1> SUFFICES ASSUME RangeIInv, MoveOne PROVE RangeIInv' OBVIOUS
<1> USE MachineIntegers
<1>1. /\ status = "loop" /\ call.fn \in {"move", "copy"} /\ RangeTypeOK /\ MoveRefusalsExact
      /\ call.f \in Int64 /\ call.e \in Int64 /\ call.tt \in Int64 /\ orig \in [Int64 -> Int64 \cup {Absent}]
      /\ LastOffset \in 0 .. MaxI - 1 /\ call.tt + LastOffset <= MaxI
      /\ k \in IF Backward THEN -1 .. LastOffset ELSE 0 .. LastOffset + 1
      /\ Is({"move"}) => t = MovedSoFar(orig)
      /\ Is({"copy"}) => dest = MovedSoFar(Empty) /\ t = orig
  BY CallTypes DEF MoveOne, RangeIInv, RangeResults, RangeTypeOK, ChecksExact, MovePlace, Looping, Is
<1>2. k \in 0 .. LastOffset BY <1>1 DEF MoveOne, MoveMore, LastOffset
<1>3. call.tt + k \in Int64 /\ call.f + k \in Int64 BY <1>1, <1>2 DEF LastOffset
<1>4. /\ IF Is({"move"}) THEN t' = [t EXCEPT ![call.tt + k] = t[call.f + k]] /\ UNCHANGED dest
         ELSE dest' = [dest EXCEPT ![call.tt + k] = t[call.f + k]] /\ UNCHANGED t
      /\ k' = IF Backward THEN k - 1 ELSE k + 1
      /\ UNCHANGED <<call, orig, length, pos, out, status>>
  BY <1>3 DEF MoveOne
<1>5. k' \in (IF Backward THEN -1 .. LastOffset ELSE 0 .. LastOffset + 1) /\ k' \in Int64
  <2>1. CASE Backward BY <1>1, <1>2, <1>4, <2>1
  <2>2. CASE ~Backward BY <1>1, <1>2, <1>4, <2>2
  <2> QED BY <2>1, <2>2
<1>6. t[call.f + k] = orig[call.f + k]
  <2>1. CASE Is({"copy"}) BY <1>1, <2>1
  <2>2. CASE Is({"move"})
    <3>1. CASE Backward
      <4>1. call.f + k \notin call.tt + k + 1 .. call.tt + LastOffset BY <1>1, <1>2, <3>1 DEF Backward
      <4> QED BY <1>1, <1>3, <2>2, <3>1, <4>1 DEF MovedSoFar
    <3>2. CASE ~Backward
      <4>1. call.f + k \notin call.tt .. call.tt + k - 1 BY <1>1, <1>2, <3>2 DEF Backward, LastOffset
      <4> QED BY <1>1, <1>3, <2>2, <3>2, <4>1 DEF MovedSoFar
    <3> QED BY <3>1, <3>2
  <2> QED BY <1>1, <2>1, <2>2 DEF Is
<1>7. ASSUME NEW into \in [Int64 -> Int64 \cup {Absent}]
      PROVE  [MovedSoFar(into) EXCEPT ![call.tt + k] = orig[call.f + k]] = MovedSoFar(into)'
  <2> DEFINE done == IF Backward THEN call.tt + k + 1 .. call.tt + LastOffset ELSE call.tt .. call.tt + k - 1
             next == IF Backward THEN call.tt + k' + 1 .. call.tt + LastOffset ELSE call.tt .. call.tt + k' - 1
  <2>1. MovedSoFar(into) = [x \in Int64 |-> IF x \in done THEN orig[call.f + (x - call.tt)] ELSE into[x]]
    BY DEF MovedSoFar
  <2>2. MovedSoFar(into)' = [x \in Int64 |-> IF x \in next THEN orig[call.f + (x - call.tt)] ELSE into[x]]
    BY <1>4 DEF MovedSoFar, Backward, LastOffset
  <2>3. call.tt + k \in next /\ \A x \in Int64 : x # call.tt + k => (x \in next <=> x \in done)
    <3>1. CASE Backward BY <1>1, <1>2, <1>4, <3>1
    <3>2. CASE ~Backward BY <1>1, <1>2, <1>4, <3>2
    <3> QED BY <3>1, <3>2
  <2>4. call.f + ((call.tt + k) - call.tt) = call.f + k BY <1>1, <1>2
  <2> HIDE DEF done, next
  <2> QED BY <1>3, <2>1, <2>2, <2>3, <2>4
<1>8. Empty \in [Int64 -> Int64 \cup {Absent}] /\ Empty' = Empty BY DEF Empty
<1>9. Is({"move"}) => t' = MovedSoFar(orig)'
  BY <1>1, <1>4, <1>6, <1>7
<1>10. Is({"copy"}) => dest' = MovedSoFar(Empty)' /\ t' = orig'
  BY <1>1, <1>4, <1>6, <1>7, <1>8 DEF Is
<1>11. RangeTypeOK'
  <2>1. orig[call.f + k] \in Int64 \cup {Absent} BY <1>1, <1>3
  <2>2. t' \in [Int64 -> Int64 \cup {Absent, New}] /\ dest' \in [Int64 -> Int64 \cup {Absent}]
    BY <1>1, <1>3, <1>4, <1>6, <2>1 DEF RangeTypeOK
  <2> QED BY <1>1, <1>4, <1>5, <2>2 DEF RangeTypeOK, Is
<1>12. MovePlace'
  BY <1>1, <1>4, <1>5, <1>9, <1>10 DEF MovePlace, Backward, LastOffset, Is
<1>13. MoveRefusalsExact' BY <1>1, <1>4 DEF MoveRefusalsExact, Is
<1> QED BY <1>1, <1>4, <1>11, <1>12, <1>13
  DEF RangeIInv, RangeResults, ChecksExact, NothingDone, InsertPlace, RemovePlace, UnpackPlace, Looping,
      InsertShifts, RemoveShifts, MoveCopies, UnpackReturnsRange, NoOverflow, Is

LEMMA FinishMoveInv == RangeIInv /\ FinishMove => RangeIInv'
<1> SUFFICES ASSUME RangeIInv, FinishMove PROVE RangeIInv' OBVIOUS
<1> USE MachineIntegers
<1>1. /\ status = "loop" /\ call.fn \in {"move", "copy"} /\ RangeTypeOK /\ MoveRefusalsExact
      /\ call.f \in Int64 /\ call.e \in Int64 /\ call.tt \in Int64 /\ orig \in [Int64 -> Int64 \cup {Absent}]
      /\ LastOffset \in 0 .. MaxI - 1
      /\ k \in IF Backward THEN -1 .. LastOffset ELSE 0 .. LastOffset + 1
      /\ Is({"move"}) => t = MovedSoFar(orig)
      /\ Is({"copy"}) => dest = MovedSoFar(Empty) /\ t = orig
  BY CallTypes DEF FinishMove, RangeIInv, RangeResults, RangeTypeOK, ChecksExact, MovePlace, Looping, Is
<1>2. k = IF Backward THEN -1 ELSE LastOffset + 1 BY <1>1 DEF FinishMove, MoveMore, LastOffset
<1>3. status' = "done" /\ UNCHANGED <<call, orig, t, dest, length, pos, k, out>> BY DEF FinishMove, End
<1>4. ASSUME NEW into PROVE MovedSoFar(into) = Moved(into)
  <2>1. (IF Backward THEN call.tt + k + 1 .. call.tt + LastOffset ELSE call.tt .. call.tt + k - 1)
          = call.tt .. call.tt + LastOffset
    <3>1. CASE Backward
      <4>1. call.tt + k + 1 = call.tt BY <1>1, <1>2, <3>1
      <4> QED BY <3>1, <4>1
    <3>2. CASE ~Backward
      <4>1. call.tt + k - 1 = call.tt + LastOffset BY <1>1, <1>2, <3>2
      <4> QED BY <3>2, <4>1
    <3> QED BY <3>1, <3>2
  <2> QED BY <2>1 DEF MovedSoFar, Moved, LastOffset
<1>5. MoveCopies' BY <1>1, <1>3, <1>4 DEF MoveCopies, Moved, Is, Empty
<1>6. RangeTypeOK' BY <1>1, <1>3 DEF RangeTypeOK, Is
<1>7. MoveRefusalsExact' BY <1>1, <1>3 DEF MoveRefusalsExact, Is
<1> QED BY <1>1, <1>3, <1>5, <1>6, <1>7
  DEF RangeIInv, RangeResults, ChecksExact, NothingDone, InsertPlace, RemovePlace, MovePlace, UnpackPlace, Looping,
      InsertShifts, RemoveShifts, UnpackReturnsRange, NoOverflow, Is

LEMMA BeginUnpackInv == RangeIInv /\ BeginUnpack => RangeIInv'
<1> SUFFICES ASSUME RangeIInv, BeginUnpack PROVE RangeIInv' OBVIOUS
<1> USE MachineIntegers
<1>1. /\ status = "start" /\ call.fn = "unpack" /\ t = orig /\ out = <<>> /\ RangeTypeOK
      /\ call.i \in Int64 /\ call.j \in Int64
  BY CallTypes DEF BeginUnpack, RangeIInv, RangeResults, RangeTypeOK, NothingDone, Is
<1>2. CASE call.i > call.j
  <2>1. UNCHANGED <<call, orig, t, dest, length, pos, k, out>> /\ status' = "done" BY <1>2 DEF BeginUnpack, End
  <2>2. RangeTypeOK' BY <1>1, <2>1 DEF RangeTypeOK, Is
  <2>3. UnpackReturnsRange'
    <3>1. [m \in 1 .. 0 |-> orig[call.i + m - 1]] = <<>> OBVIOUS
    <3> QED BY <1>1, <1>2, <2>1, <3>1 DEF UnpackReturnsRange
  <2> QED BY <1>1, <2>1, <2>2, <2>3
    DEF RangeIInv, RangeResults, ChecksExact, NothingDone, InsertPlace, RemovePlace, MovePlace, UnpackPlace, Looping,
        InsertShifts, RemoveShifts, MoveCopies, MoveRefusalsExact, NoOverflow, Is
<1>3. CASE ~(call.i > call.j) /\ TooManyResults
  <2>1. UNCHANGED <<call, orig, t, dest, length, pos, k, out>> /\ status' = "error" BY <1>3 DEF BeginUnpack, End
  <2>2. RangeTypeOK' BY <1>1, <2>1 DEF RangeTypeOK, Is
  <2> QED BY <1>1, <2>1, <2>2
    DEF RangeIInv, RangeResults, ChecksExact, NothingDone, InsertPlace, RemovePlace, MovePlace, UnpackPlace, Looping,
        InsertShifts, RemoveShifts, MoveCopies, UnpackReturnsRange, MoveRefusalsExact, NoOverflow, Is
<1>4. CASE ~(call.i > call.j) /\ ~TooManyResults
  <2>1. k' = Unsigned(call.i) /\ status' = "loop" /\ UNCHANGED <<call, orig, t, dest, length, pos, out>>
    BY <1>4 DEF BeginUnpack
  <2>2. k' \in 0 .. Word - 1 BY <1>1, <2>1, Wrapping
  <2>3. RangeTypeOK' BY <1>1, <2>1, <2>2 DEF RangeTypeOK, Is
  <2>4. ASSUME call.i >= 0
        PROVE  /\ call.i <= call.j /\ call.j - call.i <= MaxUnpack /\ k' = call.i
               /\ out = [m \in 1 .. k' - call.i |-> orig[call.i + m - 1]]
    <3>1. call.j - call.i <= MaxUnpack BY <1>1, <1>4, <2>4 DEF TooManyResults
    <3>2. k' = call.i BY <1>1, <2>1, <2>4, Wrapping
    <3>3. [m \in 1 .. 0 |-> orig[call.i + m - 1]] = <<>> OBVIOUS
    <3>4. k' - call.i = 0 BY <1>1, <3>2
    <3> QED BY <1>1, <1>4, <3>1, <3>2, <3>3, <3>4
  <2>5. UnpackPlace' BY <1>1, <2>1, <2>4 DEF UnpackPlace
  <2> QED BY <1>1, <2>1, <2>3, <2>5
    DEF RangeIInv, RangeResults, ChecksExact, NothingDone, InsertPlace, RemovePlace, MovePlace, Looping,
        InsertShifts, RemoveShifts, MoveCopies, UnpackReturnsRange, MoveRefusalsExact, NoOverflow, Is
<1> QED BY <1>2, <1>3, <1>4

LEMMA UnpackOneInv == RangeIInv /\ UnpackOne => RangeIInv'
<1> SUFFICES ASSUME RangeIInv, UnpackOne PROVE RangeIInv' OBVIOUS
<1> USE MachineIntegers
<1>1. /\ status = "loop" /\ call.fn = "unpack" /\ t = orig /\ RangeTypeOK
      /\ call.i \in Int64 /\ call.j \in Int64 /\ k \in 0 .. Word - 1 /\ k <= Unsigned(call.j)
      /\ call.i >= 0 =>
           /\ call.i <= call.j /\ call.j - call.i <= MaxUnpack /\ k \in call.i .. call.j + 1
           /\ out = [m \in 1 .. k - call.i |-> orig[call.i + m - 1]]
  BY CallTypes DEF UnpackOne, UnpackMore, RangeIInv, RangeResults, RangeTypeOK, UnpackPlace, Looping, Is
<1>2. /\ out' = Append(out, t[Signed(k)]) /\ k' = Unsigned(k + 1)
      /\ UNCHANGED <<call, orig, t, dest, length, pos, status>>
  BY DEF UnpackOne
<1>3. k' \in 0 .. Word - 1 BY <1>1, <1>2, Wrapping
<1>4. ASSUME call.i >= 0
      PROVE  /\ k' \in call.i .. call.j + 1 /\ Len(out') <= MaxUnpack + 1
             /\ out' = [m \in 1 .. k' - call.i |-> orig[call.i + m - 1]]
  <2>1. Unsigned(call.j) = call.j BY <1>1, <1>4, Wrapping
  <2>2. k \in call.i .. call.j /\ k \in 0 .. MaxI BY <1>1, <1>4, <2>1
  <2>3. Signed(k) = k /\ k' = k + 1
    <3>1. Unsigned(k + 1) = k + 1 BY <2>2, Wrapping
    <3> QED BY <1>2, <2>2, <3>1, Wrapping
  <2> DEFINE n == k - call.i
             old == [m \in 1 .. n |-> orig[call.i + m - 1]]
             new == [m \in 1 .. n + 1 |-> orig[call.i + m - 1]]
  <2>4. n \in Nat /\ k' - call.i = n + 1 /\ n <= MaxUnpack /\ call.i + (n + 1) - 1 = k BY <1>1, <1>4, <2>2, <2>3
  <2>5. out = old /\ out' = Append(out, orig[k]) BY <1>1, <1>2, <1>4, <2>3
  <2> HIDE DEF n
  <2>6. Append(old, orig[k]) = new /\ Len(new) = n + 1
    <3>1. Len(old) = n /\ old \in Seq({orig[x] : x \in Int}) BY <1>1, <2>4
    <3>2. Append(old, orig[k]) = [m \in 1 .. n + 1 |-> IF m = n + 1 THEN orig[k] ELSE old[m]]
      BY <2>4, <3>1
    <3> QED BY <1>1, <2>4, <3>2
  <2> QED BY <1>1, <1>4, <2>2, <2>3, <2>4, <2>5, <2>6
<1>5. RangeTypeOK' BY <1>1, <1>2, <1>3, <1>4 DEF RangeTypeOK, Is
<1>6. UnpackPlace' BY <1>1, <1>2, <1>4 DEF UnpackPlace
<1> QED BY <1>1, <1>2, <1>5, <1>6
  DEF RangeIInv, RangeResults, ChecksExact, NothingDone, InsertPlace, RemovePlace, MovePlace, Looping,
      InsertShifts, RemoveShifts, MoveCopies, UnpackReturnsRange, MoveRefusalsExact, NoOverflow, Is

LEMMA FinishUnpackInv == RangeIInv /\ FinishUnpack => RangeIInv'
<1> SUFFICES ASSUME RangeIInv, FinishUnpack PROVE RangeIInv' OBVIOUS
<1> USE MachineIntegers
<1>1. /\ status = "loop" /\ call.fn = "unpack" /\ t = orig /\ RangeTypeOK
      /\ call.i \in Int64 /\ call.j \in Int64 /\ ~(k <= Unsigned(call.j))
      /\ call.i >= 0 =>
           /\ call.i <= call.j /\ k \in call.i .. call.j + 1
           /\ out = [m \in 1 .. k - call.i |-> orig[call.i + m - 1]]
  BY CallTypes DEF FinishUnpack, UnpackMore, RangeIInv, RangeResults, RangeTypeOK, UnpackPlace, Looping, Is
<1>2. status' = "done" /\ UNCHANGED <<call, orig, t, dest, length, pos, k, out>> BY DEF FinishUnpack, End
<1>3. ASSUME call.i >= 0
      PROVE  out = [m \in 1 .. call.j - call.i + 1 |-> orig[call.i + m - 1]] /\ ~(call.i > call.j)
  <2>1. Unsigned(call.j) = call.j BY <1>1, <1>3, Wrapping
  <2>2. k = call.j + 1 BY <1>1, <1>3, <2>1
  <2>3. k - call.i = call.j - call.i + 1 BY <1>1, <2>2
  <2> QED BY <1>1, <1>3, <2>3
<1>4. RangeTypeOK' BY <1>1, <1>2 DEF RangeTypeOK, Is
<1>5. UnpackReturnsRange' BY <1>1, <1>2, <1>3 DEF UnpackReturnsRange
<1> QED BY <1>1, <1>2, <1>4, <1>5
  DEF RangeIInv, RangeResults, ChecksExact, NothingDone, InsertPlace, RemovePlace, MovePlace, UnpackPlace, Looping,
      InsertShifts, RemoveShifts, MoveCopies, MoveRefusalsExact, NoOverflow, Is

LEMMA RangeStep == RangeIInv /\ [RangeNext]_rangeVars => RangeIInv'
<1> SUFFICES ASSUME RangeIInv, [RangeNext]_rangeVars PROVE RangeIInv' OBVIOUS
<1>1. CASE RangeNext
  BY <1>1, BeginInsertInv, ShiftUpInv, FinishInsertInv, BeginRemoveInv, ShiftDownInv, FinishRemoveInv, BeginMoveInv,
     MoveOneInv, FinishMoveInv, BeginUnpackInv, UnpackOneInv, FinishUnpackInv
  DEF RangeNext
<1>2. CASE UNCHANGED rangeVars
  BY <1>2
  DEF rangeVars, RangeIInv, RangeResults, RangeTypeOK, ChecksExact, NothingDone, InsertPlace, RemovePlace, MovePlace,
      UnpackPlace, Looping, InsertShifts, RemoveShifts, MoveCopies, Moved, MovedSoFar, Backward, LastOffset, Empty,
      UnpackReturnsRange, MoveRefusalsExact, NoOverflow, Is
<1> QED BY <1>1, <1>2

(* The inductive invariant of the range functions: what each loop has done, *)
(* over the table as it was, for machine integers of every width.           *)
THEOREM RangeInvariance == RangeSpec => []RangeIInv
BY RangeStart, RangeStep, PTL DEF RangeSpec

(* insert, remove, move and unpack leave and return what they should.       *)
THEOREM RangesRight == RangeSpec => []RangeResults
<1>1. RangeIInv => RangeResults BY DEF RangeIInv
<1> QED BY <1>1, RangeInvariance, PTL

(* The checks in wrapping arithmetic are exact, and nothing else overflows. *)
THEOREM RangeChecksExact == RangeSpec => []ChecksExact
<1>1. RangeIInv => ChecksExact BY DEF RangeIInv
<1> QED BY <1>1, RangeInvariance, PTL
-----------------------------------------------------------------------------
(* Metatables.                                                              *)

(* A step taken again and again. *)
Repeats(w, F, z, step, N) ==
  w \in [0 .. N -> F] /\ w[0] = z /\ \A m \in 1 .. N : w[m] = step[w[m - 1]]

LEMMA Iterates ==
  ASSUME NEW F, NEW z \in F, NEW step \in [F -> F], NEW N \in Nat
  PROVE  \E w : Repeats(w, F, z, step, N)
<1> USE DEF Repeats
<1> DEFINE Good(w, m) == w \in [0 .. m -> F] /\ w[0] = z /\ \A x \in 1 .. m : w[x] = step[w[x - 1]]
           T == {m \in 0 .. N : ~ \E w : Good(w, m)}
           R == {ss \in Nat \X Nat : ss[1] < ss[2]}
<1>1. ASSUME T = {} PROVE \E w : Good(w, N)
  <2>1. N \in 0 .. N OBVIOUS
  <2> HIDE DEF Good
  <2> QED BY <1>1, <2>1
<1>2. ASSUME T # {} PROVE FALSE
  <2>1. IsWellFoundedOn(R, Nat) BY NatLessThanWellFounded DEF OpToRel
  <2>2. T \subseteq Nat OBVIOUS
  <2> HIDE DEF R, T
  <2>3. PICK m \in T : \A y \in T : ~(<<y, m>> \in R) BY <1>2, <2>1, <2>2, WFMin
  <2>4. \A y \in T : ~(y < m) BY <2>2, <2>3 DEF R
  <2>5. m \in 0 .. N /\ ~ \E w : Good(w, m)
    <3> HIDE DEF Good
    <3> QED BY DEF T
  <2>6. CASE m = 0
    <3>1. Good([x \in 0 .. 0 |-> z], 0) OBVIOUS
    <3> HIDE DEF Good
    <3> QED BY <2>5, <2>6, <3>1
  <2>7. CASE m # 0
    <3>1. m - 1 \in 0 .. N /\ m - 1 \notin T BY <2>4, <2>5, <2>7
    <3>2. \E w : Good(w, m - 1)
      <4> HIDE DEF Good
      <4> QED BY <3>1 DEF T
    <3>3. PICK w : Good(w, m - 1) BY <3>2
    <3> DEFINE v == [x \in 0 .. m |-> IF x = m THEN step[w[m - 1]] ELSE w[x]]
    <3>4. w \in [0 .. m - 1 -> F] /\ w[0] = z /\ m - 1 \in 0 .. m - 1 BY <2>5, <2>7, <3>3
    <3>5. v \in [0 .. m -> F] /\ v[0] = z BY <2>5, <2>7, <3>4
    <3>6. ASSUME NEW x \in 1 .. m PROVE v[x] = step[v[x - 1]]
      <4>1. x - 1 \in 0 .. m /\ x - 1 # m /\ v[x - 1] = w[x - 1] BY <2>5
      <4>2. CASE x = m BY <2>5, <4>1, <4>2
      <4>3. CASE x # m
        <5>1. x \in 1 .. m - 1 /\ v[x] = w[x] BY <2>5, <4>3
        <5>2. w[x] = step[w[x - 1]] BY <3>3, <5>1
        <5> QED BY <4>1, <5>1, <5>2
      <4> QED BY <4>2, <4>3
    <3>7. Good(v, m) BY <3>5, <3>6
    <3> HIDE DEF Good, v
    <3> QED BY <2>5, <3>7
  <2> QED BY <2>6, <2>7
<1> QED BY <1>1, <1>2

LEMMA MetaConstants ==
  /\ MaxChain \in Nat /\ MaxChain # 0 /\ IsFiniteSet(Table) /\ StringMeta \in Table
  /\ Nil \notin Values /\ Nil \notin Table /\ Nil \notin Function
  /\ \A x \in Function : x \notin Table
  /\ "k" \in Fields /\ "__index" \in Fields /\ "__newindex" \in Fields
  /\ \A q \in Fields : q \notin BadKeys /\ q # "nil" /\ q # "NaN"
BY MetaAssumption DEF Values, Fields, Events, BadKeys

LEMMA SlotTypes ==
  ASSUME MetaTypeOK, NEW tt \in Table, NEW q \in Fields
  PROVE  /\ Slot(tt, q) = raw[tt][q] /\ Slot(tt, q) \in Values \cup {Nil}
         /\ GetMetamethod(tt, "__index") \in Values \cup {Nil}
         /\ GetMetamethod(tt, "__newindex") \in Values \cup {Nil}
<1> USE MetaConstants
<1>1. raw[tt] \in [Fields -> Values \cup {Nil}] /\ meta[tt] \in Table \cup {Nil} BY DEF MetaTypeOK
<1>2. Slot(tt, q) = raw[tt][q] BY DEF Slot
<1>3. MetatableOf(tt) = meta[tt] BY DEF MetatableOf
<1>4. ASSUME meta[tt] # Nil PROVE raw[meta[tt]] \in [Fields -> Values \cup {Nil}] BY <1>1, <1>4 DEF MetaTypeOK
<1>5. \A ev \in {"__index", "__newindex"} : GetMetamethod(tt, ev) \in Values \cup {Nil}
  BY <1>1, <1>3, <1>4 DEF GetMetamethod
<1> QED BY <1>1, <1>2, <1>5

LEMMA OutcomesApart ==
  /\ Error("attempt to call") # Error("chain too long")
  /\ \A x : Found(x) # Error("chain too long") /\ Stores(x) # Error("chain too long")
  /\ \A x, y : CallOf(x, y) # Error("chain too long") /\ CallOf(x, y).how # "store"
  /\ \A x : Error(x).how # "store" /\ Stores(x).how = "store" /\ Stores(x).value = x
  /\ Nothing.how # "store"
BY DEF Error, Found, Stores, CallOf, Nothing

-----------------------------------------------------------------------------
(* Walks along any edges of which each table has at most one.               *)
Functional(edge) ==
  edge \in [Table -> SUBSET Table] /\ \A x \in Table : edge[x] = {} \/ \E y \in Table : edge[x] = {y}

LEMMA ReachedFacts ==
  ASSUME NEW edge, Functional(edge), NEW x \in Table
  PROVE  /\ x \in Reached(x, edge) /\ Reached(x, edge) \subseteq Table
         /\ edge[x] = {} => Reached(x, edge) = {x}
         /\ \A y \in edge[x] : y \in Table /\ Reached(x, edge) = {x} \cup Reached(y, edge)
<1> USE DEF Functional
<1>1. x \in Reached(x, edge) /\ Reached(x, edge) \subseteq Table BY DEF Reached
<1>2. ASSUME edge[x] = {} PROVE Reached(x, edge) = {x}
  <2>1. {x} \in SUBSET Table /\ x \in {x} /\ Closed({x}, edge) BY <1>2 DEF Closed
  <2> QED BY <1>1, <2>1 DEF Reached
<1>3. ASSUME NEW y \in edge[x] PROVE y \in Table /\ Reached(x, edge) = {x} \cup Reached(y, edge)
  <2>1. y \in Table /\ edge[x] = {y} OBVIOUS
  <2>2. ASSUME NEW z \in Reached(y, edge) PROVE z \in Reached(x, edge)
    <3>1. ASSUME NEW S \in SUBSET Table, x \in S, Closed(S, edge) PROVE z \in S
      <4>1. y \in S BY <3>1 DEF Closed
      <4> QED BY <2>2, <3>1, <4>1 DEF Reached
    <3>2. z \in Table BY <2>2 DEF Reached
    <3> QED BY <3>1, <3>2 DEF Reached
  <2>3. ASSUME NEW z \in Reached(x, edge) PROVE z \in {x} \cup Reached(y, edge)
    <3> DEFINE S == {x} \cup Reached(y, edge)
    <3>1. S \in SUBSET Table /\ x \in S BY DEF Reached
    <3>2. Closed(S, edge)
      <4> SUFFICES ASSUME NEW u \in S, NEW v \in edge[u] PROVE v \in S BY DEF Closed
      <4>1. y \in Reached(y, edge) BY <2>1 DEF Reached
      <4>2. CASE u = x BY <2>1, <4>1, <4>2
      <4>3. CASE u \in Reached(y, edge)
        <5>1. u \in Table /\ v \in Table BY <4>3 DEF Reached
        <5>2. \A D \in SUBSET Table : y \in D /\ Closed(D, edge) => v \in D BY <4>3, <5>1 DEF Reached, Closed
        <5> QED BY <5>1, <5>2 DEF Reached
      <4> QED BY <4>2, <4>3
    <3> HIDE DEF S
    <3>3. z \in S BY <2>3, <3>1, <3>2 DEF Reached
    <3> QED BY <3>3 DEF S
  <2> QED BY <1>1, <2>1, <2>2, <2>3
<1> QED BY <1>1, <1>2, <1>3

(* What is true of a table and passed on along the edges is true of all     *)
(* that it reaches.                                                         *)
LEMMA ReachedWithin ==
  ASSUME NEW edge, Functional(edge), NEW x \in Table, NEW B \in SUBSET Table, x \in B,
         \A u \in B : \A v \in edge[u] : v \in B
  PROVE  Reached(x, edge) \subseteq B
BY DEF Reached, Closed

(* A way that ends has one end, which is reached from everywhere on it, and *)
(* no circle.                                                               *)
LEMMA EndReached ==
  ASSUME NEW edge, Functional(edge), NEW x \in Table, NEW s \in Reached(x, edge), edge[s] = {}
  PROVE  /\ \A u \in Reached(x, edge) : s \in Reached(u, edge)
         /\ \A e \in Reached(x, edge) : edge[e] = {} => e = s
         /\ \A y \in edge[x] : x \notin Reached(y, edge) /\ s \in Reached(y, edge)
<1>0. s \in Table BY ReachedFacts
<1> DEFINE A == {u \in Table : s \in Reached(u, edge)}
<1>1. x \in A /\ A \in SUBSET Table OBVIOUS
<1>2. ASSUME NEW u \in A, NEW v \in edge[u] PROVE v \in A
  <2>1. v \in Table /\ Reached(u, edge) = {u} \cup Reached(v, edge) BY ReachedFacts
  <2>2. s # u BY <1>2
  <2> QED BY <2>1, <2>2
<1>3. Reached(x, edge) \subseteq A
  <2> HIDE DEF A
  <2> QED BY <1>1, <1>2, ReachedWithin
<1>4. ASSUME NEW e \in Reached(x, edge), edge[e] = {} PROVE e = s
  <2>1. s \in Reached(e, edge) /\ e \in Table BY <1>3
  <2>2. Reached(e, edge) = {e} BY <1>4, <2>1, ReachedFacts
  <2> QED BY <2>1, <2>2
<1>5. ASSUME NEW y \in edge[x] PROVE s \in Reached(y, edge) /\ x \notin Reached(y, edge)
  <2>1. y \in Table /\ Reached(x, edge) = {x} \cup Reached(y, edge) BY ReachedFacts
  <2>2. s \in Reached(y, edge)
    <3>1. s # x BY <1>5
    <3> QED BY <2>1, <3>1
  <2>3. ASSUME x \in Reached(y, edge) PROVE FALSE
    <3> DEFINE B == {u \in Table : x \in Reached(u, edge)}
    <3>1. x \in B /\ B \in SUBSET Table BY ReachedFacts
    <3>2. ASSUME NEW u \in B, NEW v \in edge[u] PROVE v \in B
      <4>1. v \in Table /\ Reached(u, edge) = {u} \cup Reached(v, edge) BY ReachedFacts
      <4>2. CASE u = x
        <5>1. v = y BY <4>2, <1>5, <3>2 DEF Functional
        <5> QED BY <2>3, <4>1, <5>1
      <4>3. CASE u # x BY <4>1, <4>3
      <4> QED BY <4>2, <4>3
    <3>3. Reached(x, edge) \subseteq B
      <4> HIDE DEF B
      <4> QED BY <3>1, <3>2, ReachedWithin
    <3>4. x \in Reached(s, edge) BY <3>3
    <3>5. Reached(s, edge) = {s} BY <1>0, ReachedFacts
    <3> QED BY <1>5, <3>4, <3>5
  <2> QED BY <2>2, <2>3
<1> QED BY <1>3, <1>4, <1>5

-----------------------------------------------------------------------------
(* The walks.                                                               *)
TooLong == Error("chain too long")

IsWalk(w, edge, outcome, N) ==
  \A x \in Table :
    /\ w[0][x] = TooLong
    /\ \A n \in 1 .. N : edge[x] = {} => w[n][x] = outcome[x]
    /\ \A n \in 1 .. N : \A y \in edge[x] : w[n][x] = w[n - 1][y]

LEMMA WalkExists ==
  ASSUME NEW edge, Functional(edge), NEW O, NEW outcome \in [Table -> O], TooLong \in O, NEW N \in Nat
  PROVE  \E w \in [0 .. N -> [Table -> O]] : IsWalk(w, edge, outcome, N)
<1> DEFINE F == [Table -> O]
           z == [x \in Table |-> TooLong]
           step == [f \in F |-> [x \in Table |-> IF edge[x] = {} THEN outcome[x]
                                                 ELSE f[CHOOSE y : y \in edge[x]]]]
<1>1. z \in F OBVIOUS
<1>2. ASSUME NEW x \in Table, edge[x] # {} PROVE (CHOOSE y : y \in edge[x]) \in Table
  <2>1. PICK y \in Table : edge[x] = {y} BY <1>2 DEF Functional
  <2> QED BY <2>1
<1>3. step \in [F -> F]
  <2> SUFFICES ASSUME NEW f \in F, NEW x \in Table
               PROVE  (IF edge[x] = {} THEN outcome[x] ELSE f[CHOOSE y : y \in edge[x]]) \in O
    OBVIOUS
  <2> QED BY <1>2
<1>9. PICK w : Repeats(w, F, z, step, N)
  <2> HIDE DEF F, z, step
  <2> QED BY <1>1, <1>3, Iterates
<1>4. w \in [0 .. N -> F] /\ w[0] = z /\ \A m \in 1 .. N : w[m] = step[w[m - 1]]
  BY <1>9 DEF Repeats
<1>5. ASSUME NEW n \in 1 .. N, NEW x \in Table
      PROVE  w[n][x] = IF edge[x] = {} THEN outcome[x] ELSE w[n - 1][CHOOSE y : y \in edge[x]]
  <2>1. n - 1 \in 0 .. N OBVIOUS
  <2>2. w[n - 1] \in F BY <1>4, <2>1
  <2>3. w[n] = step[w[n - 1]] BY <1>4
  <2> QED BY <2>2, <2>3
<1>6. ASSUME NEW x \in Table PROVE w[0][x] = TooLong BY <1>4
<1>7. ASSUME NEW n \in 1 .. N, NEW x \in Table, NEW y \in edge[x] PROVE w[n][x] = w[n - 1][y]
  <2>1. edge[x] = {y} BY <1>7 DEF Functional
  <2>2. (CHOOSE v : v \in edge[x]) = y BY <2>1
  <2> QED BY <1>5, <2>1, <2>2
<1>8. IsWalk(w, edge, outcome, N)
  <2> HIDE DEF F, z, step
  <2> QED BY <1>5, <1>6, <1>7 DEF IsWalk
<1> QED BY <1>4, <1>8

(* A walk returns what the end of its way has, unless it is too long: more  *)
(* tables than steps.                                                       *)
WalkRight(w, edge, outcome, n) ==
  \A x \in Table :
    /\ w[n][x] = TooLong \/ \E s \in Reached(x, edge) : edge[s] = {} /\ w[n][x] = outcome[s]
    /\ \A s \in Reached(x, edge) :
         edge[s] = {} /\ Cardinality(Reached(x, edge)) <= n => w[n][x] = outcome[s]

LEMMA WalkEnds ==
  ASSUME NEW edge, Functional(edge), NEW N \in Nat, NEW w, NEW outcome, IsWalk(w, edge, outcome, N)
  PROVE  \A n \in 0 .. N : WalkRight(w, edge, outcome, n)
<1> DEFINE T == {m \in 0 .. N : ~ WalkRight(w, edge, outcome, m)}
           R == {ss \in Nat \X Nat : ss[1] < ss[2]}
<1> SUFFICES ASSUME T # {} PROVE FALSE OBVIOUS
<1>1. IsWellFoundedOn(R, Nat) BY NatLessThanWellFounded DEF OpToRel
<1>2. T \subseteq Nat OBVIOUS
<1> HIDE DEF R, T
<1>3. PICK m \in T : \A y \in T : ~(<<y, m>> \in R) BY <1>1, <1>2, WFMin
<1>4. \A y \in T : ~(y < m) BY <1>2, <1>3 DEF R
<1>5. m \in 0 .. N /\ ~ WalkRight(w, edge, outcome, m) BY DEF T
<1>6. ASSUME NEW x \in Table PROVE IsFiniteSet(Reached(x, edge)) /\ Cardinality(Reached(x, edge)) \in Nat
  BY MetaConstants, ReachedFacts, FS_Subset, FS_CardinalityType
<1>7. CASE m = 0
  <2> SUFFICES ASSUME NEW x \in Table, NEW s \in Reached(x, edge),
                      Cardinality(Reached(x, edge)) <= 0
               PROVE  FALSE
    BY <1>5, <1>7 DEF WalkRight, IsWalk
  <2> QED BY <1>6, FS_EmptySet
<1>8. CASE m # 0
  <2>1. m \in 1 .. N /\ m - 1 \in 0 .. N /\ m - 1 \notin T BY <1>4, <1>5, <1>8
  <2>2. WalkRight(w, edge, outcome, m - 1) BY <2>1 DEF T
  <2>3. ASSUME NEW x \in Table, edge[x] = {}
        PROVE  \A s \in Reached(x, edge) : s = x /\ w[m][x] = outcome[s]
    BY <2>1, <2>3, ReachedFacts DEF IsWalk
  <2>4. ASSUME NEW x \in Table, NEW y \in edge[x]
        PROVE  w[m][x] = w[m - 1][y] /\ y \in Table /\ Reached(x, edge) = {x} \cup Reached(y, edge)
    BY <2>1, ReachedFacts DEF IsWalk
  <2>5. ASSUME NEW x \in Table
        PROVE  w[m][x] = TooLong \/ \E s \in Reached(x, edge) : edge[s] = {} /\ w[m][x] = outcome[s]
    <3>1. CASE edge[x] = {} BY <2>3, <3>1, ReachedFacts
    <3>2. CASE edge[x] # {}
      <4>1. PICK y : y \in edge[x] BY <3>2
      <4>2. y \in Table /\ w[m][x] = w[m - 1][y] /\ Reached(y, edge) \subseteq Reached(x, edge) BY <2>4, <4>1
      <4> QED BY <2>2, <4>2 DEF WalkRight
    <3> QED BY <3>1, <3>2
  <2>6. ASSUME NEW x \in Table, NEW s \in Reached(x, edge), edge[s] = {},
               Cardinality(Reached(x, edge)) <= m
        PROVE  w[m][x] = outcome[s]
    <3>1. CASE edge[x] = {} BY <2>3, <3>1
    <3>2. CASE edge[x] # {}
      <4>1. PICK y : y \in edge[x] BY <3>2
      <4>2. y \in Table /\ w[m][x] = w[m - 1][y] /\ Reached(x, edge) = {x} \cup Reached(y, edge) BY <2>4, <4>1
      <4>3. x \notin Reached(y, edge) /\ s \in Reached(y, edge) BY <2>6, <4>1, EndReached
      <4>4. Cardinality(Reached(x, edge)) = Cardinality(Reached(y, edge)) + 1
        <5>1. IsFiniteSet(Reached(y, edge)) /\ Reached(x, edge) = Reached(y, edge) \cup {x} BY <1>6, <4>2
        <5> QED BY <4>3, <5>1, FS_AddElement
      <4>5. Cardinality(Reached(y, edge)) <= m - 1 BY <1>5, <1>6, <2>6, <4>2, <4>4
      <4> QED BY <2>2, <2>6, <4>2, <4>3, <4>5 DEF WalkRight
    <3> QED BY <3>1, <3>2
  <2>7. WalkRight(w, edge, outcome, m) BY <2>5, <2>6 DEF WalkRight
  <2> QED BY <1>5, <2>7
<1> QED BY <1>7, <1>8

-----------------------------------------------------------------------------
(* What the walks of the evaluator find at their end.                       *)
ReadOutcome(key) ==
  [x \in Table |->
     IF Slot(x, key) # Nil THEN Found(Slot(x, key))
     ELSE IF GetMetamethod(x, "__index") = Nil THEN Found(Nil)
     ELSE CallOrError(GetMetamethod(x, "__index"), x)]

WriteOutcome(key) ==
  [x \in Table |->
     IF Slot(x, key) # Nil \/ GetMetamethod(x, "__newindex") = Nil THEN Stores(x)
     ELSE CallOrError(GetMetamethod(x, "__newindex"), x)]

LEMMA EdgesFunctional ==
  ASSUME NEW event, NEW key
  PROVE  Functional(Edge(event, key))
BY DEF Functional, Edge

LEMMA ReadWalk ==
  ASSUME MetaTypeOK, NEW key \in Fields
  PROVE  \E w : /\ IsWalk(w, Edge("__index", key), ReadOutcome(key), MaxChain)
                /\ \A x \in Table : WalkIndex(x, key) = w[MaxChain][x]
<1> DEFINE edge == Edge("__index", key)
           outcome == ReadOutcome(key)
           O == {outcome[x] : x \in Table} \cup {TooLong}
           Body(w) == [left \in 0 .. MaxChain |->
                        [x \in Table |->
                           IF left = 0 THEN Error("chain too long")
                           ELSE IF Slot(x, key) # Nil THEN Found(Slot(x, key))
                           ELSE IF GetMetamethod(x, "__index") = Nil THEN Found(Nil)
                           ELSE IF GetMetamethod(x, "__index") \in Table
                                  THEN w[left - 1][GetMetamethod(x, "__index")]
                           ELSE CallOrError(GetMetamethod(x, "__index"), x)]]
           walk == CHOOSE w : w = Body(w)
<1> USE MetaConstants
<1>1. Functional(edge) BY EdgesFunctional
<1>2. outcome \in [Table -> O] /\ TooLong \in O BY DEF ReadOutcome
<1>3. ASSUME NEW x \in Table
      PROVE  /\ edge[x] = {} => outcome[x] = IF Slot(x, key) # Nil THEN Found(Slot(x, key))
                                             ELSE IF GetMetamethod(x, "__index") = Nil THEN Found(Nil)
                                             ELSE CallOrError(GetMetamethod(x, "__index"), x)
             /\ edge[x] = {} <=> Slot(x, key) # Nil \/ GetMetamethod(x, "__index") \notin Table
             /\ edge[x] # {} => edge[x] = {GetMetamethod(x, "__index")}
  BY DEF Edge, ReadOutcome
<1>4. \E w : w = Body(w)
  <2>1. PICK w \in [0 .. MaxChain -> [Table -> O]] : IsWalk(w, edge, outcome, MaxChain)
    <3> HIDE DEF edge, outcome, O
    <3> QED BY <1>1, <1>2, WalkExists
  <2>2. ASSUME NEW left \in 0 .. MaxChain, NEW x \in Table
        PROVE  w[left][x] = Body(w)[left][x]
    <3>1. CASE left = 0 BY <2>1, <3>1 DEF IsWalk, TooLong
    <3>2. CASE left # 0 /\ edge[x] = {}
      <4>1. left \in 1 .. MaxChain BY <3>2
      <4>2. w[left][x] = outcome[x]
        <5> HIDE DEF edge, outcome
        <5> QED BY <2>1, <3>2, <4>1 DEF IsWalk
      <4> HIDE DEF edge, outcome
      <4> QED BY <1>3, <3>2, <4>2
    <3>3. CASE left # 0 /\ edge[x] # {}
      <4>1. left \in 1 .. MaxChain BY <3>3
      <4>2. Slot(x, key) = Nil /\ GetMetamethod(x, "__index") \in Table
            /\ GetMetamethod(x, "__index") \in edge[x]
        <5> HIDE DEF edge, outcome
        <5> QED BY <1>3, <3>3
      <4>3. w[left][x] = w[left - 1][GetMetamethod(x, "__index")]
        <5> HIDE DEF edge, outcome
        <5> QED BY <2>1, <4>1, <4>2 DEF IsWalk
      <4> HIDE DEF edge, outcome
      <4> QED BY <3>3, <4>2, <4>3
    <3> QED BY <3>1, <3>2, <3>3
  <2>3. ASSUME NEW left \in 0 .. MaxChain PROVE w[left] = Body(w)[left]
    <3>1. w[left] \in [Table -> O] BY <2>1
    <3> QED BY <2>2, <3>1
  <2>4. w = Body(w)
    <3> HIDE DEF O, edge, outcome
    <3> QED BY <2>1, <2>3
  <2> QED BY <2>4
<1>5. walk = Body(walk)
  <2> HIDE DEF Body
  <2> QED BY <1>4
<1>6. \A x \in Table : WalkIndex(x, key) = walk[MaxChain][x] BY DEF WalkIndex
<1> HIDE DEF walk
<1>7. ASSUME NEW n \in 0 .. MaxChain, NEW x \in Table
      PROVE  walk[n][x] = IF n = 0 THEN TooLong
                          ELSE IF Slot(x, key) # Nil THEN Found(Slot(x, key))
                          ELSE IF GetMetamethod(x, "__index") = Nil THEN Found(Nil)
                          ELSE IF GetMetamethod(x, "__index") \in Table
                                 THEN walk[n - 1][GetMetamethod(x, "__index")]
                          ELSE CallOrError(GetMetamethod(x, "__index"), x)
  <2>1. walk[n] = Body(walk)[n] BY <1>5
  <2> QED BY <2>1 DEF TooLong
<1>8. IsWalk(walk, edge, outcome, MaxChain)
  <2> HIDE DEF edge, outcome, Body
  <2> SUFFICES ASSUME NEW x \in Table
               PROVE  /\ walk[0][x] = TooLong
                      /\ \A n \in 1 .. MaxChain : edge[x] = {} => walk[n][x] = outcome[x]
                      /\ \A n \in 1 .. MaxChain : \A y \in edge[x] : walk[n][x] = walk[n - 1][y]
    BY DEF IsWalk
  <2>1. walk[0][x] = TooLong BY <1>7
  <2>2. ASSUME NEW n \in 1 .. MaxChain, edge[x] = {} PROVE walk[n][x] = outcome[x]
    <3>1. n \in 0 .. MaxChain /\ n # 0 OBVIOUS
    <3> QED BY <1>3, <1>7, <2>2, <3>1
  <2>3. ASSUME NEW n \in 1 .. MaxChain, NEW y \in edge[x] PROVE walk[n][x] = walk[n - 1][y]
    <3>1. n \in 0 .. MaxChain /\ n # 0 OBVIOUS
    <3>2. y = GetMetamethod(x, "__index") /\ y \in Table /\ Slot(x, key) = Nil BY <1>3, <2>3
    <3> QED BY <1>7, <3>1, <3>2
  <2> QED BY <2>1, <2>2, <2>3
<1> QED BY <1>6, <1>8

LEMMA WriteWalk ==
  ASSUME MetaTypeOK, NEW key \in Fields
  PROVE  \E w : /\ IsWalk(w, Edge("__newindex", key), WriteOutcome(key), MaxChain)
                /\ \A x \in Table : GoesTo(x, key) = w[MaxChain][x]
<1> DEFINE edge == Edge("__newindex", key)
           outcome == WriteOutcome(key)
           O == {outcome[x] : x \in Table} \cup {TooLong}
           Body(w) == [left \in 0 .. MaxChain |->
                        [x \in Table |->
                           IF left = 0 THEN Error("chain too long")
                           ELSE IF Slot(x, key) # Nil \/ GetMetamethod(x, "__newindex") = Nil THEN Stores(x)
                           ELSE IF GetMetamethod(x, "__newindex") \in Table
                                  THEN w[left - 1][GetMetamethod(x, "__newindex")]
                           ELSE CallOrError(GetMetamethod(x, "__newindex"), x)]]
           walk == CHOOSE w : w = Body(w)
<1> USE MetaConstants
<1>1. Functional(edge) BY EdgesFunctional
<1>2. outcome \in [Table -> O] /\ TooLong \in O BY DEF WriteOutcome
<1>3. ASSUME NEW x \in Table
      PROVE  /\ edge[x] = {} => outcome[x] = IF Slot(x, key) # Nil \/ GetMetamethod(x, "__newindex") = Nil
                                               THEN Stores(x)
                                             ELSE CallOrError(GetMetamethod(x, "__newindex"), x)
             /\ edge[x] = {} <=> Slot(x, key) # Nil \/ GetMetamethod(x, "__newindex") \notin Table
             /\ edge[x] # {} => edge[x] = {GetMetamethod(x, "__newindex")}
  BY DEF Edge, WriteOutcome
<1>4. \E w : w = Body(w)
  <2>1. PICK w \in [0 .. MaxChain -> [Table -> O]] : IsWalk(w, edge, outcome, MaxChain)
    <3> HIDE DEF edge, outcome, O
    <3> QED BY <1>1, <1>2, WalkExists
  <2>2. ASSUME NEW left \in 0 .. MaxChain, NEW x \in Table
        PROVE  w[left][x] = Body(w)[left][x]
    <3>1. CASE left = 0 BY <2>1, <3>1 DEF IsWalk, TooLong
    <3>2. CASE left # 0 /\ edge[x] = {}
      <4>1. left \in 1 .. MaxChain BY <3>2
      <4>2. w[left][x] = outcome[x]
        <5> HIDE DEF edge, outcome
        <5> QED BY <2>1, <3>2, <4>1 DEF IsWalk
      <4> HIDE DEF edge, outcome
      <4> QED BY <1>3, <3>2, <4>2
    <3>3. CASE left # 0 /\ edge[x] # {}
      <4>1. left \in 1 .. MaxChain BY <3>3
      <4>2. Slot(x, key) = Nil /\ GetMetamethod(x, "__newindex") \in Table
            /\ GetMetamethod(x, "__newindex") \in edge[x]
        <5> HIDE DEF edge, outcome
        <5> QED BY <1>3, <3>3
      <4>3. w[left][x] = w[left - 1][GetMetamethod(x, "__newindex")]
        <5> HIDE DEF edge, outcome
        <5> QED BY <2>1, <4>1, <4>2 DEF IsWalk
      <4> HIDE DEF edge, outcome
      <4> QED BY <3>3, <4>2, <4>3
    <3> QED BY <3>1, <3>2, <3>3
  <2>3. ASSUME NEW left \in 0 .. MaxChain PROVE w[left] = Body(w)[left]
    <3>1. w[left] \in [Table -> O] BY <2>1
    <3> QED BY <2>2, <3>1
  <2>4. w = Body(w)
    <3> HIDE DEF O, edge, outcome
    <3> QED BY <2>1, <2>3
  <2> QED BY <2>4
<1>5. walk = Body(walk)
  <2> HIDE DEF Body
  <2> QED BY <1>4
<1>6. \A x \in Table : GoesTo(x, key) = walk[MaxChain][x] BY DEF GoesTo
<1> HIDE DEF walk
<1>7. ASSUME NEW n \in 0 .. MaxChain, NEW x \in Table
      PROVE  walk[n][x] = IF n = 0 THEN TooLong
                          ELSE IF Slot(x, key) # Nil \/ GetMetamethod(x, "__newindex") = Nil THEN Stores(x)
                          ELSE IF GetMetamethod(x, "__newindex") \in Table
                                 THEN walk[n - 1][GetMetamethod(x, "__newindex")]
                          ELSE CallOrError(GetMetamethod(x, "__newindex"), x)
  <2>1. walk[n] = Body(walk)[n] BY <1>5
  <2> QED BY <2>1 DEF TooLong
<1>8. IsWalk(walk, edge, outcome, MaxChain)
  <2> HIDE DEF edge, outcome, Body
  <2> SUFFICES ASSUME NEW x \in Table
               PROVE  /\ walk[0][x] = TooLong
                      /\ \A n \in 1 .. MaxChain : edge[x] = {} => walk[n][x] = outcome[x]
                      /\ \A n \in 1 .. MaxChain : \A y \in edge[x] : walk[n][x] = walk[n - 1][y]
    BY DEF IsWalk
  <2>1. walk[0][x] = TooLong BY <1>7
  <2>2. ASSUME NEW n \in 1 .. MaxChain, edge[x] = {} PROVE walk[n][x] = outcome[x]
    <3>1. n \in 0 .. MaxChain /\ n # 0 OBVIOUS
    <3> QED BY <1>3, <1>7, <2>2, <3>1
  <2>3. ASSUME NEW n \in 1 .. MaxChain, NEW y \in edge[x] PROVE walk[n][x] = walk[n - 1][y]
    <3>1. n \in 0 .. MaxChain /\ n # 0 OBVIOUS
    <3>2. y = GetMetamethod(x, "__newindex") /\ y \in Table /\ Slot(x, key) = Nil BY <1>3, <2>3
    <3> QED BY <1>7, <3>1, <3>2
  <2> QED BY <2>1, <2>2, <2>3
<1> QED BY <1>6, <1>8

-----------------------------------------------------------------------------
(* Reads.                                                                   *)
LEMMA OutcomeOfRead ==
  ASSUME MetaTypeOK, NEW key \in Fields, NEW s \in Table
  PROVE  /\ ReadOutcome(key)[s] # TooLong
         /\ Slot(s, key) # Nil => ReadOutcome(key)[s] = Found(Slot(s, key))
         /\ Slot(s, key) = Nil /\ GetMetamethod(s, "__index") = Nil
              => ReadOutcome(key)[s] = Found(Slot(s, key))
         /\ Slot(s, key) = Nil /\ GetMetamethod(s, "__index") \in Function
              => ReadOutcome(key)[s] = CallOf(GetMetamethod(s, "__index"), s)
<1> USE MetaConstants
<1>1. ReadOutcome(key)[s] = IF Slot(s, key) # Nil THEN Found(Slot(s, key))
                            ELSE IF GetMetamethod(s, "__index") = Nil THEN Found(Nil)
                            ELSE CallOrError(GetMetamethod(s, "__index"), s)
  BY DEF ReadOutcome
<1>2. CASE Slot(s, key) # Nil BY <1>1, <1>2, OutcomesApart DEF TooLong
<1>3. CASE Slot(s, key) = Nil /\ GetMetamethod(s, "__index") = Nil
  BY <1>1, <1>3, OutcomesApart DEF TooLong
<1>4. CASE Slot(s, key) = Nil /\ GetMetamethod(s, "__index") # Nil
  BY <1>1, <1>4, OutcomesApart DEF TooLong, CallOrError
<1> QED BY <1>2, <1>3, <1>4

LEMMA ReadsRight ==
  ASSUME MetaTypeOK
  PROVE  ReadFindsKey
<1> SUFFICES ASSUME NEW x \in Table, NEW key \in Fields
             PROVE  LET edge == Edge("__index", key)
                        way == Reached(x, edge)
                        ends == {s \in way : edge[s] = {}}
                        r == IndexGet(x, key)
                        tooLong == r = Error("chain too long")
                    IN  /\ ends = {} => tooLong
                        /\ tooLong => ends = {} \/ Cardinality(way) > MaxChain
                        /\ \A s \in ends : Slot(s, key) # Nil => tooLong \/ r = Found(Slot(s, key))
                        /\ \A s \in ends : Slot(s, key) = Nil /\ GetMetamethod(s, "__index") \in Function =>
                             tooLong \/ r = CallOf(GetMetamethod(s, "__index"), s)
  BY DEF ReadFindsKey
<1> DEFINE edge == Edge("__index", key)
           way == Reached(x, edge)
           outcome == ReadOutcome(key)
           r == IndexGet(x, key)
<1>1. PICK w : IsWalk(w, edge, outcome, MaxChain) /\ \A y \in Table : WalkIndex(y, key) = w[MaxChain][y]
  BY ReadWalk
<1>2. r = w[MaxChain][x] BY <1>1 DEF IndexGet
<1>3. Functional(edge) BY EdgesFunctional
<1>4. \A s \in Table : /\ outcome[s] # TooLong
                       /\ Slot(s, key) # Nil => outcome[s] = Found(Slot(s, key))
                       /\ Slot(s, key) = Nil /\ GetMetamethod(s, "__index") \in Function
                            => outcome[s] = CallOf(GetMetamethod(s, "__index"), s)
  BY OutcomeOfRead
<1> HIDE DEF edge, outcome, r
<1>5. WalkRight(w, edge, outcome, MaxChain)
  <2>1. MaxChain \in Nat /\ MaxChain \in 0 .. MaxChain BY MetaConstants
  <2> QED BY <1>1, <1>3, <2>1, WalkEnds
<1>6. /\ r = TooLong \/ \E s \in way : edge[s] = {} /\ r = outcome[s]
      /\ \A s \in way : edge[s] = {} /\ Cardinality(way) <= MaxChain => r = outcome[s]
  BY <1>2, <1>5 DEF WalkRight
<1>7. way \subseteq Table /\ MaxChain \in Nat /\ Cardinality(way) \in Nat
  BY <1>3, MetaConstants, ReachedFacts, FS_Subset, FS_CardinalityType
<1>8. \A s, e \in way : edge[s] = {} /\ edge[e] = {} => e = s BY <1>3, EndReached
<1> HIDE DEF way
<1>9. ASSUME \A s \in way : edge[s] # {} PROVE r = TooLong BY <1>6, <1>9
<1>10. ASSUME r = TooLong, NEW s \in way, edge[s] = {} PROVE Cardinality(way) > MaxChain
  BY <1>4, <1>6, <1>7, <1>10
<1>11. ASSUME NEW s \in way, edge[s] = {} PROVE r = TooLong \/ r = outcome[s]
  BY <1>6, <1>8, <1>11
<1>12. ASSUME NEW s \in way, edge[s] = {}, Slot(s, key) # Nil PROVE r = TooLong \/ r = Found(Slot(s, key))
  BY <1>4, <1>7, <1>11, <1>12
<1>13. ASSUME NEW s \in way, edge[s] = {}, Slot(s, key) = Nil, GetMetamethod(s, "__index") \in Function
       PROVE  r = TooLong \/ r = CallOf(GetMetamethod(s, "__index"), s)
  BY <1>4, <1>7, <1>11, <1>13
<1> QED BY <1>9, <1>10, <1>12, <1>13 DEF edge, way, r, TooLong

-----------------------------------------------------------------------------
(* Writes, and reads of what was written.                                   *)
LEMMA OutcomeOfWrite ==
  ASSUME MetaTypeOK, NEW key \in Fields, NEW s \in Table
  PROVE  IF Slot(s, key) # Nil \/ GetMetamethod(s, "__newindex") = Nil
           THEN WriteOutcome(key)[s] = Stores(s)
           ELSE WriteOutcome(key)[s].how # "store"
<1>1. WriteOutcome(key)[s] = IF Slot(s, key) # Nil \/ GetMetamethod(s, "__newindex") = Nil THEN Stores(s)
                             ELSE CallOrError(GetMetamethod(s, "__newindex"), s)
  BY DEF WriteOutcome
<1>2. \A f, v : CallOrError(f, v).how # "store" BY OutcomesApart DEF CallOrError
<1> QED BY <1>1, <1>2

LEMMA WhereStored ==
  ASSUME MetaTypeOK, NEW start \in Table, NEW key \in Fields \cup BadKeys, GoesTo(start, key).how = "store"
  PROVE  /\ key \in Fields
         /\ \E s \in Table : /\ GoesTo(start, key) = Stores(s)
                             /\ Slot(s, key) # Nil \/ GetMetamethod(s, "__newindex") = Nil
<1>1. key \in Fields
  <2>1. CASE key = "nil" BY <2>1, OutcomesApart DEF GoesTo
  <2>2. CASE key = "NaN" BY <2>2, OutcomesApart DEF GoesTo
  <2> QED BY <2>1, <2>2 DEF BadKeys
<1> DEFINE edge == Edge("__newindex", key)
           outcome == WriteOutcome(key)
<1>2. PICK w : IsWalk(w, edge, outcome, MaxChain) /\ \A y \in Table : GoesTo(y, key) = w[MaxChain][y]
  BY <1>1, WriteWalk
<1>3. Functional(edge) BY EdgesFunctional
<1> HIDE DEF edge, outcome
<1>4. WalkRight(w, edge, outcome, MaxChain)
  <2>1. MaxChain \in Nat /\ MaxChain \in 0 .. MaxChain BY MetaConstants
  <2> QED BY <1>2, <1>3, <2>1, WalkEnds
<1>5. w[MaxChain][start] # TooLong BY <1>2, OutcomesApart DEF TooLong
<1>6. PICK s \in Reached(start, edge) : w[MaxChain][start] = outcome[s] BY <1>4, <1>5 DEF WalkRight
<1>7. s \in Table BY <1>3, ReachedFacts
<1>8. IF Slot(s, key) # Nil \/ GetMetamethod(s, "__newindex") = Nil
        THEN outcome[s] = Stores(s) ELSE outcome[s].how # "store"
  BY <1>1, <1>7, OutcomeOfWrite DEF outcome
<1> QED BY <1>1, <1>2, <1>6, <1>7, <1>8

(* The two walks side by side.                                              *)
SameWay(n, w, v) ==
  \A x \in Table :
    /\ \A s \in Reached(x, Edge("__newindex", "k")) :
         GetMetamethod(s, "__index") = GetMetamethod(s, "__newindex")
    /\ w[n][x].how = "store"
    => v[n][x] = Found(Slot(w[n][x].value, "k"))

LEMMA WalksAgree ==
  ASSUME MetaTypeOK, NEW w, NEW v,
         IsWalk(w, Edge("__newindex", "k"), WriteOutcome("k"), MaxChain),
         IsWalk(v, Edge("__index", "k"), ReadOutcome("k"), MaxChain)
  PROVE  SameWay(MaxChain, w, v)
<1> DEFINE T == {m \in 0 .. MaxChain : ~ SameWay(m, w, v)}
           R == {ss \in Nat \X Nat : ss[1] < ss[2]}
           E == Edge("__newindex", "k")
           D == Edge("__index", "k")
<1> SUFFICES ASSUME T # {} PROVE FALSE BY MetaConstants
<1>1. IsWellFoundedOn(R, Nat) BY NatLessThanWellFounded DEF OpToRel
<1>2. T \subseteq Nat BY MetaConstants
<1> HIDE DEF R, T
<1>3. PICK m \in T : \A y \in T : ~(<<y, m>> \in R) BY <1>1, <1>2, WFMin
<1>4. \A y \in T : ~(y < m) BY <1>2, <1>3 DEF R
<1>5. m \in 0 .. MaxChain /\ ~ SameWay(m, w, v) BY DEF T
<1>6. PICK x \in Table :
        /\ \A s \in Reached(x, E) : GetMetamethod(s, "__index") = GetMetamethod(s, "__newindex")
        /\ w[m][x].how = "store"
        /\ v[m][x] # Found(Slot(w[m][x].value, "k"))
  BY <1>5 DEF SameWay
<1>7. "k" \in Fields /\ Functional(E) /\ Functional(D) BY MetaConstants, EdgesFunctional
<1>8. GetMetamethod(x, "__index") = GetMetamethod(x, "__newindex") BY <1>6, <1>7, ReachedFacts
<1>9. D[x] = E[x] /\ (E[x] = {} <=> Slot(x, "k") # Nil \/ GetMetamethod(x, "__newindex") \notin Table)
  BY <1>8 DEF Edge
<1> HIDE DEF E, D
<1>10. m # 0
  <2>1. w[0][x] = TooLong BY DEF IsWalk, E
  <2> QED BY <1>6, <2>1, OutcomesApart DEF TooLong
<1>11. m \in 1 .. MaxChain /\ m - 1 \in 0 .. MaxChain /\ m - 1 \notin T
  BY <1>4, <1>5, <1>10, MetaConstants
<1>12. CASE E[x] = {}
  <2>1. w[m][x] = WriteOutcome("k")[x] /\ v[m][x] = ReadOutcome("k")[x]
    BY <1>9, <1>11, <1>12 DEF IsWalk, E, D
  <2>2. (Slot(x, "k") # Nil \/ GetMetamethod(x, "__newindex") = Nil) /\ w[m][x] = Stores(x)
    BY <1>6, <1>7, <2>1, OutcomeOfWrite
  <2>3. v[m][x] = Found(Slot(x, "k")) BY <1>7, <1>8, <2>1, <2>2, OutcomeOfRead
  <2> QED BY <1>6, <2>2, <2>3, OutcomesApart
<1>13. CASE E[x] # {}
  <2>1. PICK y : y \in E[x] BY <1>13
  <2>2. y \in Table /\ Reached(y, E) \subseteq Reached(x, E) BY <1>7, <2>1, ReachedFacts
  <2>3. w[m][x] = w[m - 1][y] /\ v[m][x] = v[m - 1][y]
    BY <1>9, <1>11, <2>1 DEF IsWalk, E, D
  <2>4. SameWay(m - 1, w, v) BY <1>11 DEF T
  <2> QED BY <1>6, <2>2, <2>3, <2>4 DEF SameWay, E
<1> QED BY <1>12, <1>13

LEMMA WritesReadBack ==
  ASSUME MetaTypeOK
  PROVE  ReadBack
<1>1. "k" \in Fields BY MetaConstants
<1>2. PICK w : /\ IsWalk(w, Edge("__newindex", "k"), WriteOutcome("k"), MaxChain)
               /\ \A x \in Table : GoesTo(x, "k") = w[MaxChain][x]
  BY <1>1, WriteWalk
<1>3. PICK v : /\ IsWalk(v, Edge("__index", "k"), ReadOutcome("k"), MaxChain)
               /\ \A x \in Table : WalkIndex(x, "k") = v[MaxChain][x]
  BY <1>1, ReadWalk
<1>4. SameWay(MaxChain, w, v) BY <1>2, <1>3, WalksAgree
<1>5. \A x \in Table : IndexGet(x, "k") = v[MaxChain][x] /\ IndexSet(x, "k") = w[MaxChain][x]
  BY <1>2, <1>3 DEF IndexGet, IndexSet
<1> QED BY <1>4, <1>5 DEF ReadBack, SameWay

-----------------------------------------------------------------------------
(* The program's operations keep the tables well typed.                     *)
LEMMA WhereAssigned ==
  ASSUME MetaTypeOK, NEW obj \in Table \cup Plain, NEW key \in Fields \cup BadKeys,
         IndexSet(obj, key).how = "store"
  PROVE  /\ key \in Fields
         /\ \E s \in Table : /\ IndexSet(obj, key) = Stores(s)
                             /\ raw[s][key] # Nil \/ GetMetamethod(s, "__newindex") = Nil
<1> DEFINE mm == GetMetamethod(obj, "__newindex")
<1>1. PICK start \in Table : IndexSet(obj, key) = GoesTo(start, key)
  <2>1. CASE obj \in Table BY <2>1 DEF IndexSet
  <2>2. CASE obj \notin Table
    <3>1. IndexSet(obj, key) = IF mm = Nil THEN Error("attempt to index")
                               ELSE IF mm \in Table THEN GoesTo(mm, key)
                               ELSE CallOrError(mm, obj)
      BY <2>2, MetaConstants DEF IndexSet
    <3>2. CallOrError(mm, obj).how # "store" BY OutcomesApart DEF CallOrError
    <3> QED BY <3>1, <3>2, OutcomesApart
  <2> QED BY <2>1, <2>2
<1>2. GoesTo(start, key).how = "store" BY <1>1
<1>3. PICK s \in Table : /\ key \in Fields /\ GoesTo(start, key) = Stores(s)
                         /\ Slot(s, key) # Nil \/ GetMetamethod(s, "__newindex") = Nil
  BY <1>2, WhereStored
<1>4. Slot(s, key) = raw[s][key] BY <1>3, SlotTypes
<1> QED BY <1>1, <1>3, <1>4

LEMMA RawChange ==
  ASSUME MetaTypeOK, NEW s \in Table, NEW key \in Fields, NEW x \in Values \cup {Nil},
         raw' = [raw EXCEPT ![s][key] = x], UNCHANGED meta
  PROVE  /\ MetaTypeOK'
         /\ \A u \in Table, q \in Fields : <<u, q>> # <<s, key>> => raw'[u][q] = raw[u][q]
<1>1. raw' \in [Table -> [Fields -> Values \cup {Nil}]] BY DEF MetaTypeOK
<1>2. \A u \in Table, q \in Fields : <<u, q>> # <<s, key>> => raw'[u][q] = raw[u][q] BY DEF MetaTypeOK
<1> QED BY <1>1, <1>2 DEF MetaTypeOK

LEMMA PayloadValues ==
  ASSUME NEW key, NEW x \in Payload(key)
  PROVE  x \in Values \cup {Nil}
BY DEF Payload, Values

LEMMA AssignKeeps ==
  ASSUME MetaTypeOK, NEW obj \in Table \cup Plain, NEW key \in Fields \cup BadKeys,
         NEW x \in Payload(key), Assign(obj, key, x)
  PROVE  /\ MetaTypeOK'
         /\ \A u \in Table, q \in Fields :
              (raw[u][q] = Nil /\ GetMetamethod(u, "__newindex") # Nil) => raw'[u][q] = Nil
<1> DEFINE to == IndexSet(obj, key)
<1>1. CASE to.how = "store"
  <2>1. key \in Fields BY <1>1, WhereAssigned
  <2>2. PICK s \in Table : to = Stores(s) /\ (raw[s][key] # Nil \/ GetMetamethod(s, "__newindex") = Nil)
    BY <1>1, WhereAssigned
  <2>3. raw' = [raw EXCEPT ![s][key] = x] /\ UNCHANGED meta
    BY <1>1, <2>2, OutcomesApart DEF Assign
  <2>4. x \in Values \cup {Nil} BY PayloadValues
  <2>5. MetaTypeOK' /\ \A u \in Table, q \in Fields : <<u, q>> # <<s, key>> => raw'[u][q] = raw[u][q]
    BY <2>1, <2>3, <2>4, RawChange
  <2> QED BY <2>2, <2>5
<1>2. CASE to.how # "store"
  <2>1. raw' = raw /\ meta' = meta BY <1>2 DEF Assign
  <2> QED BY <2>1 DEF MetaTypeOK
<1> QED BY <1>1, <1>2

LEMMA MetaStart == MetaInit => MetaTypeOK
BY DEF MetaInit, MetaTypeOK

LEMMA MetaStep == MetaTypeOK /\ [MetaNext]_metaVars => MetaTypeOK'
<1> SUFFICES ASSUME MetaTypeOK, [MetaNext]_metaVars PROVE MetaTypeOK' OBVIOUS
<1>1. ASSUME NEW obj \in Table \cup Plain, NEW key \in Fields \cup BadKeys, NEW x \in Payload(key),
             Assign(obj, key, x)
      PROVE  MetaTypeOK'
  BY <1>1, AssignKeeps
<1>2. ASSUME NEW s \in Table, NEW key \in Fields, NEW x \in Payload(key), RawSet(s, key, x)
      PROVE  MetaTypeOK'
  BY <1>2, PayloadValues, RawChange DEF RawSet
<1>3. ASSUME NEW s \in Table, NEW mt \in Values \cup {Nil}, SetMetatable(s, mt) PROVE MetaTypeOK'
  BY <1>3 DEF SetMetatable, MetaTypeOK
<1>4. CASE UNCHANGED metaVars BY <1>4 DEF metaVars, MetaTypeOK
<1> QED BY <1>1, <1>2, <1>3, <1>4 DEF MetaNext

(* A read finds the key that its way of tables has, or fails for a way too  *)
(* long; it reads back what a write through such a way has stored: for any  *)
(* tables, metatables and limit of the walks.                               *)
THEOREM FieldsAgree == MetaSpec => []ReadsAndWritesAgree
<1>1. MetaTypeOK => ReadsAndWritesAgree BY ReadsRight, WritesReadBack DEF ReadsAndWritesAgree
<1> QED BY <1>1, MetaStart, MetaStep, PTL DEF MetaSpec

(* No assignment creates a key in a table that has a __newindex.            *)
THEOREM GuardedStay == MetaSpec => GuardedTablesStay
<1> DEFINE Stay == assigned' =>
             \A s \in Table, key \in Fields :
               (raw[s][key] = Nil /\ GetMetamethod(s, "__newindex") # Nil) => raw'[s][key] = Nil
<1>1. MetaTypeOK /\ [MetaNext]_metaVars => [Stay]_metaVars
  <2> SUFFICES ASSUME MetaTypeOK, MetaNext PROVE Stay OBVIOUS
  <2>1. ASSUME NEW obj \in Table \cup Plain, NEW key \in Fields \cup BadKeys, NEW x \in Payload(key),
               Assign(obj, key, x)
        PROVE  Stay
    BY <2>1, AssignKeeps
  <2>2. ASSUME NEW s \in Table, NEW key \in Fields, NEW x \in Payload(key), RawSet(s, key, x)
        PROVE  Stay
    BY <2>2 DEF RawSet
  <2>3. ASSUME NEW s \in Table, NEW mt \in Values \cup {Nil}, SetMetatable(s, mt) PROVE Stay
    BY <2>3 DEF SetMetatable
  <2> HIDE DEF Stay
  <2> QED BY <2>1, <2>2, <2>3 DEF MetaNext
<1>2. MetaSpec => [][Stay]_metaVars
  <2> HIDE DEF Stay
  <2> QED BY <1>1, MetaStart, MetaStep, PTL DEF MetaSpec
<1> QED BY <1>2, PTL DEF GuardedTablesStay, Stay
=============================================================================
