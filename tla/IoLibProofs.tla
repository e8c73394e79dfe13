---------------------------- MODULE IoLibProofs ----------------------------
(***************************************************************************)
(* The handles of iolib.cpp keep what a program writes and read it back,   *)
(* for any files, handles, data and sequence of calls.  Every call changes *)
(* one handle and at most the file below it; so the argument is one lemma  *)
(* about such a change (OneHandle), and for each call what it does to its  *)
(* stream.                                                                 *)
(***************************************************************************)
EXTENDS IoLib, SequenceTheorems, WellFoundedInduction, TLAPS

-----------------------------------------------------------------------------
(* The least of a set of positions. *)
LEMMA LeastOf ==
  ASSUME NEW T \in SUBSET Nat, T # {}
  PROVE  Min(T) \in T /\ \A y \in T : Min(T) <= y
<1> DEFINE R == {ss \in Nat \X Nat : ss[1] < ss[2]}
<1>1. IsWellFoundedOn(R, Nat)
  BY NatLessThanWellFounded DEF OpToRel
<1> HIDE DEF R
<1>2. PICK x \in T : \A y \in T : ~(<<y, x>> \in R)
  BY <1>1, WFMin
<1>3. \A y \in T : x <= y
  <2> SUFFICES ASSUME NEW y \in T PROVE x <= y
    OBVIOUS
  <2>1. ~(y < x)
    BY <1>2 DEF R
  <2> QED
    BY <2>1
<1> QED
  BY <1>3 DEF Min

-----------------------------------------------------------------------------
(* Data written over a file.                                                *)
LEMMA OverlayNothing ==
  ASSUME NEW c, NEW at
  PROVE  Overlay(c, at, <<>>) = c
BY DEF Overlay

LEMMA OverlayIs ==
  ASSUME NEW c \in Content, NEW at \in Nat, NEW data \in Seq(Byte), data # <<>>
  PROVE  LET old == IF c = Missing THEN <<>> ELSE c
             new == at + Len(data)
             m == IF Len(old) > new THEN Len(old) ELSE new
             o == Overlay(c, at, data)
         IN  /\ o \in Seq(Byte) /\ Len(o) = m
             /\ \A x \in 1 .. m : o[x] = IF x > at /\ x <= new THEN data[x - at]
                                         ELSE IF x <= Len(old) THEN old[x] ELSE "hole"
<1> DEFINE old == IF c = Missing THEN <<>> ELSE c
           new == at + Len(data)
           m == IF Len(old) > new THEN Len(old) ELSE new
           at_(x) == IF x > at /\ x <= new THEN data[x - at]
                     ELSE IF x <= Len(old) THEN old[x] ELSE "hole"
           o == [x \in 1 .. m |-> at_(x)]
<1>1. old \in Seq(Byte)
  BY DEF Content
<1>2. Len(old) \in Nat /\ new \in Nat /\ m \in Nat /\ Len(data) \in Nat
  BY <1>1
<1>3. Overlay(c, at, data) = o
  BY DEF Overlay
<1>4. \A x \in 1 .. m : at_(x) \in Byte
  <2> SUFFICES ASSUME NEW x \in 1 .. m PROVE at_(x) \in Byte
    OBVIOUS
  <2>1. CASE x > at /\ x <= new
    <3>1. x - at \in 1 .. Len(data)
      BY <1>2, <2>1
    <3> QED
      BY <2>1, <3>1
  <2>2. CASE ~(x > at /\ x <= new)
    <3>1. x <= Len(old) => x \in 1 .. Len(old)
      BY <1>2
    <3>2. "hole" \in Byte
      BY DEF Byte
    <3> QED
      BY <1>1, <2>2, <3>1, <3>2
  <2> QED
    BY <2>1, <2>2
<1>5. o \in [1 .. m -> Byte]
  BY <1>4
<1>6. o \in Seq(Byte) /\ Len(o) = m
  <2> HIDE DEF o, m
  <2> QED
    BY <1>2, <1>5
<1>7. \A x \in 1 .. m : o[x] = at_(x)
  OBVIOUS
<1> QED
  BY <1>3, <1>6, <1>7

LEMMA SameBytes ==
  ASSUME NEW s \in Seq(Byte), NEW t \in Seq(Byte), Len(s) = Len(t),
         \A x \in 1 .. Len(s) : s[x] = t[x]
  PROVE  s = t
OBVIOUS


(* Writing twice, the second time where the first has ended, is writing     *)
(* once.                                                                    *)
LEMMA OverlayTwice ==
  ASSUME NEW c \in Content, NEW at \in Nat, NEW d1 \in Seq(Byte), NEW d2 \in Seq(Byte)
  PROVE  Overlay(Overlay(c, at, d1), at + Len(d1), d2) = Overlay(c, at, d1 \o d2)
<1> DEFINE both == d1 \o d2
           mid == at + Len(d1)
<1>1. /\ both \in Seq(Byte) /\ Len(both) = Len(d1) + Len(d2)
      /\ \A x \in 1 .. Len(d1) + Len(d2) :
           both[x] = IF x <= Len(d1) THEN d1[x] ELSE d2[x - Len(d1)]
  BY ConcatProperties
<1>2. Len(d1) \in Nat /\ Len(d2) \in Nat /\ mid \in Nat
  OBVIOUS
<1>3. CASE d1 = <<>>
  <2>1. both = d2 /\ Len(d1) = 0
    BY <1>3, ConcatEmptySeq
  <2>2. mid = at
    BY <2>1
  <2> QED
    BY <1>3, <2>1, <2>2, OverlayNothing
<1>4. CASE d2 = <<>>
  <2>1. both = d1
    BY <1>4, ConcatEmptySeq
  <2> QED
    BY <1>4, <2>1, OverlayNothing
<1>5. CASE d1 # <<>> /\ d2 # <<>>
  <2> DEFINE old == IF c = Missing THEN <<>> ELSE c
             first == Overlay(c, at, d1)
             new == mid + Len(d2)
             m1 == IF Len(old) > mid THEN Len(old) ELSE mid
             m2 == IF m1 > new THEN m1 ELSE new
             m == IF Len(old) > new THEN Len(old) ELSE new
             left == Overlay(first, mid, d2)
             right == Overlay(c, at, both)
  <2>0. old \in Seq(Byte) /\ Len(old) \in Nat
    BY DEF Content
  <2>1. /\ first \in Seq(Byte) /\ Len(first) = m1
        /\ \A x \in 1 .. m1 : first[x] = IF x > at /\ x <= mid THEN d1[x - at]
                                         ELSE IF x <= Len(old) THEN old[x] ELSE "hole"
    BY <1>5, OverlayIs
  <2>2. both # <<>>
    BY <1>1, <1>2, <1>5
  <2>3. at + Len(both) = new
    BY <1>1, <1>2
  <2>4. /\ right \in Seq(Byte) /\ Len(right) = m
        /\ \A x \in 1 .. m : right[x] = IF x > at /\ x <= new THEN both[x - at]
                                        ELSE IF x <= Len(old) THEN old[x] ELSE "hole"
    <3>1. LET u == at + Len(both)
              v == IF Len(old) > u THEN Len(old) ELSE u
          IN  /\ right \in Seq(Byte) /\ Len(right) = v
              /\ \A x \in 1 .. v : right[x] = IF x > at /\ x <= u THEN both[x - at]
                                              ELSE IF x <= Len(old) THEN old[x] ELSE "hole"
      BY <1>1, <2>2, OverlayIs
    <3> QED
      BY <2>3, <3>1
  <2>5. first \in Content /\ first # Missing
    <3>1. Missing \notin Seq(Byte)
      BY DEF Missing, Byte, Digit, Space, Sign
    <3> QED
      BY <2>1, <3>1 DEF Content
  <2> HIDE DEF first
  <2>6. /\ left \in Seq(Byte) /\ Len(left) = m2
        /\ \A x \in 1 .. m2 : left[x] = IF x > mid /\ x <= new THEN d2[x - mid]
                                        ELSE IF x <= Len(first) THEN first[x] ELSE "hole"
    BY <1>2, <1>5, <2>1, <2>5, OverlayIs
  <2>7. m2 = m
    BY <1>2, <2>0
  <2> HIDE DEF left, right
  <2>8. \A x \in 1 .. m : left[x] = right[x]
    <3> SUFFICES ASSUME NEW x \in 1 .. m PROVE left[x] = right[x]
      OBVIOUS
    <3>0. x \in Int /\ x >= 1 /\ Len(old) \in Nat /\ at \in Nat
      BY <2>0, <1>2
    <3>1. CASE x > mid /\ x <= new
      <4>1. x - at \in 1 .. Len(d1) + Len(d2) /\ ~(x - at <= Len(d1)) /\ x - at - Len(d1) = x - mid
        BY <1>2, <3>0, <3>1
      <4>2. right[x] = d2[x - mid]
        BY <1>1, <1>2, <2>4, <3>0, <3>1, <4>1
      <4> QED
        BY <2>6, <2>7, <3>1, <4>2
    <3>2. CASE x > at /\ x <= mid
      <4>1. x - at \in 1 .. Len(d1) + Len(d2) /\ x - at <= Len(d1)
        BY <1>2, <3>0, <3>2
      <4>2. right[x] = d1[x - at]
        BY <1>1, <1>2, <2>4, <3>0, <3>2, <4>1
      <4>3. x \in 1 .. m1
        BY <1>2, <3>0, <3>2
      <4> QED
        BY <2>1, <2>6, <2>7, <1>2, <3>0, <3>2, <4>2, <4>3
    <3>3. CASE x <= at
      <4>1. right[x] = IF x <= Len(old) THEN old[x] ELSE "hole"
        BY <1>2, <2>4, <3>0, <3>3
      <4>2. x \in 1 .. m1
        BY <1>2, <3>0, <3>3
      <4> QED
        BY <2>1, <2>6, <2>7, <1>2, <3>0, <3>3, <4>1, <4>2
    <3>4. CASE x > new
      <4>1. x <= Len(old)
        BY <1>2, <3>0, <3>4
      <4>2. right[x] = old[x]
        BY <2>4, <3>0, <3>4, <4>1
      <4>3. x \in 1 .. m1 /\ x > mid
        BY <1>2, <3>0, <3>4, <4>1
      <4> QED
        BY <2>1, <2>6, <2>7, <1>2, <3>0, <3>4, <4>1, <4>2, <4>3
    <3> QED
      BY <1>2, <3>0, <3>1, <3>2, <3>3, <3>4
  <2> QED
    BY <2>4, <2>6, <2>7, <2>8, SameBytes DEF left, right, first
<1> QED
  BY <1>3, <1>4, <1>5
-----------------------------------------------------------------------------
(* Streams.                                                                 *)
StreamRec ==
  [kind : {"stream"}, closed : BOOLEAN, close_on_eof : BOOLEAN, path : Path,
   in : BOOLEAN, out : BOOLEAN, good : BOOLEAN, pos : 0 .. MaxLength,
   ahead : Seq(Byte), pending : Seq(Byte), ended : BOOLEAN]
OtherRec == [kind : {"popen", "tmpfile"}, closed : BOOLEAN]

IsStream(h) == h \in Slot /\ handle[h].kind = "stream"

(* Buffers, of one stream. *)
Buffered(f) ==
  /\ Len(f.pending) <= f.pos /\ f.pos + Len(f.ahead) <= MaxLength
  /\ f.closed => f.pending = <<>> /\ f.ahead = <<>>
  /\ ~f.closed => (f.good <=> ~f.ended)

LEMMA Kinds ==
  /\ \A f \in StreamRec : f.kind = "stream" /\ f # Free
  /\ \A f \in OtherRec : f.kind # "stream" /\ f.kind # "free" /\ f # Free
  /\ Free.kind = "free"
BY DEF StreamRec, OtherRec, Free

LEMMA HandleTypes ==
  ASSUME Types
  PROVE  /\ \A h \in Slot : handle[h] = Free \/ handle[h] \in OtherRec \/ handle[h] \in StreamRec
         /\ \A h \in Std : handle[h].kind = "std" /\ ~handle[h].closed
         /\ DOMAIN handle = Std \cup Slot
         /\ disk \in [Path -> Content] /\ said \in [Path -> Content]
BY DEF Types, TypeOK, StdStaysOpen, OtherRec, StreamRec

LEMMA StreamIs ==
  ASSUME Types, NEW h, IsStream(h)
  PROVE  /\ handle[h] \in StreamRec /\ handle[h].path \in Path
         /\ handle[h].pos \in Nat /\ handle[h].pos <= MaxLength
         /\ handle[h].pending \in Seq(Byte) /\ handle[h].ahead \in Seq(Byte)
         /\ Len(handle[h].pending) \in Nat /\ Len(handle[h].ahead) \in Nat
<1>1. handle[h] \in StreamRec
  BY HandleTypes, Kinds DEF IsStream
<1>2. /\ handle[h].path \in Path /\ handle[h].pos \in 0 .. MaxLength
      /\ handle[h].pending \in Seq(Byte) /\ handle[h].ahead \in Seq(Byte)
  BY <1>1 DEF StreamRec
<1> QED
  BY <1>1, <1>2, MaxLengthIsNat

LEMMA BuffersAre ==
  ASSUME Buffers, NEW h, IsStream(h)
  PROVE  Buffered(handle[h]) /\ disk[handle[h].path] # Missing
BY DEF Buffers, Buffered, IsStream

(* What a stream's file becomes by flushing it. *)
LEMMA FlushedIs ==
  ASSUME Types, Buffers, NEW h, IsStream(h)
  PROVE  /\ Flushed(handle[h]) \in Seq(Byte) /\ Flushed(handle[h]) \in Content
         /\ Flushed(handle[h]) # Missing
         /\ Len(Flushed(handle[h])) \in Nat /\ Len(Flushed(handle[h])) <= MaxLength
         /\ handle[h].pending = <<>> => Flushed(handle[h]) = disk[handle[h].path]
<1> DEFINE f == handle[h]
           c == disk[f.path]
           o == Flushed(f)
<1>1. /\ f.path \in Path /\ f.pos \in Nat /\ f.pos <= MaxLength
      /\ f.pending \in Seq(Byte) /\ Len(f.pending) \in Nat /\ Len(f.pending) <= f.pos
  BY StreamIs, BuffersAre DEF Buffered
<1>2. c \in Content /\ c # Missing /\ c \in Seq(Byte) /\ Len(c) \in Nat /\ Len(c) <= MaxLength
  <2>1. c \in Content /\ c # Missing
    BY <1>1, BuffersAre, HandleTypes
  <2>2. c \in Seq(Byte)
    BY <2>1 DEF Content
  <2>3. Len(c) <= MaxLength
    BY <1>1, <2>1 DEF Types, TypeOK
  <2> QED
    BY <2>1, <2>2, <2>3
<1>3. o = Overlay(c, f.pos - Len(f.pending), f.pending)
  BY DEF Flushed
<1>4. Missing \notin Seq(Byte)
  BY DEF Missing, Byte, Digit, Space, Sign
<1> HIDE DEF f, c
<1>5. CASE f.pending = <<>>
  <2>1. o = c
    BY <1>3, <1>5, OverlayNothing
  <2> QED
    BY <1>2, <2>1 DEF c, f
<1>6. CASE f.pending # <<>>
  <2>1. f.pos - Len(f.pending) \in Nat /\ f.pos - Len(f.pending) + Len(f.pending) = f.pos
    BY <1>1
  <2>2. o \in Seq(Byte) /\ Len(o) = IF Len(c) > f.pos THEN Len(c) ELSE f.pos
    <3> DEFINE at == f.pos - Len(f.pending)
    <3>1. at \in Nat /\ at + Len(f.pending) = f.pos
      BY <2>1
    <3> HIDE DEF at
    <3>2. LET new == at + Len(f.pending) IN
          /\ Overlay(c, at, f.pending) \in Seq(Byte)
          /\ Len(Overlay(c, at, f.pending)) = IF Len(c) > new THEN Len(c) ELSE new
      BY <1>1, <1>2, <1>6, <3>1, OverlayIs
    <3> QED
      BY <1>3, <3>1, <3>2 DEF at
  <2> QED
    BY <1>1, <1>2, <1>4, <1>6, <2>2 DEF Content, f
<1> QED
  BY <1>5, <1>6

(* One stream h of the file p, and what it stands for afterwards: f2, or    *)
(* nothing once the collector has destroyed it.  Either its file has been   *)
(* flushed, or the file and what is held back stay.                         *)
Stored(h, f2) ==
  /\ disk' = [disk EXCEPT ![handle[h].path] = Flushed(handle[h])]
  /\ f2 # Free => f2.pending = <<>>
HeldStill(h, f2) ==
  /\ disk' = disk /\ f2 # Free /\ f2.pending = handle[h].pending
  /\ f2.pending # <<>> => f2.pos = handle[h].pos
Fresh(f) ==
  f.ahead # <<>> =>
    /\ f.pos + Len(f.ahead) <= Len(said[f.path])
    /\ \A k \in 1 .. Len(f.ahead) : f.ahead[k] = said[f.path][f.pos + k]
ReadingFits(h, f2) ==
  \/ reading' = NoRead
  \/ /\ reading' \in [by : Slot, fmts : Seq(Format)] /\ reading'.fmts # <<>>
     /\ reading'.by = h /\ f2 # Free
DefaultKept(h, f2) ==
  /\ default' = default
  /\ f2 = Free => h # default.in /\ h # default.out

OneChanges(h, f2) ==
  /\ handle' = [handle EXCEPT ![h] = f2]
  /\ f2 # Free => f2 \in StreamRec /\ f2.path = handle[h].path /\ Buffered(f2)
  /\ Stored(h, f2) \/ HeldStill(h, f2)
  /\ said' = said
  /\ mixed' \in {mixed, mixed \cup {handle[h].path}}
  /\ f2 # Free /\ handle[h].path \notin mixed' => Fresh(f2)
  /\ DefaultKept(h, f2) /\ ReadingFits(h, f2)

LEMMA TypesOneHandle ==
  ASSUME IInv, NEW h, IsStream(h), NEW f2, OneChanges(h, f2)
  PROVE  Types' /\ Buffers'
<1> DEFINE p == handle[h].path
<1>1. Types /\ Buffers /\ h \in Slot /\ p \in Path /\ h \notin Std
  BY StreamIs, SlotsAreNotStandard DEF IInv, IsStream
<1>2. /\ DOMAIN handle = Std \cup Slot
      /\ disk \in [Path -> Content] /\ said \in [Path -> Content]
  BY <1>1, HandleTypes
<1>3. /\ DOMAIN handle' = Std \cup Slot
      /\ handle'[h] = f2 /\ \A g \in (Std \cup Slot) \ {h} : handle'[g] = handle[g]
  BY <1>1, <1>2 DEF OneChanges
<1>4. /\ disk' \in [Path -> Content] /\ disk'[p] # Missing
      /\ \A q \in Path : q # p => disk'[q] = disk[q]
      /\ disk'[p] \in Seq(Byte) /\ Len(disk'[p]) <= MaxLength
  <2>1. CASE Stored(h, f2)
    BY <1>1, <1>2, <2>1, FlushedIs DEF Stored
  <2>2. CASE HeldStill(h, f2)
    <3>1. disk[p] # Missing
      BY <1>1, BuffersAre
    <3> QED
      BY <1>1, <1>2, <2>2, <3>1 DEF HeldStill, Types, TypeOK
  <2> QED
    BY <2>1, <2>2 DEF OneChanges
<1>5. f2 = Free \/ f2 \in StreamRec
  BY DEF OneChanges
<1>6. \A g \in Slot : handle'[g] = Free \/ handle'[g] \in OtherRec \/ handle'[g] \in StreamRec
  <2> SUFFICES ASSUME NEW g \in Slot
               PROVE  handle'[g] = Free \/ handle'[g] \in OtherRec \/ handle'[g] \in StreamRec
    OBVIOUS
  <2>1. CASE g = h
    BY <1>3, <1>5, <2>1
  <2>2. CASE g # h
    BY <1>1, <1>3, <2>2, HandleTypes
  <2> QED
    BY <2>1, <2>2
<1>7. StdStaysOpen'
  BY <1>1, <1>3, HandleTypes DEF StdStaysOpen
<1>8. \A q \in Path : disk'[q] = Missing \/ (disk'[q] \in Seq(Byte) /\ Len(disk'[q]) <= MaxLength)
  BY <1>1, <1>4 DEF Types, TypeOK
<1>9. /\ default' \in [in : Std \cup Slot, out : Std \cup Slot]
      /\ Alive(default.in)' /\ Alive(default.out)'
  <2>1. /\ default \in [in : Std \cup Slot, out : Std \cup Slot]
        /\ Alive(default.in) /\ Alive(default.out) /\ default' = default
    BY <1>1 DEF Types, TypeOK, OneChanges, DefaultKept
  <2>2. f2 # Free => f2.kind # "free"
    BY <1>5, Kinds
  <2>3. f2 = Free => default.in # h /\ default.out # h
    BY DEF OneChanges, DefaultKept
  <2> QED
    BY <1>3, <2>1, <2>2, <2>3 DEF Alive
<1>10. /\ reading' = NoRead \/ reading' \in [by : Slot, fmts : Seq(Format)]
       /\ reading' # NoRead => reading'.fmts # <<>> /\ handle'[reading'.by].kind = "stream"
  BY <1>3, <1>5, Kinds DEF OneChanges, ReadingFits
<1>11. TypeOK'
  BY <1>6, <1>7, <1>8, <1>9, <1>10 DEF TypeOK, OtherRec, StreamRec
<1>12. Types'
  BY <1>2, <1>3, <1>4, <1>10, <1>11 DEF Types, OneChanges
<1>13. Buffers'
  <2> SUFFICES ASSUME NEW g \in Slot, handle'[g].kind = "stream"
               PROVE  Buffered(handle'[g]) /\ disk'[handle'[g].path] # Missing
    BY DEF Buffers, Buffered
  <2>1. CASE g = h
    <3>1. handle'[g] = f2 /\ f2 # Free
      BY <1>3, <2>1, Kinds
    <3> QED
      BY <1>4, <3>1 DEF OneChanges
  <2>2. CASE g # h
    <3>1. IsStream(g) /\ handle'[g] = handle[g] /\ handle[g].path \in Path
      BY <1>1, <1>3, <2>2, StreamIs DEF IsStream
    <3> QED
      BY <1>1, <1>4, <3>1, BuffersAre
  <2> QED
    BY <2>1, <2>2
<1> QED
  BY <1>12, <1>13
LEMMA StoredOneHandle ==
  ASSUME IInv, NEW h, IsStream(h), NEW f2, OneChanges(h, f2)
  PROVE  OneWriter' /\ HeldBack' /\ WrittenIsStored' /\ AheadFresh'
<1> DEFINE p == handle[h].path
<1>1. Types /\ Buffers /\ h \in Slot /\ p \in Path
  BY StreamIs DEF IInv, IsStream
<1>2. /\ DOMAIN handle = Std \cup Slot /\ disk \in [Path -> Content]
  BY <1>1, HandleTypes
<1>3. /\ handle'[h] = f2 /\ \A g \in Slot \ {h} : handle'[g] = handle[g]
  BY <1>1, <1>2 DEF OneChanges
<1>4. \A q \in Path \ mixed' : q \in Path \ mixed
  BY DEF OneChanges
<1>5. f2 # Free => f2.kind = "stream" /\ f2.path = p
  BY Kinds DEF OneChanges
<1>6. ASSUME NEW q \in Path \ mixed', NEW g \in StreamsOn(q)'
      PROVE  /\ g \in Slot /\ g \in StreamsOn(q)
             /\ g = h => f2 # Free /\ q = p /\ handle'[g] = f2
             /\ g # h => handle'[g] = handle[g]
             /\ handle'[g].path = q
  <2>1. g \in Slot /\ handle'[g].kind = "stream" /\ handle'[g].path = q
    BY <1>6 DEF StreamsOn
  <2>2. CASE g = h
    BY <1>3, <1>5, <2>1, <2>2, Kinds DEF StreamsOn, IsStream
  <2>3. CASE g # h
    BY <1>3, <2>1, <2>3 DEF StreamsOn
  <2> QED
    BY <2>2, <2>3
<1>7. ASSUME NEW q \in Path \ mixed', NEW g \in StreamsOn(q), g # h
      PROVE  g \in StreamsOn(q)' /\ handle'[g] = handle[g]
  BY <1>3, <1>7 DEF StreamsOn
<1>8. ASSUME NEW q \in Path \ mixed', NEW g \in StreamsOn(q)', handle'[g].pending # <<>>
      PROVE  /\ handle[g].pending = handle'[g].pending /\ handle[g].pos = handle'[g].pos
             /\ g = h => HeldStill(h, f2)
  <2>1. CASE g = h
    <3>1. handle'[g] = f2 /\ f2 # Free /\ f2.pending # <<>>
      BY <1>6, <1>8, <2>1
    <3> QED
      BY <2>1, <3>1 DEF OneChanges, Stored, HeldStill
  <2>2. CASE g # h
    BY <1>6, <2>2
  <2> QED
    BY <2>1, <2>2
<1>9. /\ \A q \in Path \ {p} : disk'[q] = disk[q]
      /\ HeldStill(h, f2) => disk'[p] = disk[p]
      /\ Stored(h, f2) => disk'[p] = Flushed(handle[h])
      /\ Stored(h, f2) /\ handle[h].pending = <<>> => disk'[p] = disk[p]
  <2>1. handle[h].pending = <<>> => Flushed(handle[h]) = disk[p]
    BY <1>1, FlushedIs
  <2> QED
    BY <1>1, <1>2, <2>1 DEF OneChanges, Stored, HeldStill
<1>10. OneWriter'
  <2> SUFFICES ASSUME NEW q \in Path \ mixed', NEW g \in StreamsOn(q)', NEW k \in StreamsOn(q)',
                      handle'[g].pending # <<>>, handle'[k].pending # <<>>
               PROVE  g = k
    BY DEF OneWriter
  <2>1. /\ g \in StreamsOn(q) /\ handle[g].pending # <<>>
        /\ k \in StreamsOn(q) /\ handle[k].pending # <<>>
    BY <1>6, <1>8
  <2> QED
    BY <1>4, <2>1 DEF IInv, OneWriter
<1>11. HeldBack'
  <2> SUFFICES ASSUME NEW q \in Path \ mixed', NEW g \in StreamsOn(q)', handle'[g].pending # <<>>
               PROVE  said[q] = Flushed(handle[g])'
    BY DEF HeldBack, OneChanges
  <2>1. /\ g \in StreamsOn(q) /\ handle'[g].path = q /\ handle[g].path = q
        /\ handle'[g].pending = handle[g].pending /\ handle'[g].pos = handle[g].pos
    BY <1>6, <1>8 DEF StreamsOn
  <2>2. said[q] = Flushed(handle[g])
    BY <1>4, <2>1 DEF IInv, HeldBack
  <2>3. disk'[q] = disk[q]
    <3>1. CASE q # p
      BY <1>9, <3>1
    <3>2. CASE q = p /\ HeldStill(h, f2)
      BY <1>9, <3>2
    <3>3. CASE q = p /\ ~HeldStill(h, f2)
      <4>1. g # h /\ Stored(h, f2)
        BY <1>8, <3>3 DEF OneChanges
      <4>2. handle[h].pending = <<>>
        <5>1. h \in StreamsOn(q)
          BY <3>3 DEF StreamsOn, IsStream
        <5> QED
          BY <1>4, <2>1, <4>1, <5>1 DEF IInv, OneWriter
      <4> QED
        BY <1>9, <3>3, <4>1, <4>2
    <3> QED
      BY <3>1, <3>2, <3>3
  <2> QED
    BY <2>1, <2>2, <2>3 DEF Flushed
<1>12. WrittenIsStored'
  <2> SUFFICES ASSUME NEW q \in Path \ mixed', \A g \in StreamsOn(q)' : handle'[g].pending = <<>>
               PROVE  disk'[q] = said[q]
    BY DEF WrittenIsStored, OneChanges
  <2>1. \A g \in StreamsOn(q) \ {h} : handle[g].pending = <<>>
    BY <1>7
  <2>2. (\A g \in StreamsOn(q) : handle[g].pending = <<>>) => disk[q] = said[q]
    BY <1>4 DEF IInv, WrittenIsStored
  <2>3. CASE q # p
    <3>1. h \notin StreamsOn(q)
      BY <2>3 DEF StreamsOn
    <3> QED
      BY <1>9, <2>1, <2>2, <2>3, <3>1
  <2>4. CASE q = p
    <3>1. h \in StreamsOn(q)
      BY <2>4 DEF StreamsOn, IsStream
    <3>2. CASE handle[h].pending = <<>>
      BY <1>9, <2>1, <2>2, <2>4, <3>2 DEF OneChanges
    <3>3. CASE handle[h].pending # <<>>
      <4>1. said[q] = Flushed(handle[h])
        BY <1>4, <3>1, <3>3 DEF IInv, HeldBack
      <4>2. ~HeldStill(h, f2)
        <5> SUFFICES ASSUME HeldStill(h, f2) PROVE FALSE
          OBVIOUS
        <5>1. f2 # Free /\ f2.pending # <<>>
          BY <3>3 DEF HeldStill
        <5>2. h \in StreamsOn(q)'
          BY <1>1, <1>3, <1>5, <2>4, <5>1 DEF StreamsOn
        <5> QED
          BY <1>3, <5>1, <5>2
      <4> QED
        BY <1>9, <2>4, <4>1, <4>2 DEF OneChanges
    <3> QED
      BY <3>2, <3>3
  <2> QED
    BY <2>3, <2>4
<1>13. AheadFresh'
  <2> SUFFICES ASSUME NEW q \in Path \ mixed', NEW g \in StreamsOn(q)', handle'[g].ahead # <<>>
               PROVE  /\ handle'[g].pos + Len(handle'[g].ahead) <= Len(said[q])
                      /\ \A k \in 1 .. Len(handle'[g].ahead) :
                           handle'[g].ahead[k] = said[q][handle'[g].pos + k]
    BY DEF AheadFresh, OneChanges
  <2>1. CASE g = h
    <3>1. handle'[g] = f2 /\ f2 # Free /\ q = p /\ f2.path = q
      BY <1>5, <1>6, <2>1
    <3> QED
      BY <3>1 DEF OneChanges, Fresh
  <2>2. CASE g # h
    <3>1. handle'[g] = handle[g] /\ g \in StreamsOn(q)
      BY <1>6, <2>2
    <3> QED
      BY <1>4, <3>1 DEF IInv, AheadFresh
  <2> QED
    BY <2>1, <2>2
<1> QED
  BY <1>10, <1>11, <1>12, <1>13

(* A call that changes one stream keeps the invariant. *)
LEMMA OneHandle ==
  ASSUME IInv, NEW h, IsStream(h), NEW f2, OneChanges(h, f2)
  PROVE  IInv'
BY TypesOneHandle, StoredOneHandle DEF IInv
-----------------------------------------------------------------------------
(* Reading.  What a format takes lies within what there is to read. *)
LEMMA SpanIs ==
  ASSUME NEW s \in Seq(Byte), NEW x \in Nat, x >= 1, x <= Len(s) + 1, NEW B
  PROVE  Span(s, x, B) \in Nat /\ x <= Span(s, x, B) /\ Span(s, x, B) <= Len(s) + 1
<1>1. Len(s) \in Nat
  OBVIOUS
<1>2. CASE \E y \in x .. Len(s) : s[y] \notin B
  <2> DEFINE T == {y \in x .. Len(s) : s[y] \notin B}
  <2>1. T # {} /\ T \in SUBSET Nat
    BY <1>1, <1>2
  <2>2. Min(T) \in T
    BY <2>1, LeastOf
  <2>3. Span(s, x, B) = Min(T)
    BY <1>2 DEF Span
  <2> QED
    BY <1>1, <2>2, <2>3
<1>3. CASE ~ \E y \in x .. Len(s) : s[y] \notin B
  BY <1>1, <1>3 DEF Span
<1> QED
  BY <1>2, <1>3

LEMMA OptionalIs ==
  ASSUME NEW s \in Seq(Byte), NEW x \in Nat, x >= 1, x <= Len(s) + 1, NEW B
  PROVE  Optional(s, x, B) \in Nat /\ x <= Optional(s, x, B) /\ Optional(s, x, B) <= Len(s) + 1
BY DEF Optional, IsAt

(* A format takes no more than there is; with nothing there the end is met. *)
Takes(r, s) ==
  /\ r.taken \in Nat /\ r.taken <= Len(s)
  /\ r.seen \in Nat /\ r.taken <= r.seen
  /\ s = <<>> => r.met_end

LEMMA NumberTakes ==
  ASSUME NEW s \in Seq(Byte)
  PROVE  Takes(NumberAt(s), s)
<1> DEFINE start == Optional(s, Span(s, 1, Space), Sign)
           whole == Span(s, start, Digit)
           point == IsAt(s, whole, {"."})
           mantissa == IF point THEN Span(s, whole + 1, Digit) ELSE whole
           digits == mantissa - start - (IF point THEN 1 ELSE 0)
           power == Optional(s, mantissa + 1, Sign)
           end == IF IsAt(s, mantissa, {"e"}) THEN Span(s, power, Digit) ELSE mantissa
           In(x) == x \in Nat /\ 1 <= x /\ x <= Len(s) + 1
<1>0. Len(s) \in Nat /\ In(1)
  OBVIOUS
<1>1. ASSUME NEW x, In(x), NEW B
      PROVE  In(Span(s, x, B)) /\ In(Optional(s, x, B))
  BY <1>0, <1>1, SpanIs, OptionalIs
<1>2. ASSUME NEW x, In(x), NEW B, IsAt(s, x, B)
      PROVE  In(x + 1)
  BY <1>0, <1>2 DEF IsAt
<1> HIDE DEF In
<1>3. In(start)
  BY <1>0, <1>1
<1> HIDE DEF start
<1>4. In(whole)
  BY <1>1, <1>3
<1> HIDE DEF whole
<1>5. In(mantissa)
  BY <1>1, <1>2, <1>4
<1> HIDE DEF mantissa
<1>6. In(end)
  BY <1>1, <1>2, <1>5
<1>7. NumberAt(s) = [taken |-> end - 1, seen |-> end, met_end |-> end > Len(s),
                     nil |-> digits = 0 \/ (end > mantissa /\ end = power)]
  BY DEF NumberAt, start, whole, mantissa
<1>8. /\ end - 1 \in Nat /\ end - 1 <= Len(s) /\ (Len(s) = 0 => end > Len(s))
      /\ end \in Nat /\ end - 1 <= end
  BY <1>0, <1>6 DEF In
<1> DEFINE none == digits = 0 \/ (end > mantissa /\ end = power)
           met == end > Len(s)
<1>9. NumberAt(s) = [taken |-> end - 1, seen |-> end, met_end |-> met, nil |-> none]
  BY <1>7
<1>10. s = <<>> => met
  BY <1>0, <1>8
<1> HIDE DEF none, met, end
<1>11. NumberAt(s).taken = end - 1 /\ NumberAt(s).seen = end /\ NumberAt(s).met_end = met
  BY <1>9
<1> QED
  BY <1>8, <1>10, <1>11 DEF Takes

LEMMA GetsTake ==
  ASSUME NEW s \in Seq(Byte), NEW n \in Nat, n <= Len(s), NEW met, NEW none, s = <<>> => met
  PROVE  Takes(Gets(n, met, none), s)
<1>1. /\ Gets(n, met, none).taken = n /\ Gets(n, met, none).seen = n
      /\ Gets(n, met, none).met_end = met
  BY DEF Gets
<1> QED
  BY <1>1 DEF Takes

LEMMA FormatTakes ==
  ASSUME NEW fmt \in Format, NEW s \in Seq(Byte)
  PROVE  Takes(ReadFormat(fmt, s), s)
<1>0. Len(s) \in Nat /\ (s = <<>> => Len(s) = 0)
  OBVIOUS
<1>1. CASE fmt = "l"
  <2> DEFINE B == {s[k] : k \in DOMAIN s} \ {"nl"}
             x == Span(s, 1, B)
             met == x > Len(s)
             none == s = <<>>
             t == IF x > Len(s) THEN Len(s) ELSE x
  <2>1. x \in Nat /\ 1 <= x /\ x <= Len(s) + 1
    <3> HIDE DEF B
    <3> QED
      BY <1>0, SpanIs
  <2>2. ReadFormat(fmt, s) = Gets(t, met, none)
    BY <1>1 DEF ReadFormat
  <2>3. t \in Nat /\ t <= Len(s) /\ (s = <<>> => met)
    BY <1>0, <2>1
  <2> HIDE DEF t, met, none
  <2> QED
    BY <2>2, <2>3, GetsTake
<1>2. CASE fmt = "a"
  <2>1. ReadFormat(fmt, s) = Gets(Len(s), TRUE, FALSE)
    BY <1>2 DEF ReadFormat
  <2> QED
    BY <1>0, <2>1 DEF Gets, Takes
<1>3. CASE fmt = "n"
  BY <1>3, NumberTakes DEF ReadFormat
<1>4. CASE fmt = "2"
  <2> DEFINE met == Len(s) < 2
             none == s = <<>>
             t == IF Len(s) < 2 THEN Len(s) ELSE 2
  <2>1. ReadFormat(fmt, s) = Gets(t, met, none)
    BY <1>4 DEF ReadFormat
  <2>2. t \in Nat /\ t <= Len(s) /\ (s = <<>> => met)
    BY <1>0
  <2> HIDE DEF t, met, none
  <2> QED
    BY <2>1, <2>2, GetsTake
<1> QED
  BY <1>1, <1>2, <1>3, <1>4 DEF Format

(* What is left of s after t bytes. *)
LEMMA RestIs ==
  ASSUME NEW s \in Seq(Byte), NEW t \in Nat
  PROVE  LET u == SubSeq(s, t + 1, Len(s)) IN
         /\ u \in Seq(Byte) /\ Len(u) = IF t <= Len(s) THEN Len(s) - t ELSE 0
         /\ \A k \in 1 .. Len(u) : u[k] = s[t + k]
<1>1. Len(s) \in Nat /\ t + 1 \in Int
  OBVIOUS
<1>2. \A x \in t + 1 .. Len(s) : s[x] \in Byte
  OBVIOUS
<1>3. /\ SubSeq(s, t + 1, Len(s)) \in Seq(Byte)
      /\ Len(SubSeq(s, t + 1, Len(s))) = IF t + 1 <= Len(s) THEN Len(s) - (t + 1) + 1 ELSE 0
      /\ \A x \in 1 .. Len(s) - (t + 1) + 1 : SubSeq(s, t + 1, Len(s))[x] = s[t + 1 + x - 1]
  BY <1>1, <1>2, SubSeqProperties
<1>4. ASSUME NEW k \in 1 .. Len(SubSeq(s, t + 1, Len(s)))
      PROVE  SubSeq(s, t + 1, Len(s))[k] = s[t + k]
  <2>1. k \in 1 .. Len(s) - (t + 1) + 1 /\ t + 1 + k - 1 = t + k
    BY <1>1, <1>3
  <2> QED
    BY <1>3, <2>1
<1> QED
  BY <1>1, <1>3, <1>4

LEMMA AvailableIs ==
  ASSUME Types, Buffers, NEW h, IsStream(h)
  PROVE  LET f == handle[h]
             c == Flushed(f)
             s == Available(f, c)
         IN  /\ s \in Seq(Byte) /\ f.pos + Len(s) <= MaxLength
             /\ ~CanRead(f) => s = <<>>
             /\ CanRead(f) =>
                  /\ Len(f.ahead) <= Len(s)
                  /\ Len(s) = IF f.pos + Len(f.ahead) <= Len(c)
                                THEN Len(c) - f.pos ELSE Len(f.ahead)
                  /\ \A k \in 1 .. Len(s) :
                       s[k] = IF k <= Len(f.ahead) THEN f.ahead[k] ELSE c[f.pos + k]
<1> DEFINE f == handle[h]
           c == Flushed(f)
           s == Available(f, c)
           m == Len(f.ahead)
           u == SubSeq(c, f.pos + m + 1, Len(c))
<1>1. /\ f.pos \in Nat /\ f.pos <= MaxLength /\ f.ahead \in Seq(Byte) /\ m \in Nat
      /\ f.pos + m <= MaxLength
  BY StreamIs, BuffersAre DEF Buffered
<1>2. c \in Seq(Byte) /\ Len(c) \in Nat /\ Len(c) <= MaxLength
  BY FlushedIs
<1>3. f.good \in BOOLEAN /\ f.closed \in BOOLEAN /\ f.in \in BOOLEAN
  BY StreamIs DEF StreamRec
<1> HIDE DEF f, c, m
<1>4. /\ u \in Seq(Byte)
      /\ Len(u) = IF f.pos + m <= Len(c) THEN Len(c) - (f.pos + m) ELSE 0
      /\ \A k \in 1 .. Len(u) : u[k] = c[f.pos + m + k]
  <2>1. f.pos + m \in Nat
    BY <1>1
  <2> QED
    BY <1>2, <2>1, RestIs
<1>5. CASE ~CanRead(f)
  <2>1. s = <<>>
    BY <1>3, <1>5 DEF CanRead, Available
  <2> QED
    BY <1>1, <1>5, <2>1, MaxLengthIsNat DEF f, c, m
<1>6. CASE CanRead(f)
  <2>1. s = f.ahead \o u
    BY <1>6 DEF CanRead, Available, m
  <2> HIDE DEF u
  <2>2. Len(u) \in Nat
    BY <1>4
  <2>3. /\ f.ahead \o u \in Seq(Byte) /\ Len(f.ahead \o u) = Len(f.ahead) + Len(u)
        /\ \A k \in 1 .. Len(f.ahead) + Len(u) :
             (f.ahead \o u)[k] = IF k <= Len(f.ahead) THEN f.ahead[k] ELSE u[k - Len(f.ahead)]
    BY <1>1, <1>4, ConcatProperties
  <2>4. s \in Seq(Byte) /\ Len(s) = m + Len(u)
    BY <2>1, <2>3 DEF m
  <2>5. \A k \in 1 .. m + Len(u) : s[k] = IF k <= m THEN f.ahead[k] ELSE u[k - m]
    BY <2>1, <2>3 DEF m
  <2> HIDE DEF s
  <2>6. /\ m <= Len(s) /\ f.pos + Len(s) <= MaxLength
        /\ Len(s) = IF f.pos + m <= Len(c) THEN Len(c) - f.pos ELSE m
    BY <1>1, <1>2, <1>4, <2>2, <2>4
  <2>7. ASSUME NEW k \in 1 .. Len(s)
        PROVE  s[k] = IF k <= m THEN f.ahead[k] ELSE c[f.pos + k]
    <3>1. CASE k <= m
      BY <1>1, <2>2, <2>4, <2>5, <3>1
    <3>2. CASE ~(k <= m)
      <4>1. k - m \in 1 .. Len(u) /\ f.pos + m + (k - m) = f.pos + k /\ k \in 1 .. m + Len(u)
        BY <1>1, <2>2, <2>4, <3>2
      <4>2. s[k] = u[k - m]
        BY <2>5, <3>2, <4>1
      <4>3. u[k - m] = c[f.pos + m + (k - m)]
        BY <1>4, <4>1
      <4> QED
        BY <3>2, <4>1, <4>2, <4>3
    <3> QED
      BY <3>1, <3>2
  <2> QED
    BY <1>6, <2>4, <2>6, <2>7 DEF f, c, m, s
<1> QED
  BY <1>5, <1>6 DEF f
(* A stream f after one format that took t bytes off s, f2: it has moved    *)
(* over them, and what it keeps ahead is a beginning of what is left, or    *)
(* what it kept before.                                                     *)
Advanced(f, f2, t, s) ==
  /\ f2 \in StreamRec /\ f2.path = f.path /\ f2.closed = f.closed
  /\ f2.pending = <<>> /\ f2.pos + Len(f2.ahead) <= MaxLength
  /\ ~f2.closed => (f2.good <=> ~f2.ended)
  /\ IF CanRead(f)
       THEN /\ f2.pos = f.pos + t
            /\ Len(f2.ahead) \in Nat /\ t + Len(f2.ahead) <= Len(s)
            /\ \A k \in 1 .. Len(f2.ahead) : f2.ahead[k] = s[t + k]
       ELSE f2.pos = f.pos /\ f2.ahead = f.ahead

LEMMA AdvanceIs ==
  ASSUME Types, Buffers, NEW h, IsStream(h), NEW r,
         Takes(r, Available(handle[h], Flushed(handle[h])))
  PROVE  LET f == handle[h]
             c == Flushed(f)
             s == Available(f, c)
         IN  Advanced(f, Advance(Synced(f), c, r), r.taken, s)
<1> DEFINE f == handle[h]
           c == Flushed(f)
           s == Available(f, c)
           t == r.taken
           m == Len(f.ahead)
           buffer == IF r.seen <= m THEN f.ahead ELSE s
           left == SubSeq(buffer, t + 1, Len(buffer))
           good2 == ~r.met_end
           ended2 == f.ended \/ r.met_end
           f2 == [f EXCEPT !.pending = <<>>, !.pos = f.pos + t, !.ahead = left,
                           !.good = good2, !.ended = ended2]
           f3 == [f EXCEPT !.pending = <<>>, !.good = FALSE, !.ended = TRUE]
<1>1. /\ f \in StreamRec /\ f.pos \in Nat /\ f.ahead \in Seq(Byte) /\ m \in Nat
      /\ Buffered(f) /\ f.pos + m <= MaxLength
  BY StreamIs, BuffersAre DEF Buffered
<1>2. /\ s \in Seq(Byte) /\ Len(s) \in Nat /\ f.pos + Len(s) <= MaxLength
      /\ CanRead(f) => /\ m <= Len(s)
                       /\ \A k \in 1 .. m : s[k] = f.ahead[k]
  <2>1. /\ s \in Seq(Byte) /\ f.pos + Len(s) <= MaxLength
        /\ CanRead(f) => /\ m <= Len(s)
                         /\ \A k \in 1 .. Len(s) :
                              s[k] = IF k <= m THEN f.ahead[k] ELSE c[f.pos + k]
    BY AvailableIs
  <2>2. Len(s) \in Nat
    BY <2>1
  <2>3. ASSUME CanRead(f), NEW k \in 1 .. m PROVE s[k] = f.ahead[k]
    <3>1. k \in 1 .. Len(s) /\ k <= m
      BY <1>1, <2>1, <2>2, <2>3
    <3> QED
      BY <2>1, <2>3, <3>1
  <2> QED
    BY <2>1, <2>2, <2>3
<1>3. t \in Nat /\ t <= Len(s) /\ r.seen \in Nat /\ t <= r.seen
  BY DEF Takes
<1>4. Advance(Synced(f), c, r) = IF CanRead(f) THEN f2 ELSE f3
  <2>1. Synced(f).ahead = f.ahead /\ Synced(f).pos = f.pos /\ Synced(f).good = f.good
        /\ Synced(f).closed = f.closed /\ Synced(f).in = f.in /\ Synced(f).ended = f.ended
    BY <1>1 DEF Synced, StreamRec
  <2>2. Available(Synced(f), c) = s /\ (CanRead(Synced(f)) <=> CanRead(f))
    BY <2>1 DEF Available, CanRead
  <2> HIDE DEF s, c
  <2>3. CASE CanRead(f)
    BY <1>1, <2>1, <2>2, <2>3 DEF Advance, Synced, StreamRec
  <2>4. CASE ~CanRead(f)
    BY <1>1, <2>1, <2>2, <2>4 DEF Advance, Synced, StreamRec
  <2> QED
    BY <2>3, <2>4
<1> HIDE DEF f, c, s, t, m
<1>5. CASE CanRead(f)
  <2>1. /\ left \in Seq(Byte) /\ Len(left) \in Nat /\ t + Len(left) <= Len(s)
        /\ \A k \in 1 .. Len(left) : left[k] = s[t + k]
    <3>1. CASE r.seen <= m
      <4>1. /\ left \in Seq(Byte) /\ Len(left) = IF t <= m THEN m - t ELSE 0
            /\ \A k \in 1 .. Len(left) : left[k] = f.ahead[t + k]
        BY <1>1, <1>3, <3>1, RestIs DEF m
      <4> HIDE DEF left
      <4>2. ASSUME NEW k \in 1 .. Len(left) PROVE left[k] = s[t + k]
        <5>1. t + k \in 1 .. m
          BY <1>1, <1>3, <3>1, <4>1
        <5> QED
          BY <1>2, <1>5, <4>1, <5>1
      <4> QED
        BY <1>1, <1>2, <1>3, <1>5, <3>1, <4>1, <4>2
    <3>2. CASE ~(r.seen <= m)
      <4>1. /\ left \in Seq(Byte) /\ Len(left) = IF t <= Len(s) THEN Len(s) - t ELSE 0
            /\ \A k \in 1 .. Len(left) : left[k] = s[t + k]
        BY <1>2, <1>3, <3>2, RestIs
      <4> HIDE DEF left
      <4> QED
        BY <1>2, <1>3, <4>1
    <3> QED
      BY <3>1, <3>2
  <2> HIDE DEF left
  <2>2. good2 \in BOOLEAN /\ ended2 \in BOOLEAN /\ (~f.closed => (good2 <=> ~ended2))
    BY <1>1, <1>5 DEF Buffered, CanRead
  <2> HIDE DEF good2, ended2
  <2>3. f.pos + t \in 0 .. MaxLength /\ f.pos + t + Len(left) <= MaxLength
    BY <1>1, <1>2, <1>3, <2>1, MaxLengthIsNat
  <2>4. /\ f2 \in StreamRec /\ f2.path = f.path /\ f2.closed = f.closed /\ f2.pending = <<>>
        /\ f2.pos = f.pos + t /\ f2.ahead = left /\ f2.good = good2 /\ f2.ended = ended2
    <3>1. <<>> \in Seq(Byte)
      OBVIOUS
    <3> QED
      BY <1>1, <2>1, <2>2, <2>3, <3>1 DEF StreamRec
  <2> HIDE DEF f2
  <2> QED
    BY <1>4, <1>5, <2>1, <2>2, <2>3, <2>4 DEF Advanced, f, c, s, t
<1>6. CASE ~CanRead(f)
  <2>1. /\ f3 \in StreamRec /\ f3.path = f.path /\ f3.closed = f.closed /\ f3.pending = <<>>
        /\ f3.pos = f.pos /\ f3.ahead = f.ahead /\ ~f3.good /\ f3.ended
    <3>1. <<>> \in Seq(Byte)
      OBVIOUS
    <3> QED
      BY <1>1, <3>1 DEF StreamRec
  <2> HIDE DEF f3
  <2> QED
    BY <1>1, <1>4, <1>6, <2>1 DEF Advanced, f, c, s, t, m
<1> QED
  BY <1>5, <1>6
(* When no other handle holds anything back, flushing this one stores all   *)
(* that has been written, and what it has to read is the rest of that.      *)
LEMMA AllStored ==
  ASSUME IInv, NEW h, IsStream(h), handle[h].path \notin mixed,
         ~ \E g \in Slot \ {h} : Waiting(g, handle[h].path)
  PROVE  said[handle[h].path] = Flushed(handle[h])
<1> DEFINE p == handle[h].path
<1>1. p \in Path \ mixed /\ h \in StreamsOn(p)
  BY StreamIs DEF IInv, IsStream, StreamsOn
<1>2. CASE handle[h].pending # <<>>
  BY <1>1, <1>2 DEF IInv, HeldBack
<1>3. CASE handle[h].pending = <<>>
  <2>1. Flushed(handle[h]) = disk[p]
    BY <1>3, FlushedIs DEF IInv
  <2>2. \A g \in StreamsOn(p) : handle[g].pending = <<>>
    BY <1>3 DEF Waiting, StreamsOn
  <2> QED
    BY <1>1, <2>1, <2>2 DEF IInv, WrittenIsStored
<1> QED
  BY <1>2, <1>3

LEMMA AvailableIsSaid ==
  ASSUME IInv, NEW h, IsStream(h), handle[h].path \notin mixed,
         CanRead(handle[h]),
         ~ \E g \in Slot \ {h} : Waiting(g, handle[h].path)
  PROVE  LET f == handle[h]
             w == said[f.path]
             s == Available(f, Flushed(f))
         IN  /\ w \in Seq(Byte) /\ Len(w) \in Nat /\ s \in Seq(Byte)
             /\ Len(s) = IF f.pos <= Len(w) THEN Len(w) - f.pos ELSE 0
             /\ \A k \in 1 .. Len(s) : s[k] = w[f.pos + k]
<1> DEFINE f == handle[h]
           w == said[f.path]
           s == Available(f, Flushed(f))
           m == Len(f.ahead)
<1>1. w = Flushed(f) /\ w \in Seq(Byte) /\ Len(w) \in Nat
  BY AllStored, FlushedIs DEF IInv
<1>2. f.pos \in Nat /\ m \in Nat /\ (m = 0 <=> f.ahead = <<>>)
  BY StreamIs DEF IInv
<1>3. /\ s \in Seq(Byte) /\ m <= Len(s)
      /\ Len(s) = IF f.pos + m <= Len(w) THEN Len(w) - f.pos ELSE m
      /\ \A k \in 1 .. Len(s) : s[k] = IF k <= m THEN f.ahead[k] ELSE w[f.pos + k]
  BY <1>1, AvailableIs DEF IInv
<1>4. f.ahead # <<>> =>
        /\ f.pos + m <= Len(w)
        /\ \A k \in 1 .. m : f.ahead[k] = w[f.pos + k]
  <2>1. f.path \in Path \ mixed /\ h \in StreamsOn(f.path)
    BY StreamIs DEF IInv, IsStream, StreamsOn
  <2> QED
    BY <2>1 DEF IInv, AheadFresh
<1> HIDE DEF f, w, s, m
<1>5. Len(s) = IF f.pos <= Len(w) THEN Len(w) - f.pos ELSE 0
  BY <1>1, <1>2, <1>3, <1>4
<1>6. ASSUME NEW k \in 1 .. Len(s) PROVE s[k] = w[f.pos + k]
  <2>1. CASE k <= m
    <3>1. k \in 1 .. m /\ f.ahead # <<>>
      BY <1>2, <2>1
    <3> QED
      BY <1>3, <1>4, <2>1, <3>1
  <2>2. CASE ~(k <= m)
    BY <1>3, <2>2
  <2> QED
    BY <2>1, <2>2
<1> QED
  BY <1>1, <1>3, <1>5, <1>6 DEF f, w, s

(* One format of a read, or a line of an iteration that goes on. *)
LEMMA ReadKeeps ==
  ASSUME IInv, NEW h, IsStream(h), NEW r,
         Takes(r, Available(handle[h], Flushed(handle[h]))),
         ReadInto(h, Advance(Synced(handle[h]), Flushed(handle[h]), r)),
         mixed' = AfterUse(h, Waiting), default' = default, said' = said,
         reading' = NoRead \/ (/\ reading' \in [by : Slot, fmts : Seq(Format)]
                               /\ reading'.fmts # <<>> /\ reading'.by = h)
  PROVE  IInv'
<1> DEFINE f == handle[h]
           c == Flushed(f)
           s == Available(f, c)
           f2 == Advance(Synced(f), c, r)
           f3 == IF CanRead(f) THEN f2 ELSE [f2 EXCEPT !.pending = f.pending]
<1>1. /\ Types /\ Buffers /\ f \in StreamRec /\ f.pos \in Nat /\ Buffered(f)
      /\ f.pending \in Seq(Byte)
  BY StreamIs, BuffersAre DEF IInv
<1>2. /\ s \in Seq(Byte) /\ Len(s) \in Nat /\ (~CanRead(f) => s = <<>>)
  <2>1. s \in Seq(Byte) /\ (~CanRead(f) => s = <<>>)
    BY <1>1, AvailableIs
  <2> QED
    BY <2>1
<1>3. r.taken \in Nat /\ r.taken <= Len(s)
  BY DEF Takes
<1>4. /\ f2 \in StreamRec /\ f2.path = f.path /\ f2.closed = f.closed
      /\ f2.pending = <<>> /\ f2.pos + Len(f2.ahead) <= MaxLength
      /\ ~f2.closed => (f2.good <=> ~f2.ended)
      /\ IF CanRead(f)
           THEN /\ f2.pos = f.pos + r.taken
                /\ Len(f2.ahead) \in Nat /\ r.taken + Len(f2.ahead) <= Len(s)
                /\ \A k \in 1 .. Len(f2.ahead) : f2.ahead[k] = s[r.taken + k]
           ELSE f2.pos = f.pos /\ f2.ahead = f.ahead
  <2>1. Advanced(f, f2, r.taken, s)
    BY <1>1, AdvanceIs
  <2> HIDE DEF f, c, s, f2
  <2> QED
    BY <2>1 DEF Advanced
<1>5. mixed' \in {mixed, mixed \cup {f.path}}
  BY DEF AfterUse
<1>6. f.path \notin mixed' => f.path \notin mixed /\ ~ \E g \in Slot \ {h} : Waiting(g, f.path)
  BY DEF AfterUse
<1>7. CASE CanRead(f)
  <2>1. FlushTo(h, f2)
    BY <1>7 DEF ReadInto
  <2>2. Stored(h, f2) /\ handle' = [handle EXCEPT ![h] = f2]
    BY <1>4, <2>1 DEF FlushTo, Stored
  <2> HIDE DEF f2, s, c
  <2>3. Buffered(f2)
    <3>1. Len(f2.pending) = 0 /\ f2.pos \in Nat
      BY <1>1, <1>3, <1>4, <1>7
    <3> QED
      BY <1>4, <1>7, <3>1 DEF Buffered, CanRead
  <2>4. ASSUME f.path \notin mixed' PROVE Fresh(f2)
    <3> DEFINE w == said[f.path]
    <3>1. /\ w \in Seq(Byte) /\ Len(w) \in Nat
          /\ Len(s) = IF f.pos <= Len(w) THEN Len(w) - f.pos ELSE 0
          /\ \A k \in 1 .. Len(s) : s[k] = w[f.pos + k]
      BY <1>6, <1>7, <2>4, AvailableIsSaid DEF s, c
    <3> HIDE DEF w
    <3>2. ASSUME f2.ahead # <<>> PROVE Len(f2.ahead) # 0
      BY <1>4, <1>7, <3>2 DEF StreamRec
    <3>3. ASSUME f2.ahead # <<>> PROVE f2.pos + Len(f2.ahead) <= Len(w)
      BY <1>1, <1>2, <1>3, <1>4, <1>7, <3>1, <3>2, <3>3
    <3>4. ASSUME NEW k \in 1 .. Len(f2.ahead) PROVE f2.ahead[k] = w[f2.pos + k]
      <4>1. r.taken + k \in 1 .. Len(s) /\ f.pos + (r.taken + k) = f2.pos + k
        BY <1>1, <1>2, <1>3, <1>4, <1>7
      <4> QED
        BY <1>4, <1>7, <3>1, <4>1
    <3> QED
      BY <1>4, <3>3, <3>4 DEF Fresh, w
  <2>5. f2 # Free
    BY <1>4, Kinds
  <2>6. OneChanges(h, f2)
    BY <1>4, <1>5, <2>2, <2>3, <2>4, <2>5 DEF OneChanges, DefaultKept, ReadingFits
  <2> QED
    BY <2>6, OneHandle
<1>8. CASE ~CanRead(f)
  <2>1. disk' = disk /\ handle' = [handle EXCEPT ![h] = f3]
    BY <1>8 DEF ReadInto
  <2> HIDE DEF s, c, f2
  <2>2. /\ f3 \in StreamRec /\ f3.path = f.path /\ f3.pos = f.pos /\ f3.ahead = f.ahead
        /\ f3.pending = f.pending /\ f3.closed = f.closed
        /\ ~f3.closed => (f3.good <=> ~f3.ended)
    BY <1>1, <1>4, <1>8 DEF StreamRec
  <2> HIDE DEF f3
  <2>3. Buffered(f3) /\ f3 # Free
    BY <1>1, <2>2, Kinds DEF Buffered
  <2>4. ASSUME f.path \notin mixed' PROVE Fresh(f3)
    <3>1. f.path \in Path \ mixed /\ h \in StreamsOn(f.path)
      BY <1>6, <2>4, StreamIs DEF IInv, IsStream, StreamsOn
    <3> QED
      BY <2>2, <3>1 DEF Fresh, IInv, AheadFresh
  <2>5. HeldStill(h, f3)
    BY <2>1, <2>2, <2>3 DEF HeldStill
  <2>6. OneChanges(h, f3)
    BY <1>5, <2>1, <2>2, <2>3, <2>4, <2>5 DEF OneChanges, DefaultKept, ReadingFits
  <2> QED
    BY <2>6, OneHandle
<1> QED
  BY <1>7, <1>8
-----------------------------------------------------------------------------
(* Calls that leave every stream and every file as they are. *)
LEMMA StreamsSame ==
  ASSUME IInv, Types',
         \A g \in Slot : (handle[g].kind = "stream" \/ handle'[g].kind = "stream")
                            => handle'[g] = handle[g],
         disk' = disk, said' = said, mixed' = mixed
  PROVE  IInv'
<1>1. \A q \in Path : StreamsOn(q)' = StreamsOn(q)
  BY DEF StreamsOn
<1>2. \A q \in Path : \A g \in StreamsOn(q) :
        /\ handle'[g] = handle[g] /\ handle[g].path = q
        /\ Flushed(handle[g])' = Flushed(handle[g])
  BY DEF StreamsOn, Flushed
<1>3. Buffers'
  BY DEF IInv, Buffers
<1>4. OneWriter' /\ HeldBack'
  BY <1>1, <1>2 DEF IInv, OneWriter, HeldBack
<1>5. WrittenIsStored'
  BY <1>1, <1>2 DEF IInv, WrittenIsStored
<1>6. AheadFresh'
  <2> SUFFICES ASSUME NEW q \in Path \ mixed, NEW g \in StreamsOn(q), handle[g].ahead # <<>>
               PROVE  /\ handle[g].pos + Len(handle[g].ahead) <= Len(said[q])
                      /\ \A k \in 1 .. Len(handle[g].ahead) :
                           handle[g].ahead[k] = said[q][handle[g].pos + k]
    BY <1>1, <1>2 DEF AheadFresh
  <2> QED
    BY DEF IInv, AheadFresh
<1> QED
  BY <1>3, <1>4, <1>5, <1>6 DEF IInv

(* A handle that is no stream is opened, closed or destroyed. *)
LEMMA OtherChanges ==
  ASSUME IInv, NEW h \in Slot, handle[h] = Free \/ handle[h] \in OtherRec,
         NEW g, g = Free \/ g \in OtherRec,
         handle' = [handle EXCEPT ![h] = g],
         g = Free => h # default.in /\ h # default.out,
         disk' = disk, default' = default, reading' = NoRead, said' = said, mixed' = mixed
  PROVE  IInv'
<1>1. Types
  BY DEF IInv
<1>2. DOMAIN handle = Std \cup Slot /\ h \notin Std
  BY <1>1, HandleTypes, SlotsAreNotStandard
<1>3. /\ DOMAIN handle' = Std \cup Slot
      /\ handle'[h] = g /\ \A k \in (Std \cup Slot) \ {h} : handle'[k] = handle[k]
  BY <1>2
<1>4. StdStaysOpen'
  BY <1>1, <1>2, <1>3, HandleTypes DEF StdStaysOpen
<1>5. \A k \in Slot : handle'[k] = Free \/ handle'[k] \in OtherRec \/ handle'[k] \in StreamRec
  BY <1>1, <1>3, HandleTypes
<1>6. Alive(default.in)' /\ Alive(default.out)'
  <2>1. /\ default \in [in : Std \cup Slot, out : Std \cup Slot]
        /\ Alive(default.in) /\ Alive(default.out)
    BY <1>1 DEF Types, TypeOK
  <2>2. g # Free => g.kind # "free"
    BY Kinds
  <2> QED
    BY <1>3, <2>1, <2>2 DEF Alive
<1>7. Types'
  BY <1>1, <1>3, <1>4, <1>5, <1>6 DEF Types, TypeOK, OtherRec, StreamRec
<1>8. \A k \in Slot : (handle[k].kind = "stream" \/ handle'[k].kind = "stream")
                         => handle'[k] = handle[k]
  BY <1>3, Kinds
<1> QED
  BY <1>7, <1>8, StreamsSame

(* io.input(f), io.output(f) *)
LEMMA SetDefaultKeeps ==
  ASSUME IInv, NEW h \in Std \cup Slot, NEW d \in {"in", "out"}, SetDefault(h, d),
         reading' = NoRead
  PROVE  IInv'
<1>1. /\ handle' = handle /\ disk' = disk /\ said' = said /\ mixed' = mixed
      /\ default' = [default EXCEPT ![d] = h] /\ Alive(h)
  BY DEF SetDefault
<1>2. /\ default' \in [in : Std \cup Slot, out : Std \cup Slot]
      /\ Alive(default.in)' /\ Alive(default.out)'
  BY <1>1 DEF IInv, Types, TypeOK, Alive
<1>3. Types'
  BY <1>1, <1>2 DEF IInv, Types, TypeOK, StdStaysOpen
<1> QED
  BY <1>1, <1>3, StreamsSame

(* A stream whose buffer is stored, with nothing read ahead or as much as   *)
(* before.                                                                  *)
LEMMA FlushKeeps ==
  ASSUME IInv, NEW h, IsStream(h), NEW f2, FlushTo(h, f2),
         f2 \in StreamRec, f2.path = handle[h].path, f2.pending = <<>>,
         f2.ahead = <<>> \/ (f2.ahead = handle[h].ahead /\ f2.pos = handle[h].pos),
         f2.closed => f2.ahead = <<>>, ~f2.closed => (f2.good <=> ~f2.ended),
         mixed' \in {mixed, mixed \cup {handle[h].path}},
         default' = default, said' = said, reading' = NoRead
  PROVE  IInv'
<1>1. f2.pos \in Nat /\ f2.pos <= MaxLength /\ Len(f2.pending) = 0 /\ f2 # Free
  BY Kinds, MaxLengthIsNat DEF StreamRec
<1>2. f2.pos + Len(f2.ahead) <= MaxLength
  <2>1. CASE f2.ahead = <<>>
    <3>1. Len(f2.ahead) = 0
      BY <2>1
    <3> QED
      BY <1>1, <3>1, MaxLengthIsNat
  <2>2. CASE f2.ahead = handle[h].ahead /\ f2.pos = handle[h].pos
    BY <2>2, BuffersAre DEF IInv, Buffered
  <2> QED
    BY <2>1, <2>2
<1>3. Buffered(f2)
  BY <1>1, <1>2 DEF Buffered
<1>4. ASSUME handle[h].path \notin mixed' PROVE Fresh(f2)
  <2> SUFFICES ASSUME f2.ahead # <<>> PROVE Fresh(f2)
    BY DEF Fresh
  <2>1. handle[h].path \in Path \ mixed /\ h \in StreamsOn(handle[h].path)
    BY <1>4, StreamIs DEF IInv, IsStream, StreamsOn
  <2>2. f2.ahead = handle[h].ahead /\ f2.pos = handle[h].pos
    OBVIOUS
  <2> QED
    BY <2>1, <2>2 DEF Fresh, IInv, AheadFresh
<1>5. OneChanges(h, f2)
  BY <1>1, <1>3, <1>4 DEF OneChanges, FlushTo, Stored, DefaultKept, ReadingFits
<1> QED
  BY <1>5, OneHandle
-----------------------------------------------------------------------------
(* Each call.  A turn of a read; *)
LEMMA ReadTurnKeeps ==
  ASSUME IInv, NEW h, IsStream(h), NEW fmts \in Seq(Format), fmts # <<>>, ReadTurn(h, fmts)
  PROVE  IInv'
<1> DEFINE f == handle[h]
           s == Available(f, Flushed(f))
           r == ReadFormat(Head(fmts), s)
<1>1. Head(fmts) \in Format /\ Tail(fmts) \in Seq(Format)
  OBVIOUS
<1>2. s \in Seq(Byte)
  BY AvailableIs DEF IInv
<1>3. Takes(r, s)
  <2> HIDE DEF s
  <2> QED
    BY <1>1, <1>2, FormatTakes
<1>4. /\ ReadInto(h, Advance(Synced(f), Flushed(f), r))
      /\ mixed' = AfterUse(h, Waiting) /\ default' = default /\ said' = said
      /\ reading' = IF r.nil \/ Tail(fmts) = <<>> THEN NoRead
                    ELSE [by |-> h, fmts |-> Tail(fmts)]
  BY DEF ReadTurn
<1> HIDE DEF f, s, r
<1>5. reading' = NoRead \/ (/\ reading' \in [by : Slot, fmts : Seq(Format)]
                            /\ reading'.fmts # <<>> /\ reading'.by = h)
  BY <1>1, <1>4 DEF IsStream
<1> QED
  BY <1>3, <1>4, <1>5, ReadKeeps DEF f, s

(* a line of an iteration, *)
LEMMA ClosedIs ==
  ASSUME NEW f \in StreamRec
  PROVE  LET f3 == [Synced(f) EXCEPT !.closed = TRUE, !.ahead = <<>>] IN
         /\ f3 \in StreamRec /\ f3.path = f.path /\ f3.pending = <<>> /\ f3.ahead = <<>>
         /\ f3.closed
<1>1. <<>> \in Seq(Byte)
  OBVIOUS
<1> QED
  BY <1>1 DEF Synced, StreamRec

LEMMA LinesNextKeeps ==
  ASSUME IInv, NEW h \in Slot, LinesNext(h), reading' = NoRead
  PROVE  IInv'
<1> DEFINE f == handle[h]
           c == Flushed(f)
           s == Available(f, c)
           r == ReadFormat("l", s)
           f2 == Advance(Synced(f), c, r)
           f3 == [Synced(f2) EXCEPT !.closed = TRUE, !.ahead = <<>>]
<1>1. IsStream(h)
  BY DEF LinesNext, IsStream
<1>2. Takes(r, s)
  <2>1. s \in Seq(Byte) /\ "l" \in Format
    BY <1>1, AvailableIs DEF IInv, Format
  <2> HIDE DEF s
  <2> QED
    BY <2>1, FormatTakes
<1>3. /\ IF r.nil /\ f.close_on_eof /\ ~f.closed THEN CloseStream(h, f2) ELSE ReadInto(h, f2)
      /\ mixed' = AfterUse(h, Waiting) /\ default' = default /\ said' = said
  BY DEF LinesNext
<1>4. CASE ReadInto(h, f2)
  <2> HIDE DEF r
  <2> QED
    BY <1>1, <1>2, <1>3, <1>4, ReadKeeps
<1>5. CASE CloseStream(h, f2)
  <2>1. Advanced(f, f2, r.taken, s)
    <3> HIDE DEF r
    <3> QED
      BY <1>1, <1>2, AdvanceIs DEF IInv
  <2>2. f2 \in StreamRec /\ f2.path = f.path
    <3> HIDE DEF f2, f, s, r
    <3> QED
      BY <2>1 DEF Advanced
  <2>3. FlushTo(h, f3)
    BY <1>5 DEF CloseStream
  <2> HIDE DEF f2
  <2>4. /\ f3 \in StreamRec /\ f3.path = f.path /\ f3.pending = <<>> /\ f3.ahead = <<>>
        /\ f3.closed
    BY <2>2, ClosedIs
  <2>5. mixed' \in {mixed, mixed \cup {f.path}}
    BY <1>3 DEF AfterUse
  <2> HIDE DEF f3, r
  <2> QED
    BY <1>1, <1>3, <2>3, <2>4, <2>5, FlushKeeps
<1> QED
  BY <1>3, <1>4, <1>5

(* close and the collector, *)
LEMMA CloseKeeps ==
  ASSUME IInv, NEW h \in Std \cup Slot, Close(h), reading' = NoRead
  PROVE  IInv'
<1> DEFINE f == handle[h]
           f3 == [Synced(f) EXCEPT !.closed = TRUE, !.ahead = <<>>]
<1>1. /\ Types /\ f.kind # "free" /\ CloseFile(h)
      /\ default' = default /\ said' = said /\ mixed' = mixed
  BY DEF Close, Alive, IInv
<1>2. CASE f.closed \/ f.kind = "std"
  <2>1. disk' = disk /\ handle' = handle
    <3>1. UNCHANGED <<disk, handle>>
      BY <1>1, <1>2, HandleTypes DEF CloseFile
    <3> QED
      BY <3>1
  <2>2. Types'
    BY <1>1, <2>1 DEF Types, TypeOK, StdStaysOpen, Alive
  <2> QED
    BY <1>1, <2>1, <2>2, StreamsSame
<1>3. CASE ~(f.closed \/ f.kind = "std") /\ f.kind = "stream"
  <2>1. FlushTo(h, f3)
    BY <1>1, <1>3 DEF CloseFile, CloseStream
  <2>2. IsStream(h)
    BY <1>1, <1>3, HandleTypes DEF IsStream
  <2>3. f \in StreamRec
    BY <1>1, <2>2, StreamIs
  <2>4. /\ f3 \in StreamRec /\ f3.path = f.path /\ f3.pending = <<>> /\ f3.ahead = <<>>
        /\ f3.closed
    BY <2>3, ClosedIs
  <2> HIDE DEF f3
  <2> QED
    BY <1>1, <2>1, <2>2, <2>4, FlushKeeps
<1>4. CASE ~(f.closed \/ f.kind = "std") /\ f.kind # "stream"
  <2>1. h \in Slot /\ f \in OtherRec
    BY <1>1, <1>4, HandleTypes, Kinds
  <2>2. handle' = [handle EXCEPT ![h].closed = TRUE] /\ disk' = disk
    BY <1>1, <1>4 DEF CloseFile
  <2>3. [f EXCEPT !.closed = TRUE] \in OtherRec /\ [f EXCEPT !.closed = TRUE] # Free
    <3>1. [f EXCEPT !.closed = TRUE] \in OtherRec
      BY <2>1 DEF OtherRec
    <3> QED
      BY <3>1, Kinds
  <2> DEFINE g == [f EXCEPT !.closed = TRUE]
  <2>4. handle' = [handle EXCEPT ![h] = g]
    BY <2>2
  <2> HIDE DEF g
  <2> QED
    BY <1>1, <2>1, <2>2, <2>3, <2>4, OtherChanges DEF g
<1> QED
  BY <1>2, <1>3, <1>4

LEMMA DropKeeps ==
  ASSUME IInv, NEW h \in Slot, Drop(h), reading' = NoRead
  PROVE  IInv'
<1>1. /\ Types /\ handle[h].kind # "free" /\ h # default.in /\ h # default.out
      /\ default' = default /\ said' = said /\ mixed' = mixed
  BY DEF Drop, Alive, IInv
<1>2. CASE handle[h].kind = "stream"
  <2>1. FlushTo(h, Free) /\ IsStream(h)
    BY <1>2 DEF Drop, IsStream
  <2>2. OneChanges(h, Free)
    BY <1>1, <2>1 DEF OneChanges, FlushTo, Stored, DefaultKept, ReadingFits
  <2> QED
    BY <2>1, <2>2, OneHandle
<1>3. CASE handle[h].kind # "stream"
  <2>1. handle' = [handle EXCEPT ![h] = Free] /\ disk' = disk
    BY <1>3 DEF Drop
  <2>2. handle[h] \in OtherRec
    BY <1>1, <1>3, HandleTypes, Kinds
  <2> QED
    BY <1>1, <2>1, <2>2, OtherChanges
<1> QED
  BY <1>2, <1>3

(* flush, *)
LEMMA FlushCallKeeps ==
  ASSUME IInv, NEW h \in Slot, Flush(h), reading' = NoRead, reading = NoRead
  PROVE  IInv'
<1> DEFINE f == handle[h]
           f2 == Synced(f)
<1>1. /\ Types /\ IsStream(h) /\ f \in StreamRec /\ Buffered(f) /\ ~f.closed
      /\ default' = default /\ said' = said /\ mixed' = mixed
  BY StreamIs, BuffersAre DEF Flush, IsOpen, IsStream, IInv
<1>2. CASE FlushTo(h, f2)
  <2>1. /\ f2 \in StreamRec /\ f2.path = f.path /\ f2.pending = <<>>
        /\ f2.ahead = f.ahead /\ f2.pos = f.pos /\ f2.closed = f.closed
        /\ f2.good = f.good /\ f2.ended = f.ended
    <3>1. <<>> \in Seq(Byte)
      OBVIOUS
    <3> QED
      BY <1>1, <3>1 DEF Synced, StreamRec
  <2> HIDE DEF f2
  <2>2. ~f2.closed => (f2.good <=> ~f2.ended)
    BY <1>1, <2>1 DEF Buffered
  <2> QED
    BY <1>1, <1>2, <2>1, <2>2, FlushKeeps
<1>3. CASE UNCHANGED <<disk, handle>>
  <2>1. Types'
    BY <1>1, <1>3 DEF Types, TypeOK, StdStaysOpen, Alive
  <2> QED
    BY <1>1, <1>3, <2>1, StreamsSame
<1> QED
  BY <1>2, <1>3 DEF Flush
(* seek: the buffer is left alone or stored, and the position moves only    *)
(* when nothing is kept ahead or held back. *)
Sought(f, g) ==
  /\ g.path = f.path /\ g.closed = f.closed
  /\ g.pending = f.pending \/ g.pending = <<>>
  /\ \/ g.pos = f.pos /\ g.ahead = f.ahead
     \/ g.ahead = <<>> /\ g.pending = <<>>

(* A stream, but for the bound on its position. *)
AnyPlace ==
  [kind : {"stream"}, closed : BOOLEAN, close_on_eof : BOOLEAN, path : Path,
   in : BOOLEAN, out : BOOLEAN, good : BOOLEAN, pos : Nat,
   ahead : Seq(Byte), pending : Seq(Byte), ended : BOOLEAN]

LEMMA Cleared ==
  ASSUME NEW f \in StreamRec
  PROVE  /\ [f EXCEPT !.good = TRUE] \in AnyPlace /\ f \in AnyPlace
         /\ Sought(f, [f EXCEPT !.good = TRUE])
<1>1. f.pos \in Nat
  BY MaxLengthIsNat DEF StreamRec
<1> QED
  BY <1>1 DEF StreamRec, AnyPlace, Sought

LEMMA SoughtOnce ==
  ASSUME NEW f \in AnyPlace, NEW c \in Seq(Byte), NEW whence \in {"set", "cur", "end"},
         NEW off \in Int
  PROVE  SeekOnce(f, c, whence, off) \in AnyPlace /\ Sought(f, SeekOnce(f, c, whence, off))
<1> DEFINE base == CASE whence = "set" -> 0 [] whence = "cur" -> f.pos [] whence = "end" -> Len(c)
           to == base + off
           g1 == [Synced(f) EXCEPT !.good = FALSE]
           g2 == [Synced(f) EXCEPT !.pos = to, !.ahead = <<>>]
           g == SeekOnce(f, c, whence, off)
<1>0. <<>> \in Seq(Byte) /\ Len(c) \in Nat /\ f.pos \in Nat
  BY DEF AnyPlace
<1>1. to \in Int
  <2>1. base \in Nat
    BY <1>0
  <2> QED
    BY <2>1
<1> HIDE DEF base, to
<1>2. g = f \/ g = g1 \/ (to >= 0 /\ g = g2)
  <2>1. g = IF ~f.good THEN f
            ELSE IF whence = "cur" /\ off = 0 /\ ~f.closed THEN f
            ELSE IF f.closed \/ to < 0 THEN g1 ELSE g2
    BY DEF SeekOnce, to, base
  <2> HIDE DEF g, g1, g2
  <2> QED
    BY <1>1, <2>1
<1>3. Sought(f, f)
  BY DEF Sought
<1>4. g1 \in AnyPlace /\ Sought(f, g1)
  BY <1>0 DEF AnyPlace, Sought, Synced
<1>5. ASSUME to >= 0 PROVE g2 \in AnyPlace /\ Sought(f, g2)
  <2>1. to \in Nat
    BY <1>1, <1>5
  <2> QED
    BY <1>0, <2>1 DEF AnyPlace, Sought, Synced
<1> HIDE DEF g, g1, g2
<1>6. g \in AnyPlace /\ Sought(f, g)
  BY <1>2, <1>3, <1>4, <1>5
<1> QED
  BY <1>6 DEF g

LEMMA SoughtTwice ==
  ASSUME NEW f \in AnyPlace, NEW g \in AnyPlace, NEW k \in AnyPlace, Sought(f, g), Sought(g, k)
  PROVE  Sought(f, k)
BY DEF Sought, AnyPlace

LEMMA SeekKeeps ==
  ASSUME IInv, NEW h \in Slot, NEW whence \in {"set", "cur", "end"}, NEW off \in Int,
         Seek(h, whence, off), reading' = NoRead
  PROVE  IInv'
<1> DEFINE f == handle[h]
           c == Flushed(f)
           f1 == [f EXCEPT !.good = TRUE]
           g == SeekOnce(f1, c, whence, off)
           f2 == SeekStream(f, c, whence, off)
           f3 == [f2 EXCEPT !.ended = ~f2.good]
<1>1. /\ Types /\ IsStream(h) /\ f \in StreamRec /\ Buffered(f) /\ f.pos \in Nat
      /\ f.path \in Path /\ h \in StreamsOn(f.path)
  BY StreamIs, BuffersAre DEF Seek, IsStream, IInv, StreamsOn
<1>2. c \in Seq(Byte)
  BY <1>1, FlushedIs DEF IInv
<1>3. f2.pos <= MaxLength /\ handle' = [handle EXCEPT ![h] = f3]
      /\ disk' = (IF f.pending # f2.pending THEN [disk EXCEPT ![f.path] = c] ELSE disk)
      /\ default' = default /\ said' = said /\ mixed' = mixed
  BY DEF Seek
<1>4. f1 \in AnyPlace /\ Sought(f, f1) /\ f \in AnyPlace
  BY <1>1, Cleared
<1> HIDE DEF f1, c
<1>5. g \in AnyPlace /\ Sought(f1, g)
  BY <1>2, <1>4, SoughtOnce
<1>6. f2 = SeekOnce(g, c, whence, off)
  BY DEF SeekStream, f1
<1> HIDE DEF g
<1>7. f2 \in AnyPlace /\ Sought(g, f2)
  BY <1>2, <1>5, <1>6, SoughtOnce
<1> HIDE DEF f2
<1>8. Sought(f, f2)
  BY <1>4, <1>5, <1>7, SoughtTwice
<1>9. /\ f3 \in StreamRec /\ f3.path = f.path /\ f3.pos = f2.pos /\ f3.ahead = f2.ahead
      /\ f3.pending = f2.pending /\ f3.closed = f.closed /\ (f3.good <=> ~f3.ended)
  <2>1. f2.pos \in 0 .. MaxLength
    BY <1>3, <1>7, MaxLengthIsNat DEF AnyPlace
  <2>2. f2.path = f.path /\ f2.closed = f.closed
    BY <1>1, <1>8 DEF Sought, StreamRec
  <2> QED
    BY <1>7, <2>1, <2>2 DEF AnyPlace, StreamRec
<1> HIDE DEF f3
<1>10. Buffered(f3)
  <2>1. f3.pos \in Nat /\ f3.pos <= MaxLength
    BY <1>9, MaxLengthIsNat DEF StreamRec
  <2>2. CASE f2.pos = f.pos /\ f2.ahead = f.ahead
    <3>1. Len(f3.pending) <= f3.pos /\ (f3.closed => f3.pending = <<>>)
      <4>1. CASE f3.pending = <<>>
        <5>1. Len(f3.pending) = 0
          BY <4>1
        <5> QED
          BY <2>1, <4>1, <5>1
      <4>2. CASE f3.pending = f.pending
        BY <1>1, <1>9, <2>2, <4>2 DEF Buffered
      <4> QED
        BY <1>8, <1>9, <4>1, <4>2 DEF Sought
    <3> QED
      BY <1>1, <1>9, <2>2, <3>1 DEF Buffered
  <2>3. CASE f2.ahead = <<>> /\ f2.pending = <<>>
    <3>1. Len(f3.ahead) = 0 /\ Len(f3.pending) = 0
      BY <1>9, <2>3
    <3> QED
      BY <1>9, <2>1, <2>3, <3>1 DEF Buffered
  <2> QED
    BY <1>8, <2>2, <2>3 DEF Sought
<1>11. f3 # Free
  BY <1>9, Kinds
<1>12. Stored(h, f3) \/ HeldStill(h, f3)
  <2>1. CASE f.pending # f2.pending
    <3>1. f2.pending = <<>>
      BY <1>8, <2>1 DEF Sought
    <3> QED
      BY <1>3, <1>9, <2>1, <3>1 DEF Stored, c
  <2>2. CASE f.pending = f2.pending
    <3>1. f2.pending # <<>> => f2.pos = f.pos
      BY <1>8 DEF Sought
    <3> QED
      BY <1>3, <1>9, <1>11, <2>2, <3>1 DEF HeldStill
  <2> QED
    BY <2>1, <2>2
<1>13. ASSUME f.path \notin mixed PROVE Fresh(f3)
  <2> SUFFICES ASSUME f3.ahead # <<>> PROVE Fresh(f3)
    BY DEF Fresh
  <2>1. f3.ahead = f.ahead /\ f3.pos = f.pos
    BY <1>8, <1>9 DEF Sought
  <2> QED
    BY <1>1, <1>9, <1>13, <2>1 DEF Fresh, IInv, AheadFresh
<1>14. OneChanges(h, f3)
  BY <1>3, <1>9, <1>10, <1>11, <1>12, <1>13 DEF OneChanges, DefaultKept, ReadingFits
<1> QED
  BY <1>1, <1>14, OneHandle
(* write, to a stream that refuses it, *)
LEMMA RefusedWriteKeeps ==
  ASSUME IInv, NEW h \in Slot, NEW data \in Chunk, Write(h, data), reading' = NoRead,
         ~(handle[h].good /\ handle[h].out /\ ~handle[h].closed)
  PROVE  IInv'
<1> DEFINE f == handle[h]
           ended2 == f.ended \/ ~f.out
           f2 == [f EXCEPT !.good = FALSE, !.ended = ended2]
<1>1. /\ Types /\ IsStream(h) /\ f \in StreamRec /\ Buffered(f)
      /\ f.path \in Path /\ h \in StreamsOn(f.path)
  BY StreamIs, BuffersAre DEF Write, IsStream, IInv, StreamsOn
<1>2. /\ handle' = [handle EXCEPT ![h] = f2] /\ disk' = disk /\ default' = default
      /\ mixed' = AfterUse(h, Busy)
      /\ said' = IF MayExpect(f) THEN [said EXCEPT ![f.path] = Overlay(@, f.pos, data)] ELSE said
  BY DEF Write, Written
<1>3. ~MayExpect(f)
  BY <1>1 DEF MayExpect, Buffered
<1>4. ended2 \in BOOLEAN /\ (~f.closed => ended2)
  BY <1>1 DEF Buffered
<1> HIDE DEF ended2
<1>5. /\ f2 \in StreamRec /\ f2.path = f.path /\ f2.closed = f.closed /\ f2.pos = f.pos
      /\ f2.ahead = f.ahead /\ f2.pending = f.pending /\ ~f2.good /\ f2.ended = ended2
  BY <1>1, <1>4 DEF StreamRec
<1> HIDE DEF f2
<1>6. Buffered(f2) /\ f2 # Free
  BY <1>1, <1>4, <1>5, Kinds DEF Buffered
<1>7. mixed' \in {mixed, mixed \cup {f.path}}
  BY <1>2 DEF AfterUse
<1>8. ASSUME f.path \notin mixed' PROVE Fresh(f2)
  <2>1. f.path \in Path \ mixed
    BY <1>1, <1>7, <1>8
  <2> QED
    BY <1>1, <1>5, <2>1 DEF Fresh, IInv, AheadFresh
<1>9. OneChanges(h, f2)
  BY <1>2, <1>3, <1>5, <1>6, <1>7, <1>8 DEF OneChanges, DefaultKept, ReadingFits, HeldStill
<1> QED
  BY <1>1, <1>9, OneHandle

(* and to one that takes it: what the disk lacks grows by the data. *)
LEMMA WriteKeeps ==
  ASSUME IInv, NEW h \in Slot, NEW data \in Chunk, Write(h, data), reading' = NoRead,
         handle[h].good /\ handle[h].out /\ ~handle[h].closed
  PROVE  IInv'
<1> DEFINE f == handle[h]
           p == f.path
           both == f.pending \o data
           at == f.pos - Len(f.pending)
           f2 == [f EXCEPT !.pending = both, !.pos = f.pos + Len(data), !.ahead = <<>>]
           w2 == Overlay(said[p], f.pos, data)
<1>1. /\ Types /\ Buffers /\ IsStream(h) /\ f \in StreamRec /\ Buffered(f) /\ f.pos \in Nat
      /\ p \in Path /\ f.pending \in Seq(Byte) /\ disk[p] # Missing /\ h \notin Std
  BY StreamIs, BuffersAre, SlotsAreNotStandard DEF Write, IsStream, IInv
<1>2. data \in Seq(Byte) /\ Len(data) \in Nat /\ Len(f.pending) \in Nat
  BY <1>1, ChunksAreBytes
<1>3. both \in Seq(Byte) /\ Len(both) = Len(f.pending) + Len(data)
  BY <1>1, <1>2, ConcatProperties
<1>4. at \in Nat /\ at + Len(f.pending) = f.pos
  BY <1>1, <1>2 DEF Buffered
<1>5. MayExpect(f)
  BY <1>1 DEF MayExpect, Buffered
<1>6. /\ handle' = [handle EXCEPT ![h] = f2] /\ disk' = disk /\ default' = default
      /\ said' = [said EXCEPT ![p] = w2] /\ mixed' = AfterUse(h, Busy)
      /\ f.pos + Len(data) <= MaxLength
  BY <1>5 DEF Write, Written
<1>7. /\ f2 \in StreamRec /\ f2.path = p /\ f2.closed = f.closed /\ f2.pos = f.pos + Len(data)
      /\ f2.pending = both /\ f2.ahead = <<>> /\ f2.good = f.good /\ f2.ended = f.ended
  <2>1. f.pos + Len(data) \in 0 .. MaxLength /\ <<>> \in Seq(Byte)
    BY <1>1, <1>2, <1>6, MaxLengthIsNat
  <2> HIDE DEF both
  <2> QED
    BY <1>1, <1>3, <2>1 DEF StreamRec
<1>8. w2 \in Content
  <2>1. said[p] \in Content
    BY <1>1, HandleTypes
  <2>2. CASE data = <<>>
    BY <2>1, <2>2, OverlayNothing
  <2>3. CASE data # <<>>
    <3>1. w2 \in Seq(Byte)
      BY <1>1, <1>2, <2>1, <2>3, OverlayIs
    <3> QED
      BY <3>1 DEF Content
  <2> QED
    BY <2>2, <2>3
<1> HIDE DEF f2, both, w2, at
<1>9. Buffered(f2) /\ f2 # Free /\ f2.kind = "stream"
  <2>1. Len(f2.pending) <= f2.pos /\ f2.pos + Len(f2.ahead) <= MaxLength
    <3>1. Len(f2.ahead) = 0 /\ Len(f2.pending) = Len(f.pending) + Len(data)
      BY <1>3, <1>7
    <3> QED
      BY <1>1, <1>2, <1>6, <1>7, <3>1 DEF Buffered
  <2> QED
    BY <1>1, <1>7, <2>1, Kinds DEF Buffered
<1>10. /\ DOMAIN handle' = Std \cup Slot /\ handle'[h] = f2
       /\ \A g \in (Std \cup Slot) \ {h} : handle'[g] = handle[g]
       /\ said' \in [Path -> Content] /\ disk \in [Path -> Content] /\ said'[p] = w2
       /\ \A q \in Path \ {p} : said'[q] = said[q]
  <2>1. DOMAIN handle = Std \cup Slot /\ said \in [Path -> Content] /\ disk \in [Path -> Content]
    BY <1>1, HandleTypes
  <2> QED
    BY <1>1, <1>6, <1>8, <2>1
<1>11. Types'
  <2>1. StdStaysOpen'
    BY <1>1, <1>10, HandleTypes DEF StdStaysOpen
  <2>2. \A g \in Slot : handle'[g] = Free \/ handle'[g] \in OtherRec \/ handle'[g] \in StreamRec
    BY <1>1, <1>7, <1>10, HandleTypes
  <2>3. Alive(default.in)' /\ Alive(default.out)'
    <3>1. /\ default \in [in : Std \cup Slot, out : Std \cup Slot]
          /\ Alive(default.in) /\ Alive(default.out)
      BY <1>1 DEF Types, TypeOK
    <3> QED
      BY <1>6, <1>9, <1>10, <3>1 DEF Alive
  <2>4. \A q \in Path : disk'[q] = Missing \/ (disk'[q] \in Seq(Byte) /\ Len(disk'[q]) <= MaxLength)
    BY <1>1, <1>6 DEF Types, TypeOK
  <2>5. default' \in [in : Std \cup Slot, out : Std \cup Slot]
    BY <1>1, <1>6 DEF Types, TypeOK
  <2> QED
    BY <1>6, <1>10, <2>1, <2>2, <2>3, <2>4, <2>5 DEF Types, TypeOK, OtherRec, StreamRec
<1>12. Buffers'
  <2> SUFFICES ASSUME NEW g \in Slot, handle'[g].kind = "stream"
               PROVE  Buffered(handle'[g]) /\ disk'[handle'[g].path] # Missing
    BY DEF Buffers, Buffered
  <2>1. CASE g = h
    BY <1>1, <1>6, <1>7, <1>9, <1>10, <2>1
  <2>2. CASE g # h
    <3>1. handle'[g] = handle[g] /\ IsStream(g)
      BY <1>10, <2>2 DEF IsStream
    <3> QED
      BY <1>1, <1>6, <3>1, BuffersAre
  <2> QED
    BY <2>1, <2>2
<1>13. \A q \in Path \ mixed' : q \in Path \ mixed
  BY <1>6 DEF AfterUse
<1>14. ASSUME NEW q \in Path
       PROVE  /\ StreamsOn(q)' = StreamsOn(q)
              /\ \A g \in StreamsOn(q) : g # h => handle'[g] = handle[g]
              /\ h \in StreamsOn(q) => q = p
  <2>1. \A g \in Slot : handle'[g].kind = "stream" /\ handle'[g].path = q
                        <=> handle[g].kind = "stream" /\ handle[g].path = q
    BY <1>1, <1>7, <1>9, <1>10 DEF IsStream
  <2>2. StreamsOn(q)' = StreamsOn(q)
    BY <2>1 DEF StreamsOn
  <2> QED
    BY <1>10, <2>2 DEF StreamsOn
<1>15. ASSUME p \notin mixed'
       PROVE  /\ w2 = Flushed(handle[h])'
              /\ \A g \in StreamsOn(p) \ {h} : handle[g].pending = <<>> /\ handle[g].ahead = <<>>
              /\ f2.pending = <<>> => w2 = disk[p]
  <2>1. p \notin mixed /\ ~ \E g \in Slot \ {h} : Busy(g, p)
    BY <1>6, <1>15 DEF AfterUse
  <2>2. \A g \in StreamsOn(p) \ {h} : handle[g].pending = <<>> /\ handle[g].ahead = <<>>
    BY <2>1 DEF Busy, Waiting, StreamsOn
  <2>3. said[p] = Overlay(disk[p], at, f.pending)
    <3>1. said[p] = Flushed(f)
      BY <1>1, <2>1, AllStored DEF Busy
    <3> QED
      BY <3>1 DEF Flushed, at
  <2>4. w2 = Overlay(disk[p], at, both)
    <3>1. disk[p] \in Content
      BY <1>1, <1>10
    <3>2. Overlay(Overlay(disk[p], at, f.pending), at + Len(f.pending), data)
            = Overlay(disk[p], at, f.pending \o data)
      BY <1>1, <1>2, <1>4, <3>1, OverlayTwice
    <3> QED
      BY <1>4, <2>3, <3>2 DEF w2, both
  <2>5. Flushed(handle[h])' = Overlay(disk[p], at, both)
    <3>1. f2.pos - Len(f2.pending) = at
      <4>1. f2.pos = f.pos + Len(data) /\ Len(f2.pending) = Len(f.pending) + Len(data)
        BY <1>3, <1>7
      <4>2. ASSUME NEW a \in Nat, NEW b \in Nat, NEW d \in Nat
            PROVE  (a + d) - (b + d) = a - b
        OBVIOUS
      <4> QED
        BY <1>1, <1>2, <4>1, <4>2 DEF at
    <3> QED
      BY <1>6, <1>7, <1>10, <3>1 DEF Flushed
  <2>6. f2.pending = <<>> => w2 = disk[p]
    BY <1>7, <2>4, OverlayNothing
  <2> QED
    BY <2>2, <2>4, <2>5, <2>6
<1>16. ASSUME NEW q \in Path \ mixed', q # p
       PROVE  /\ said'[q] = said[q]
              /\ \A g \in StreamsOn(q) : handle'[g] = handle[g] /\ Flushed(handle[g])' = Flushed(handle[g])
  BY <1>6, <1>10, <1>14, <1>16 DEF Flushed
<1>17. OneWriter'
  <2> SUFFICES ASSUME NEW q \in Path \ mixed', NEW g \in StreamsOn(q), NEW k \in StreamsOn(q),
                      handle'[g].pending # <<>>, handle'[k].pending # <<>>
               PROVE  g = k
    BY <1>14 DEF OneWriter
  <2>1. CASE q = p
    BY <1>14, <1>15, <2>1
  <2>2. CASE q # p
    BY <1>13, <1>16, <2>2 DEF IInv, OneWriter
  <2> QED
    BY <2>1, <2>2
<1>18. HeldBack'
  <2> SUFFICES ASSUME NEW q \in Path \ mixed', NEW g \in StreamsOn(q), handle'[g].pending # <<>>
               PROVE  said'[q] = Flushed(handle[g])'
    BY <1>14 DEF HeldBack
  <2>1. CASE q = p
    <3>1. g = h
      BY <1>14, <1>15, <2>1
    <3> QED
      BY <1>10, <1>15, <2>1, <3>1
  <2>2. CASE q # p
    BY <1>13, <1>16, <2>2 DEF IInv, HeldBack
  <2> QED
    BY <2>1, <2>2
<1>19. WrittenIsStored'
  <2> SUFFICES ASSUME NEW q \in Path \ mixed', \A g \in StreamsOn(q) : handle'[g].pending = <<>>
               PROVE  disk[q] = said'[q]
    BY <1>6, <1>14 DEF WrittenIsStored
  <2>1. CASE q = p
    <3>1. f2.pending = <<>>
      BY <1>1, <1>10, <2>1 DEF StreamsOn, IsStream
    <3> QED
      BY <1>10, <1>15, <2>1, <3>1
  <2>2. CASE q # p
    BY <1>13, <1>16, <2>2 DEF IInv, WrittenIsStored
  <2> QED
    BY <2>1, <2>2
<1>20. AheadFresh'
  <2> SUFFICES ASSUME NEW q \in Path \ mixed', NEW g \in StreamsOn(q), handle'[g].ahead # <<>>
               PROVE  /\ handle'[g].pos + Len(handle'[g].ahead) <= Len(said'[q])
                      /\ \A k \in 1 .. Len(handle'[g].ahead) :
                           handle'[g].ahead[k] = said'[q][handle'[g].pos + k]
    BY <1>14 DEF AheadFresh
  <2>1. CASE q = p
    BY <1>7, <1>10, <1>14, <1>15, <2>1
  <2>2. CASE q # p
    BY <1>13, <1>16, <2>2 DEF IInv, AheadFresh
  <2> QED
    BY <2>1, <2>2
<1> QED
  BY <1>11, <1>12, <1>17, <1>18, <1>19, <1>20 DEF IInv
(* Opening: the new stream holds nothing back and nothing ahead, and a file *)
(* it shares with another is truncated only where it no longer counts.      *)
LEMMA OpenKeeps ==
  ASSUME IInv, NEW h \in Slot, NEW p \in Path, NEW mode \in Mode, NEW own \in BOOLEAN,
         OpenFile(h, p, mode, own), reading' = NoRead,
         default' = default \/ default' = [default EXCEPT !["in"] = h]
           \/ default' = [default EXCEPT !["out"] = h]
  PROVE  IInv'
<1> DEFINE m == OpenMode(mode)
           c == IF m.trunc THEN <<>> ELSE disk[p]
           others == {g \in StreamsOn(p) : ~handle[g].closed}
           at == IF m.ate THEN Len(c) ELSE 0
           f2 == Stream(p, m, at, own)
<1>1. Types /\ Buffers /\ h \notin Std /\ handle[h] = Free
  BY SlotsAreNotStandard DEF IInv, OpenFile
<1>2. /\ handle' = [handle EXCEPT ![h] = f2] /\ disk' = [disk EXCEPT ![p] = c]
      /\ said' = [said EXCEPT ![p] = IF others = {} \/ m.trunc THEN c ELSE @]
      /\ mixed' = (IF others = {} THEN mixed \ {p}
                   ELSE IF m.trunc THEN mixed \cup {p} ELSE mixed)
      /\ m.trunc \/ disk[p] # Missing
  BY DEF OpenFile
<1>3. m.in \in BOOLEAN /\ m.out \in BOOLEAN
  BY DEF OpenMode, Mode
<1>4. c \in Seq(Byte) /\ c # Missing /\ Len(c) \in Nat /\ Len(c) <= MaxLength /\ c \in Content
  <2>1. Missing \notin Seq(Byte) /\ <<>> \in Seq(Byte) /\ Len(<<>>) = 0
    BY DEF Missing, Byte, Digit, Space, Sign
  <2>2. disk[p] # Missing => disk[p] \in Seq(Byte) /\ Len(disk[p]) <= MaxLength
    BY <1>1 DEF Types, TypeOK
  <2>3. c \in Seq(Byte) /\ Len(c) <= MaxLength
    BY <1>2, <2>1, <2>2, MaxLengthIsNat
  <2> HIDE DEF c
  <2> QED
    BY <2>1, <2>3 DEF Content
<1> HIDE DEF m, c
<1>5. at \in 0 .. MaxLength
  BY <1>4, MaxLengthIsNat
<1> HIDE DEF at
<1>6. /\ f2 \in StreamRec /\ f2.path = p /\ f2.pending = <<>> /\ f2.ahead = <<>>
      /\ ~f2.closed /\ f2.good /\ ~f2.ended /\ f2.pos = at /\ f2.kind = "stream"
  <2>1. <<>> \in Seq(Byte)
    OBVIOUS
  <2> QED
    BY <1>3, <1>5, <2>1 DEF Stream, StreamRec
<1> HIDE DEF f2
<1>7. Buffered(f2)
  <2>1. Len(f2.pending) = 0 /\ Len(f2.ahead) = 0 /\ f2.pos \in Nat /\ f2.pos <= MaxLength
    BY <1>5, <1>6, MaxLengthIsNat
  <2> QED
    BY <1>6, <2>1 DEF Buffered
<1>8. /\ DOMAIN handle' = Std \cup Slot /\ handle'[h] = f2
      /\ \A g \in (Std \cup Slot) \ {h} : handle'[g] = handle[g]
  <2>1. DOMAIN handle = Std \cup Slot
    BY <1>1, HandleTypes
  <2> QED
    BY <1>2, <2>1
<1>9. /\ disk' \in [Path -> Content] /\ said' \in [Path -> Content] /\ disk'[p] = c
      /\ \A q \in Path \ {p} : disk'[q] = disk[q] /\ said'[q] = said[q]
      /\ others = {} \/ m.trunc => said'[p] = c
      /\ ~(others = {} \/ m.trunc) => said'[p] = said[p] /\ c = disk[p]
  <2>1. disk \in [Path -> Content] /\ said \in [Path -> Content]
    BY <1>1, HandleTypes
  <2>2. ~m.trunc => c = disk[p]
    BY DEF c
  <2> HIDE DEF others
  <2> QED
    BY <1>2, <1>4, <2>1, <2>2
<1>10. Types'
  <2>1. StdStaysOpen'
    BY <1>1, <1>8, HandleTypes DEF StdStaysOpen
  <2>2. \A g \in Slot : handle'[g] = Free \/ handle'[g] \in OtherRec \/ handle'[g] \in StreamRec
    BY <1>1, <1>6, <1>8, HandleTypes
  <2>3. /\ default' \in [in : Std \cup Slot, out : Std \cup Slot]
        /\ Alive(default.in)' /\ Alive(default.out)'
    <3>1. /\ default \in [in : Std \cup Slot, out : Std \cup Slot]
          /\ Alive(default.in) /\ Alive(default.out)
      BY <1>1 DEF Types, TypeOK
    <3>2. default' \in [in : Std \cup Slot, out : Std \cup Slot]
      BY <3>1
    <3>3. default'.in \in {default.in, h} /\ default'.out \in {default.out, h}
      BY <3>1
    <3>4. f2.kind # "free"
      BY <1>6
    <3>5. \A g \in Std \cup Slot : handle[g].kind # "free" => handle'[g].kind # "free"
      BY <1>8, <3>4
    <3> QED
      BY <1>8, <3>1, <3>2, <3>3, <3>4, <3>5 DEF Alive
  <2>4. \A q \in Path : disk'[q] = Missing \/ (disk'[q] \in Seq(Byte) /\ Len(disk'[q]) <= MaxLength)
    BY <1>1, <1>4, <1>9 DEF Types, TypeOK
  <2> QED
    BY <1>8, <1>9, <2>1, <2>2, <2>3, <2>4 DEF Types, TypeOK, OtherRec, StreamRec
<1>11. Buffers'
  <2> SUFFICES ASSUME NEW g \in Slot, handle'[g].kind = "stream"
               PROVE  Buffered(handle'[g]) /\ disk'[handle'[g].path] # Missing
    BY DEF Buffers, Buffered
  <2>1. CASE g = h
    BY <1>4, <1>6, <1>7, <1>8, <1>9, <2>1
  <2>2. CASE g # h
    <3>1. handle'[g] = handle[g] /\ IsStream(g) /\ handle[g].path \in Path
      BY <1>1, <1>8, <2>2, StreamIs DEF IsStream
    <3> QED
      BY <1>1, <1>4, <1>9, <3>1, BuffersAre
  <2> QED
    BY <2>1, <2>2
<1>12. ASSUME NEW q \in Path
       PROVE  /\ \A g \in StreamsOn(q)' : g = h \/ (g \in StreamsOn(q) /\ handle'[g] = handle[g])
              /\ \A g \in StreamsOn(q) : g # h /\ g \in StreamsOn(q)' /\ handle'[g] = handle[g]
  <2>1. h \notin StreamsOn(q)
    BY <1>1, Kinds DEF StreamsOn
  <2> QED
    BY <1>8, <2>1 DEF StreamsOn
<1>13. ASSUME others = {}, NEW g \in StreamsOn(p)
       PROVE  handle'[g].pending = <<>> /\ handle'[g].ahead = <<>>
  <2>1. handle[g].closed /\ IsStream(g)
    BY <1>13 DEF IsStream, StreamsOn
  <2>2. handle[g].pending = <<>> /\ handle[g].ahead = <<>>
    BY <1>1, <2>1, BuffersAre DEF Buffered
  <2> QED
    BY <1>12, <2>2
<1> HIDE DEF others
(* A file that counts afterwards counted before, unless it has no other     *)
(* handle at work.                                                          *)
<1>14. ASSUME NEW q \in Path \ mixed'
       PROVE  \/ q = p /\ others = {} /\ said'[q] = disk'[q]
              \/ q \in Path \ mixed /\ said'[q] = said[q] /\ disk'[q] = disk[q]
  <2>1. CASE q # p
    BY <1>2, <1>9, <2>1
  <2>2. CASE q = p /\ others = {}
    BY <1>9, <2>2
  <2>3. CASE q = p /\ others # {}
    <3>1. ~m.trunc /\ q \notin mixed
      BY <1>2, <2>3
    <3> QED
      BY <1>9, <2>3, <3>1
  <2> QED
    BY <2>1, <2>2, <2>3
<1>15. ASSUME NEW q \in Path \ mixed', NEW g \in StreamsOn(q)',
              handle'[g].pending # <<>> \/ handle'[g].ahead # <<>>
       PROVE  /\ g \in StreamsOn(q) /\ handle'[g] = handle[g] /\ q \in Path \ mixed
              /\ said'[q] = said[q] /\ disk'[q] = disk[q]
  <2>1. g \in StreamsOn(q) /\ handle'[g] = handle[g]
    BY <1>6, <1>8, <1>12, <1>15
  <2> QED
    BY <1>13, <1>14, <1>15, <2>1
<1>16. OneWriter'
  <2> SUFFICES ASSUME NEW q \in Path \ mixed', NEW g \in StreamsOn(q)', NEW k \in StreamsOn(q)',
                      handle'[g].pending # <<>>, handle'[k].pending # <<>>
               PROVE  g = k
    BY DEF OneWriter
  <2> QED
    BY <1>15 DEF IInv, OneWriter
<1>17. HeldBack'
  <2> SUFFICES ASSUME NEW q \in Path \ mixed', NEW g \in StreamsOn(q)', handle'[g].pending # <<>>
               PROVE  said'[q] = Flushed(handle[g])'
    BY DEF HeldBack
  <2>1. /\ g \in StreamsOn(q) /\ handle'[g] = handle[g] /\ q \in Path \ mixed
        /\ said'[q] = said[q] /\ disk'[q] = disk[q] /\ handle[g].path = q
    BY <1>15 DEF StreamsOn
  <2>2. said[q] = Flushed(handle[g])
    BY <2>1 DEF IInv, HeldBack
  <2> QED
    BY <2>1, <2>2 DEF Flushed
<1>18. WrittenIsStored'
  <2> SUFFICES ASSUME NEW q \in Path \ mixed', \A g \in StreamsOn(q)' : handle'[g].pending = <<>>
               PROVE  disk'[q] = said'[q]
    BY DEF WrittenIsStored
  <2>1. CASE said'[q] = disk'[q]
    BY <2>1
  <2>2. CASE q \in Path \ mixed /\ said'[q] = said[q] /\ disk'[q] = disk[q]
    <3>1. \A g \in StreamsOn(q) : handle[g].pending = <<>>
      BY <1>12
    <3> QED
      BY <2>2, <3>1 DEF IInv, WrittenIsStored
  <2> QED
    BY <1>14, <2>1, <2>2
<1>19. AheadFresh'
  <2> SUFFICES ASSUME NEW q \in Path \ mixed', NEW g \in StreamsOn(q)', handle'[g].ahead # <<>>
               PROVE  /\ handle'[g].pos + Len(handle'[g].ahead) <= Len(said'[q])
                      /\ \A k \in 1 .. Len(handle'[g].ahead) :
                           handle'[g].ahead[k] = said'[q][handle'[g].pos + k]
    BY DEF AheadFresh
  <2> QED
    BY <1>15 DEF IInv, AheadFresh
<1> QED
  BY <1>10, <1>11, <1>16, <1>17, <1>18, <1>19 DEF IInv
-----------------------------------------------------------------------------
LEMMA Start ==
  ASSUME Init
  PROVE  IInv
<1>1. \A h \in Slot : handle[h] = Free
  BY SlotsAreNotStandard DEF Init
<1>2. \A h \in Std : handle[h].kind = "std" /\ ~handle[h].closed
  BY DEF Init, Other
<1>3. Types
  <2>1. /\ disk \in [Path -> Content] /\ said \in [Path -> Content]
        /\ \A p \in Path : disk[p] = Missing
        /\ DOMAIN handle = Std \cup Slot
    BY DEF Init, Content
  <2>2. default \in [in : Std \cup Slot, out : Std \cup Slot]
    BY DEF Init, Std
  <2>3. Alive(default.in) /\ Alive(default.out)
    BY <1>2 DEF Init, Alive, Std
  <2>4. reading = NoRead
    BY DEF Init
  <2> QED
    BY <1>1, <1>2, <2>1, <2>2, <2>3, <2>4 DEF Types, TypeOK, StdStaysOpen
<1>4. \A h \in Slot : handle[h].kind # "stream"
  BY <1>1, Kinds
<1>5. \A p \in Path : StreamsOn(p) = {}
  BY <1>4 DEF StreamsOn
<1>6. Buffers /\ OneWriter /\ HeldBack /\ AheadFresh
  BY <1>4, <1>5 DEF Buffers, OneWriter, HeldBack, AheadFresh
<1>7. WrittenIsStored
  BY DEF Init, WrittenIsStored
<1> QED
  BY <1>3, <1>6, <1>7 DEF IInv

LEMMA OperateKeeps ==
  ASSUME IInv, Operate, reading = NoRead, reading' = reading
  PROVE  IInv'
<1>0. reading' = NoRead
  OBVIOUS
<1>1. ASSUME NEW h \in Slot, NEW p \in Path, NEW m \in Mode, Open(h, p, m)
      PROVE  IInv'
  BY <1>0, <1>1, OpenKeeps DEF Open
<1>2. ASSUME NEW h \in Slot, NEW p \in Path, NEW d \in {"in", "out"}, OpenDefault(h, p, d)
      PROVE  IInv'
  <2> DEFINE mode == IF d = "in" THEN "r" ELSE "w"
  <2>1. /\ mode \in Mode /\ OpenFile(h, p, mode, FALSE)
        /\ default' = [default EXCEPT !["in"] = h] \/ default' = [default EXCEPT !["out"] = h]
    BY <1>2 DEF OpenDefault, Mode
  <2> HIDE DEF mode
  <2> QED
    BY <1>0, <2>1, OpenKeeps
<1>3. ASSUME NEW h \in Slot, NEW p \in Path, OpenLines(h, p)
      PROVE  IInv'
  <2>1. "r" \in Mode /\ OpenFile(h, p, "r", TRUE) /\ default' = default
    BY <1>3 DEF OpenLines, Mode
  <2> QED
    BY <1>0, <2>1, OpenKeeps
<1>4. ASSUME NEW h \in Slot, NEW k \in {"popen", "tmpfile"}, OpenOther(h, k)
      PROVE  IInv'
  <2>1. Other(k) \in OtherRec /\ Other(k) # Free
    <3>1. Other(k) \in OtherRec
      BY DEF Other, OtherRec
    <3> QED
      BY <3>1, Kinds
  <2>2. /\ handle[h] = Free /\ handle' = [handle EXCEPT ![h] = Other(k)]
        /\ disk' = disk /\ default' = default /\ said' = said /\ mixed' = mixed
    BY <1>4 DEF OpenOther
  <2> QED
    BY <1>0, <2>1, <2>2, OtherChanges
<1>5. ASSUME NEW h \in Std \cup Slot, Close(h)
      PROVE  IInv'
  BY <1>0, <1>5, CloseKeeps
<1>6. ASSUME NEW h \in Std \cup Slot, NEW d \in {"in", "out"}, SetDefault(h, d)
      PROVE  IInv'
  BY <1>0, <1>6, SetDefaultKeeps
<1>7. ASSUME NEW h \in Slot, Drop(h)
      PROVE  IInv'
  BY <1>0, <1>7, DropKeeps
<1>8. ASSUME NEW h \in Slot, LinesNext(h)
      PROVE  IInv'
  BY <1>0, <1>8, LinesNextKeeps
<1>9. ASSUME NEW h \in Slot, Flush(h)
      PROVE  IInv'
  BY <1>0, <1>9, FlushCallKeeps
<1>10. ASSUME NEW h \in Slot, NEW data \in Chunk, Write(h, data)
       PROVE  IInv'
  BY <1>0, <1>10, WriteKeeps, RefusedWriteKeeps
<1>11. ASSUME NEW h \in Slot, NEW s \in SeekArgs, Seek(h, s[1], s[2])
       PROVE  IInv'
  <2>1. s[1] \in {"set", "cur", "end"} /\ s[2] \in Int
    BY SeekArgsAreKnown
  <2> QED
    BY <1>0, <1>11, <2>1, SeekKeeps
<1> QED
  BY <1>1, <1>2, <1>3, <1>4, <1>5, <1>6, <1>7, <1>8, <1>9, <1>10, <1>11 DEF Operate

(* A turn of a read is a turn of a stream's. *)
LEMMA TurnOf ==
  ASSUME IInv, ReadOn \/ \E h \in Slot, fmts \in Formats : Read(h, fmts)
  PROVE  \E h \in Slot, fmts \in Seq(Format) :
           IsStream(h) /\ fmts # <<>> /\ ReadTurn(h, fmts)
<1>1. CASE ReadOn
  <2>1. /\ reading # NoRead /\ ReadTurn(reading.by, reading.fmts)
        /\ reading \in [by : Slot, fmts : Seq(Format)] /\ reading.fmts # <<>>
        /\ handle[reading.by].kind = "stream"
    BY <1>1 DEF ReadOn, IInv, Types, TypeOK
  <2>2. reading.by \in Slot /\ reading.fmts \in Seq(Format) /\ IsStream(reading.by)
    BY <2>1 DEF IsStream
  <2> QED
    BY <2>1, <2>2
<1>2. CASE \E h \in Slot, fmts \in Formats : Read(h, fmts)
  <2>1. PICK h \in Slot, fmts \in Formats : Read(h, fmts)
    BY <1>2
  <2>2. fmts \in Seq(Format) /\ fmts # <<>>
    BY FormatsAreKnown
  <2>3. IsStream(h) /\ ReadTurn(h, fmts)
    BY <2>1 DEF Read, IsStream
  <2> QED
    BY <2>2, <2>3
<1> QED
  BY <1>1, <1>2

LEMMA Step ==
  ASSUME IInv, [Next]_vars
  PROVE  IInv'
<1>1. CASE reading = NoRead /\ Operate /\ UNCHANGED reading
  BY <1>1, OperateKeeps
<1>2. CASE ReadOn \/ \E h \in Slot, fmts \in Formats : Read(h, fmts)
  <2>1. PICK h \in Slot, fmts \in Seq(Format) :
               IsStream(h) /\ fmts # <<>> /\ ReadTurn(h, fmts)
    BY <1>2, TurnOf
  <2> QED
    BY <2>1, ReadTurnKeeps
<1>3. CASE UNCHANGED vars
  <2>1. /\ disk' = disk /\ handle' = handle /\ default' = default /\ reading' = reading
        /\ said' = said /\ mixed' = mixed
    BY <1>3 DEF vars
  <2>2. Types'
    BY <2>1 DEF IInv, Types, TypeOK, StdStaysOpen, Alive
  <2> QED
    BY <2>1, <2>2, StreamsSame
<1> QED
  BY <1>1, <1>2, <1>3 DEF Next

(* The calls of iolib.cpp keep the invariant: what a stream holds back and  *)
(* what it has read ahead agree with its file and with what was written.    *)
THEOREM Invariance == Spec => []IInv
<1>1. Init => IInv
  BY Start
<1>2. IInv /\ [Next]_vars => IInv'
  BY Step
<1> QED
  BY <1>1, <1>2, PTL DEF Spec

(* Handles, files and the default files are of their types; a standard      *)
(* stream stays one and is never closed, though io.close without an         *)
(* argument closes the default output whatever it is.                       *)
THEOREM TypeCorrect == Spec => []TypeOK
<1>1. IInv => TypeOK
  BY DEF IInv, Types
<1> QED
  BY <1>1, Invariance, PTL

(* What a program has written is on disk once no handle holds any of it     *)
(* back, whatever was read, sought, closed and reopened between.            *)
THEOREM WritesStored == Spec => []WrittenIsStored
<1>1. IInv => WrittenIsStored
  BY DEF IInv
<1> QED
  BY <1>1, Invariance, PTL

LEMMA ReadsSaid ==
  ASSUME IInv
  PROVE  ReadsWhatWasWritten
<1> SUFFICES ASSUME NEW h \in Slot,
                    IsOpen(h) /\ handle[h].good /\ handle[h].in /\ handle[h].path \notin mixed,
                    ~ \E g \in StreamsOn(handle[h].path) \ {h} : handle[g].pending # <<>>
             PROVE  Available(handle[h], Flushed(handle[h]))
                      = SubSeq(said[handle[h].path], handle[h].pos + 1, Len(said[handle[h].path]))
  BY DEF ReadsWhatWasWritten
<1> DEFINE f == handle[h]
           w == said[f.path]
           s == Available(f, Flushed(f))
           u == SubSeq(w, f.pos + 1, Len(w))
<1>1. IsStream(h) /\ CanRead(f)
  BY DEF IsOpen, IsStream, CanRead
<1>2. ~ \E g \in Slot \ {h} : Waiting(g, f.path)
  BY DEF Waiting
<1>3. /\ w \in Seq(Byte) /\ Len(w) \in Nat /\ s \in Seq(Byte)
      /\ Len(s) = IF f.pos <= Len(w) THEN Len(w) - f.pos ELSE 0
      /\ \A k \in 1 .. Len(s) : s[k] = w[f.pos + k]
  BY <1>1, <1>2, AvailableIsSaid
<1>4. f.pos \in Nat
  BY <1>1, StreamIs DEF IInv
<1> HIDE DEF f, w, s
<1>5. /\ u \in Seq(Byte) /\ Len(u) = IF f.pos <= Len(w) THEN Len(w) - f.pos ELSE 0
      /\ \A k \in 1 .. Len(u) : u[k] = w[f.pos + k]
  BY <1>3, <1>4, RestIs
<1> HIDE DEF u
<1>6. s = u
  BY <1>3, <1>5, SameBytes
<1> QED
  BY <1>6 DEF s, u, w, f

(* A handle reads what was last written where it stands, by itself too,     *)
(* however reads, writes and seeks are mixed and handles take turns, on     *)
(* files that none has used while another held bytes back or, to write,     *)
(* while another had read ahead: be it only a byte that read("n") peeked at.*)
THEOREM ReadsBack == Spec => []ReadsWhatWasWritten
<1>1. IInv => ReadsWhatWasWritten
  BY ReadsSaid
<1> QED
  BY <1>1, Invariance, PTL
-----------------------------------------------------------------------------
(* A closed handle. *)
Inert(h) ==
  /\ handle'[h] = Free \/ handle'[h].closed
  /\ handle'[h] # handle[h] => disk' = disk

LEMMA OtherHandle ==
  ASSUME Types, NEW h \in Slot, handle[h].closed, NEW g, g # h, NEW f2,
         handle' = [handle EXCEPT ![g] = f2]
  PROVE  Inert(h)
<1>1. handle'[h] = handle[h]
  BY HandleTypes
<1> QED
  BY <1>1 DEF Inert

LEMMA ClosedReads ==
  ASSUME IInv, NEW h, IsStream(h), handle[h].closed, NEW r,
         Takes(r, Available(handle[h], Flushed(handle[h]))),
         ReadInto(h, Advance(Synced(handle[h]), Flushed(handle[h]), r))
  PROVE  Inert(h)
<1> DEFINE f == handle[h]
           s == Available(f, Flushed(f))
           f2 == Advance(Synced(f), Flushed(f), r)
           f3 == [f2 EXCEPT !.pending = f.pending]
<1>1. Advanced(f, f2, r.taken, s)
  BY AdvanceIs DEF IInv
<1>2. f2 \in StreamRec /\ f2.closed
  <2> HIDE DEF f2, s
  <2> QED
    BY <1>1 DEF Advanced
<1>3. disk' = disk /\ handle' = [handle EXCEPT ![h] = f3]
  BY DEF ReadInto, CanRead
<1> HIDE DEF f2
<1>4. f3.closed
  BY <1>2 DEF StreamRec
<1>5. handle'[h] = f3
  BY <1>3, HandleTypes DEF IInv, IsStream
<1> QED
  BY <1>3, <1>4, <1>5 DEF Inert

LEMMA ClosedCalls ==
  ASSUME IInv, NEW h \in Slot, handle[h].kind = "stream", handle[h].closed, Next
  PROVE  Inert(h)
<1> DEFINE f == handle[h]
<1>1. /\ Types /\ Buffers /\ IsStream(h) /\ f \in StreamRec /\ f.pending = <<>> /\ f # Free
      /\ DOMAIN handle = Std \cup Slot /\ h \notin Std
  BY StreamIs, BuffersAre, HandleTypes, Kinds, SlotsAreNotStandard DEF IInv, IsStream, Buffered
<1>2. handle' = handle => Inert(h)
  BY DEF Inert
<1>3. Flushed(f) = disk[f.path]
  BY <1>1, FlushedIs
<1>4. [disk EXCEPT ![f.path] = Flushed(f)] = disk
  BY <1>1, <1>3, HandleTypes
<1>5. ASSUME NEW g \in Slot, NEW p \in Path, NEW m, NEW own, OpenFile(g, p, m, own)
      PROVE  Inert(h)
  <2>1. g # h
    BY <1>1, <1>5 DEF OpenFile
  <2>2. PICK f2 : handle' = [handle EXCEPT ![g] = f2]
    BY <1>5 DEF OpenFile
  <2> QED
    BY <1>1, <2>1, <2>2, OtherHandle
<1>6. ASSUME NEW g \in Slot, NEW k, OpenOther(g, k)
      PROVE  Inert(h)
  <2>1. g # h
    BY <1>1, <1>6 DEF OpenOther
  <2> QED
    BY <1>1, <1>6, <2>1, OtherHandle DEF OpenOther
<1>7. ASSUME NEW g \in Std \cup Slot, Close(g)
      PROVE  Inert(h)
  <2>1. CASE g = h
    BY <1>2, <1>7, <2>1 DEF Close, CloseFile
  <2>2. CASE g # h
    <3>1. handle' = handle \/ \E f2 : handle' = [handle EXCEPT ![g] = f2]
      BY <1>7 DEF Close, CloseFile, CloseStream, FlushTo
    <3> QED
      BY <1>1, <1>2, <2>2, <3>1, OtherHandle
  <2> QED
    BY <2>1, <2>2
<1>8. ASSUME NEW g, NEW d, SetDefault(g, d)
      PROVE  Inert(h)
  BY <1>2, <1>8 DEF SetDefault
<1>9. ASSUME NEW g \in Slot, Drop(g)
      PROVE  Inert(h)
  <2>1. CASE g = h
    <3>1. handle' = [handle EXCEPT ![h] = Free] /\ disk' = disk
      BY <1>4, <1>9, <2>1 DEF Drop, FlushTo
    <3> QED
      BY <1>1, <3>1 DEF Inert
  <2>2. CASE g # h
    <3>1. handle' = [handle EXCEPT ![g] = Free]
      BY <1>9 DEF Drop, FlushTo
    <3> QED
      BY <1>1, <2>2, <3>1, OtherHandle
  <2> QED
    BY <2>1, <2>2
<1>10. ASSUME NEW g \in Slot, NEW f2, ReadInto(g, f2), g # h
       PROVE  Inert(h)
  <2>1. \E f3 : handle' = [handle EXCEPT ![g] = f3]
    BY <1>10 DEF ReadInto, FlushTo
  <2> QED
    BY <1>1, <1>10, <2>1, OtherHandle
<1>11. ASSUME NEW g \in Slot, LinesNext(g)
       PROVE  Inert(h)
  <2> DEFINE s == Available(handle[g], Flushed(handle[g]))
             r == ReadFormat("l", s)
             f2 == Advance(Synced(handle[g]), Flushed(handle[g]), r)
  <2>1. IF r.nil /\ handle[g].close_on_eof /\ ~handle[g].closed
          THEN CloseStream(g, f2) ELSE ReadInto(g, f2)
    BY <1>11 DEF LinesNext
  <2>2. CASE g = h
    <3>1. Takes(r, s)
      <4>1. s \in Seq(Byte) /\ "l" \in Format
        BY <1>1, <2>2, AvailableIs DEF Format
      <4> HIDE DEF s
      <4> QED
        BY <4>1, FormatTakes
    <3> HIDE DEF r
    <3>2. ReadInto(g, f2)
      BY <2>1, <2>2
    <3> QED
      BY <1>1, <2>2, <3>1, <3>2, ClosedReads
  <2>3. CASE g # h
    <3> HIDE DEF r, f2
    <3>1. CASE ReadInto(g, f2)
      BY <1>10, <2>3, <3>1
    <3>2. CASE CloseStream(g, f2)
      <4>1. \E f3 : handle' = [handle EXCEPT ![g] = f3]
        BY <3>2 DEF CloseStream, FlushTo
      <4> QED
        BY <1>1, <2>3, <4>1, OtherHandle
    <3> QED
      BY <2>1, <3>1, <3>2
  <2> QED
    BY <2>2, <2>3
<1>12. ASSUME NEW g \in Slot, Flush(g)
       PROVE  Inert(h)
  <2>1. g # h
    BY <1>12 DEF Flush, IsOpen
  <2>2. handle' = handle \/ \E f2 : handle' = [handle EXCEPT ![g] = f2]
    BY <1>12 DEF Flush, FlushTo
  <2> QED
    BY <1>1, <1>2, <2>1, <2>2, OtherHandle
<1>13. ASSUME NEW g \in Slot, NEW data \in Chunk, Write(g, data)
       PROVE  Inert(h)
  <2>1. handle' = [handle EXCEPT ![g] = Written(handle[g], data)] /\ disk' = disk
    BY <1>13 DEF Write
  <2>2. CASE g = h
    <3>1. Written(f, data).closed
      BY <1>1 DEF Written, StreamRec
    <3>2. handle'[h] = Written(f, data)
      BY <1>1, <2>1, <2>2
    <3> QED
      BY <2>1, <3>1, <3>2 DEF Inert
  <2>3. CASE g # h
    BY <1>1, <2>1, <2>3, OtherHandle
  <2> QED
    BY <2>2, <2>3
<1>14. ASSUME NEW g \in Slot, NEW whence \in {"set", "cur", "end"}, NEW off \in Int,
              Seek(g, whence, off)
       PROVE  Inert(h)
  <2> DEFINE c == Flushed(handle[g])
             f2 == SeekStream(handle[g], c, whence, off)
             f3 == [f2 EXCEPT !.ended = ~f2.good]
  <2>1. /\ handle' = [handle EXCEPT ![g] = f3]
        /\ disk' = IF handle[g].pending # f2.pending
                     THEN [disk EXCEPT ![handle[g].path] = c] ELSE disk
    BY <1>14 DEF Seek
  <2>2. CASE g = h
    <3>1. disk' = disk
      BY <1>4, <2>1, <2>2
    <3>2. f2 \in AnyPlace /\ f2.closed
      <4> DEFINE f1 == [f EXCEPT !.good = TRUE]
                 k == SeekOnce(f1, c, whence, off)
      <4>1. f1 \in AnyPlace /\ f1.closed
        <5>1. f1 \in AnyPlace
          BY <1>1, Cleared
        <5>2. f1.closed = f.closed
          BY <1>1 DEF StreamRec
        <5> HIDE DEF f1
        <5> QED
          BY <5>1, <5>2
      <4>2. c \in Seq(Byte)
        BY <1>1, <2>2, FlushedIs
      <4> HIDE DEF f1, c
      <4>3. k \in AnyPlace /\ k.closed
        BY <4>1, <4>2, SoughtOnce DEF Sought
      <4>4. f2 = SeekOnce(k, c, whence, off)
        BY <2>2 DEF SeekStream, f1
      <4> HIDE DEF k, f2
      <4>5. f2 \in AnyPlace /\ Sought(k, f2)
        BY <4>2, <4>3, <4>4, SoughtOnce
      <4> QED
        BY <4>3, <4>5 DEF Sought
    <3> HIDE DEF f2
    <3>3. f3.closed
      BY <3>2 DEF AnyPlace
    <3>4. handle'[h] = f3
      BY <1>1, <2>1, <2>2
    <3> QED
      BY <3>1, <3>3, <3>4 DEF Inert
  <2>3. CASE g # h
    <3> HIDE DEF f3
    <3> QED
      BY <1>1, <2>1, <2>3, OtherHandle
  <2> QED
    BY <2>2, <2>3
<1>15. ASSUME NEW g \in Slot, NEW fmts \in Seq(Format), IsStream(g), fmts # <<>>,
              ReadTurn(g, fmts)
       PROVE  Inert(h)
  <2> DEFINE s == Available(handle[g], Flushed(handle[g]))
             r == ReadFormat(Head(fmts), s)
             f2 == Advance(Synced(handle[g]), Flushed(handle[g]), r)
  <2>1. ReadInto(g, f2)
    BY <1>15 DEF ReadTurn
  <2>2. CASE g = h
    <3>1. Takes(r, s)
      <4>1. s \in Seq(Byte) /\ Head(fmts) \in Format
        BY <1>1, <1>15, <2>2, AvailableIs
      <4> HIDE DEF s
      <4> QED
        BY <4>1, FormatTakes
    <3> HIDE DEF r
    <3> QED
      BY <1>1, <2>1, <2>2, <3>1, ClosedReads
  <2>3. CASE g # h
    <3> HIDE DEF f2
    <3> QED
      BY <1>10, <2>1, <2>3
  <2> QED
    BY <2>2, <2>3
<1>16. CASE Operate
  <2>1. ASSUME NEW g \in Slot, NEW s \in SeekArgs, Seek(g, s[1], s[2])
        PROVE  Inert(h)
    <3>1. s[1] \in {"set", "cur", "end"} /\ s[2] \in Int
      BY SeekArgsAreKnown
    <3> QED
      BY <1>14, <2>1, <3>1
  <2>2. ASSUME NEW g \in Slot, NEW p \in Path,
               (\E m \in Mode : Open(g, p, m)) \/ (\E d \in {"in", "out"} : OpenDefault(g, p, d))
                 \/ OpenLines(g, p)
        PROVE  Inert(h)
    BY <1>5, <2>2 DEF Open, OpenDefault, OpenLines
  <2> QED
    BY <1>6, <1>7, <1>8, <1>9, <1>11, <1>12, <1>13, <1>16, <2>1, <2>2 DEF Operate
<1>17. CASE ReadOn \/ \E g \in Slot, fmts \in Formats : Read(g, fmts)
  <2>1. PICK g \in Slot, fmts \in Seq(Format) :
               IsStream(g) /\ fmts # <<>> /\ ReadTurn(g, fmts)
    BY <1>17, TurnOf
  <2> QED
    BY <1>15, <2>1
<1> QED
  BY <1>16, <1>17 DEF Next

(* A closed handle stays closed, holds nothing back, and no call on it      *)
(* touches a file, although the calls do not check whether it is closed.    *)
THEOREM ClosedStaysInert == Spec => ClosedIsInert
<1> DEFINE A == \A h \in Slot : handle[h].kind = "stream" /\ handle[h].closed =>
                  /\ handle[h].pending = <<>>
                  /\ handle'[h] = Free \/ handle'[h].closed
                  /\ handle'[h] # handle[h] => disk' = disk
<1>1. IInv /\ [Next]_vars => [A]_vars
  <2> SUFFICES ASSUME IInv, Next, NEW h \in Slot, handle[h].kind = "stream", handle[h].closed
               PROVE  handle[h].pending = <<>> /\ Inert(h)
    BY DEF Inert
  <2>1. handle[h].pending = <<>>
    BY DEF IInv, Buffers
  <2> QED
    BY <2>1, ClosedCalls
<1>2. Spec => []IInv
  BY Invariance
<1>3. Spec => [][A]_vars
  BY <1>1, <1>2, PTL DEF Spec
<1> QED
  BY <1>3 DEF ClosedIsInert
=============================================================================
