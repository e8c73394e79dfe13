------------------------------ MODULE TabRange ------------------------------
(***************************************************************************)
(* The functions of src/lua/tablib.cpp that loop over a range of integer   *)
(* keys: insert, remove, move and unpack, on machine integers from -MaxI-1 *)
(* to MaxI.  A behaviour is one call, one action per turn of its loop.  A  *)
(* signed operation that overflows is undefined: the model ends there.     *)
(* Tables have no __index or __newindex here, so that meta_get and         *)
(* meta_set of move are reads and writes of the table itself.              *)
(***************************************************************************)
EXTENDS Integers, Sequences, FiniteSets

CONSTANTS
  MaxI,       \* the last integer: 2^63 - 1 in the code
  MaxUnpack,  \* 8000 in the code
  Present,    \* sets of keys the table may hold
  Calls,      \* the calls to make, by function and integer arguments
  Lens,       \* what __len may answer
  Absent,
  New         \* the value to insert

MinI == -MaxI - 1
Int64 == MinI .. MaxI
Word == 2 * (MaxI + 1)   \* how many integers there are

ASSUME RangeAssumption ==
  /\ MaxI \in Nat \ {0} /\ MaxUnpack \in 0 .. MaxI
  /\ Present \subseteq SUBSET Int64
  /\ \A p \in Present : ~(1 .. MaxI \subseteq p)   \* no table is that long
  /\ Calls \subseteq [fn : {"append", "insert", "remove", "remove_last"}, pos : Int64]
              \cup [fn : {"move", "copy"}, f : Int64, e : Int64, tt : Int64]
              \cup [fn : {"unpack"}, i : Int64, j : Int64]
  /\ Lens \subseteq Int64
  /\ Absent \notin Int64 \cup {New} /\ New \notin Int64

VARIABLES
  call,   \* the call being made
  orig,   \* history: the table before
  t,      \* the table
  dest,   \* the destination of a copy into another table
  length, \* the length insert and remove work with
  pos,    \* the position they work at, once it is known
  k,      \* the loop variable; unsigned in unpack
  out,    \* the results of unpack and remove
  status  \* "start", "loop", "done", "error" or "undefined"

rangeVars == <<call, orig, t, dest, length, pos, k, out, status>>

Unsigned(x) == x % Word
Signed(u) == IF u > MaxI THEN u - Word ELSE u

(* table_border: the longest prefix 1 .. n of present keys. *)
Border(tab) ==
  CHOOSE b \in 0 .. MaxI - 1 : (\A m \in 1 .. b : tab[m] # Absent) /\ tab[b + 1] = Absent

Empty == [x \in Int64 |-> Absent]

(* A key holds itself: the loops never look at the values. *)
RangeInit ==
  /\ call \in Calls
  /\ \E p \in Present : orig = [x \in Int64 |-> IF x \in p THEN x ELSE Absent]
  /\ t = orig /\ dest = Empty
  /\ length \in IF call.fn \in {"move", "copy", "unpack"} THEN {0} ELSE {Border(orig)} \cup Lens
  /\ pos = 0 /\ k = 0 /\ out = <<>>
  /\ status = "start"

Is(fns) == call.fn \in fns

End(how) == status' = how /\ UNCHANGED <<call, orig, t, dest, length, pos, k, out>>

-----------------------------------------------------------------------------
(* table.insert(t, v) and table.insert(t, pos, v). *)
OpenGap(p) ==
  /\ pos' = p /\ k' = length
  /\ status' = "loop"
  /\ UNCHANGED <<call, orig, t, dest, length, out>>

BeginInsert ==
  /\ status = "start" /\ Is({"append", "insert"})
  /\ IF Is({"insert"}) /\ call.pos < 1 THEN End("error")
     ELSE IF length + 1 \notin Int64 THEN End("undefined")
     ELSE IF Is({"append"}) THEN OpenGap(length + 1)
     ELSE IF call.pos > length + 1 THEN End("error")
     ELSE OpenGap(call.pos)

ShiftMore == k >= pos

(* t[i + 1] = t[i], downwards. *)
ShiftUp ==
  /\ status = "loop" /\ Is({"append", "insert"}) /\ ShiftMore
  /\ t' = [t EXCEPT ![k + 1] = t[k]]
  /\ k' = k - 1
  /\ UNCHANGED <<call, orig, dest, length, pos, out, status>>

FinishInsert ==
  /\ status = "loop" /\ Is({"append", "insert"}) /\ ~ShiftMore
  /\ t' = [t EXCEPT ![pos] = New]
  /\ status' = "done"
  /\ UNCHANGED <<call, orig, dest, length, pos, k, out>>

-----------------------------------------------------------------------------
(* table.remove(t) and table.remove(t, pos). *)
Target == IF Is({"remove_last"}) THEN length ELSE call.pos

BeginRemove ==
  /\ status = "start" /\ Is({"remove", "remove_last"})
  /\ IF length = 0 THEN End("done")
     ELSE IF Target < 1 \/ Target > length THEN End("error")
     ELSE /\ pos' = Target /\ k' = Target
          /\ out' = <<t[Target]>>
          /\ status' = "loop"
          /\ UNCHANGED <<call, orig, t, dest, length>>

(* t[i] = t[i + 1], upwards. *)
ShiftDown ==
  /\ status = "loop" /\ Is({"remove", "remove_last"}) /\ k < length
  /\ t' = [t EXCEPT ![k] = t[k + 1]]
  /\ k' = k + 1
  /\ UNCHANGED <<call, orig, dest, length, pos, out, status>>

LastKept == t
LastErased == [t EXCEPT ![length] = Absent]

FinishRemove ==
  /\ status = "loop" /\ Is({"remove", "remove_last"}) /\ k >= length
  /\ t' = LastErased
  /\ status' = "done"
  /\ UNCHANGED <<call, orig, dest, length, pos, k, out>>

-----------------------------------------------------------------------------
(* table.move(t, f, e, tt), in place, and into another table ("copy"). *)
MoveSpan == Unsigned(Unsigned(call.e) - Unsigned(call.f))

TooManyOffByOne == MoveSpan > MaxI
TooMany == MoveSpan >= MaxI

Wraps ==
  IF call.tt >= 0 THEN Unsigned(Unsigned(call.tt) + MoveSpan) > MaxI
  ELSE MoveSpan > Unsigned(MaxI - Unsigned(call.tt))

BackwardInside == call.tt > call.f /\ call.tt < call.e
Backward == call.tt > call.f /\ call.tt <= call.e

BeginMove ==
  /\ status = "start" /\ Is({"move", "copy"})
  /\ IF call.e < call.f THEN End("done")
     ELSE IF TooMany \/ Wraps THEN End("error")
     ELSE /\ k' = IF Backward THEN call.e - call.f ELSE 0
          /\ status' = "loop"
          /\ UNCHANGED <<call, orig, t, dest, length, pos, out>>

MoveMore == IF Backward THEN k >= 0 ELSE k <= call.e - call.f

MoveOne ==
  /\ status = "loop" /\ Is({"move", "copy"}) /\ MoveMore
  /\ IF call.tt + k \notin Int64 THEN End("undefined")
     ELSE /\ IF Is({"move"})
               THEN t' = [t EXCEPT ![call.tt + k] = t[call.f + k]] /\ UNCHANGED dest
               ELSE dest' = [dest EXCEPT ![call.tt + k] = t[call.f + k]] /\ UNCHANGED t
          /\ k' = IF Backward THEN k - 1 ELSE k + 1
          /\ UNCHANGED <<call, orig, length, pos, out, status>>

FinishMove ==
  /\ status = "loop" /\ Is({"move", "copy"}) /\ ~MoveMore
  /\ End("done")

-----------------------------------------------------------------------------
(* table.unpack(t, i, j): an unsigned copy of i runs up to j. *)
TooManyResults ==
  IF call.i >= 0 THEN call.j - call.i > MaxUnpack ELSE call.j > call.i + MaxUnpack

BeginUnpack ==
  /\ status = "start" /\ Is({"unpack"})
  /\ IF call.i > call.j THEN End("done")
     ELSE IF TooManyResults THEN End("error")
     ELSE /\ k' = Unsigned(call.i)
          /\ status' = "loop"
          /\ UNCHANGED <<call, orig, t, dest, length, pos, out>>

UnpackMoreSigned == Signed(k) <= call.j
UnpackMore == k <= Unsigned(call.j)

UnpackOne ==
  /\ status = "loop" /\ Is({"unpack"}) /\ UnpackMore
  /\ Len(out) <= Word   \* a bound: by then the loop is in its second round
  /\ out' = Append(out, t[Signed(k)])
  /\ k' = Unsigned(k + 1)
  /\ UNCHANGED <<call, orig, t, dest, length, pos, status>>

FinishUnpack ==
  /\ status = "loop" /\ Is({"unpack"}) /\ ~UnpackMore
  /\ End("done")

RangeNext ==
  \/ BeginInsert \/ ShiftUp \/ FinishInsert
  \/ BeginRemove \/ ShiftDown \/ FinishRemove
  \/ BeginMove \/ MoveOne \/ FinishMove
  \/ BeginUnpack \/ UnpackOne \/ FinishUnpack

RangeSpec == RangeInit /\ [][RangeNext]_rangeVars

(* Each function is a loop that nothing interrupts. *)
RangeFairSpec == RangeSpec /\ WF_rangeVars(RangeNext)

-----------------------------------------------------------------------------
RangeTypeOK ==
  /\ call \in Calls
  /\ orig \in [Int64 -> Int64 \cup {Absent}]
  /\ t \in [Int64 -> Int64 \cup {Absent, New}] /\ dest \in [Int64 -> Int64 \cup {Absent}]
  /\ length \in Int64 /\ pos \in Int64
  /\ k \in IF Is({"unpack"}) THEN 0 .. Word - 1 ELSE Int64
  /\ Is({"unpack"}) /\ call.i >= 0 => Len(out) <= MaxUnpack + 1
  /\ status \in {"start", "loop", "done", "error", "undefined"}

(* insert moves what lies at pos .. length up by one, and nothing else.     *)
InsertShifts ==
  status = "done" /\ Is({"append", "insert"}) =>
    t = [x \in Int64 |-> IF x = pos THEN New
                         ELSE IF x \in pos + 1 .. length + 1 THEN orig[x - 1] ELSE orig[x]]

(* remove returns what lies at pos, moves the rest of the list down over it *)
(* and touches nothing else.                                                *)
RemoveShifts ==
  status = "done" /\ Is({"remove", "remove_last"}) /\ length # 0 =>
    /\ out = <<orig[pos]>>
    /\ t = [x \in Int64 |-> IF x = length THEN Absent
                            ELSE IF x \in pos .. length - 1 THEN orig[x + 1] ELSE orig[x]]

(* move copies the source range as it was before the call, however the      *)
(* ranges overlap and at both ends of the integers, and nothing else.       *)
Moved(into) ==
  [x \in Int64 |-> IF x \in call.tt .. call.tt + (call.e - call.f)
                     THEN orig[call.f + (x - call.tt)] ELSE into[x]]
MoveCopies ==
  status = "done" =>
    /\ Is({"move"}) => t = Moved(orig)
    /\ Is({"copy"}) => dest = Moved(Empty) /\ t = orig

(* move is refused when, and only when, the count of elements or the end of *)
(* the destination is no integer: the checks, done in wrapping arithmetic,  *)
(* decide what exact arithmetic would.                                      *)
MoveRefusalsExact ==
  Is({"move", "copy"}) /\ status # "start" =>
    (status = "error" <=> /\ call.e >= call.f
                      /\ \/ call.e - call.f + 1 > MaxI
                         \/ call.tt + (call.e - call.f) > MaxI)

(* No call reaches a signed overflow, but an insertion into a table whose   *)
(* __len answers the last integer.                                          *)
NoOverflow == status = "undefined" => Is({"append", "insert"}) /\ length = MaxI

(* unpack returns t[i], ..., t[j], up to the last integer.  (From a         *)
(* negative i the unsigned loop does not, which the comment above it        *)
(* promises: "including negative/huge keys".)                               *)
UnpackReturnsRange ==
  status = "done" /\ Is({"unpack"}) /\ call.i >= 0 =>
    out = [m \in 1 .. (IF call.i > call.j THEN 0 ELSE call.j - call.i + 1) |-> orig[call.i + m - 1]]

(* insert, remove, move and unpack leave and return what they should, up to *)
(* both ends of the integers.                                               *)
RangeResults == RangeTypeOK /\ InsertShifts /\ RemoveShifts /\ MoveCopies /\ UnpackReturnsRange

(* Their checks, done in wrapping arithmetic, refuse what exact arithmetic  *)
(* would refuse and let no other overflow happen.                           *)
ChecksExact == MoveRefusalsExact /\ NoOverflow

(* Where each loop stands: what it has done, over the table as it was.      *)
Looping(fns) == status = "loop" /\ Is(fns)
LastOffset == call.e - call.f   \* of the last element to move

NothingDone == status = "start" => t = orig /\ dest = Empty /\ out = <<>>

InsertPlace ==
  Looping({"append", "insert"}) =>
    /\ length < MaxI /\ pos <= length + 1 /\ pos > MinI /\ k \in pos - 1 .. length
    /\ t = [x \in Int64 |-> IF x \in k + 2 .. length + 1 THEN orig[x - 1] ELSE orig[x]]

RemovePlace ==
  Looping({"remove", "remove_last"}) =>
    /\ pos \in 1 .. length /\ k \in pos .. length /\ out = <<orig[pos]>>
    /\ t = [x \in Int64 |-> IF x \in pos .. k - 1 THEN orig[x + 1] ELSE orig[x]]

MovedSoFar(into) ==
  LET done == IF Backward THEN call.tt + k + 1 .. call.tt + LastOffset ELSE call.tt .. call.tt + k - 1
  IN  [x \in Int64 |-> IF x \in done THEN orig[call.f + (x - call.tt)] ELSE into[x]]

MovePlace ==
  Looping({"move", "copy"}) =>
    /\ LastOffset \in 0 .. MaxI - 1 /\ call.tt + LastOffset <= MaxI
    /\ k \in IF Backward THEN -1 .. LastOffset ELSE 0 .. LastOffset + 1
    /\ Is({"move"}) => t = MovedSoFar(orig)
    /\ Is({"copy"}) => dest = MovedSoFar(Empty) /\ t = orig

UnpackPlace ==
  Looping({"unpack"}) =>
    /\ t = orig
    /\ call.i >= 0 =>
         /\ call.i <= call.j /\ call.j - call.i <= MaxUnpack /\ k \in call.i .. call.j + 1
         /\ out = [m \in 1 .. k - call.i |-> orig[call.i + m - 1]]

RangeIInv ==
  /\ NothingDone /\ InsertPlace /\ RemovePlace /\ MovePlace /\ UnpackPlace
  /\ RangeResults /\ ChecksExact

(* No call goes on for ever, up to the last integer. *)
CallEnds == <>(status \notin {"start", "loop"})
=============================================================================
