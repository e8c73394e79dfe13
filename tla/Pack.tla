-------------------------------- MODULE Pack --------------------------------
(***************************************************************************)
(* string.pack, string.packsize and string.unpack of src/lua/strlib.cpp.   *)
(* The three read a format from left to right, each with its own header    *)
(* (byte order, largest alignment), its own count of bytes and its own     *)
(* code for every option.  Here one format is packed and measured option   *)
(* by option, and what was packed, or a prefix of it, is unpacked again.   *)
(* Bytes have Bits bits and integers SZINT bytes.                          *)
(***************************************************************************)
EXTENDS Integers, Sequences, SequencesExt, Bitwise

CONSTANTS Bits, SZINT, MAXINTSIZE, MAXSIZE,    \* NB, SZINT, MAXINTSIZE, MAXSIZE
          Sizes,          \* of the options that take one
          Alignments,     \* of '!'
          Ints, Strings, Doubles,              \* values to pack
          MaxOptions

Base == 2 ^ Bits
Word == Base ^ SZINT                  \* unsigned long long, size_t: modulo Word
Signed(n) == IF n % Word < Word \div 2 THEN n % Word ELSE (n % Word) - Word

(* Options: KOption with its size; the header's options are Knop.           *)
Opt(k, n) == [kind |-> k, size |-> n]
Sized == {Opt(k, n) : k \in {"Kint", "Kuint", "Kstring"}, n \in Sizes}
DoubleSize == Len(CHOOSE d \in Doubles : TRUE)
Plain == Sized \cup {Opt("Kchar", n) : n \in Sizes \cup {0}}
               \cup {Opt("Kdouble", DoubleSize), Opt("Kzstr", 0), Opt("Kpadding", 1)}
Header == {[kind |-> "Knop", size |-> 0, little |-> b] : b \in BOOLEAN}
          \cup {[kind |-> "Knop", size |-> 0, maxalign |-> n] : n \in Alignments}
Aligns == {[kind |-> "Kpaddalign", size |-> 0, next |-> o] : o \in Plain}
Options == Plain \cup Header \cup Aligns

NativeHeader == [little |-> TRUE, maxalign |-> 1]

VARIABLES phase,        \* "pack", "refused", "unpack", "done" or "error"
          fmt, vals,    \* the options so far, and the value each one packed
          header,       \* of pack, then of unpack
          buf, data,    \* the packed bytes, and those given to unpack
          total,        \* of packsize, or one of its two refusals
          i, pos, out   \* unpack: options read, bytes read, values read

vars == <<phase, fmt, vals, header, buf, data, total, i, pos, out>>

None == [none |-> TRUE]        \* the value of an option that takes none

-----------------------------------------------------------------------------
(* getoption and getdetails.                                                *)

HeaderAfter(h, o) ==
  CASE "little" \in DOMAIN o -> [h EXCEPT !.little = o.little]
    [] "maxalign" \in DOMAIN o -> [h EXCEPT !.maxalign = o.maxalign]
    [] OTHER -> h

(* getnumlimit: only 'c' takes any size.                                    *)
SizeRefused(o) == \/ o.kind \in {"Kint", "Kuint", "Kstring"} /\ o.size \notin 1 .. MAXINTSIZE
                  \/ "maxalign" \in DOMAIN o /\ o.maxalign \notin 1 .. MAXINTSIZE

Alignment(o) == IF o.kind = "Kpaddalign" THEN o.next.size ELSE o.size
NextRefused(o) == o.kind = "Kpaddalign" /\
                  (SizeRefused(o.next) \/ o.next.kind = "Kchar" \/ Alignment(o) = 0)

IsAligned(o) == Alignment(o) > 1 /\ o.kind # "Kchar"
Limited(h, o) == IF Alignment(o) > h.maxalign THEN h.maxalign ELSE Alignment(o)
NotPowerOf2(h, o) == IsAligned(o) /\ Limited(h, o) & (Limited(h, o) - 1) # 0

FormatRefused(h, o) == SizeRefused(o) \/ NextRefused(o) \/ NotPowerOf2(h, o)

(* The padding before an option when "at" bytes come before it.             *)
NToAlign(h, o, at) ==
  IF IsAligned(o) THEN (Limited(h, o) - (at & (Limited(h, o) - 1))) & (Limited(h, o) - 1) ELSE 0

-----------------------------------------------------------------------------
(* packint, copywithendian, unpackint.                                      *)

Ordered(h, bytes) == IF h.little THEN bytes ELSE Reverse(bytes)
Digit(n, k) == (n \div Base ^ k) % Base

PackInt(h, n, size, neg) ==
  Ordered(h, [k \in 1 .. size |-> IF neg /\ k > SZINT THEN Base - 1 ELSE Digit(n % Word, k - 1)])

Digits(h, at, size) == Ordered(h, SubSeq(data, at + 1, at + size))
DigitsValue(ds) == FoldRight(LAMBDA d, acc : acc * Base + d, ds, 0)
ReadIntUnsigned(ds, signed) ==
  LET size == Len(ds) IN Signed(DigitsValue(SubSeq(ds, 1, IF size <= SZINT THEN size ELSE SZINT)))
ReadInt(ds, signed) ==
  LET size == Len(ds)
      res == DigitsValue(SubSeq(ds, 1, IF size <= SZINT THEN size ELSE SZINT))
  IN  IF size < SZINT /\ signed /\ res >= Base ^ size \div 2 THEN res - Base ^ size
      ELSE Signed(res)
(* Bytes beyond an integer's must only repeat its sign.                     *)
DoesNotFit(ds, signed) ==
  LET fill == IF signed /\ ReadInt(ds, signed) < 0 THEN Base - 1 ELSE 0
  IN  \E k \in SZINT + 1 .. Len(ds) : ds[k] # fill

-----------------------------------------------------------------------------
(* b_pack: what each option packs, and the values it refuses.               *)

ValuesFor(o) ==
  CASE o.kind \in {"Kint", "Kuint"} -> Ints
    [] o.kind \in {"Kchar", "Kstring", "Kzstr"} -> Strings
    [] o.kind = "Kdouble" -> Doubles
    [] OTHER -> {None}

MaxLength(size) == IF size >= SZINT THEN Word - 1 ELSE Base ^ size - 1
ValueRefused(o, v) ==
  CASE o.kind = "Kint" -> o.size < SZINT /\ v \notin -(Base ^ o.size \div 2) .. Base ^ o.size \div 2 - 1
    [] o.kind = "Kuint" -> o.size < SZINT /\ v % Word >= Base ^ o.size
    [] o.kind = "Kchar" -> Len(v) > o.size
    [] o.kind = "Kstring" -> Len(v) > MaxLength(o.size)
    [] o.kind = "Kzstr" -> 0 \in ToSet(v)
    [] OTHER -> FALSE

Zeros(n) == [k \in 1 .. n |-> 0]
Packed(h, o, v) ==
  CASE o.kind = "Kint" -> PackInt(h, v, o.size, v < 0)
    [] o.kind = "Kuint" -> PackInt(h, v, o.size, FALSE)
    [] o.kind = "Kdouble" -> Ordered(h, v)
    [] o.kind = "Kchar" -> v \o Zeros(o.size - Len(v))
    [] o.kind = "Kstring" -> PackInt(h, Len(v), o.size, FALSE) \o v
    [] o.kind = "Kzstr" -> v \o <<0>>
    [] o.kind = "Kpadding" -> <<0>>
    [] OTHER -> <<>>

(* b_packsize, for the same option.                                         *)
Measured(h, o) ==
  CASE total < 0 -> total
    [] total >= 0 /\ o.kind \in {"Kstring", "Kzstr"} -> -1          \* "variable-length format"
    [] total >= 0 /\ o.kind \notin {"Kstring", "Kzstr"} ->
         LET size == o.size + NToAlign(h, o, total) IN
         IF total > MAXSIZE - size THEN -2 ELSE total + size        \* "format result too large"

Init ==
  /\ phase = "pack" /\ fmt = <<>> /\ vals = <<>> /\ header = NativeHeader
  /\ buf = <<>> /\ data = <<>> /\ total = 0 /\ i = 0 /\ pos = 0 /\ out = <<>>

PackOption ==
  /\ phase = "pack" /\ Len(fmt) < MaxOptions
  /\ \E o \in Options : \E v \in ValuesFor(o) :
       LET h == HeaderAfter(header, o) IN
       IF FormatRefused(h, o) \/ ValueRefused(o, v)
         THEN phase' = "refused" /\ UNCHANGED <<fmt, vals, header, buf, total>>
         ELSE /\ fmt' = Append(fmt, o) /\ vals' = Append(vals, v) /\ header' = h
              /\ buf' = buf \o Zeros(NToAlign(h, o, Len(buf))) \o Packed(h, o, v)
              /\ total' = Measured(h, o)
              /\ UNCHANGED phase
  /\ UNCHANGED <<data, i, pos, out>>

-----------------------------------------------------------------------------
(* b_unpack, given what was packed or a prefix of it.                       *)

PosRelat(p, len) == IF p > 0 THEN p ELSE IF p = 0 \/ p < -len THEN 1 ELSE len + p + 1

StartUnpack ==
  /\ phase = "pack" /\ fmt # <<>>
  /\ header' = NativeHeader
  /\ \E n \in {Len(buf), Len(buf) - 1, Len(buf) \div 2} \cap 0 .. Len(buf) : data' = SubSeq(buf, 1, n)
  /\ \E p \in {1, 0, -Len(data'), -Len(data') - 1, Len(data') + 2} :
       LET from == PosRelat(p, Len(data')) - 1 IN
       IF from > Len(data') THEN phase' = "refused" /\ UNCHANGED pos
       ELSE phase' = "unpack" /\ pos' = from
  /\ UNCHANGED <<fmt, vals, buf, total, i, out>>

Fail == phase' = "error" /\ UNCHANGED <<header, pos, out, i>>
Read(h, v, next) == /\ out' = Append(out, v) /\ pos' = next /\ header' = h /\ i' = i + 1
                    /\ UNCHANGED phase

(* A string after its length: "size + len" is a size_t.                     *)
ReadString(h, size, at) ==
  LET ds == Digits(h, at, size)
      len == ReadInt(ds, FALSE) % Word
  IN  IF DoesNotFit(ds, FALSE) \/ (size + len) % Word > Len(data) - at THEN Fail
      ELSE Read(h, SubSeq(data, at + size + 1, at + size + len), at + len + size)

ReadZString(h, at) ==
  LET ends == {z \in at .. Len(data) - 1 : data[z + 1] = 0} IN
  IF ends = {} THEN Fail
  ELSE LET z == CHOOSE z \in ends : \A y \in ends : z <= y
       IN  Read(h, SubSeq(data, at + 1, z), z + 1)

UnpackOption ==
  /\ phase = "unpack" /\ i < Len(fmt)
  /\ LET o == fmt[i + 1]
         h == HeaderAfter(header, o)
         at == pos + NToAlign(h, o, pos)
         ds == Digits(h, at, o.size)
     IN  IF NToAlign(h, o, pos) + o.size > Len(data) - pos THEN Fail
         ELSE CASE o.kind \in {"Kint", "Kuint"} ->
                     IF DoesNotFit(ds, o.kind = "Kint") THEN Fail
                     ELSE Read(h, ReadInt(ds, o.kind = "Kint"), at + o.size)
                [] o.kind = "Kdouble" -> Read(h, ds, at + o.size)
                [] o.kind = "Kchar" -> Read(h, SubSeq(data, at + 1, at + o.size), at + o.size)
                [] o.kind = "Kstring" -> ReadString(h, o.size, at)
                [] o.kind = "Kzstr" -> ReadZString(h, at)
                [] OTHER -> Read(h, None, at + o.size)
  /\ UNCHANGED <<fmt, vals, buf, data, total>>

UnpackEnd ==
  /\ phase = "unpack" /\ i = Len(fmt) /\ phase' = "done"
  /\ UNCHANGED <<fmt, vals, header, buf, data, total, i, pos, out>>

Next == PackOption \/ StartUnpack \/ UnpackOption \/ UnpackEnd
Spec == Init /\ [][Next]_vars

-----------------------------------------------------------------------------
(* Properties.                                                              *)

(* Everything stays in its type; unpack never passes the end of the data,   *)
(* however short it is, so that "ld - pos" cannot wrap.                     *)
TypeOK ==
  /\ phase \in {"pack", "refused", "unpack", "done", "error"}
  /\ Len(vals) = Len(fmt) /\ Len(out) = i /\ i \in 0 .. Len(fmt)
  /\ header.little \in BOOLEAN /\ header.maxalign \in 1 .. MAXINTSIZE
  /\ \A k \in DOMAIN buf : buf[k] \in 0 .. Base - 1
  /\ pos \in 0 .. Len(data)

(* What unpack reads is what pack was given: same sign at every width, in   *)
(* both byte orders, with the padding of the same alignments skipped.  A    *)
(* fixed string comes back with its zeros.                                  *)
Back(o, v) == IF o.kind = "Kchar" THEN v \o Zeros(o.size - Len(v)) ELSE v
RoundTrip == \A k \in 1 .. i : out[k] = Back(fmt[k], vals[k])

(* No format that pack takes is refused by unpack, all that pack wrote is   *)
(* read to the last byte, and a prefix of it is always too short.           *)
UnpackReadsAll ==
  /\ phase = "done" => data = buf /\ pos = Len(buf)
  /\ phase = "error" => data # buf

(* packsize is the length of what pack writes, alignments included, or one  *)
(* of its two refusals.                                                     *)
SizeExact ==
  /\ total >= 0 <=> /\ \A k \in DOMAIN fmt : fmt[k].kind \notin {"Kstring", "Kzstr"}
                    /\ Len(buf) <= MAXSIZE
  /\ total >= 0 => total = Len(buf)
=============================================================================
