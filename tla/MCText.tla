------------------------------- MODULE MCText -------------------------------
(* The string library: a behaviour is one call of find, gmatch or gsub over *)
(* two bytes, with every pattern of up to two items and those of three to   *)
(* seven that nest captures; or one format packed, measured and unpacked    *)
(* again, with bytes of three bits and integers of two bytes, so that the   *)
(* sizes 1, 2 and 3 are below, at and beyond an integer's.                  *)
EXTENDS Strings

CONSTANT MaxCaptures

Matcher == INSTANCE Pattern

VARIABLES task, phase, fmt, vals, header, buf, data, total, i, at, out

Packing == INSTANCE Pack WITH
             pos <- at, Bits <- 3, SZINT <- 2, MAXINTSIZE <- 4, MAXSIZE <- 8,
             Sizes <- {1, 2, 3, 5}, Alignments <- {2, 4}, Ints <- {-32, -5, -1, 3, 31},
             Strings <- {<<>>, <<0, 1>>}, Doubles <- {<<1, 2>>}, MaxOptions <- 3

packVars == <<phase, fmt, vals, header, buf, data, total, i, at, out>>
allVars == <<task, scanVars, packVars>>

Idle ==
  /\ op = "find" /\ scan = "error" /\ subj = <<>> /\ pat = [items |-> <<>>, anchored |-> FALSE]
  /\ limit = -1 /\ repl = Computed /\ init = 1
  /\ pos = 0 /\ prevEnd = None /\ count = 0 /\ result = <<>> /\ log = <<>>

MCInit == \/ task = "pattern" /\ ScanInit /\ Packing!Init
          \/ task = "pack" /\ Idle /\ Packing!Init

StepPattern == task = "pattern" /\ ScanNext /\ UNCHANGED <<task, packVars>>
StepPack == task = "pack" /\ Packing!Next /\ UNCHANGED <<task, scanVars>>
MCSpec == MCInit /\ [][StepPattern \/ StepPack]_allVars

-----------------------------------------------------------------------------
(* The properties of each module, in the behaviours that are about it.      *)

(* The matcher, which changes its captures in place and puts them back by   *)
(* hand ("Undo the close", "cap_level = saved"), gives for every place the  *)
(* outcome the quantifiers prefer, with exactly its captures, or an error   *)
(* exactly when that outcome is one.                                        *)
MatcherAgrees ==
  task = "pattern" =>
    \A s \in 0 .. Len(subj) : At(s) = Matcher!Preferred(subj, pat.items, s)

(* What pack writes, packsize measures and unpack reads, to the last byte.  *)
PackAgrees ==
  task = "pack" => /\ Packing!TypeOK /\ Packing!RoundTrip
                   /\ Packing!UnpackReadsAll /\ Packing!SizeExact

-----------------------------------------------------------------------------
AllSubjects == UNION {[1 .. n -> {"a", "b"}] : n \in 0 .. 2}
               \cup {<<"a", "a", "b">>, <<"a", "b", "a">>, <<"b", "a", "a">>}

Plain == {Class({"a"}, ""), Class({"b"}, "")}
Quantified == {Class({"a"}, q) : q \in {"*", "+", "-", "?"}} \cup {Class({"a", "b"}, q) : q \in {"*", "-"}}
Special == {PositionCapture, BackReference(1), Balanced("a", "b"), Frontier({"a"}), Frontier({Nul, "b"})}
Inner == Plain \cup Quantified \cup Special
Short == UNION {[1 .. n -> Inner] : n \in 0 .. 2}
Nested == {<<OpenCapture, x, CloseCapture, y>> : x \in Inner, y \in Inner \cup {EndAnchor}}
          \cup {<<x, OpenCapture, y, CloseCapture, BackReference(1)>> : x \in Quantified, y \in Inner}
          \cup {<<x, PositionCapture, y>> : x \in Quantified, y \in Plain}
          \cup {<<OpenCapture, x>> : x \in Inner} \cup {<<x, CloseCapture>> : x \in Inner}
          \cup {<<OpenCapture, OpenCapture, x, CloseCapture, y, CloseCapture, z>> : x \in Quantified, y \in Quantified, z \in Plain}
AllPatterns == [items : Short, anchored : BOOLEAN] \cup [items : Nested, anchored : {FALSE}]

AllTemplates == {<<Literal("b"), Captured(0)>>, <<Captured(1), Captured(2)>>, <<BadEscape>>}
AllTexts == {<<>>, <<"b", "a">>}
MCMatchFrom(s, start, items) == Matcher!MatchAt(s, start, items)
MCNumeral(n) == <<ToString(n)>>   \* of one digit

AllInits == {1, 6, -1}
AllLimits == {-1, 1}
=============================================================================
