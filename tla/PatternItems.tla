---------------------------- MODULE PatternItems ----------------------------
(***************************************************************************)
(* What the matcher of src/lua/pattern.cpp and its callers have in common. *)
(* A pattern is given by its items and whether '^' comes before them;      *)
(* character classes are sets of bytes.                                    *)
(***************************************************************************)
EXTENDS Integers, Sequences

Class(S, q) == [op |-> "class", set |-> S, quant |-> q]
OpenCapture == [op |-> "open"]
CloseCapture == [op |-> "close"]
PositionCapture == [op |-> "position"]
EndAnchor == [op |-> "end"]
BackReference(n) == [op |-> "back", n |-> n]
Balanced(x, y) == [op |-> "balance", left |-> x, right |-> y]
Frontier(S) == [op |-> "frontier", set |-> S]

Unfinished == -1       \* CAP_UNFINISHED
Position == -2         \* CAP_POSITION
Nul == "nul"           \* '\0'
NoMatch == -1          \* nullopt
Malformed == -2        \* PatternError

(* Positions are the number of bytes before them: byte s + 1 comes next.    *)
Slice(subj, s, n) == SubSeq(subj, s + 1, s + n)

-----------------------------------------------------------------------------
(* Patterns over a set of bytes.                                            *)
Items(bytes) ==
  [op : {"class"}, set : SUBSET bytes, quant : {"", "*", "+", "-", "?"}]
  \cup [op : {"open", "close", "position", "end"}] \cup [op : {"back"}, n : 1 .. 9]
  \cup [op : {"balance"}, left : bytes, right : bytes]
  \cup [op : {"frontier"}, set : SUBSET (bytes \cup {Nul})]

PatternsOver(bytes) == [items : Seq(Items(bytes)), anchored : BOOLEAN]

(* What an attempt at i in a subject of n bytes may give: an end behind i,  *)
(* and captures within the subject.                                         *)
Attempts(i, n) ==
  [end : {NoMatch, Malformed} \cup i .. n,
   captures : Seq({c \in [start : 0 .. n, len : {Position} \cup 0 .. n] :
                     c.len = Position \/ c.start + c.len <= n})]
=============================================================================
