------------------------------ MODULE Pattern ------------------------------
(***************************************************************************)
(* The pattern matcher of src/lua/pattern.cpp: a recursive matcher that    *)
(* backtracks over one list of captures, which it changes in place and     *)
(* puts back by hand when a branch fails.  The reference at the end lists  *)
(* all ways to match, in the order of preference, and changes nothing in   *)
(* place.                                                                  *)
(***************************************************************************)
EXTENDS PatternItems, SequencesExt

CONSTANT MaxCaptures      \* 32 in the code

(* %f takes the bytes before and after the subject to be '\0'.              *)
InSet(subj, s, S) == (IF s \in DOMAIN subj THEN subj[s] ELSE Nul) \in S

Repetitions(subj, s, S) ==
  LET n == Len(subj) - s IN
  CHOOSE c \in 0 .. n : /\ \A i \in 1 .. c : subj[s + i] \in S
                        /\ c = n \/ subj[s + c + 1] \notin S

(* %b: where the balanced text ends, NoMatch if it does not.                *)
BalancedEnd(subj, s, x, y) ==
  LET depth[i \in s .. Len(subj)] ==
        IF i = s THEN 0
        ELSE IF depth[i - 1] = 0 /\ i > s + 1 THEN 0
        ELSE depth[i - 1] + (IF i > s + 1 /\ subj[i] = y THEN -1
                             ELSE IF subj[i] = x THEN 1 ELSE 0)
      ends == {i \in s + 2 .. Len(subj) : depth[i] = 0}
  IN  IF s = Len(subj) \/ subj[s + 1] # x \/ ends = {} THEN NoMatch
      ELSE CHOOSE i \in ends : \A j \in ends : i <= j

-----------------------------------------------------------------------------
(* MatchState: caps may be longer than level, the captures in use.          *)
PushCap(ms, s, len) ==
  [caps |-> IF Len(ms.caps) <= ms.level THEN Append(ms.caps, [start |-> s, len |-> len])
            ELSE [ms.caps EXCEPT ![ms.level + 1] = [start |-> s, len |-> len]],
   level |-> ms.level + 1]

OpenCaps(ms) == {i \in 1 .. ms.level : ms.caps[i].len = Unfinished}
Youngest(S) == CHOOSE i \in S : \A j \in S : j <= i

Result(ms, e) == [ms |-> ms, end |-> e]

(* A branch has failed: "ms.cap_level = saved".                             *)
LevelKept(ms, r) == r
RestoreLevel(ms, r) == IF r.end = NoMatch THEN [r EXCEPT !.ms.level = ms.level] ELSE r

(* "Undo the close."                                                        *)
RestoreClose(r, l) == IF r.end = NoMatch THEN [r EXCEPT !.ms.caps[l].len = Unfinished] ELSE r

RECURSIVE MatchRec(_, _, _, _, _), MaxExpand(_, _, _, _, _, _)

(* max_expand: from count repetitions on, the rest of the pattern at p.     *)
MaxExpand(subj, pat, ms, s, p, counts) ==
  LET r == MatchRec(subj, pat, ms, s + Head(counts), p)
      restored == RestoreLevel(ms, r)
  IN  IF r.end # NoMatch \/ Len(counts) = 1 THEN restored
      ELSE MaxExpand(subj, pat, restored.ms, s, p, Tail(counts))

Upwards(n) == [i \in 1 .. n + 1 |-> i - 1]
Downwards(n) == [i \in 1 .. n + 1 |-> n + 1 - i]

MatchClass(subj, pat, ms, s, p) ==
  LET item == pat[p]
      count == Repetitions(subj, s, item.set)
  IN  CASE item.quant = "*" -> MaxExpand(subj, pat, ms, s, p + 1, Downwards(count))
        [] item.quant = "-" -> MaxExpand(subj, pat, ms, s, p + 1, Upwards(count))
        [] item.quant = "+" -> IF count = 0 THEN Result(ms, NoMatch)
                               ELSE MaxExpand(subj, pat, ms, s + 1, p + 1, Downwards(count - 1))
        [] item.quant = "?" ->
             LET r == IF count = 0 THEN Result(ms, NoMatch) ELSE MatchRec(subj, pat, ms, s + 1, p + 1)
             IN  IF r.end # NoMatch THEN r ELSE MatchRec(subj, pat, r.ms, s, p + 1)
        [] item.quant = "" ->
             IF count = 0 THEN Result(ms, NoMatch) ELSE MatchRec(subj, pat, ms, s + 1, p + 1)

MatchBack(subj, pat, ms, s, p) ==
  LET n == pat[p].n
      cap == ms.caps[n]
  IN  CASE n > ms.level -> Result(ms, Malformed)
        [] n <= ms.level /\ cap.len = Unfinished -> Result(ms, Malformed)
        [] n <= ms.level /\ cap.len \in {Position, 0} -> MatchRec(subj, pat, ms, s, p + 1)
        [] OTHER ->
             IF s + cap.len <= Len(subj) /\ Slice(subj, s, cap.len) = Slice(subj, cap.start, cap.len)
               THEN MatchRec(subj, pat, ms, s + cap.len, p + 1) ELSE Result(ms, NoMatch)

MatchClose(subj, pat, ms, s, p) ==
  IF OpenCaps(ms) = {} THEN Result(ms, Malformed)
  ELSE LET l == Youngest(OpenCaps(ms)) IN
       RestoreClose(MatchRec(subj, pat, [ms EXCEPT !.caps[l].len = s - ms.caps[l].start], s, p + 1), l)

MatchOpen(subj, pat, ms, s, p, len) ==
  IF ms.level >= MaxCaptures THEN Result(ms, Malformed)
  ELSE RestoreLevel(ms, MatchRec(subj, pat, PushCap(ms, s, len), s, p + 1))

MatchRec(subj, pat, ms, s, p) ==
  IF p > Len(pat) THEN Result(ms, s)
  ELSE CASE pat[p].op = "end" -> Result(ms, IF s = Len(subj) THEN s ELSE NoMatch)
         [] pat[p].op = "open" -> MatchOpen(subj, pat, ms, s, p, Unfinished)
         [] pat[p].op = "position" -> MatchOpen(subj, pat, ms, s, p, Position)
         [] pat[p].op = "close" -> MatchClose(subj, pat, ms, s, p)
         [] pat[p].op = "back" -> MatchBack(subj, pat, ms, s, p)
         [] pat[p].op = "balance" ->
              LET e == BalancedEnd(subj, s, pat[p].left, pat[p].right) IN
              IF e = NoMatch THEN Result(ms, NoMatch) ELSE MatchRec(subj, pat, ms, e, p + 1)
         [] pat[p].op = "frontier" ->
              IF ~InSet(subj, s, pat[p].set) /\ InSet(subj, s + 1, pat[p].set)
                THEN MatchRec(subj, pat, ms, s, p + 1) ELSE Result(ms, NoMatch)
         [] pat[p].op = "class" -> MatchClass(subj, pat, ms, s, p)

(* One attempt: the end of the match and the captures in use, all closed.   *)
MatchAt(subj, s, items) ==
  LET r == MatchRec(subj, items, [caps |-> <<>>, level |-> 0], s, 1)
  IN  IF r.end < 0 THEN [end |-> r.end, captures |-> <<>>]
      ELSE IF OpenCaps(r.ms) # {} THEN [end |-> Malformed, captures |-> <<>>]
      ELSE [end |-> r.end, captures |-> SubSeq(r.ms.caps, 1, r.ms.level)]

-----------------------------------------------------------------------------
(* The reference: the outcomes of matching the items from p on at s, in the *)
(* order in which the quantifiers prefer them.  A malformed pattern is an   *)
(* outcome too.                                                             *)
RECURSIVE Outcomes(_, _, _, _, _)

Consumed(subj, s, item) ==
  LET n == Repetitions(subj, s, item.set) IN
  CASE item.quant = "*" -> Downwards(n)
    [] item.quant = "-" -> Upwards(n)
    [] item.quant = "+" -> IF n = 0 THEN <<>> ELSE SubSeq(Downwards(n), 1, n)
    [] item.quant = "?" -> IF n = 0 THEN <<0>> ELSE <<1, 0>>
    [] item.quant = "" -> IF n = 0 THEN <<>> ELSE <<1>>

Bad == <<[end |-> Malformed, captures |-> <<>>]>>

Outcomes(subj, pat, caps, s, p) ==
  LET openCaps == {i \in DOMAIN caps : caps[i].len = Unfinished}
      With(c) == Outcomes(subj, pat, c, s, p + 1)
      From(i) == Outcomes(subj, pat, caps, i, p + 1)
  IN
  IF p > Len(pat) THEN IF openCaps = {} THEN <<[end |-> s, captures |-> caps]>> ELSE Bad
  ELSE CASE pat[p].op = "end" -> IF s = Len(subj) THEN From(s) ELSE <<>>
         [] pat[p].op \in {"open", "position"} ->
              IF Len(caps) = MaxCaptures THEN Bad
              ELSE With(Append(caps, [start |-> s, len |-> IF pat[p].op = "open" THEN Unfinished
                                                           ELSE Position]))
         [] pat[p].op = "close" ->
              IF openCaps = {} THEN Bad
              ELSE With([caps EXCEPT ![Youngest(openCaps)].len = s - caps[Youngest(openCaps)].start])
         [] pat[p].op = "back" ->
              IF pat[p].n \notin DOMAIN caps \/ pat[p].n \in openCaps THEN Bad
              ELSE LET cap == caps[pat[p].n]
                       text == Slice(subj, cap.start, IF cap.len = Position THEN 0 ELSE cap.len) IN
                   IF IsPrefix(text, SubSeq(subj, s + 1, Len(subj))) THEN From(s + Len(text)) ELSE <<>>
         [] pat[p].op = "balance" ->
              LET Depth(i) == Len(SelectSeq(SubSeq(subj, s + 1, i), LAMBDA b : b = pat[p].left))
                              - Len(SelectSeq(SubSeq(subj, s + 1, i), LAMBDA b : b = pat[p].right))
                  shut == {i \in s + 1 .. Len(subj) : Depth(i) = 0}
              IN  IF s < Len(subj) /\ subj[s + 1] = pat[p].left /\ shut # {}
                    THEN From(CHOOSE i \in shut : \A j \in shut : i <= j) ELSE <<>>
         [] pat[p].op = "frontier" ->
              IF InSet(subj, s + 1, pat[p].set) /\ ~InSet(subj, s, pat[p].set) THEN From(s) ELSE <<>>
         [] pat[p].op = "class" ->
              FlattenSeq([i \in DOMAIN Consumed(subj, s, pat[p]) |->
                            From(s + Consumed(subj, s, pat[p])[i])])

(* The outcome the quantifiers prefer.                                      *)
Preferred(subj, items, i) ==
  LET outcomes == Outcomes(subj, items, <<>>, i, 1) IN
  IF outcomes = <<>> THEN [end |-> NoMatch, captures |-> <<>>] ELSE Head(outcomes)
=============================================================================
