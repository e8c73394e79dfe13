------------------------------ MODULE Strings ------------------------------
(***************************************************************************)
(* The callers of the pattern matcher: pattern_at and pattern_find of      *)
(* src/lua/pattern.cpp, and of src/lua/strlib.cpp string.find, the loop of *)
(* string.gsub with its replacements, and the iterator of string.gmatch,   *)
(* which keeps its place in a table between calls.  Each loop has its own  *)
(* rules for stepping over an empty match.                                 *)
(***************************************************************************)
EXTENDS PatternItems, SequencesExt

CONSTANTS MatchFrom(_, _, _),  \* match_rec: the outcome for a subject, a place and items
          Numeral(_),     \* std::to_string of a position
          Bytes,
          Subjects,       \* sequences of bytes
          Patterns,
          Templates,      \* replacement strings, as sequences of items
          Texts,          \* what a replacement function or table may give
          Inits,          \* third argument of find and gmatch
          Limits          \* fourth argument of gsub, -1 when there is none

Literal(b) == [op |-> "literal", byte |-> b]
Captured(n) == [op |-> "capture", n |-> n]     \* %0 ... %9
BadEscape == [op |-> "bad"]
Computed == <<[op |-> "any"]>>                       \* a function or a table

None == -1             \* SIZE_MAX: no match has ended yet

(* Patterns that are texts: one byte per item.                              *)
IsText(p) == ~p.anchored /\ \A k \in DOMAIN p.items : \E b \in Bytes : p.items[k] = Class({b}, "")
TextOf(p) == [k \in DOMAIN p.items |-> CHOOSE b \in p.items[k].set : TRUE]

(* What the callers rely on.  The matcher is deterministic and keeps within *)
(* the subject; a pattern that is a text matches that text.                 *)
ASSUME StringsAssumption ==
  /\ Subjects \subseteq Seq(Bytes) /\ Texts \subseteq Seq(Bytes)
  /\ Patterns \subseteq PatternsOver(Bytes)
  /\ Templates \subseteq Seq([op : {"literal"}, byte : Bytes] \cup [op : {"capture"}, n : 0 .. 9] \cup {BadEscape})
  /\ Inits \subseteq Int /\ Limits \subseteq Int
  /\ \A s \in Subjects, p \in Patterns : \A i \in 0 .. Len(s) :
       /\ MatchFrom(s, i, p.items) \in Attempts(i, Len(s))
       /\ IsText(p) => MatchFrom(s, i, p.items).end =
                         IF i + Len(p.items) <= Len(s) /\ Slice(s, i, Len(p.items)) = TextOf(p)
                           THEN i + Len(p.items) ELSE NoMatch

ASSUME NumeralAssumption == \A s \in Subjects : \A n \in 1 .. Len(s) + 1 : Numeral(n) \in Seq(Bytes)

VARIABLES op,          \* the call being made
          scan,        \* "running", "done" or "error"
          subj, pat, init, limit, repl,         \* its arguments
          pos,         \* i of gsub, state.i of gmatch
          prevEnd,     \* prev_end of gsub, state.e of gmatch
          count, result,
          log          \* the matches so far, with what stands for each

args == <<op, subj, pat, init, limit, repl>>
scanVars == <<op, scan, subj, pat, init, limit, repl, pos, prevEnd, count, result, log>>

-----------------------------------------------------------------------------
(* pattern_at and pattern_find.                                             *)
IsEmpty(p) == ~p.anchored /\ p.items = <<>>

PatternAt(s, start, p) ==
  IF IsEmpty(p) THEN [end |-> Malformed, captures |-> <<>>] ELSE MatchFrom(s, start, p.items)

Found(start, m) == [start |-> start, end |-> m.end, captures |-> m.captures]
NotFound == Found(NoMatch, [end |-> NoMatch, captures |-> <<>>])
Least(S) == CHOOSE i \in S : \A j \in S : i <= j

(* The first place from start on; '^' leaves only one place.                *)
PatternFind(s, start, p) ==
  LET from == IF start > Len(s) THEN Len(s) ELSE start
      places == IF p.anchored THEN {from} ELSE from .. Len(s)
      stops == {i \in places : MatchFrom(s, i, p.items).end # NoMatch}
  IN  IF stops = {} THEN NotFound ELSE Found(Least(stops), MatchFrom(s, Least(stops), p.items))

(* The search for a plain text.                                             *)
PlainFind(s, start, text) ==
  LET from == IF start > Len(s) THEN Len(s) ELSE start
      hits == {i \in from .. Len(s) - Len(text) : Slice(s, i, Len(text)) = text}
  IN  IF hits = {} THEN NotFound
      ELSE Found(Least(hits), [end |-> Least(hits) + Len(text), captures |-> <<>>])

-----------------------------------------------------------------------------
(* rel_pos, and the conversion in b_gmatch, which does not clamp to the     *)
(* length.                                                                  *)
FromEnd(n, len) == IF n < 0 THEN n + len + 1 ELSE n
GmatchPos(n, len) == IF FromEnd(n, len) < 1 THEN 0 ELSE FromEnd(n, len) - 1
RelPos(n, len) == IF FromEnd(n, len) > len THEN len ELSE GmatchPos(n, len)

(* caps_to_lua: positions count from 1.                                     *)
CapsToLua(s, caps) ==
  [k \in DOMAIN caps |-> IF caps[k].len = Position THEN [position |-> caps[k].start + 1]
                         ELSE [text |-> Slice(s, caps[k].start, caps[k].len)]]

WholeMatch(s, start, end) == Slice(s, start, end - start)

(* What gmatch returns, and gsub passes to a replacement function.          *)
Given(s, m) == IF m.captures = <<>> THEN <<[text |-> WholeMatch(s, m.start, m.end)]>>
               ELSE CapsToLua(s, m.captures)

(* apply_str_repl.                                                          *)
ReplFails(tmpl, m) ==
  \E k \in DOMAIN tmpl : \/ tmpl[k] = BadEscape
                         \/ tmpl[k].op = "capture" /\ tmpl[k].n > Len(m.captures) /\ tmpl[k].n > 1
ItemText(s, m, item) ==
  CASE item.op = "literal" -> <<item.byte>>
    [] item.op = "capture" /\ (item.n = 0 \/ item.n > Len(m.captures)) -> WholeMatch(s, m.start, m.end)
    [] OTHER -> LET v == CapsToLua(s, m.captures)[item.n]
                IN  IF "text" \in DOMAIN v THEN v.text ELSE Numeral(v.position)
ApplyRepl(tmpl, s, m) == FlattenSeq([k \in DOMAIN tmpl |-> ItemText(s, m, tmpl[k])])

ScanInit ==
  /\ op \in {"gsub", "gmatch", "find", "plain"} /\ scan = "running"
  /\ subj \in Subjects /\ pat \in Patterns
  /\ op = "plain" => IsText(pat)
  /\ IF op = "gsub" THEN limit \in Limits /\ repl \in Templates \cup {Computed} /\ init = 1
     ELSE limit = -1 /\ repl = Computed /\ init \in Inits
  /\ pos = IF op = "gsub" THEN 0 ELSE GmatchPos(init, Len(subj))
  /\ prevEnd = None /\ count = 0 /\ result = <<>> /\ log = <<>>

Byte(i) == IF i < Len(subj) THEN <<subj[i + 1]>> ELSE <<>>
Fail == scan' = "error" /\ UNCHANGED <<args, pos, prevEnd, count, result, log>>

-----------------------------------------------------------------------------
(* b_gsub.                                                                  *)

Looping == op = "gsub" /\ scan = "running" /\ pos <= Len(subj) /\ (limit < 0 \/ Len(log) < limit)
Attempt == IF pat.anchored /\ pos > 0 THEN [end |-> NoMatch, captures |-> <<>>]
           ELSE PatternAt(subj, pos, pat)
SuppressedNever(end) == FALSE
Suppressed(end) == end = pos /\ pos = prevEnd

(* No match here, or an empty one right after the last: one byte is copied. *)
GsubCopy ==
  /\ Looping
  /\ Attempt.end # Malformed
  /\ Attempt.end = NoMatch \/ Suppressed(Attempt.end)
  /\ result' = result \o Byte(pos)
  /\ pos' = pos + 1
  /\ UNCHANGED <<args, scan, prevEnd, count, log>>

ReplacedInPlace(m, text, counts) ==
  /\ result' = result \o text
  /\ pos' = m.end
  /\ prevEnd' = m.end /\ count' = IF counts THEN count + 1 ELSE count
  /\ log' = Append(log, [start |-> m.start, end |-> m.end, text |-> text, given |-> Given(subj, m)])
  /\ UNCHANGED <<args, scan>>

(* The text for a match, and whether it counts as a substitution.           *)
Replaced(m, text, counts) ==
  LET whole == m.end > m.start IN
  /\ result' = result \o text \o (IF whole THEN <<>> ELSE Byte(pos))
  /\ pos' = IF whole THEN m.end ELSE pos + 1
  /\ prevEnd' = m.end
  /\ count' = IF counts THEN count + 1 ELSE count
  /\ log' = Append(log, [start |-> m.start, end |-> m.end, text |-> text, given |-> Given(subj, m)])
  /\ UNCHANGED <<args, scan>>

GsubMatch ==
  LET m == Found(pos, Attempt) IN
  /\ Looping
  /\ m.end >= 0 /\ ~Suppressed(m.end)
  /\ \/ repl # Computed /\ ~ReplFails(repl, m) /\ Replaced(m, ApplyRepl(repl, subj, m), TRUE)
     \/ repl # Computed /\ ReplFails(repl, m) /\ Fail
     \/ repl = Computed /\ \E text \in Texts : Replaced(m, text, TRUE)
     \/ repl = Computed /\ Replaced(m, WholeMatch(subj, m.start, m.end), FALSE)    \* nil or false
     \/ repl = Computed /\ Fail                                                    \* any other value

GsubMalformed == Looping /\ Attempt.end = Malformed /\ Fail

GsubEnd ==
  /\ op = "gsub" /\ scan = "running" /\ ~Looping
  /\ scan' = "done"
  /\ result' = IF count = 0 THEN subj ELSE result \o Slice(subj, pos, Len(subj) - pos)
  /\ UNCHANGED <<args, pos, prevEnd, count, log>>

-----------------------------------------------------------------------------
(* b_gmatch_iter: one call.  After an empty match that is suppressed the    *)
(* loop goes on even when the pattern is anchored.                          *)

SuppressedAt(i) == i = prevEnd /\ PatternAt(subj, i, pat).end = i
Tried == IF ~pat.anchored THEN pos .. Len(subj)
         ELSE IF SuppressedAt(pos) THEN {pos + 1} \cap 0 .. Len(subj)
         ELSE {pos} \cap 0 .. Len(subj)
Stops == {i \in Tried : PatternAt(subj, i, pat).end # NoMatch /\ ~SuppressedAt(i)}

GmatchYield ==
  LET m == Found(Least(Stops), PatternAt(subj, Least(Stops), pat)) IN
  /\ op = "gmatch" /\ scan = "running" /\ Stops # {}
  /\ IF m.end = Malformed THEN Fail
     ELSE /\ pos' = IF m.end = m.start THEN m.end + 1 ELSE m.end
          /\ prevEnd' = m.end
          /\ log' = Append(log, [start |-> m.start, end |-> m.end, text |-> <<>>,
                                 given |-> Given(subj, m)])
          /\ UNCHANGED <<args, scan, count, result>>

GmatchEnd ==
  /\ op = "gmatch" /\ scan = "running" /\ Stops = {}
  /\ scan' = "done" /\ UNCHANGED <<args, pos, prevEnd, count, result, log>>

(* b_find and b_match: what they report of the same search.  With "plain"   *)
(* the pattern is a text.                                                   *)
FindCall ==
  LET from == RelPos(init, Len(subj))
      m == IF op = "plain" THEN PlainFind(subj, from, TextOf(pat)) ELSE PatternFind(subj, from, pat)
  IN
  /\ op \in {"find", "plain"} /\ scan = "running"
  /\ IF m.end = Malformed THEN Fail
     ELSE /\ scan' = "done"
          /\ log' = IF m = NotFound THEN <<>>
                    ELSE <<[start |-> m.start, end |-> m.end, text |-> <<>>, given |-> Given(subj, m)]>>
          /\ UNCHANGED <<args, pos, prevEnd, count, result>>

ScanNext == GsubCopy \/ GsubMatch \/ GsubMalformed \/ GsubEnd \/ GmatchYield \/ GmatchEnd \/ FindCall
ScanSpec == ScanInit /\ [][ScanNext]_scanVars

-----------------------------------------------------------------------------
(* Properties.                                                              *)

Lua == [text : Seq(Bytes)] \cup [position : Nat]

(* The call's state has its type, and never runs past one byte after the    *)
(* subject.                                                                 *)
ScanTypeOK ==
  /\ scan \in {"running", "done", "error"}
  /\ pos \in 0 .. Len(subj) + 1 \cup {GmatchPos(init, Len(subj))}
  /\ prevEnd \in {None} \cup 0 .. Len(subj)
  /\ count \in 0 .. Len(log)
  /\ \A k \in DOMAIN log : log[k].end \in 0 .. Len(subj) /\ (\A v \in Range(log[k].given) : v \in Lua)

(* gsub, gmatch and find report the same matches, those of one scan from    *)
(* left to right: each is the one that the matcher finds there, they do not *)
(* overlap, an empty one does not touch the end of the one before, and no   *)
(* place the scan has passed over has a match it could have reported.       *)
At(i) == MatchFrom(subj, i, pat.items)
From == CASE op = "gsub" -> 0
          [] op = "gmatch" -> GmatchPos(init, Len(subj))
          [] OTHER -> RelPos(init, Len(subj))
Passed == CASE op \in {"find", "plain"} /\ scan = "running" -> {}
            [] op \in {"find", "plain"} /\ scan # "running" /\ log # <<>> -> From .. log[1].start
            [] op \notin {"find", "plain"} /\ (op = "gsub" \/ scan = "running") -> From .. pos - 1
            [] OTHER -> From .. Len(subj)
ScanIsLeftmost ==
  (~pat.anchored /\ scan # "error") =>
    /\ \A k \in DOMAIN log :
         /\ log[k].end = At(log[k].start).end
         /\ k > 1 => /\ log[k].start >= log[k - 1].end
                     /\ log[k].end > log[k - 1].end
    /\ \A i \in Passed \cap 0 .. Len(subj) :
         \/ At(i).end = NoMatch
         \/ \E k \in DOMAIN log : i = log[k].start \/ i \in log[k].start .. log[k].end - 1
         \/ At(i).end = i /\ (\E k \in DOMAIN log : i = log[k].end)

(* The result of gsub is the subject with each match replaced by its text:  *)
(* no byte between two matches, or beside an empty one, is lost or copied   *)
(* twice, whatever the limit and whichever matches are kept.                *)
EndBefore(k) == IF k = 1 THEN 0 ELSE log[k - 1].end
Gap(k, upTo) == Slice(subj, EndBefore(k), upTo - EndBefore(k))
CopiedSoFar == IF pos > Len(subj) THEN Len(subj) ELSE pos
ResultIsSplice ==
  (op = "gsub" /\ scan # "error") =>
    LET upTo == IF scan = "done" THEN Len(subj) ELSE CopiedSoFar IN
    result = FlattenSeq([k \in DOMAIN log |-> Gap(k, log[k].start) \o log[k].text])
             \o Gap(Len(log) + 1, upTo)

(* find, gmatch and gsub agree on the matches of a subject, and the result  *)
(* of gsub is the subject with them replaced.                               *)
ScansAgree == ScanTypeOK /\ ScanIsLeftmost /\ ResultIsSplice

(* The inductive invariant.  The arguments are fixed; the log is in order,  *)
(* as the matcher found it, and ends where the loop stands or before; what  *)
(* has been copied while nothing was substituted is the subject itself.     *)
ScanArgs ==
  /\ op \in {"gsub", "gmatch", "find", "plain"} /\ subj \in Subjects /\ pat \in Patterns
  /\ op = "plain" => IsText(pat)
  /\ repl \in Templates \cup {Computed} /\ init \in Int /\ limit \in Int

Entry == [start : 0 .. Len(subj), end : 0 .. Len(subj), text : Seq(Bytes), given : Seq(Lua)]

LogOrdered ==
  /\ log \in Seq(Entry)
  /\ \A k \in DOMAIN log : log[k].start <= log[k].end /\ log[k].end = At(log[k].start).end
  /\ \A k \in 2 .. Len(log) : log[k].start >= log[k - 1].end /\ log[k].end > log[k - 1].end

ScanPlace ==
  /\ op \in {"find", "plain"} /\ scan = "running" => log = <<>>
  /\ op \in {"gsub", "gmatch"} =>
       IF log = <<>> THEN prevEnd = None
       ELSE prevEnd = log[Len(log)].end /\ prevEnd <= pos /\ pos <= Len(subj) + 1
  /\ op = "gsub" => pos <= Len(subj) + 1

NothingCounted ==
  /\ result \in Seq(Bytes)
  /\ op = "gsub" /\ scan = "running" /\ count = 0 => result = Slice(subj, 0, CopiedSoFar)

ScanIInv == ScanArgs /\ LogOrdered /\ ScanPlace /\ NothingCounted /\ ScansAgree

(* Every step of a loop moves on in the subject, past which ScanTypeOK lets *)
(* it go by one byte only: a pattern that matches the empty string cannot hold *)
(* gsub or gmatch at one place.                                             *)
MovesOn == [][scan' # "running" \/ pos' > pos]_scanVars
=============================================================================
