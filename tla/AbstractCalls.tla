---------------------------- MODULE AbstractCalls ----------------------------
(***************************************************************************)
(* Protected calls as the Lua program sees them: a call either returns to  *)
(* its caller, or an error transfers control, in one step, to the          *)
(* innermost protected call in progress, or to the host when there is none.*)
(* An xpcall that has begun to run its handler no longer protects.         *)
(***************************************************************************)
EXTENDS Naturals, Sequences

CONSTANTS MaxStack,   \* bound on the frames in progress
          Undecided   \* no protected call has completed yet

VARIABLES
  stack,   \* the native frames in progress, innermost last
  status   \* first result of the last pcall or xpcall that completed

absVars == <<stack, status>>

Frames == {"main", "closure", "native", "pcall", "xpcall", "handler"}
Protecting == {"pcall", "xpcall"}

Top(s) == s[Len(s)]
Pop(s) == SubSeq(s, 1, Len(s) - 1)

(* The innermost frame of s that protects, 0 if there is none. *)
Innermost(s, i) == s[i] \in Protecting /\ \A j \in DOMAIN s : j > i => s[j] \notin Protecting
Catcher(s) ==
  IF \E i \in DOMAIN s : Innermost(s, i) THEN CHOOSE i \in DOMAIN s : Innermost(s, i) ELSE 0

(* The stack once an error raised in s has been delivered: pcall returns,   *)
(* xpcall calls its handler, an uncaught error leaves Evaluator::run.       *)
Landed(s) ==
  LET i == Catcher(s) IN
  IF i = 0 THEN <<>>
  ELSE IF s[i] = "pcall" THEN SubSeq(s, 1, i - 1)
  ELSE Append(SubSeq(s, 1, i - 1), "handler")

StatusLanded(s, old) == IF Catcher(s) # 0 /\ s[Catcher(s)] = "pcall" THEN FALSE ELSE old

AbsInit == stack = <<>> /\ status = Undecided

Begin == stack = <<>> /\ stack' = <<"main">> /\ UNCHANGED status

Enter(k) ==
  /\ stack # <<>> /\ Len(stack) < MaxStack
  /\ stack' = Append(stack, k)
  /\ UNCHANGED status

(* The innermost call returns; a protected one reports whether it failed.   *)
Leave ==
  /\ stack # <<>>
  /\ stack' = Pop(stack)
  /\ status' = CASE Top(stack) \in Protecting -> TRUE
                 [] Top(stack) = "handler"    -> FALSE
                 [] OTHER                     -> status

Throw ==
  /\ stack # <<>>
  /\ stack' = Landed(stack)
  /\ status' = StatusLanded(stack, status)

AbsNext == Begin \/ (\E k \in Frames \ {"main", "handler"} : Enter(k)) \/ Leave \/ Throw

AbsSpec == AbsInit /\ [][AbsNext]_absVars
=============================================================================
