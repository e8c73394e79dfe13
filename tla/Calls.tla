-------------------------------- MODULE Calls --------------------------------
(***************************************************************************)
(* Calls, protected calls and errors of src/lua/evaluator.cpp.  A frame of *)
(* `stack' is an activation of C++ code: Evaluator::run of a chunk, a      *)
(* closure inside call_value, pcall or xpcall inside its try block, xpcall *)
(* inside its catch block (the handler call), or another library function  *)
(* or metamethod dispatch that calls back into Lua and catches nothing.    *)
(* What Lua code computes is left open: any frame may call, return or fail.*)
(***************************************************************************)
EXTENDS Naturals, Sequences, FiniteSets

CONSTANTS
  MaxDepth,   \* 200 in call_value
  MaxStack,   \* bound on the frames in progress
  Object,     \* error values other than nil and strings
  Nil,
  Undecided   \* no protected call has completed yet

ASSUME BoundsNat == MaxDepth \in Nat /\ MaxStack \in Nat

VARIABLES
  stack,     \* the native frames in progress, innermost last
  pc,        \* what the innermost frame is doing
  depth,     \* Evaluator::m_depth
  err,       \* the LuaError in flight
  status,    \* first result of the last pcall or xpcall that completed
  caught,    \* history: the value handed to a catcher since the last throw
  raised,    \* history: who raised the error in flight, and with which value
  leaked     \* history: closure activations an error has unwound

vars == <<stack, pc, depth, err, status, caught, raised, leaked>>

Abs == INSTANCE AbstractCalls

Messages == {"stack overflow", "attempt to call", "bad argument", "no visible label",
             "assertion failed!", "runtime error"}
Value == Object \cup {Nil} \cup Messages

(* The rendering of an error value into the exception's text. *)
Text(v) == CASE v = Nil -> "nil" [] v \in Object -> "object" [] OTHER -> v

LuaError == [what : Messages \cup {"nil", "object"}, obj : Value, from_error : BOOLEAN]
NoError == [what |-> "nil", obj |-> Nil, from_error |-> FALSE]
NotRaised == [value |-> Nil, by |-> "none"]
NotCaught == [value |-> Nil, raised |-> Nil, by |-> "none"]

Top == stack[Len(stack)]
Pop == SubSeq(stack, 1, Len(stack) - 1)

Init ==
  /\ stack = <<>> /\ pc = "idle" /\ depth = 0
  /\ err = NoError /\ status = Undecided
  /\ caught = NotCaught /\ raised = NotRaised
  /\ leaked = 0

-----------------------------------------------------------------------------
(* throw: the error is in flight. *)
Fail(what, obj, flag, who, v) ==
  /\ pc' = "unwind"
  /\ err' = [what |-> what, obj |-> obj, from_error |-> flag]
  /\ raised' = [value |-> v, by |-> who]
  /\ caught' = NotCaught
  /\ UNCHANGED <<status, leaked>>

RuntimeError(m) == Fail(m, Nil, FALSE, "runtime", m)

Calm == UNCHANGED <<err, status, caught, raised, leaked>>

(* State::run_string / run_file: Evaluator::run of a chunk.  m_depth is not *)
(* reset.                                                                   *)
RunChunk ==
  /\ pc = "idle"
  /\ stack' = <<"main">> /\ pc' = "run"
  /\ UNCHANGED depth /\ Calm

-----------------------------------------------------------------------------
(* Lua code, and library functions that call back. *)
StartCall ==
  /\ pc \in {"run", "native"}
  /\ pc' = "call"
  /\ UNCHANGED <<stack, depth>> /\ Calm

CodeFails ==
  /\ pc \in {"run", "native"}
  /\ RuntimeError("runtime error")
  /\ UNCHANGED <<stack, depth>>

ReturnClosure == pc = "run" /\ Top = "closure" /\ stack' = Pop /\ depth' = depth - 1

(* call_value after eval_block: Flow::Return or the end of the body. *)
ClosureReturns == ReturnClosure /\ pc' = "return" /\ Calm

(* An unresolved Flow::Goto, after the decrement. *)
GotoEscapesClosure == ReturnClosure /\ RuntimeError("no visible label")

ChunkReturns ==
  /\ pc = "run" /\ Top = "main"
  /\ stack' = Pop /\ pc' = "idle"
  /\ UNCHANGED depth /\ Calm

GotoEscapesChunk ==
  /\ pc = "run" /\ Top = "main"
  /\ RuntimeError("no visible label")
  /\ UNCHANGED <<stack, depth>>

NativeReturns ==
  /\ pc = "native"
  /\ stack' = Pop /\ pc' = "return"
  /\ UNCHANGED depth /\ Calm

-----------------------------------------------------------------------------
(* call_value.  A __call metamethod, a closure or a builtin, is called in   *)
(* the place of the value.                                                  *)
MayPush == Len(stack) < MaxStack

AdmittedLate == depth <= MaxDepth
Admitted == depth < MaxDepth

EnterClosure ==
  /\ pc = "call" /\ MayPush /\ Admitted
  /\ stack' = Append(stack, "closure") /\ pc' = "run"
  /\ depth' = depth + 1
  /\ Calm

(* ++m_depth > 200, undone before the throw. *)
RejectKeepingDepth == depth' = depth + 1
Reject == UNCHANGED depth

Overflow ==
  /\ pc = "call" /\ ~Admitted
  /\ Reject
  /\ RuntimeError("stack overflow")
  /\ UNCHANGED stack

NotCallable ==
  /\ pc = "call"
  /\ RuntimeError("attempt to call")
  /\ UNCHANGED <<stack, depth>>

CallNative ==
  /\ pc = "call" /\ MayPush
  /\ stack' = Append(stack, "native") /\ pc' = "native"
  /\ UNCHANGED depth /\ Calm

(* b_pcall and b_xpcall: the call of f is inside the try block. *)
CallProtected(k) ==
  /\ pc = "call" /\ MayPush
  /\ stack' = Append(stack, k)
  /\ UNCHANGED <<pc, depth>> /\ Calm

(* pcall() and xpcall(f) throw before the try block. *)
BadProtectedCall ==
  /\ pc = "call"
  /\ RuntimeError("bad argument")
  /\ UNCHANGED <<stack, depth>>

(* b_error: the argument travels with the error, nil too. *)
CallError(v) ==
  /\ pc = "call"
  /\ Fail(Text(v), v, TRUE, "error", v)
  /\ UNCHANGED <<stack, depth>>

(* b_assert of a false value, with and without a message. *)
CallAssert(v) ==
  /\ pc = "call"
  /\ Fail(Text(v), v, FALSE, "assert", v)
  /\ UNCHANGED <<stack, depth>>

CallAssertBare ==
  /\ pc = "call"
  /\ RuntimeError("assertion failed!")
  /\ UNCHANGED <<stack, depth>>

-----------------------------------------------------------------------------
(* The results of a call reach the frame that made it. *)
Resume ==
  /\ pc = "return" /\ Top \in {"main", "closure", "native"}
  /\ pc' = IF Top = "native" THEN "native" ELSE "run"
  /\ UNCHANGED <<stack, depth>> /\ Calm

(* pcall and xpcall return true and the results; after a handler, false.    *)
CompleteProtected ==
  /\ pc = "return" /\ Top \in {"pcall", "xpcall", "handler"}
  /\ stack' = Pop
  /\ status' = (Top # "handler")
  /\ UNCHANGED <<pc, depth, err, caught, raised, leaked>>

-----------------------------------------------------------------------------
(* What a catcher is given. *)
PayloadByObject(e) == IF e.obj # Nil THEN e.obj ELSE e.what
Payload(e) == IF e.obj # Nil \/ e.from_error THEN e.obj ELSE e.what

Catch ==
  /\ caught' = [value |-> Payload(err), raised |-> raised.value, by |-> raised.by]
  /\ err' = NoError /\ raised' = NotRaised

(* Stack unwinding of a frame that catches nothing.  eval_block threw past  *)
(* the decrement of call_value.                                             *)
Passes == Top \in {"main", "closure", "native", "handler"}

UnwindFrame ==
  /\ pc = "unwind" /\ Passes
  /\ stack' = Pop
  /\ IF Top = "main"
       THEN pc' = "idle" /\ err' = NoError /\ raised' = NotRaised
       ELSE UNCHANGED <<pc, err, raised>>
  /\ leaked' = IF Top = "closure" THEN leaked + 1 ELSE leaked
  /\ UNCHANGED <<depth, status, caught>>

PcallCatches ==
  /\ pc = "unwind" /\ Top = "pcall"
  /\ Catch
  /\ stack' = Pop /\ pc' = "return"
  /\ status' = FALSE
  /\ UNCHANGED <<depth, leaked>>

(* The handler is called from the catch block: xpcall protects no more.     *)
HandlerStaysProtected == stack' = stack
HandlerFrame == stack' = Append(Pop, "handler")

XpcallCatches ==
  /\ pc = "unwind" /\ Top = "xpcall"
  /\ Catch
  /\ HandlerFrame /\ pc' = "call"
  /\ UNCHANGED <<depth, status, leaked>>

Next ==
  \/ RunChunk \/ StartCall \/ CodeFails
  \/ ClosureReturns \/ GotoEscapesClosure \/ ChunkReturns \/ GotoEscapesChunk \/ NativeReturns
  \/ EnterClosure \/ Overflow \/ NotCallable \/ CallNative
  \/ \E k \in {"pcall", "xpcall"} : CallProtected(k)
  \/ BadProtectedCall
  \/ \E v \in Object \cup {Nil} : CallError(v) \/ CallAssert(v)
  \/ CallAssertBare
  \/ Resume \/ CompleteProtected
  \/ UnwindFrame \/ PcallCatches \/ XpcallCatches

Spec == Init /\ [][Next]_vars

-----------------------------------------------------------------------------
StackOK == stack \in Seq(Abs!Frames) /\ depth \in Nat /\ leaked \in Nat

ErrorOK ==
  /\ pc \in {"idle", "run", "native", "call", "return", "unwind"}
  /\ err \in LuaError
  /\ status \in BOOLEAN \cup {Undecided}
  /\ caught \in [value : Value \cup {"nil", "object"}, raised : Value,
                 by : {"none", "runtime", "error", "assert"}]
  /\ raised \in [value : Value, by : {"none", "runtime", "error", "assert"}]

TypeOK == StackOK /\ ErrorOK

(* The closure activations on the native stack. *)
Closures == {i \in DOMAIN stack : stack[i] = "closure"}

(* m_depth counts the closures in progress plus all those an error ever     *)
(* unwound: the decrement is skipped by every exception but never twice,    *)
(* and the overflow path restores it.                                       *)
DepthAccounting == depth = Cardinality(Closures) + leaked

(* The guard bounds the closures nested on the native stack. *)
NestingBounded == Cardinality(Closures) <= MaxDepth

(* TODO.md: "The m_depth counter is already correctly managed (decremented  *)
(* before throws), so pcall doesn't change GC/depth semantics."             *)
DepthIsNesting == depth = Cardinality(Closures)

(* The argument of error() reaches the catcher as it was raised, nil        *)
(* included, however many frames were unwound and handlers run in between.  *)
ErrorValueKept == caught.by = "error" => caught.value = caught.raised

(* There is a frame whenever control is in one, and it is of the right kind.*)
WellNested ==
  /\ stack = <<>> <=> pc = "idle"
  /\ pc = "run" => Top \in {"main", "closure"}
  /\ pc = "native" => Top = "native"
  /\ \A i \in DOMAIN stack : stack[i] = "main" <=> i = 1

(* On its way the exception holds the argument of error() and its flag.     *)
ErrorInFlight == raised.by = "error" => err.from_error /\ err.obj = raised.value

(* The inductive invariant, of the stack and of the errors.  WellNested     *)
(* says which frame a step pops; the limit on m_depth, not the one on the   *)
(* nesting, is what call_value keeps.                                       *)
StackInv == StackOK /\ WellNested /\ DepthAccounting /\ depth <= MaxDepth
ErrorInv == ErrorOK /\ ErrorInFlight /\ ErrorValueKept
IInv == StackInv /\ ErrorInv

-----------------------------------------------------------------------------
(* An error in flight has already landed for the program. *)
Unwinding == pc = "unwind"

Promise == INSTANCE AbstractCalls WITH
  stack <- IF Unwinding THEN Abs!Landed(stack) ELSE stack,
  status <- IF Unwinding THEN Abs!StatusLanded(stack, status) ELSE status

(* Unwinding frame by frame delivers every error to the innermost protected *)
(* call in progress and to no other, and every pcall and xpcall completes   *)
(* once, with the status that tells whether its call failed.                *)
ImplementsPromise == Promise!AbsSpec
=============================================================================
