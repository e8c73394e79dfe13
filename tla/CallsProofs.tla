----------------------------- MODULE CallsProofs -----------------------------
(***************************************************************************)
(* Theorems about Calls, for every depth limit, every bound on the stack   *)
(* and every set of error values.                                          *)
(***************************************************************************)
EXTENDS Calls, FiniteSetTheorems, SequenceTheorems, TLAPS

-----------------------------------------------------------------------------
(* Sequences of frames. *)

ClosuresOf(s) == {i \in DOMAIN s : s[i] = "closure"}

LEMMA ClosuresFinite ==
  ASSUME NEW S, NEW s \in Seq(S)
  PROVE  IsFiniteSet(ClosuresOf(s)) /\ Cardinality(ClosuresOf(s)) \in Nat
<1>1. ClosuresOf(s) \subseteq 1..Len(s) BY DEF ClosuresOf
<1>2. IsFiniteSet(1..Len(s)) BY FS_Interval
<1> QED BY <1>1, <1>2, FS_Subset, FS_CardinalityType

(* A frame pushed. *)
LEMMA PushCount ==
  ASSUME NEW S, NEW s \in Seq(S), NEW k \in S
  PROVE  Cardinality(ClosuresOf(Append(s, k)))
           = Cardinality(ClosuresOf(s)) + (IF k = "closure" THEN 1 ELSE 0)
<1>1. CASE k = "closure"
  <2>1. ClosuresOf(Append(s, k)) = ClosuresOf(s) \cup {Len(s) + 1} BY <1>1 DEF ClosuresOf
  <2>2. Len(s) + 1 \notin ClosuresOf(s) BY DEF ClosuresOf
  <2> QED BY <1>1, <2>1, <2>2, ClosuresFinite, FS_AddElement
<1>2. CASE k # "closure"
  <2>1. ClosuresOf(Append(s, k)) = ClosuresOf(s) BY <1>2 DEF ClosuresOf
  <2> QED BY <1>2, <2>1, ClosuresFinite
<1> QED BY <1>1, <1>2

(* A prefix. *)
LEMMA PrefixFacts ==
  ASSUME NEW S, NEW s \in Seq(S), NEW n \in 0..Len(s)
  PROVE  /\ SubSeq(s, 1, n) \in Seq(S) /\ Len(SubSeq(s, 1, n)) = n
         /\ DOMAIN SubSeq(s, 1, n) = 1..n
         /\ \A i \in 1..n : SubSeq(s, 1, n)[i] = s[i]
<1>1. \A i \in 1..n : s[i] \in S OBVIOUS
<1>2. n \in Int /\ 1 \in Int OBVIOUS
<1>3. /\ SubSeq(s, 1, n) \in Seq(S)
      /\ Len(SubSeq(s, 1, n)) = IF 1 <= n THEN n - 1 + 1 ELSE 0
      /\ \A i \in 1..(n - 1 + 1) : SubSeq(s, 1, n)[i] = s[1 + i - 1]
  BY <1>1, <1>2, SubSeqProperties
<1> QED BY <1>3

(* A prefix of a prefix. *)
LEMMA PrefixOfPrefix ==
  ASSUME NEW S, NEW s \in Seq(S), NEW n \in 0..Len(s), NEW m \in 0..n
  PROVE  SubSeq(SubSeq(s, 1, n), 1, m) = SubSeq(s, 1, m)
<1>1. SubSeq(s, 1, n) \in Seq(S) /\ Len(SubSeq(s, 1, n)) = n
      /\ \A i \in 1..n : SubSeq(s, 1, n)[i] = s[i]
  BY PrefixFacts
<1>2. m \in 0..Len(s) /\ m \in 0..Len(SubSeq(s, 1, n)) BY <1>1
<1>3. /\ SubSeq(SubSeq(s, 1, n), 1, m) \in Seq(S) /\ Len(SubSeq(SubSeq(s, 1, n), 1, m)) = m
      /\ \A i \in 1..m : SubSeq(SubSeq(s, 1, n), 1, m)[i] = SubSeq(s, 1, n)[i]
  BY <1>1, <1>2, PrefixFacts
<1>4. /\ SubSeq(s, 1, m) \in Seq(S) /\ Len(SubSeq(s, 1, m)) = m
      /\ \A i \in 1..m : SubSeq(s, 1, m)[i] = s[i]
  BY <1>2, PrefixFacts
<1> QED BY <1>1, <1>3, <1>4, SeqEqual

(* A sequence without its last element. *)
LEMMA PopFacts ==
  ASSUME NEW S, NEW s \in Seq(S), s # <<>>
  PROVE  /\ Abs!Pop(s) \in Seq(S) /\ Len(Abs!Pop(s)) = Len(s) - 1
         /\ DOMAIN Abs!Pop(s) = 1..(Len(s) - 1) /\ DOMAIN s = 1..Len(s)
         /\ \A i \in 1..(Len(s) - 1) : Abs!Pop(s)[i] = s[i]
         /\ Len(s) \in Nat \ {0} /\ s[Len(s)] \in S
<1>1. Len(s) \in Nat \ {0} /\ Len(s) - 1 \in 0..Len(s) BY EmptySeq
<1>2. DOMAIN s = 1..Len(s) /\ s[Len(s)] \in S BY <1>1
<1> QED BY <1>1, <1>2, PrefixFacts DEF Abs!Pop

(* The innermost frame popped. *)
LEMMA PopCount ==
  ASSUME NEW S, NEW s \in Seq(S), s # <<>>
  PROVE  Cardinality(ClosuresOf(s))
           = Cardinality(ClosuresOf(Abs!Pop(s))) + (IF s[Len(s)] = "closure" THEN 1 ELSE 0)
<1> DEFINE p == Abs!Pop(s)
<1>1. /\ p \in Seq(S) /\ Len(s) \in Nat \ {0}
      /\ DOMAIN p = 1..(Len(s) - 1) /\ DOMAIN s = 1..Len(s)
      /\ \A i \in 1..(Len(s) - 1) : p[i] = s[i]
  BY PopFacts
<1>2. IsFiniteSet(ClosuresOf(p)) /\ Cardinality(ClosuresOf(p)) \in Nat BY <1>1, ClosuresFinite
<1> HIDE DEF p
<1>3. CASE s[Len(s)] = "closure"
  <2>1. ClosuresOf(s) = ClosuresOf(p) \cup {Len(s)} BY <1>1, <1>3 DEF ClosuresOf
  <2>2. Len(s) \notin ClosuresOf(p) BY <1>1 DEF ClosuresOf
  <2> QED BY <1>2, <1>3, <2>1, <2>2, FS_AddElement DEF p
<1>4. CASE s[Len(s)] # "closure"
  <2>1. ClosuresOf(s) = ClosuresOf(p) BY <1>1, <1>4 DEF ClosuresOf
  <2> QED BY <1>2, <1>4, <2>1 DEF p
<1> QED BY <1>3, <1>4

-----------------------------------------------------------------------------
(* How a step moves the stack.  Each lemma covers the depth, the history    *)
(* and the shape of the stack.                                              *)

(* Nothing pushed, nothing popped. *)
LEMMA KeepStack ==
  ASSUME StackInv, UNCHANGED <<stack, depth, leaked>>, stack # <<>>,
         \/ pc' \in {"call", "return", "unwind"}
         \/ pc' = "run" /\ Top \in {"main", "closure"}
         \/ pc' = "native" /\ Top = "native"
  PROVE  StackInv'
BY DEF StackInv, StackOK, WellNested, DepthAccounting, Closures, Top

(* A frame other than "main" pushed; m_depth follows if it is a closure. *)
LEMMA PushFrame ==
  ASSUME StackInv, stack # <<>>, leaked' = leaked,
         NEW k \in Abs!Frames \ {"main"}, stack' = Append(stack, k),
         depth' = depth + (IF k = "closure" THEN 1 ELSE 0), depth' <= MaxDepth,
         \/ pc' = "call"
         \/ pc' = "run" /\ k = "closure"
         \/ pc' = "native" /\ k = "native"
  PROVE  StackInv'
<1> USE DEF StackInv, StackOK
<1>1. stack' \in Seq(Abs!Frames) /\ Len(stack') = Len(stack) + 1 /\ stack'[Len(stack')] = k
      /\ DOMAIN stack' = 1..(Len(stack) + 1) /\ \A i \in 1..Len(stack) : stack'[i] = stack[i]
  OBVIOUS
<1>2. Len(stack) \in Nat \ {0} BY EmptySeq
<1>3. StackOK' BY <1>1
<1>4. WellNested' BY <1>1, <1>2 DEF WellNested, Top
<1>5. Closures = ClosuresOf(stack) /\ Closures' = ClosuresOf(stack') BY DEF Closures, ClosuresOf
<1>6. Cardinality(Closures') = Cardinality(Closures) + (IF k = "closure" THEN 1 ELSE 0)
  BY <1>5, PushCount
<1>7. Cardinality(Closures) \in Nat BY <1>5, ClosuresFinite
<1>8. DepthAccounting' BY <1>6, <1>7 DEF DepthAccounting
<1> QED BY <1>3, <1>4, <1>8

(* The innermost frame popped: a closure takes m_depth with it, or, unwound,*)
(* leaves it in the history.                                                *)
LEMMA PopFrame ==
  ASSUME StackInv, stack # <<>>, stack' = Pop,
         \/ /\ depth' = depth - (IF Top = "closure" THEN 1 ELSE 0)
            /\ leaked' = leaked
         \/ /\ depth' = depth
            /\ leaked' = leaked + (IF Top = "closure" THEN 1 ELSE 0),
         Top = "main" <=> pc' = "idle",
         pc' \in {"idle", "return", "unwind"}
  PROVE  StackInv'
<1> USE DEF StackInv, StackOK
<1>1. /\ stack' = Abs!Pop(stack) /\ stack' \in Seq(Abs!Frames) /\ Len(stack') = Len(stack) - 1
      /\ DOMAIN stack' = 1..(Len(stack) - 1) /\ DOMAIN stack = 1..Len(stack)
      /\ \A i \in 1..(Len(stack) - 1) : stack'[i] = stack[i]
      /\ Len(stack) \in Nat \ {0}
  BY PopFacts DEF Pop, Abs!Pop
<1>2. Top = "main" <=> Len(stack) = 1 BY <1>1 DEF WellNested, Top
<1>3. Closures = ClosuresOf(stack) /\ Closures' = ClosuresOf(stack') BY DEF Closures, ClosuresOf
<1>4. Cardinality(Closures) = Cardinality(Closures') + (IF Top = "closure" THEN 1 ELSE 0)
  BY <1>1, <1>3, PopCount DEF Top
<1>5. Cardinality(Closures') \in Nat BY <1>1, <1>3, ClosuresFinite
<1>6. DepthAccounting' BY <1>4, <1>5 DEF DepthAccounting
<1>7. depth' \in Nat /\ leaked' \in Nat /\ depth' <= MaxDepth
  BY <1>4, <1>5, BoundsNat DEF DepthAccounting
<1>8. stack' = <<>> <=> Len(stack) = 1
  BY <1>1, EmptySeq
<1>9. WellNested' BY <1>1, <1>2, <1>8 DEF WellNested, Top
<1> QED BY <1>1, <1>6, <1>7, <1>9

LEMMA InitInv == Init => StackInv
<1> SUFFICES ASSUME Init PROVE StackInv
  OBVIOUS
<1>1. Closures = {} BY DEF Init, Closures
<1>2. Cardinality({}) = 0 BY FS_EmptySet
<1> QED BY <1>1, <1>2, BoundsNat DEF Init, StackInv, StackOK, WellNested, DepthAccounting, Top

(* The handler takes the place of the xpcall frame. *)
LEMMA XpcallInv == StackInv /\ XpcallCatches => StackInv'
<1> SUFFICES ASSUME StackInv, XpcallCatches PROVE StackInv'
  OBVIOUS
<1> USE DEF StackInv, StackOK
<1> DEFINE p == Abs!Pop(stack)
<1>1. /\ pc = "unwind" /\ Top = "xpcall" /\ stack' = Append(p, "handler") /\ pc' = "call"
      /\ UNCHANGED <<depth, leaked>> /\ stack # <<>>
  BY DEF XpcallCatches, HandlerFrame, Pop, Abs!Pop, WellNested
<1>2. /\ p \in Seq(Abs!Frames) /\ Len(p) = Len(stack) - 1
      /\ DOMAIN p = 1..(Len(stack) - 1) /\ DOMAIN stack = 1..Len(stack)
      /\ \A i \in 1..(Len(stack) - 1) : p[i] = stack[i]
      /\ Len(stack) \in Nat \ {0}
  BY <1>1, PopFacts
<1>3. Cardinality(ClosuresOf(stack)) = Cardinality(ClosuresOf(p))
  <2>1. Cardinality(ClosuresOf(p)) \in Nat BY <1>2, ClosuresFinite
  <2>2. Cardinality(ClosuresOf(stack)) = Cardinality(ClosuresOf(p)) + 0
    BY <1>1, PopCount DEF Top
  <2> QED BY <2>1, <2>2
<1> HIDE DEF p
<1>4. "handler" \in Abs!Frames BY DEF Abs!Frames
<1>5. Cardinality(ClosuresOf(stack')) = Cardinality(ClosuresOf(p))
  <2>1. Cardinality(ClosuresOf(p)) \in Nat BY <1>2, ClosuresFinite
  <2>2. Cardinality(ClosuresOf(Append(p, "handler"))) = Cardinality(ClosuresOf(p)) + 0
    BY <1>2, <1>4, PushCount
  <2> QED BY <1>1, <2>1, <2>2
<1>6. Closures = ClosuresOf(stack) /\ Closures' = ClosuresOf(stack') BY DEF Closures, ClosuresOf
<1>7. DepthAccounting' BY <1>1, <1>3, <1>5, <1>6 DEF DepthAccounting
<1>8. stack' \in Seq(Abs!Frames) /\ DOMAIN stack' = 1..Len(stack)
      /\ \A i \in DOMAIN stack' : stack'[i] = IF i = Len(stack) THEN "handler" ELSE stack[i]
  BY <1>1, <1>2, <1>4
<1>9. stack' # <<>> BY <1>2, <1>8, EmptySeq
<1>10. WellNested' BY <1>1, <1>2, <1>8, <1>9 DEF WellNested, Top
<1> QED BY <1>1, <1>7, <1>8, <1>10

LEMMA RunChunkInv == StackInv /\ RunChunk => StackInv'
<1> SUFFICES ASSUME StackInv, RunChunk PROVE StackInv'
  OBVIOUS
<1>1. stack = <<>> /\ stack' = <<"main">> /\ pc' = "run" /\ UNCHANGED <<depth, leaked>>
  BY DEF RunChunk, Calm, StackInv, WellNested
<1>2. Closures = {} /\ Closures' = {} BY <1>1 DEF Closures
<1>3. stack' \in Seq(Abs!Frames) BY <1>1 DEF Abs!Frames
<1> QED BY <1>1, <1>2, <1>3 DEF StackInv, StackOK, WellNested, DepthAccounting, Top

LEMMA NextInv == StackInv /\ [Next]_vars => StackInv'
<1> SUFFICES ASSUME StackInv, [Next]_vars PROVE StackInv'
  OBVIOUS
<1> USE DEF Calm, RuntimeError, Fail
<1>0. pc # "idle" => stack # <<>> BY DEF StackInv, WellNested
<1>1. CASE RunChunk BY <1>1, RunChunkInv
<1>2. CASE StartCall \/ CodeFails
  BY <1>0, <1>2, KeepStack DEF StartCall, CodeFails
<1>3. CASE ClosureReturns \/ GotoEscapesClosure
  <2>1. /\ stack' = Pop /\ depth' = depth - 1 /\ leaked' = leaked /\ pc = "run" /\ Top = "closure"
        /\ pc' \in {"return", "unwind"}
    BY <1>3 DEF ClosureReturns, GotoEscapesClosure, ReturnClosure
  <2> QED BY <1>0, <2>1, PopFrame
<1>4. CASE ChunkReturns
  <2>1. /\ stack' = Pop /\ depth' = depth /\ leaked' = leaked /\ Top = "main" /\ pc = "run" /\ pc' = "idle"
    BY <1>4 DEF ChunkReturns
  <2>2. depth - 0 = depth BY DEF StackInv, StackOK
  <2> QED BY <1>0, <2>1, <2>2, PopFrame
<1>5. CASE GotoEscapesChunk
  BY <1>0, <1>5, KeepStack DEF GotoEscapesChunk
<1>6. CASE NativeReturns
  <2>1. /\ stack' = Pop /\ depth' = depth /\ leaked' = leaked /\ Top = "native" /\ pc = "native"
        /\ pc' = "return"
    BY <1>6 DEF NativeReturns, StackInv, WellNested
  <2>2. depth - 0 = depth BY DEF StackInv, StackOK
  <2> QED BY <1>0, <2>1, <2>2, PopFrame
<1>7. CASE EnterClosure
  <2>1. /\ pc = "call" /\ stack' = Append(stack, "closure") /\ pc' = "run" /\ depth' = depth + 1
        /\ leaked' = leaked /\ depth < MaxDepth
    BY <1>7 DEF EnterClosure, Admitted
  <2>2. depth' <= MaxDepth BY <2>1, BoundsNat DEF StackInv, StackOK
  <2>3. "closure" \in Abs!Frames \ {"main"} BY DEF Abs!Frames
  <2> QED BY <1>0, <2>1, <2>2, <2>3, PushFrame
<1>8. CASE Overflow \/ NotCallable \/ BadProtectedCall \/ CallAssertBare
           \/ \E v \in Object \cup {Nil} : CallError(v) \/ CallAssert(v)
  <2>1. UNCHANGED <<stack, depth, leaked>> /\ pc = "call" /\ pc' = "unwind"
    BY <1>8 DEF Overflow, Reject, NotCallable, BadProtectedCall, CallAssertBare, CallError, CallAssert
  <2> QED BY <1>0, <2>1, KeepStack
<1>9. CASE CallNative \/ \E k \in {"pcall", "xpcall"} : CallProtected(k)
  <2>1. PICK k \in {"native", "pcall", "xpcall"} :
          /\ pc = "call" /\ stack' = Append(stack, k) /\ UNCHANGED <<depth, leaked>>
          /\ pc' = "call" \/ (pc' = "native" /\ k = "native")
    BY <1>9 DEF CallNative, CallProtected
  <2>2. depth' = depth + 0 /\ depth' <= MaxDepth BY <2>1 DEF StackInv, StackOK
  <2>3. k \in Abs!Frames \ {"main"} /\ k # "closure" BY DEF Abs!Frames
  <2> QED BY <1>0, <2>1, <2>2, <2>3, PushFrame
<1>10. CASE Resume
  BY <1>0, <1>10, KeepStack DEF Resume
<1>11. CASE CompleteProtected
  <2>1. /\ stack' = Pop /\ depth' = depth /\ leaked' = leaked /\ pc = "return" /\ pc' = "return"
        /\ Top \notin {"closure", "main"}
    BY <1>11 DEF CompleteProtected
  <2>2. depth - 0 = depth BY DEF StackInv, StackOK
  <2> QED BY <1>0, <2>1, <2>2, PopFrame
<1>12. CASE UnwindFrame
  <2>1. /\ stack' = Pop /\ depth' = depth /\ pc = "unwind"
        /\ pc' = IF Top = "main" THEN "idle" ELSE "unwind"
        /\ leaked' = IF Top = "closure" THEN leaked + 1 ELSE leaked
    BY <1>12 DEF UnwindFrame
  <2>2. leaked + 0 = leaked BY DEF StackInv, StackOK
  <2> QED BY <1>0, <2>1, <2>2, PopFrame
<1>13. CASE PcallCatches
  <2>1. /\ stack' = Pop /\ depth' = depth /\ leaked' = leaked /\ pc = "unwind" /\ pc' = "return"
        /\ Top = "pcall"
    BY <1>13 DEF PcallCatches
  <2>2. depth - 0 = depth BY DEF StackInv, StackOK
  <2> QED BY <1>0, <2>1, <2>2, PopFrame
<1>14. CASE XpcallCatches BY <1>14, XpcallInv
<1>15. CASE UNCHANGED vars
  BY <1>15 DEF vars, StackInv, StackOK, WellNested, DepthAccounting, Closures, Top
<1> QED BY <1>1, <1>2, <1>3, <1>4, <1>5, <1>6, <1>7, <1>8, <1>9, <1>10, <1>11, <1>12, <1>13,
           <1>14, <1>15 DEF Next

THEOREM StackInvariance == Spec => []StackInv
BY InitInv, NextInv, PTL DEF Spec

-----------------------------------------------------------------------------
(* Evaluator::m_depth is, at every step, the closures in progress plus the  *)
(* closures whose activation an error ever unwound.                         *)
THEOREM DepthAccounted == Spec => []DepthAccounting
<1>1. StackInv => DepthAccounting BY DEF StackInv
<1> QED BY <1>1, StackInvariance, PTL

(* The depth guard of call_value bounds the nesting of closures, whatever   *)
(* errors were raised and caught before.                                    *)
THEOREM NestingLimited == Spec => []NestingBounded
<1>1. StackInv => NestingBounded
  <2> SUFFICES ASSUME StackInv PROVE NestingBounded
    OBVIOUS
  <2>1. Closures = ClosuresOf(stack) BY DEF Closures, ClosuresOf
  <2>2. Cardinality(Closures) \in Nat BY <2>1, ClosuresFinite DEF StackInv, StackOK
  <2> QED BY <2>2, BoundsNat DEF StackInv, StackOK, DepthAccounting, NestingBounded
<1> QED BY <1>1, StackInvariance, PTL

-----------------------------------------------------------------------------
(* The errors in flight. *)

(* throw: a step that raises an error well formed, and of error() with its  *)
(* argument.                                                                *)
LEMMA FailError ==
  ASSUME ErrorInv, NEW what \in Messages \cup {"nil", "object"}, NEW obj \in Value,
         NEW flag \in BOOLEAN, NEW who \in {"runtime", "error", "assert"}, NEW v \in Value,
         who = "error" => flag /\ obj = v,
         Fail(what, obj, flag, who, v)
  PROVE  ErrorInv'
<1> USE DEF Fail, ErrorInv
<1>1. err' \in LuaError BY DEF LuaError
<1>2. Nil \in Value BY DEF Value
<1>3. caught' = NotCaught /\ raised' = [value |-> v, by |-> who] /\ pc' = "unwind" /\ status' = status
  OBVIOUS
<1>4. ErrorOK' BY <1>1, <1>2, <1>3 DEF ErrorOK, NotCaught
<1>5. ErrorInFlight' BY <1>3 DEF ErrorInFlight
<1>6. ErrorValueKept' BY <1>3 DEF ErrorValueKept, NotCaught
<1> QED BY <1>4, <1>5, <1>6

LEMMA RuntimeErrorKept ==
  ASSUME ErrorInv, NEW m \in Messages, RuntimeError(m)
  PROVE  ErrorInv'
<1>1. Nil \in Value /\ m \in Value BY DEF Value
<1> QED BY <1>1, FailError DEF RuntimeError

(* A step that touches no error. *)
LEMMA CalmError ==
  ASSUME ErrorInv, UNCHANGED <<err, caught, raised>>, status' \in BOOLEAN \cup {Undecided},
         pc' \in {"idle", "run", "native", "call", "return", "unwind"}
  PROVE  ErrorInv'
BY DEF ErrorInv, ErrorOK, ErrorInFlight, ErrorValueKept

(* The catch blocks: Payload picks what error() was given. *)
LEMMA CatchError ==
  ASSUME ErrorInv, Catch, status' \in BOOLEAN \cup {Undecided}, pc' \in {"call", "return"}
  PROVE  ErrorInv'
<1> USE DEF ErrorInv, Catch
<1>1. Nil \in Value BY DEF Value
<1>2. err \in LuaError /\ raised \in [value : Value, by : {"none", "runtime", "error", "assert"}]
  BY DEF ErrorOK
<1>3. Payload(err) \in Value \cup {"nil", "object"}
  <2>1. err.obj \in Value /\ err.what \in Messages \cup {"nil", "object"} BY <1>2 DEF LuaError
  <2> QED BY <2>1 DEF Payload, Value
<1>4. err' \in LuaError /\ raised' = NotRaised BY <1>1 DEF NoError, LuaError
<1>5. /\ caught' = [value |-> Payload(err), raised |-> raised.value, by |-> raised.by]
      /\ raised.value \in Value /\ raised.by \in {"none", "runtime", "error", "assert"}
  BY <1>2
<1>6. ErrorOK' BY <1>1, <1>3, <1>4, <1>5 DEF ErrorOK, NotRaised
<1>7. ErrorInFlight' BY <1>4 DEF ErrorInFlight, NotRaised
<1>8. ErrorValueKept' BY <1>5 DEF ErrorValueKept, ErrorInFlight, Payload
<1> QED BY <1>6, <1>7, <1>8

LEMMA InitError == Init => ErrorInv
<1>1. Nil \in Value BY DEF Value
<1> QED BY <1>1 DEF Init, ErrorInv, ErrorOK, ErrorInFlight, ErrorValueKept, NoError, NotRaised, NotCaught,
                    LuaError

LEMMA NextError == ErrorInv /\ [Next]_vars => ErrorInv'
<1> SUFFICES ASSUME ErrorInv, [Next]_vars PROVE ErrorInv'
  OBVIOUS
<1>0. status \in BOOLEAN \cup {Undecided} BY DEF ErrorInv, ErrorOK
<1>1. CASE RunChunk \/ StartCall \/ ClosureReturns \/ ChunkReturns \/ NativeReturns \/ EnterClosure
           \/ CallNative \/ Resume
  <2>1. Calm /\ pc' \in {"idle", "run", "native", "call", "return", "unwind"}
    BY <1>1 DEF RunChunk, StartCall, ClosureReturns, ChunkReturns, NativeReturns, EnterClosure,
                CallNative, Resume
  <2> QED BY <1>0, <2>1, CalmError DEF Calm
<1>2. CASE \E k \in {"pcall", "xpcall"} : CallProtected(k)
  <2>1. Calm /\ pc' = pc BY <1>2 DEF CallProtected
  <2>2. pc \in {"idle", "run", "native", "call", "return", "unwind"} BY DEF ErrorInv, ErrorOK
  <2> QED BY <1>0, <2>1, <2>2, CalmError DEF Calm
<1>3. CASE CodeFails \/ GotoEscapesClosure \/ GotoEscapesChunk \/ Overflow \/ NotCallable
           \/ BadProtectedCall \/ CallAssertBare
  <2>1. PICK m \in Messages : RuntimeError(m)
    BY <1>3 DEF CodeFails, GotoEscapesClosure, GotoEscapesChunk, Overflow, NotCallable,
                BadProtectedCall, CallAssertBare, Messages
  <2> QED BY <2>1, RuntimeErrorKept
<1>4. CASE \E v \in Object \cup {Nil} : CallError(v) \/ CallAssert(v)
  <2>1. PICK v \in Object \cup {Nil} : CallError(v) \/ CallAssert(v) BY <1>4
  <2>2. v \in Value /\ Text(v) \in Messages \cup {"nil", "object"} BY DEF Value, Text
  <2>3. CASE CallError(v) BY <2>2, <2>3, FailError DEF CallError
  <2>4. CASE CallAssert(v) BY <2>2, <2>4, FailError DEF CallAssert
  <2> QED BY <2>1, <2>3, <2>4
<1>5. CASE CompleteProtected
  <2>1. UNCHANGED <<err, caught, raised>> /\ status' \in BOOLEAN /\ pc' = "return"
    BY <1>5 DEF CompleteProtected
  <2> QED BY <2>1, CalmError
<1>6. CASE UnwindFrame
  <2>1. CASE Top # "main"
    <3>1. UNCHANGED <<err, caught, raised, status, pc>> BY <1>6, <2>1 DEF UnwindFrame
    <3> QED BY <3>1 DEF ErrorInv, ErrorOK, ErrorInFlight, ErrorValueKept
  <2>2. CASE Top = "main"
    <3>1. /\ pc' = "idle" /\ err' = NoError /\ raised' = NotRaised /\ UNCHANGED <<caught, status>>
      BY <1>6, <2>2 DEF UnwindFrame
    <3>2. Nil \in Value BY DEF Value
    <3> QED BY <3>1, <3>2 DEF ErrorInv, ErrorOK, ErrorInFlight, ErrorValueKept, NoError, NotRaised, LuaError
  <2> QED BY <2>1, <2>2
<1>7. CASE PcallCatches BY <1>7, CatchError DEF PcallCatches
<1>8. CASE XpcallCatches BY <1>0, <1>8, CatchError DEF XpcallCatches
<1>9. CASE UNCHANGED vars
  BY <1>9 DEF vars, ErrorInv, ErrorOK, ErrorInFlight, ErrorValueKept
<1> QED BY <1>1, <1>2, <1>3, <1>4, <1>5, <1>6, <1>7, <1>8, <1>9 DEF Next

(* The stack and the error in flight, together. *)
THEOREM Invariance == Spec => []IInv
<1>1. Init => ErrorInv BY InitError
<1>2. ErrorInv /\ [Next]_vars => ErrorInv' BY NextError
<1>3. StackInv /\ ErrorInv => IInv BY DEF IInv
<1> QED BY <1>1, <1>2, <1>3, StackInvariance, PTL DEF Spec

(* What error() was given, nil included, is what pcall returns or xpcall's  *)
(* handler receives, whatever was unwound on the way.                       *)
THEOREM ErrorValuesKept == Spec => []ErrorValueKept
<1>1. IInv => ErrorValueKept BY DEF IInv, ErrorInv
<1> QED BY <1>1, Invariance, PTL

-----------------------------------------------------------------------------
(* Refinement: unwinding implements the one-step transfer of AbstractCalls. *)

(* An error raised above a frame that does not protect lands where it would *)
(* if it had been raised below that frame.                                  *)
LEMMA LandedPop ==
  ASSUME NEW s \in Seq(Abs!Frames), s # <<>>, s[Len(s)] \notin Abs!Protecting, NEW old
  PROVE  /\ Abs!Landed(Abs!Pop(s)) = Abs!Landed(s)
         /\ Abs!StatusLanded(Abs!Pop(s), old) = Abs!StatusLanded(s, old)
<1> DEFINE p == Abs!Pop(s)
<1>1. /\ p \in Seq(Abs!Frames) /\ Len(p) = Len(s) - 1 /\ Len(s) \in Nat \ {0}
      /\ DOMAIN p = 1..(Len(s) - 1) /\ DOMAIN s = 1..Len(s)
      /\ \A i \in 1..(Len(s) - 1) : p[i] = s[i]
  BY PopFacts
<1>2. \A i \in 1..(Len(s) - 1) : SubSeq(p, 1, i - 1) = SubSeq(s, 1, i - 1)
  BY <1>1, PrefixOfPrefix DEF Abs!Pop
<1> HIDE DEF p
<1>3. \A i : i \in DOMAIN p /\ Abs!Innermost(p, i) <=> i \in DOMAIN s /\ Abs!Innermost(s, i)
  <2>1. ASSUME NEW i \in DOMAIN p PROVE Abs!Innermost(p, i) <=> Abs!Innermost(s, i)
    BY <1>1 DEF Abs!Innermost
  <2>2. ~Abs!Innermost(s, Len(s)) BY DEF Abs!Innermost
  <2>3. DOMAIN s = DOMAIN p \cup {Len(s)} BY <1>1
  <2> QED BY <2>1, <2>2, <2>3
<1>4. Abs!Catcher(p) = Abs!Catcher(s) /\ Abs!Catcher(p) \in DOMAIN p \cup {0}
  <2>1. CASE \E i \in DOMAIN p : Abs!Innermost(p, i)
    <3>1. (CHOOSE i \in DOMAIN p : Abs!Innermost(p, i)) = CHOOSE i \in DOMAIN s : Abs!Innermost(s, i)
      BY <1>3
    <3>2. (CHOOSE i \in DOMAIN p : Abs!Innermost(p, i)) \in DOMAIN p BY <2>1
    <3> QED BY <2>1, <1>3, <3>1, <3>2 DEF Abs!Catcher
  <2>2. CASE ~\E i \in DOMAIN p : Abs!Innermost(p, i)
    BY <2>2, <1>3 DEF Abs!Catcher
  <2> QED BY <2>1, <2>2
<1>5. \A i \in DOMAIN p : p[i] = s[i] /\ SubSeq(p, 1, i - 1) = SubSeq(s, 1, i - 1)
  BY <1>1, <1>2
<1>6. 0 \notin DOMAIN p BY <1>1
<1>7. Abs!Landed(p) = Abs!Landed(s) BY <1>4, <1>5, <1>6 DEF Abs!Landed
<1>8. Abs!StatusLanded(p, old) = Abs!StatusLanded(s, old)
  BY <1>4, <1>5, <1>6 DEF Abs!StatusLanded
<1> QED BY <1>7, <1>8 DEF p

(* A protecting frame on top catches. *)
LEMMA LandedTop ==
  ASSUME NEW s \in Seq(Abs!Frames), s # <<>>, s[Len(s)] \in Abs!Protecting, NEW old
  PROVE  /\ Abs!Landed(s) = IF s[Len(s)] = "pcall" THEN Abs!Pop(s) ELSE Append(Abs!Pop(s), "handler")
         /\ Abs!StatusLanded(s, old) = IF s[Len(s)] = "pcall" THEN FALSE ELSE old
<1>1. Len(s) \in Nat \ {0} /\ DOMAIN s = 1..Len(s) BY PopFacts
<1>2. Abs!Innermost(s, Len(s)) BY <1>1 DEF Abs!Innermost
<1>3. \A i \in DOMAIN s : Abs!Innermost(s, i) => i = Len(s)
  BY <1>1 DEF Abs!Innermost
<1>4. Abs!Catcher(s) = Len(s) BY <1>1, <1>2, <1>3 DEF Abs!Catcher
<1> QED BY <1>1, <1>4 DEF Abs!Landed, Abs!StatusLanded, Abs!Pop

(* An empty stack. *)
LEMMA LandedEmpty ==
  ASSUME NEW old
  PROVE  Abs!Landed(<<>>) = <<>> /\ Abs!StatusLanded(<<>>, old) = old
<1>1. Abs!Catcher(<<>>) = 0 BY DEF Abs!Catcher
<1> QED BY <1>1 DEF Abs!Landed, Abs!StatusLanded

(* The operators of the abstract specification do not depend on its state.  *)
LEMMA PromiseOperators ==
  /\ Promise!Frames = Abs!Frames
  /\ \A s : Promise!Landed(s) = Abs!Landed(s) /\ Promise!Pop(s) = Abs!Pop(s) /\ Promise!Top(s) = Abs!Top(s)
  /\ \A s, old : Promise!StatusLanded(s, old) = Abs!StatusLanded(s, old)
<1>1. Promise!Protecting = Abs!Protecting BY DEF Promise!Protecting, Abs!Protecting
<1>2. \A s, i : Promise!Innermost(s, i) <=> Abs!Innermost(s, i)
  BY <1>1 DEF Promise!Innermost, Abs!Innermost
<1>3. ASSUME NEW s PROVE Promise!Catcher(s) = Abs!Catcher(s)
  <2>1. (CHOOSE i \in DOMAIN s : Promise!Innermost(s, i)) = CHOOSE i \in DOMAIN s : Abs!Innermost(s, i)
    BY <1>2
  <2> QED BY <1>2, <2>1 DEF Promise!Catcher, Abs!Catcher
<1>4. ASSUME NEW s PROVE Promise!Landed(s) = Abs!Landed(s)
  BY <1>3 DEF Promise!Landed, Abs!Landed
<1>5. ASSUME NEW s, NEW old PROVE Promise!StatusLanded(s, old) = Abs!StatusLanded(s, old)
  BY <1>3 DEF Promise!StatusLanded, Abs!StatusLanded
<1> QED BY <1>4, <1>5 DEF Promise!Frames, Abs!Frames, Promise!Pop, Abs!Pop, Promise!Top, Abs!Top

LEMMA InitMaps == Init => Promise!AbsInit
BY DEF Init, Unwinding, Promise!AbsInit

(* Raising an error, the stack kept: it lands at once. *)
LEMMA ThrowMaps ==
  ASSUME pc # "unwind", pc' = "unwind", stack # <<>>, UNCHANGED <<stack, status>>
  PROVE  Promise!Throw
BY PromiseOperators DEF Promise!Throw, Unwinding

(* Unwinding a frame, or raising an error from it after it is gone. *)
LEMMA UnwindMaps ==
  ASSUME StackInv, stack # <<>>, Top \notin Abs!Protecting, stack' = Pop, status' = status
  PROVE  Abs!Landed(stack') = Abs!Landed(stack)
         /\ Abs!StatusLanded(stack', status') = Abs!StatusLanded(stack, status)
BY LandedPop DEF StackInv, StackOK, Top, Pop, Abs!Pop

LEMMA StepMaps == StackInv /\ StackInv' /\ [Next]_vars => [Promise!AbsNext]_(Promise!absVars)
<1> SUFFICES ASSUME StackInv, StackInv', [Next]_vars PROVE [Promise!AbsNext]_(Promise!absVars)
  OBVIOUS
<1> USE DEF Calm, RuntimeError, Fail
<1>0. pc # "idle" => stack # <<>> BY DEF StackInv, WellNested
<1>1. CASE RunChunk
  <2>1. Promise!Begin BY <1>1 DEF RunChunk, Promise!Begin, Unwinding, StackInv, WellNested
  <2> QED BY <2>1 DEF Promise!AbsNext
<1>2. CASE StartCall
  BY <1>2 DEF StartCall, Promise!absVars, Unwinding
<1>3. CASE CodeFails \/ GotoEscapesChunk \/ Overflow \/ NotCallable \/ BadProtectedCall \/ CallAssertBare
           \/ \E v \in Object \cup {Nil} : CallError(v) \/ CallAssert(v)
  <2>1. UNCHANGED <<stack, status>> /\ pc # "unwind" /\ pc # "idle" /\ pc' = "unwind"
    BY <1>3 DEF CodeFails, GotoEscapesChunk, Overflow, NotCallable, BadProtectedCall, CallAssertBare,
                CallError, CallAssert
  <2> QED BY <1>0, <2>1, ThrowMaps DEF Promise!AbsNext
<1>4. CASE ClosureReturns \/ ChunkReturns \/ NativeReturns
  <2>1. stack' = Pop /\ status' = status /\ pc # "unwind" /\ pc # "idle" /\ pc' # "unwind"
        /\ Top \in {"closure", "main", "native"}
    BY <1>4 DEF ClosureReturns, ReturnClosure, ChunkReturns, NativeReturns, StackInv, WellNested
  <2>2. Promise!Leave
    <3>1. ~(Top \in Promise!Protecting) /\ Top # "handler" BY <2>1 DEF Promise!Protecting
    <3> QED BY <1>0, <2>1, <3>1, PromiseOperators
            DEF Promise!Leave, Unwinding, Top, Pop, Abs!Pop, Abs!Top
  <2> QED BY <2>2 DEF Promise!AbsNext
<1>5. CASE GotoEscapesClosure
  <2>1. stack' = Pop /\ status' = status /\ pc # "unwind" /\ pc' = "unwind" /\ pc # "idle" /\ Top = "closure"
    BY <1>5 DEF GotoEscapesClosure, ReturnClosure
  <2>2. "closure" \notin Abs!Protecting BY DEF Abs!Protecting
  <2>3. Promise!Throw
    BY <1>0, <2>1, <2>2, UnwindMaps, PromiseOperators DEF Promise!Throw, Unwinding
  <2> QED BY <2>3 DEF Promise!AbsNext
<1>6. CASE EnterClosure \/ CallNative \/ \E k \in {"pcall", "xpcall"} : CallProtected(k)
  <2>1. PICK k \in {"closure", "native", "pcall", "xpcall"} :
          pc = "call" /\ Len(stack) < MaxStack /\ stack' = Append(stack, k) /\ status' = status
          /\ pc' # "unwind"
    BY <1>6 DEF EnterClosure, CallNative, CallProtected, MayPush
  <2>2. Promise!Enter(k) BY <1>0, <2>1 DEF Promise!Enter, Unwinding
  <2>3. k \in Promise!Frames \ {"main", "handler"} BY DEF Promise!Frames
  <2> QED BY <2>2, <2>3 DEF Promise!AbsNext
<1>7. CASE Resume
  BY <1>7 DEF Resume, Promise!absVars, Unwinding
<1>8. CASE CompleteProtected
  <2>1. stack' = Pop /\ status' = (Top # "handler") /\ pc = "return" /\ pc' = "return"
        /\ Top \in {"pcall", "xpcall", "handler"}
    BY <1>8 DEF CompleteProtected
  <2>2. Promise!Protecting = {"pcall", "xpcall"} BY DEF Promise!Protecting
  <2>3. Promise!Leave
    <3>1. stack # <<>> /\ ~Unwinding /\ ~Unwinding' BY <1>0, <2>1 DEF Unwinding
    <3>2. CASE Top = "handler"
      <4>1. status' = FALSE BY <2>1, <3>2
      <4> QED BY <2>1, <2>2, <3>1, <3>2, <4>1, PromiseOperators
              DEF Promise!Leave, Top, Pop, Abs!Pop, Abs!Top
    <3>3. CASE Top # "handler"
      <4>1. status' = TRUE BY <2>1, <3>3
      <4>2. Top \in Promise!Protecting BY <2>1, <2>2, <3>3
      <4> QED BY <2>1, <3>1, <3>3, <4>1, <4>2, PromiseOperators
              DEF Promise!Leave, Top, Pop, Abs!Pop, Abs!Top
    <3> QED BY <3>2, <3>3
  <2> QED BY <2>3 DEF Promise!AbsNext
<1>9. CASE UnwindFrame
  <2>1. /\ stack' = Pop /\ status' = status /\ pc = "unwind"
        /\ pc' = IF Top = "main" THEN "idle" ELSE "unwind"
        /\ Top \notin Abs!Protecting
    BY <1>9 DEF UnwindFrame, Passes, Abs!Protecting
  <2>2. Abs!Landed(stack') = Abs!Landed(stack)
        /\ Abs!StatusLanded(stack', status') = Abs!StatusLanded(stack, status)
    BY <1>0, <2>1, UnwindMaps
  <2>3. CASE Top # "main"
    BY <2>1, <2>2, <2>3 DEF Promise!absVars, Unwinding
  <2>4. CASE Top = "main"
    <3>1. stack' = <<>> BY <2>1, <2>4 DEF StackInv, WellNested
    <3>2. Abs!Landed(stack) = <<>> /\ Abs!StatusLanded(stack, status) = status'
      BY <2>2, <3>1, LandedEmpty
    <3> QED BY <2>1, <2>4, <3>1, <3>2 DEF Promise!absVars, Unwinding
  <2> QED BY <2>3, <2>4
<1>10. CASE PcallCatches
  <2>1. stack' = Pop /\ status' = FALSE /\ pc = "unwind" /\ pc' = "return" /\ Top = "pcall"
    BY <1>10 DEF PcallCatches
  <2>2. Abs!Landed(stack) = Pop /\ Abs!StatusLanded(stack, status) = FALSE
    BY <1>0, <2>1, LandedTop DEF StackInv, StackOK, Top, Pop, Abs!Pop, Abs!Protecting
  <2> QED BY <2>1, <2>2 DEF Promise!absVars, Unwinding
<1>11. CASE XpcallCatches
  <2>1. stack' = Append(Pop, "handler") /\ status' = status /\ pc = "unwind" /\ pc' = "call" /\ Top = "xpcall"
    BY <1>11 DEF XpcallCatches, HandlerFrame
  <2>2. Abs!Landed(stack) = Append(Pop, "handler") /\ Abs!StatusLanded(stack, status) = status
    BY <1>0, <2>1, LandedTop DEF StackInv, StackOK, Top, Pop, Abs!Pop, Abs!Protecting
  <2> QED BY <2>1, <2>2 DEF Promise!absVars, Unwinding
<1>12. CASE UNCHANGED vars
  BY <1>12 DEF vars, Promise!absVars, Unwinding
<1> QED BY <1>1, <1>2, <1>3, <1>4, <1>5, <1>6, <1>7, <1>8, <1>9, <1>10, <1>11, <1>12 DEF Next

(* An error reaches the innermost pcall or xpcall in progress, an xpcall    *)
(* that is running its handler excluded, and every protected call completes *)
(* exactly once, with the status of its call.                               *)
THEOREM Refinement == Spec => ImplementsPromise
<1>1. Init => Promise!AbsInit BY InitMaps
<1>2. StackInv /\ StackInv' /\ [Next]_vars => [Promise!AbsNext]_(Promise!absVars) BY StepMaps
<1> QED BY <1>1, <1>2, StackInvariance, PTL DEF Spec, ImplementsPromise, Promise!AbsSpec
=============================================================================
