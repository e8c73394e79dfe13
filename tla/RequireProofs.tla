---------------------------- MODULE RequireProofs ----------------------------
(***************************************************************************)
(* Theorems about Require, for every set of modules and tables, every list *)
(* of searchers and every depth of nested loads.                           *)
(***************************************************************************)
EXTENDS Require, SequenceTheorems, TLAPS

LEMMA Values ==
  /\ Nil \in Value /\ True \in Value /\ False \in Value /\ Module \subseteq Value
  /\ NoResult \in [value : Value, returned : Value, stored : Value]
BY DEF Value, NoResult

LEMMA LastKept ==
  ASSUME last' = NoResult
  PROVE  SelfAssignmentKept' /\ last' \in [value : Value, returned : Value, stored : Value]
BY Values DEF SelfAssignmentKept, NoResult

LEMMA FirstTable == (CHOOSE t \in Table : TRUE) \in Table
BY OneTable

LEMMA InitInv == Init => IInv
<1> SUFFICES ASSUME Init PROVE IInv OBVIOUS
<1> USE DEF Init
<1>1. stack \in Seq(Activation) /\ DOMAIN stack = {} OBVIOUS
<1>2. tab \in [Table -> [Name -> Value]] BY Values
<1>3. searchers \in Seq(Searchers) BY DEF Searchers
<1>4. loaded \in Table BY FirstTable
<1>5. served \in [Table -> [Name -> Value]] /\ disk \in [Name -> Files] /\ writes \in Nat BY Values
<1>6. TypeOK BY <1>1, <1>2, <1>3, <1>4, <1>5, Values DEF TypeOK
<1>7. OneSearches /\ LoadsInOrder BY <1>1 DEF OneSearches, LoadsInOrder
<1>8. ServedIsCached /\ LoadedOnce BY <1>1 DEF ServedIsCached, LoadedOnce
<1>9. SelfAssignmentKept BY DEF SelfAssignmentKept, NoResult
<1> QED BY <1>6, <1>7, <1>8, <1>9 DEF IInv

-----------------------------------------------------------------------------
(* The stack. *)

LEMMA StackFacts ==
  ASSUME TypeOK
  PROVE  /\ Len(stack) \in Nat /\ DOMAIN stack = 1 .. Len(stack)
         /\ \A j \in 1 .. Len(stack) : stack[j] \in Activation
         /\ stack # <<>> => Len(stack) \in 1 .. Len(stack) /\ Top \in Activation /\ Len(stack) - 1 \in Nat
<1>1. stack \in Seq(Activation) BY DEF TypeOK
<1>2. Len(stack) \in Nat /\ DOMAIN stack = 1 .. Len(stack) BY <1>1
<1>3. \A j \in 1 .. Len(stack) : stack[j] \in Activation BY <1>1
<1>4. stack # <<>> => Len(stack) \in Nat \ {0} BY <1>1, EmptySeq
<1> QED BY <1>2, <1>3, <1>4 DEF Top

LEMMA PopFacts ==
  ASSUME TypeOK, stack # <<>>
  PROVE  /\ Pop \in Seq(Activation) /\ Len(Pop) = Len(stack) - 1
         /\ DOMAIN Pop = 1 .. (Len(stack) - 1)
         /\ \A j \in 1 .. (Len(stack) - 1) : Pop[j] = stack[j]
<1>1. \A j \in 1 .. (Len(stack) - 1) : stack[j] \in Activation BY StackFacts
<1>2. 1 \in Int /\ Len(stack) \in Nat \ {0} /\ Len(stack) - 1 \in Int /\ Len(stack) - 1 >= 0 BY StackFacts
<1>3. /\ Pop \in Seq(Activation)
      /\ Len(Pop) = IF 1 <= Len(stack) - 1 THEN Len(stack) - 1 - 1 + 1 ELSE 0
      /\ \A j \in 1 .. (Len(stack) - 1 - 1 + 1) : Pop[j] = stack[1 + j - 1]
  BY <1>1, <1>2, SubSeqProperties DEF Pop
<1>4. Len(Pop) = Len(stack) - 1
  <2>1. CASE 1 <= Len(stack) - 1
    <3>1. Len(Pop) = Len(stack) - 1 - 1 + 1 BY <1>3, <2>1
    <3> QED BY <1>2, <3>1
  <2>2. CASE ~(1 <= Len(stack) - 1)
    <3>1. Len(Pop) = 0 BY <1>3, <2>2
    <3> QED BY <1>2, <2>2, <3>1
  <2> QED BY <2>1, <2>2
<1>5. DOMAIN Pop = 1 .. (Len(stack) - 1) BY <1>3, <1>4
<1>6. \A j \in 1 .. (Len(stack) - 1) : Pop[j] = stack[j] BY <1>2, <1>3
<1> QED BY <1>3, <1>4, <1>5, <1>6

(* The steps of require that leave the package table as it is.              *)
LEMMA KeptFacts ==
  ASSUME IInv, PackageKept
  PROVE  /\ tab' \in [Table -> [Name -> Value]] /\ loaded' \in Table \cup {NoTable}
         /\ pkg' \subseteq Parts /\ preload' \subseteq Name
         /\ searchers' \in Seq(Searchers) /\ disk' \in [Name -> Files] /\ writes' \in Nat
         /\ served' \in [Table -> [Name -> Value]]
         /\ last' \in [value : Value, returned : Value, stored : Value]
         /\ SelfAssignmentKept' /\ ServedIsCached'
<1>1. last' = NoResult BY DEF PackageKept
<1> QED BY <1>1, LastKept DEF PackageKept, IInv, TypeOK, ServedIsCached

(* The innermost load goes on, or what runs changes. *)
LEMMA KeepTop ==
  ASSUME IInv, PackageKept, stack # <<>>, NEW f \in Activation, stack' = WithTop(f),
         f.name = Top.name, f.table = Top.table, f.again = Top.again, f.stored = Top.stored,
         AskedUpTo(f), pc' \in {"lua", "search", "spin"},
         Searching(f) <=> pc' \in {"search", "spin"}
  PROVE  IInv'
<1> USE DEF IInv
<1>1. Len(stack) \in 1 .. Len(stack) /\ Len(stack) \in Nat /\ stack \in Seq(Activation)
  BY StackFacts DEF TypeOK
<1>2. /\ stack' \in Seq(Activation) /\ Len(stack') = Len(stack)
      /\ DOMAIN stack = 1 .. Len(stack) /\ DOMAIN stack' = 1 .. Len(stack)
      /\ \A j \in 1 .. Len(stack) : stack'[j] = IF j = Len(stack) THEN f ELSE stack[j]
  BY <1>1, ExceptSeq DEF WithTop
<1>3. stack' # <<>>
  <2>1. Len(stack) # 0 BY <1>1
  <2>2. Len(<<>>) = 0 OBVIOUS
  <2>3. stack' = <<>> => Len(stack') = 0 BY <2>2
  <2> QED BY <1>2, <2>1, <2>3
<1>4. TypeOK' BY <1>2, <1>3, KeptFacts DEF TypeOK
<1>5. OneSearches' BY <1>2 DEF OneSearches
<1>6. \A j \in 1 .. Len(stack) : stack'[j].again = stack[j].again BY <1>2 DEF Top
<1>7. LoadsInOrder'
  <2>1. ASSUME NEW j \in 1 .. Len(stack) PROVE AskedUpTo(stack[j])' /\ StoreSeen(stack[j])'
    <3>1. CASE j = Len(stack)
      <4>1. stack'[j] = f /\ StoreSeen(Top) BY <1>1, <1>2, <3>1 DEF LoadsInOrder, Top
      <4> QED BY <4>1 DEF StoreSeen, AskedUpTo, Searching, PackageKept
    <3>2. CASE j # Len(stack)
      <4>1. stack'[j] = stack[j] /\ AskedUpTo(stack[j]) /\ StoreSeen(stack[j])
        BY <1>2, <3>2 DEF LoadsInOrder
      <4> QED BY <4>1 DEF StoreSeen, AskedUpTo, Searching, PackageKept
    <3> QED BY <3>1, <3>2
  <2> QED BY <1>2, <2>1 DEF LoadsInOrder
<1>8. LoadedOnce' BY <1>2, <1>6 DEF LoadedOnce
<1> QED BY <1>4, <1>5, <1>7, <1>8, KeptFacts

(* An error passes through the innermost load. *)
LEMMA DropTop ==
  ASSUME IInv, PackageKept, stack # <<>>, Fails
  PROVE  IInv'
<1> USE DEF IInv
<1>1. /\ stack' \in Seq(Activation) /\ Len(stack') = Len(stack) - 1
      /\ DOMAIN stack' = 1 .. (Len(stack) - 1)
      /\ \A j \in 1 .. (Len(stack) - 1) : stack'[j] = stack[j]
  BY PopFacts DEF Fails
<1>2. Len(stack) \in Nat /\ DOMAIN stack = 1 .. Len(stack) /\ pc' = "error" BY StackFacts DEF Fails
<1>3. TypeOK' BY <1>1, <1>2, KeptFacts DEF TypeOK
<1>4. OneSearches' BY <1>1, <1>2 DEF OneSearches
<1>5. LoadsInOrder'
  <2>1. ASSUME NEW j \in 1 .. (Len(stack) - 1) PROVE AskedUpTo(stack[j])' /\ StoreSeen(stack[j])'
    <3>1. j \in DOMAIN stack /\ stack'[j] = stack[j] BY <1>1, <1>2
    <3>2. AskedUpTo(stack[j]) /\ StoreSeen(stack[j]) BY <3>1 DEF LoadsInOrder
    <3> QED BY <3>1, <3>2 DEF AskedUpTo, StoreSeen, Passed, PackageKept
  <2> QED BY <1>1, <2>1 DEF LoadsInOrder
<1>6. LoadedOnce' BY <1>1, <1>2 DEF LoadedOnce
<1> QED BY <1>3, <1>4, <1>5, <1>6, KeptFacts

(* Only what runs changes. *)
LEMMA KeepStack ==
  ASSUME IInv, PackageKept, UNCHANGED stack, pc' \in {"lua", "search", "error", "spin"},
         pc' \in {"search", "spin"} <=> pc \in {"search", "spin"}
  PROVE  IInv'
<1> USE DEF IInv
<1>1. TypeOK' BY KeptFacts DEF TypeOK
<1>2. OneSearches' BY DEF OneSearches
<1>3. LoadsInOrder' BY DEF LoadsInOrder, AskedUpTo, StoreSeen, Passed, PackageKept
<1>4. LoadedOnce' BY DEF LoadedOnce
<1> QED BY <1>1, <1>2, <1>3, <1>4, KeptFacts

LEMMA PlacesType ==
  ASSUME NEW l \in Seq(Searchers)
  PROVE  /\ Places(l) \in SUBSET (Nat \X Searchers)
         /\ \A e \in Places(l) : e[1] \in 1 .. Len(l) /\ e = <<e[1], l[e[1]]>>
<1>1. DOMAIN l = 1 .. Len(l) /\ Len(l) \in Nat /\ \A i \in 1 .. Len(l) : l[i] \in Searchers OBVIOUS
<1> QED BY <1>1 DEF Places

LEMMA PlacesStart ==
  ASSUME NEW l \in Seq(Searchers)
  PROVE  \A e \in Places(l) : ~(e[1] <= 0)
BY PlacesType

(* A load begins: no true value of its name has been served since it was    *)
(* written last, or it would be cached.                                     *)
LEMMA StartInv ==
  ASSUME IInv, NEW n \in Name, StartSearch(n)
  PROVE  IInv'
<1> USE DEF IInv
<1>a. PICK f : f = Load(n) OBVIOUS
<1>0. PackageKept /\ pc = "lua" /\ pc' = "search" /\ stack' = Append(stack, f) /\ loaded # NoTable /\ ~Cached(n)
  BY <1>a DEF StartSearch, Installed
<1>1. f \in Activation /\ f.name = n /\ f.phase = "asking" /\ f.stored = Nil /\ f.i = 1 /\ f.asked = {}
      /\ f.kept = Places(searchers) /\ ~f.again
  <2>1. loaded \in Table /\ 1 \in 1 .. Templates + 1 BY <1>0, RequireBounds DEF TypeOK
  <2>2. Places(searchers) \in SUBSET (Nat \X Searchers) BY PlacesType DEF TypeOK
  <2>3. ~Truthy(served[loaded][n]) BY <1>0, <2>1 DEF ServedIsCached, Cached, Truthy
  <2>4. Truthy(served[loaded][n]) \in BOOLEAN BY DEF Truthy
  <2>5. f = [name |-> n, table |-> loaded, phase |-> "asking", i |-> 1, template |-> 1,
             again |-> Truthy(served[loaded][n]), stored |-> Nil, kept |-> Places(searchers), asked |-> {}]
    BY <1>a DEF Load
  <2>6. f \in Activation BY <2>1, <2>2, <2>4, <2>5, Values DEF Activation
  <2> QED BY <2>3, <2>5, <2>6
<1>2. /\ stack' \in Seq(Activation) /\ Len(stack') = Len(stack) + 1
      /\ DOMAIN stack = 1 .. Len(stack) /\ DOMAIN stack' = 1 .. (Len(stack) + 1) /\ Len(stack) \in Nat
      /\ \A j \in 1 .. Len(stack) : stack'[j] = stack[j]
      /\ stack'[Len(stack) + 1] = f
  BY <1>0, <1>1, StackFacts DEF TypeOK
<1>3. stack' # <<>> BY <1>2
<1>4. TypeOK' BY <1>0, <1>2, <1>3, KeptFacts DEF TypeOK
<1>5. OneSearches' BY <1>0, <1>1, <1>2 DEF OneSearches, Searching
<1>6. LoadsInOrder'
  <2>1. ASSUME NEW j \in 1 .. Len(stack) PROVE AskedUpTo(stack[j])' /\ StoreSeen(stack[j])'
    <3>1. AskedUpTo(stack[j]) /\ StoreSeen(stack[j]) BY <1>2 DEF LoadsInOrder
    <3> QED BY <1>0, <1>2, <3>1 DEF AskedUpTo, StoreSeen, Passed, PackageKept
  <2>2. AskedUpTo(f)' /\ StoreSeen(f)'
    <3>1. \A e \in f.kept : ~(e[1] <= 0) BY <1>1, PlacesStart DEF TypeOK
    <3>2. Passed(f) = 0 BY <1>1 DEF Passed
    <3> QED BY <1>0, <1>1, <3>1, <3>2 DEF AskedUpTo, StoreSeen, Passed, PackageKept
  <2>3. DOMAIN stack' = 1 .. Len(stack) \cup {Len(stack) + 1} BY <1>2
  <2> QED BY <1>2, <2>1, <2>2, <2>3 DEF LoadsInOrder
<1>7. LoadedOnce' BY <1>1, <1>2 DEF LoadedOnce
<1> QED BY <1>0, <1>4, <1>5, <1>6, <1>7, KeptFacts

-----------------------------------------------------------------------------
(* The search. *)

(* The entry the loop has reached. *)
LEMMA Reached ==
  ASSUME IInv, pc = "search"
  PROVE  /\ stack # <<>> /\ Top \in Activation /\ Searching(Top) /\ AskedUpTo(Top)
         /\ searchers \in Seq(Searchers) /\ Len(searchers) \in Nat /\ Top.i \in Nat \ {0}
         /\ DOMAIN searchers = 1 .. Len(searchers)
<1> USE DEF IInv
<1>1. stack # <<>> /\ searchers \in Seq(Searchers) BY DEF TypeOK
<1>2. Top \in Activation /\ Len(stack) \in DOMAIN stack BY <1>1, StackFacts
<1>3. Searching(Top) /\ AskedUpTo(Top) BY <1>2 DEF OneSearches, LoadsInOrder, Top
<1> QED BY <1>1, <1>2, <1>3 DEF Activation

(* Its searcher is asked. *)
LEMMA AskedFacts ==
  ASSUME IInv, pc = "search", Top.i <= Len(searchers)
  PROVE  /\ Asked \in Activation /\ Asked.i = Top.i /\ Asked.kept = Top.kept
         /\ Asked.name = Top.name /\ Asked.table = Top.table
         /\ Asked.again = Top.again /\ Asked.stored = Top.stored
         /\ \A e \in Top.kept : e[1] <= Top.i => e \in Asked.asked
<1>1. searchers[Top.i] \in Searchers /\ Top.i \in Nat BY Reached
<1>2. Asked = [Top EXCEPT !.asked = Top.asked \cup {<<Top.i, searchers[Top.i]>>}] BY DEF Asked
<1>3. Asked \in Activation BY <1>1, <1>2, Reached DEF Activation
<1>4. Asked.asked = Top.asked \cup {<<Top.i, searchers[Top.i]>>} BY <1>2, Reached DEF Activation
<1>5. ASSUME NEW e \in Top.kept, e[1] <= Top.i PROVE e \in Asked.asked
  <2>1. Passed(Top) = Top.i - 1 /\ Top.phase # "loading" BY Reached DEF Passed, Searching
  <2>2. e[1] \in 1 .. Len(searchers) /\ e = <<e[1], searchers[e[1]]>>
    BY Reached, PlacesType DEF AskedUpTo
  <2>3. e[1] <= Top.i - 1 \/ e[1] = Top.i BY <1>1, <1>5, <2>2
  <2>4. e[1] <= Top.i - 1 => e \in Top.asked BY <2>1, Reached DEF AskedUpTo
  <2> QED BY <1>4, <2>2, <2>3, <2>4
<1> QED BY <1>2, <1>3, <1>5, Reached DEF Activation

LEMMA NextFacts ==
  ASSUME NEW g \in Activation
  PROVE  /\ NextSearcher(g) \in Activation
         /\ NextSearcher(g).i = g.i + 1 /\ NextSearcher(g).phase = "asking"
         /\ NextSearcher(g).kept = g.kept /\ NextSearcher(g).name = g.name
         /\ NextSearcher(g).table = g.table /\ NextSearcher(g).again = g.again
         /\ NextSearcher(g).stored = g.stored /\ NextSearcher(g).asked = g.asked
<1>1. 1 \in 1 .. Templates + 1 BY RequireBounds
<1>2. g.i + 1 \in Nat \ {0} BY DEF Activation
<1>3. NextSearcher(g) = [g EXCEPT !.i = g.i + 1, !.phase = "asking", !.template = 1]
  BY DEF NextSearcher
<1> QED BY <1>1, <1>2, <1>3 DEF Activation

LEMMA GiveUpInv ==
  ASSUME IInv, PackageKept, pc = "search", Top.i <= Len(searchers), GiveUp
  PROVE  IInv'
<1> DEFINE f == NextSearcher(Asked)
<1>1. /\ f \in Activation /\ f.i = Top.i + 1 /\ f.kept = Top.kept /\ f.phase = "asking"
      /\ f.name = Top.name /\ f.table = Top.table /\ f.again = Top.again /\ f.stored = Top.stored
      /\ f.asked = Asked.asked
  BY AskedFacts, NextFacts
<1>2. stack' = WithTop(f) /\ pc' = "search" BY DEF GiveUp
<1> HIDE DEF f
<1>3. AskedUpTo(f)
  <2>1. Passed(f) = Top.i BY <1>1, Reached DEF Passed
  <2> QED BY <1>1, <2>1, AskedFacts, Reached DEF AskedUpTo
<1> QED BY <1>1, <1>2, <1>3, KeepTop, Reached DEF Searching

LEMMA FoundInv ==
  ASSUME IInv, PackageKept, pc = "search", Top.i <= Len(searchers), NEW p \in {"loading", "custom"},
         stack' = WithTop([Asked EXCEPT !.phase = p]), pc' = "lua"
  PROVE  IInv'
<1> DEFINE f == [Asked EXCEPT !.phase = p]
<1>1. /\ f \in Activation /\ f.i = Top.i /\ f.kept = Top.kept /\ f.phase = p
      /\ f.name = Top.name /\ f.table = Top.table /\ f.again = Top.again /\ f.stored = Top.stored
      /\ f.asked = Asked.asked
  BY AskedFacts DEF Activation
<1> HIDE DEF f
<1>2. AskedUpTo(f)
  <2>1. p = "custom" => Passed(f) = Top.i BY <1>1 DEF Passed
  <2> QED BY <1>1, <2>1, AskedFacts, Reached DEF AskedUpTo
<1>3. stack' = WithTop(f) BY DEF f
<1> QED BY <1>1, <1>2, <1>3, KeepTop, Reached DEF Searching

LEMMA SearchInv == IInv /\ Search => IInv'
<1> SUFFICES ASSUME IInv, Search PROVE IInv' OBVIOUS
<1>1. CASE AskPreload
  BY <1>1, GiveUpInv, FoundInv DEF AskPreload, Asking, Found
<1>2. CASE AskPath
  <2>1. PackageKept /\ pc = "search" /\ Top.phase = "asking" /\ Top.i <= Len(searchers)
    BY <1>2 DEF AskPath, Asking
  <2>2. CASE stack' = WithTop([Top EXCEPT !.phase = "templates"]) /\ pc' = pc
    <3> DEFINE f == [Top EXCEPT !.phase = "templates"]
    <3>1. /\ f \in Activation /\ f.i = Top.i /\ f.kept = Top.kept /\ f.phase = "templates"
          /\ f.name = Top.name /\ f.table = Top.table /\ f.again = Top.again /\ f.stored = Top.stored
          /\ f.asked = Top.asked
      BY <2>1, Reached DEF Activation
    <3> HIDE DEF f
    <3>2. Passed(f) = Passed(Top) BY <2>1, <3>1 DEF Passed
    <3>4. AskedUpTo(f) BY <2>1, <3>1, <3>2, Reached DEF AskedUpTo
    <3>3. stack' = WithTop(f) BY <2>2 DEF f
    <3> QED BY <2>1, <2>2, <3>1, <3>3, <3>4, KeepTop, Reached DEF Searching
  <2>3. CASE Fails BY <2>1, <2>3, DropTop, Reached
  <2> QED BY <1>2, <2>2, <2>3 DEF AskPath
<1>3. CASE TryTemplate
  <2> DEFINE f == [Top EXCEPT !.template = @ + 1]
  <2>1. PackageKept /\ pc = "search" /\ pc' = pc /\ stack' = WithTop(f) /\ Top.phase = "templates"
        /\ Top.template <= Templates
    BY <1>3 DEF TryTemplate, Trying
  <2>2. Top.template \in 1 .. Templates + 1 /\ Top \in Activation BY <2>1, Reached DEF Activation
  <2>3. Top.template + 1 \in 1 .. Templates + 1 BY <2>1, <2>2, RequireBounds
  <2>4. /\ f \in Activation /\ f.i = Top.i /\ f.kept = Top.kept /\ f.phase = "templates"
        /\ f.name = Top.name /\ f.table = Top.table /\ f.again = Top.again /\ f.stored = Top.stored
        /\ f.asked = Top.asked
    BY <2>1, <2>2, <2>3 DEF Activation
  <2> HIDE DEF f
  <2>5. AskedUpTo(f) BY <2>1, <2>4, Reached DEF AskedUpTo, Passed
  <2> QED BY <2>1, <2>4, <2>5, KeepTop, Reached DEF Searching
<1>4. CASE TemplateSpins
  <2>1. PackageKept /\ UNCHANGED stack /\ pc = "search" /\ pc' = "spin"
    BY <1>4 DEF TemplateSpins, Trying, Asking
  <2> QED BY <2>1, KeepStack
<1>5. CASE PathExhausted \/ FileFound
  <2>1. PackageKept /\ pc = "search" /\ Top.phase = "templates" /\ (GiveUp \/ Found)
    BY <1>5 DEF PathExhausted, FileFound, Opened, Trying
  <2>2. Top.i <= Len(searchers) BY <2>1, Reached DEF AskedUpTo
  <2> QED BY <2>1, <2>2, GiveUpInv, FoundInv DEF Found
<1>6. CASE FileBroken \/ NotFound
  <2>1. PackageKept /\ pc = "search" /\ Fails BY <1>6 DEF FileBroken, NotFound, Opened, Trying
  <2> QED BY <2>1, DropTop, Reached
<1>7. CASE AskC
  BY <1>7, GiveUpInv DEF AskC, Asking
<1>8. CASE AskCustom
  BY <1>8, FoundInv DEF AskCustom, Asking
<1> QED BY <1>1, <1>2, <1>3, <1>4, <1>5, <1>6, <1>7, <1>8 DEF Search

(* A searcher written in Lua answers. *)
LEMMA CustomInv == IInv /\ (CustomFinds \/ CustomGivesUp) => IInv'
<1> SUFFICES ASSUME IInv, CustomFinds \/ CustomGivesUp PROVE IInv' OBVIOUS
<1>1. PackageKept /\ stack # <<>> /\ Top.phase = "custom" /\ pc = "lua"
  BY DEF CustomFinds, CustomGivesUp, InCustom
<1>2. Top \in Activation /\ Len(stack) \in DOMAIN stack BY <1>1, StackFacts DEF IInv
<1>3. AskedUpTo(Top) /\ Len(searchers) \in Nat BY <1>2 DEF IInv, LoadsInOrder, Top, TypeOK
<1>4. CASE CustomFinds
  <2> DEFINE f == [Top EXCEPT !.phase = "loading"]
  <2>1. /\ f \in Activation /\ f.phase = "loading"
        /\ f.name = Top.name /\ f.table = Top.table /\ f.again = Top.again /\ f.stored = Top.stored
        /\ f.kept = Top.kept
    BY <1>2 DEF Activation
  <2>2. stack' = WithTop(f) /\ pc' = "lua" BY <1>1, <1>4 DEF CustomFinds
  <2> HIDE DEF f
  <2>3. AskedUpTo(f) BY <1>3, <2>1 DEF AskedUpTo
  <2> QED BY <1>1, <2>1, <2>2, <2>3, KeepTop DEF Searching
<1>5. CASE CustomGivesUp
  <2> DEFINE f == NextSearcher(Top)
  <2>1. /\ f \in Activation /\ f.phase = "asking" /\ f.i = Top.i + 1 /\ f.kept = Top.kept
        /\ f.name = Top.name /\ f.table = Top.table /\ f.again = Top.again /\ f.stored = Top.stored
        /\ f.asked = Top.asked /\ Top.i \in Nat
    BY <1>2, NextFacts DEF Activation
  <2>2. stack' = WithTop(f) /\ pc' = "search" BY <1>5 DEF CustomGivesUp
  <2> HIDE DEF f
  <2>3. AskedUpTo(f)
    <3>1. Passed(f) = Top.i /\ Passed(Top) = Top.i BY <1>1, <2>1 DEF Passed
    <3> QED BY <1>1, <1>3, <2>1, <3>1 DEF AskedUpTo
  <2> QED BY <1>1, <2>1, <2>2, <2>3, KeepTop DEF Searching
<1> QED BY <1>4, <1>5

-----------------------------------------------------------------------------
(* The program's writes.  A load in progress sees those to its own entry.   *)

(* Histories and flags changed, the loads themselves kept. *)
LEMMA SameLoads ==
  ASSUME TypeOK, pc = "lua", OneSearches, LoadedOnce, NEW s \in Seq(Activation), Len(s) = Len(stack),
         \A j \in 1 .. Len(stack) : s[j].phase = stack[j].phase /\ s[j].again = stack[j].again,
         stack' = s, pc' = pc
  PROVE  /\ OneSearches' /\ LoadedOnce' /\ DOMAIN stack' = 1 .. Len(stack) /\ DOMAIN stack = 1 .. Len(stack)
         /\ \A j \in 1 .. Len(stack) : ~Searching(stack'[j])
<1>1. DOMAIN stack' = 1 .. Len(stack) /\ DOMAIN stack = 1 .. Len(stack) /\ Len(stack) \in Nat BY StackFacts
<1>2. \A j \in 1 .. Len(stack) : ~Searching(stack'[j])
  BY <1>1 DEF OneSearches, Searching
<1>3. OneSearches' BY <1>1, <1>2 DEF OneSearches
<1>4. LoadedOnce' BY <1>1 DEF LoadedOnce
<1> QED BY <1>1, <1>2, <1>3, <1>4

(* What a store leaves in the histories. *)
LEMMA StoredFacts ==
  ASSUME NEW s \in Seq(Activation), NEW t, NEW n, NEW v \in Value
  PROVE  /\ Stored(s, t, n, v) \in Seq(Activation) /\ Len(Stored(s, t, n, v)) = Len(s)
         /\ \A j \in 1 .. Len(s) :
              Stored(s, t, n, v)[j] =
                IF s[j].name = n /\ s[j].table = t THEN [s[j] EXCEPT !.stored = v] ELSE s[j]
<1> DEFINE r == [j \in 1 .. Len(s) |->
                   IF s[j].name = n /\ s[j].table = t THEN [s[j] EXCEPT !.stored = v] ELSE s[j]]
<1>1. DOMAIN s = 1 .. Len(s) /\ Len(s) \in Nat /\ \A j \in 1 .. Len(s) : s[j] \in Activation OBVIOUS
<1>2. \A j \in 1 .. Len(s) : [s[j] EXCEPT !.stored = v] \in Activation BY <1>1 DEF Activation
<1>3. r \in [1 .. Len(s) -> Activation] BY <1>1, <1>2
<1>4. r \in Seq(Activation) /\ Len(r) = Len(s) BY <1>1, <1>3
<1>5. Stored(s, t, n, v) = r BY <1>1 DEF Stored
<1> QED BY <1>4, <1>5

LEMMA SetLoadedInv ==
  ASSUME IInv, NEW t \in Table, NEW n \in Name, NEW v \in Value, SetLoaded(t, n, v)
  PROVE  IInv'
<1> USE DEF IInv
<1>0. /\ pc = "lua" /\ pc' = pc /\ last' = NoResult /\ writes' = writes + 1
      /\ UNCHANGED <<disk, loaded, pkg, preload, searchers>>
      /\ tab' = [tab EXCEPT ![t][n] = v] /\ stack' = Stored(stack, t, n, v)
      /\ served' = [served EXCEPT ![t][n] = Nil]
  BY DEF SetLoaded, Write
<1>1. /\ stack' \in Seq(Activation) /\ Len(stack') = Len(stack)
      /\ \A j \in 1 .. Len(stack) :
           stack'[j] = IF stack[j].name = n /\ stack[j].table = t THEN [stack[j] EXCEPT !.stored = v]
                       ELSE stack[j]
      /\ \A j \in 1 .. Len(stack) : stack[j] \in Activation
  <2>1. stack \in Seq(Activation) BY DEF TypeOK
  <2>2. \A j \in 1 .. Len(stack) : stack[j] \in Activation BY <2>1
  <2> QED BY <1>0, <2>1, <2>2, StoredFacts
<1>2. \A j \in 1 .. Len(stack) : /\ stack'[j].phase = stack[j].phase /\ stack'[j].name = stack[j].name
                                 /\ stack'[j].again = stack[j].again /\ stack'[j].table = stack[j].table
                                 /\ stack'[j].kept = stack[j].kept /\ stack'[j].i = stack[j].i
                                 /\ stack'[j].asked = stack[j].asked
                                 /\ stack'[j].stored = IF stack[j].name = n /\ stack[j].table = t
                                                         THEN v ELSE stack[j].stored
  BY <1>1 DEF Activation
<1>3. OneSearches' /\ LoadedOnce' /\ DOMAIN stack' = 1 .. Len(stack) /\ DOMAIN stack = 1 .. Len(stack)
  BY <1>0, <1>1, <1>2, SameLoads
<1>4. \A u \in Table, m \in Name : tab'[u][m] = IF u = t /\ m = n THEN v ELSE tab[u][m]
  BY <1>0 DEF TypeOK
<1>5. TypeOK' BY <1>0, <1>1, LastKept, Values DEF TypeOK
<1>6. LoadsInOrder'
  <2>1. ASSUME NEW j \in 1 .. Len(stack) PROVE AskedUpTo(stack[j])' /\ StoreSeen(stack[j])'
    <3>1. AskedUpTo(stack[j]) /\ StoreSeen(stack[j]) BY <1>3 DEF LoadsInOrder
    <3>2. AskedUpTo(stack[j])' BY <1>0, <1>2, <3>1 DEF AskedUpTo, Passed
    <3>3. stack[j].name \in Name /\ stack[j].table \in Table BY <1>1 DEF Activation
    <3>4. StoreSeen(stack[j])' BY <1>2, <1>4, <3>1, <3>3 DEF StoreSeen
    <3> QED BY <3>2, <3>4
  <2> QED BY <1>3, <2>1 DEF LoadsInOrder
<1>7. ServedIsCached' BY <1>0, <1>4 DEF ServedIsCached, TypeOK
<1>8. SelfAssignmentKept' BY <1>0, LastKept
<1> QED BY <1>3, <1>5, <1>6, <1>7, <1>8

(* The other writes, which change no entry. *)
LEMMA OtherWritesInv ==
  ASSUME IInv, Write, UNCHANGED <<stack, tab>>, loaded' \in Table \cup {NoTable},
         pkg' \subseteq Parts, preload' \subseteq Name, UNCHANGED <<searchers, served>>
  PROVE  IInv'
<1> USE DEF IInv, Write
<1>1. TypeOK' BY LastKept, Values DEF TypeOK
<1>2. OneSearches' BY DEF OneSearches
<1>3. LoadsInOrder' BY DEF LoadsInOrder, AskedUpTo, StoreSeen, Passed
<1>4. ServedIsCached' /\ LoadedOnce' BY DEF ServedIsCached, LoadedOnce
<1>5. SelfAssignmentKept' BY LastKept
<1> QED BY <1>1, <1>2, <1>3, <1>4, <1>5

Cut(f, k) == [f EXCEPT !.kept = k]

LEMMA CutFacts ==
  ASSUME NEW f \in Activation, NEW k
  PROVE  /\ Cut(f, k).phase = f.phase /\ Cut(f, k).name = f.name /\ Cut(f, k).again = f.again
         /\ Cut(f, k).table = f.table /\ Cut(f, k).i = f.i /\ Cut(f, k).asked = f.asked
         /\ Cut(f, k).kept = k /\ Cut(f, k).stored = f.stored
BY DEF Activation, Cut

LEMMA SetSearchersInv ==
  ASSUME IInv, NEW l \in SearcherLists, SetSearchers(l)
  PROVE  IInv'
<1> USE DEF IInv
<1>0. /\ pc = "lua" /\ pc' = pc /\ last' = NoResult /\ writes' = writes + 1 /\ searchers' = l
      /\ UNCHANGED <<disk, tab, loaded, pkg, preload, served>>
      /\ stack' = [j \in DOMAIN stack |-> Cut(stack[j], stack[j].kept \cap Places(l))]
  BY DEF SetSearchers, Write, Cut
<1>1. /\ stack' \in Seq(Activation) /\ Len(stack') = Len(stack)
      /\ \A j \in 1 .. Len(stack) : stack'[j] = Cut(stack[j], stack[j].kept \cap Places(l)) /\ stack[j] \in Activation
  <2>1. DOMAIN stack = 1 .. Len(stack) /\ Len(stack) \in Nat /\ \A j \in 1 .. Len(stack) : stack[j] \in Activation
    BY StackFacts
  <2>2. \A j \in 1 .. Len(stack) : Cut(stack[j], stack[j].kept \cap Places(l)) \in Activation
    BY <2>1 DEF Activation, Cut
  <2>3. stack' \in [1 .. Len(stack) -> Activation] BY <1>0, <2>1, <2>2
  <2> QED BY <1>0, <2>1, <2>3
<1>2. \A j \in 1 .. Len(stack) : /\ stack'[j].phase = stack[j].phase /\ stack'[j].name = stack[j].name
                                 /\ stack'[j].again = stack[j].again /\ stack'[j].table = stack[j].table
                                 /\ stack'[j].i = stack[j].i /\ stack'[j].asked = stack[j].asked
                                 /\ stack'[j].kept = stack[j].kept \cap Places(l)
                                 /\ stack'[j].stored = stack[j].stored
  <2>1. TAKE j \in 1 .. Len(stack)
  <2>2. PICK k : k = stack[j].kept \cap Places(l) OBVIOUS
  <2>3. stack'[j] = Cut(stack[j], k) /\ stack[j] \in Activation BY <1>1, <2>2
  <2> QED BY ONLY <2>2, <2>3, CutFacts
<1>3. /\ OneSearches' /\ LoadedOnce' /\ DOMAIN stack' = 1 .. Len(stack) /\ DOMAIN stack = 1 .. Len(stack)
      /\ \A j \in 1 .. Len(stack) : ~Searching(stack'[j])
  BY <1>0, <1>1, <1>2, SameLoads
<1>4. TypeOK' BY <1>0, <1>1, LastKept, ListsOfSearchers DEF TypeOK
<1>5. LoadsInOrder'
  <2>1. ASSUME NEW j \in 1 .. Len(stack) PROVE AskedUpTo(stack[j])' /\ StoreSeen(stack[j])'
    <3>1. AskedUpTo(stack[j]) /\ StoreSeen(stack[j]) BY <1>3 DEF LoadsInOrder
    <3>2. stack'[j].phase # "templates" BY <1>3 DEF Searching
    <3>3. AskedUpTo(stack[j])' BY <1>0, <1>2, <3>1, <3>2 DEF AskedUpTo, Passed
    <3>4. StoreSeen(stack[j])' BY <1>0, <1>2, <3>1 DEF StoreSeen
    <3> QED BY <3>3, <3>4
  <2> QED BY <1>3, <2>1 DEF LoadsInOrder
<1>6. ServedIsCached' BY <1>0 DEF ServedIsCached
<1>7. SelfAssignmentKept' BY <1>0, LastKept
<1> QED BY <1>3, <1>4, <1>5, <1>6, <1>7

-----------------------------------------------------------------------------
(* The loader returns. *)
LEMMA ReturnInv ==
  ASSUME IInv, NEW v \in Value, LoaderReturns(v)
  PROVE  IInv'
<1> USE DEF IInv
<1> DEFINE f == Top
           r == Result(v, f)
<1>0. /\ pc = "lua" /\ pc' = pc /\ stack # <<>> /\ UNCHANGED <<loaded, pkg, preload, searchers, disk, writes>>
      /\ tab' = [tab EXCEPT ![f.table][f.name] = r]
      /\ stack' = Stored(Pop, f.table, f.name, r)
      /\ last' = [value |-> r, returned |-> v, stored |-> f.stored]
      /\ served' = [served EXCEPT ![f.table][f.name] = r]
  BY DEF LoaderReturns, Store
<1>1. /\ f \in Activation /\ f.name \in Name /\ f.table \in Table /\ f.stored \in Value
      /\ Len(stack) \in DOMAIN stack /\ Len(stack) \in Nat \ {0} /\ DOMAIN stack = 1 .. Len(stack)
      /\ StoreSeen(f)
  <2>1. Top \in Activation /\ Len(stack) \in 1 .. Len(stack) /\ DOMAIN stack = 1 .. Len(stack) /\ Len(stack) \in Nat
    BY <1>0, StackFacts
  <2> QED BY <2>1 DEF LoadsInOrder, Activation, Top
<1>2. r \in Value
  <2>1. tab[f.table][f.name] \in Value BY <1>1 DEF TypeOK
  <2> QED BY <2>1, Values DEF Result
<1>3. v = Nil /\ f.stored # Nil => r = f.stored BY <1>1 DEF Result, StoreSeen
<1> HIDE DEF r, f
<1>4. /\ Pop \in Seq(Activation) /\ Len(Pop) = Len(stack) - 1
      /\ \A j \in 1 .. Len(stack) - 1 : Pop[j] = stack[j]
  BY <1>0, PopFacts
<1>5. /\ stack' \in Seq(Activation) /\ Len(stack') = Len(stack) - 1
      /\ DOMAIN stack' = 1 .. (Len(stack) - 1)
      /\ \A j \in 1 .. Len(stack) - 1 :
           stack'[j] = IF stack[j].name = f.name /\ stack[j].table = f.table
                         THEN [stack[j] EXCEPT !.stored = r] ELSE stack[j]
      /\ \A j \in 1 .. Len(stack) - 1 : j \in DOMAIN stack /\ stack[j] \in Activation
  <2>1. /\ stack' \in Seq(Activation) /\ Len(stack') = Len(Pop)
        /\ \A j \in 1 .. Len(Pop) :
             stack'[j] = IF Pop[j].name = f.name /\ Pop[j].table = f.table
                           THEN [Pop[j] EXCEPT !.stored = r] ELSE Pop[j]
    BY <1>0, <1>2, <1>4, StoredFacts
  <2>2. DOMAIN stack' = 1 .. (Len(stack) - 1) BY <1>4, <2>1
  <2>3. \A j \in 1 .. Len(stack) - 1 : j \in DOMAIN stack /\ stack[j] \in Activation BY <1>1, StackFacts
  <2> QED BY <1>4, <2>1, <2>2, <2>3
<1>6. \A j \in 1 .. Len(stack) - 1 :
        /\ stack'[j].phase = stack[j].phase /\ stack'[j].name = stack[j].name
        /\ stack'[j].again = stack[j].again /\ stack'[j].table = stack[j].table
        /\ stack'[j].kept = stack[j].kept /\ stack'[j].i = stack[j].i
        /\ stack'[j].asked = stack[j].asked
        /\ stack'[j].stored = IF stack[j].name = f.name /\ stack[j].table = f.table THEN r ELSE stack[j].stored
  BY <1>5 DEF Activation
<1>7. \A t \in Table, m \in Name :
        /\ tab'[t][m] = IF t = f.table /\ m = f.name THEN r ELSE tab[t][m]
        /\ served'[t][m] = IF t = f.table /\ m = f.name THEN r ELSE served[t][m]
  BY <1>0, <1>1 DEF TypeOK
<1>8. TypeOK'
  <2>1. tab' \in [Table -> [Name -> Value]] BY <1>0, <1>1, <1>2 DEF TypeOK
  <2>2. served' \in [Table -> [Name -> Value]] BY <1>0, <1>1, <1>2 DEF TypeOK
  <2>3. last' \in [value : Value, returned : Value, stored : Value] BY <1>0, <1>1, <1>2
  <2> QED BY <1>0, <1>5, <2>1, <2>2, <2>3 DEF TypeOK
<1>9. OneSearches'
  <2>1. \A j \in 1 .. Len(stack) - 1 : ~Searching(stack[j]) BY <1>0, <1>5 DEF OneSearches
  <2> QED BY <1>0, <1>5, <1>6, <2>1 DEF OneSearches, Searching
<1>10. LoadsInOrder'
  <2>1. ASSUME NEW j \in 1 .. Len(stack) - 1 PROVE AskedUpTo(stack[j])' /\ StoreSeen(stack[j])'
    <3>1. AskedUpTo(stack[j]) /\ StoreSeen(stack[j]) BY <1>5 DEF LoadsInOrder
    <3>2. AskedUpTo(stack[j])' BY <1>0, <1>6, <3>1 DEF AskedUpTo, Passed
    <3>3. stack[j].name \in Name /\ stack[j].table \in Table BY <1>5 DEF Activation
    <3>4. StoreSeen(stack[j])' BY <1>6, <1>7, <3>1, <3>3 DEF StoreSeen
    <3> QED BY <3>2, <3>4
  <2> QED BY <1>5, <2>1 DEF LoadsInOrder
<1>11. LoadedOnce' BY <1>5, <1>6 DEF LoadedOnce
<1>12. ServedIsCached' BY <1>7 DEF ServedIsCached
<1>13. SelfAssignmentKept' BY <1>0, <1>3 DEF SelfAssignmentKept
<1> QED BY <1>8, <1>9, <1>10, <1>11, <1>12, <1>13

-----------------------------------------------------------------------------
LEMMA NextInv == IInv /\ [Next]_vars => IInv'
<1> SUFFICES ASSUME IInv, [Next]_vars PROVE IInv' OBVIOUS
<1>1. CASE \E n \in Name : StartSearch(n) BY <1>1, StartInv
<1>2. CASE \E n \in Name : SetPreload(n)
  <2>1. PICK n \in Name : SetPreload(n) BY <1>2
  <2>2. loaded \in Table \cup {NoTable} /\ pkg \subseteq Parts /\ preload \subseteq Name BY DEF IInv, TypeOK
  <2>3. preload' \subseteq Name BY <2>1, <2>2 DEF SetPreload
  <2> QED BY <2>1, <2>2, <2>3, OtherWritesInv DEF SetPreload
<1>3. CASE \E t \in Table, n \in Name, v \in {Nil, False} \cup Module : SetLoaded(t, n, v)
  BY <1>3, SetLoadedInv, Values
<1>4. CASE \E t \in Table \cup {NoTable} : ReplaceLoaded(t)
  <2>1. PICK t \in Table \cup {NoTable} : ReplaceLoaded(t) BY <1>4
  <2>2. pkg \subseteq Parts /\ preload \subseteq Name BY DEF IInv, TypeOK
  <2> QED BY <2>1, <2>2, OtherWritesInv DEF ReplaceLoaded
<1>5. CASE \E l \in SearcherLists : SetSearchers(l) BY <1>5, SetSearchersInv
<1>6. CASE \E p \in Parts : Spoil(p)
  <2>1. PICK p \in Parts : Spoil(p) BY <1>6
  <2>2. loaded \in Table \cup {NoTable} /\ pkg \subseteq Parts /\ preload \subseteq Name BY DEF IInv, TypeOK
  <2> QED BY <2>1, <2>2, OtherWritesInv DEF Spoil
<1>7. CASE RequireRefused BY <1>7, KeepStack DEF RequireRefused
<1>8. CASE Search BY <1>8, SearchInv
<1>9. CASE CustomFinds \/ CustomGivesUp BY <1>9, CustomInv
<1>10. CASE \E v \in {Nil, False} \cup Module : LoaderReturns(v) BY <1>10, ReturnInv, Values
<1>11. CASE Raise \/ Propagate BY <1>11, DropTop DEF Raise, Propagate
<1>12. CASE Catch BY <1>12, KeepStack DEF Catch
<1>13. CASE UNCHANGED vars
  <2> USE <1>13 DEF vars
  <2>1. TypeOK' BY DEF IInv, TypeOK
  <2>2. OneSearches' BY DEF IInv, OneSearches
  <2>3. LoadsInOrder' BY DEF IInv, LoadsInOrder, AskedUpTo, StoreSeen, Passed
  <2>4. ServedIsCached' /\ LoadedOnce' /\ SelfAssignmentKept'
    BY DEF IInv, ServedIsCached, LoadedOnce, SelfAssignmentKept
  <2> QED BY <2>1, <2>2, <2>3, <2>4 DEF IInv
<1> QED BY <1>1, <1>2, <1>3, <1>4, <1>5, <1>6, <1>7, <1>8, <1>9, <1>10, <1>11, <1>12, <1>13 DEF Next

THEOREM Invariance == Spec => []IInv
BY InitInv, NextInv, PTL DEF Spec

-----------------------------------------------------------------------------
(* What the last load of a name into a table returned is what that table    *)
(* holds, unless the program has written there since, however loads were    *)
(* nested and package.loaded was exchanged.                                 *)
THEOREM ServedCached == Spec => []ServedIsCached
<1>1. IInv => ServedIsCached BY DEF IInv
<1> QED BY <1>1, Invariance, PTL

(* No load of a module is begun after one has returned a true value into    *)
(* the table that is package.loaded, inside the loads still in progress or  *)
(* after them, until one of those returns false or the program writes to    *)
(* the entry.  Before the first has returned, loads of it may nest.         *)
THEOREM LoadsOnce == Spec => []LoadedOnce
<1>1. IInv => LoadedOnce BY DEF IInv
<1> QED BY <1>1, Invariance, PTL

(* A module that stores its value itself is required with that value.       *)
THEOREM OwnValueKept == Spec => []SelfAssignmentKept
<1>1. IInv => SelfAssignmentKept BY DEF IInv
<1> QED BY <1>1, Invariance, PTL

(* Every searcher that has kept its place is asked before a module is       *)
(* reported missing, whatever those asked have done to package.searchers.   *)
THEOREM AllAsked == Spec => []SearchIsComplete
<1>1. IInv => SearchIsComplete
  <2> SUFFICES ASSUME IInv, pc = "search", Top.phase = "asking", Top.i > Len(searchers), NEW e \in Top.kept
               PROVE  e \in Top.asked
    BY DEF SearchIsComplete
  <2>1. e[1] \in 1 .. Len(searchers) BY Reached, PlacesType DEF AskedUpTo
  <2>2. Passed(Top) = Top.i - 1 BY DEF Passed
  <2>3. e[1] <= Passed(Top) BY <2>1, <2>2, Reached
  <2> QED BY <2>3, Reached DEF AskedUpTo
<1> QED BY <1>1, Invariance, PTL
=============================================================================
