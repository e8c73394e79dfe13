----------------------------- MODULE HeapProofs -----------------------------
(***************************************************************************)
(* Theorems about the collector of Heap, for every set of addresses, every *)
(* set of contents and every threshold.                                    *)
(***************************************************************************)
EXTENDS Heap, FiniteSetTheorems, TLAPS

-----------------------------------------------------------------------------
(* Facts about the object graph. *)

(* The reachable objects are a closed set, the least one: the roots are in  *)
(* it, and so is whatever one of its elements leads to.                     *)
LEMMA ReachableClosed ==
  ASSUME roots \subseteq Obj
  PROVE  /\ Closed(Reachable)
         /\ \A S \in SUBSET Obj : Closed(S) => Reachable \subseteq S
BY DEF Reachable, Closed, Follow

(* trace() emits exactly the pointers the program can follow: no traversable *)
(* slot is missing from its switch, and it follows no other.                *)
LEMMA ChildrenFollow ==
  ASSUME TypeOK, NEW o \in Obj
  PROVE  Children(o) = Follow(o)
<1>1. CASE kind[o] = None
  <2>1. kind[o] \notin Kinds BY <1>1, NoneIsNothing
  <2> QED BY <1>1, <2>1 DEF Children, Follow, TraceEdges, Kinds
<1>2. CASE kind[o] \in Kinds
  <2>1. kind[o] # None BY <1>2, NoneIsNothing
  <2>2. Layout[kind[o]] \subseteq Slots BY <1>2 DEF Layout, Kinds, Slots
  <2>3. \A s \in Slots : <<kind[o], s>> \in TraceEdges <=> s \in Layout[kind[o]] \ {"key"}
    BY <1>2 DEF TraceEdges, Layout, Kinds, Slots
  <2> QED BY <2>1, <2>2, <2>3 DEF Children, Follow
<1> QED BY <1>1, <1>2 DEF TypeOK

(* Adding an address to the list, or taking one off, changes its length by  *)
(* one.                                                                     *)
LEMMA LiveFinite == IsFiniteSet(Live) /\ Cardinality(Live) \in Nat
BY ObjFinite, FS_Subset, FS_CardinalityType DEF Live

(* The initial state satisfies the invariant. *)
LEMMA InitInv == Init => IInv
<1> SUFFICES ASSUME Init PROVE IInv OBVIOUS
<1> USE DEF Init, ObjInit
<1>1. Live = {} BY DEF Live
<1>2. TypeOK BY ThresholdPositive DEF TypeOK, NoRefs
<1>3. NoDangling BY <1>1 DEF NoDangling, Survivors, Doomed
<1>4. MarkInvariant BY DEF MarkInvariant
<1>5. InternCanonical BY <1>1 DEF InternCanonical
<1>6. CountExact BY <1>1, FS_EmptySet DEF CountExact
<1>7. FreeIsBlank BY DEF FreeIsBlank
<1>8. TriggerNeverDisabled BY ThresholdPositive DEF TriggerNeverDisabled
<1> QED BY <1>2, <1>3, <1>4, <1>5, <1>6, <1>7, <1>8 DEF IInv

-----------------------------------------------------------------------------
(* The client's steps.  The collector is idle: nothing is doomed. *)

LEMMA IdleSurvivors ==
  ASSUME phase # "sweep"
  PROVE  Doomed = {} /\ Survivors = Live
BY DEF Doomed, Survivors

(* Linking a new object whose pointers lead to live objects. *)
LEMMA LinkInv ==
  ASSUME IInv, phase = "idle", UNCHANGED <<phase, pending, marked, worklist, unswept, swept, threshold>>,
         NEW o \in Obj, NEW k \in Kinds, NEW r \in [Slots -> SUBSET Live],
         Link(o, k, r), count' = count + 1
  PROVE  /\ Live' = Live \cup {o} /\ o \notin Live
         /\ kind' \in [Obj -> Kinds \cup {None}] /\ ref' \in [Obj -> [Slots -> SUBSET Obj]]
         /\ roots' \in SUBSET Obj /\ count' \in Nat
         /\ NoDangling' /\ MarkInvariant' /\ CountExact' /\ TriggerNeverDisabled'
<1> USE DEF IInv, TypeOK
<1>0. k # None BY NoneIsNothing
<1>1. Live' = Live \cup {o} /\ o \notin Live BY <1>0 DEF Live, Link
<1>2. kind' \in [Obj -> Kinds \cup {None}] /\ ref' \in [Obj -> [Slots -> SUBSET Obj]]
  BY DEF Link, Live
<1>3. roots' \in SUBSET Obj /\ count' \in Nat BY DEF Link
<1>4. NoDangling'
  <2>1. Survivors = Live /\ Survivors' = Live' BY DEF Survivors, Doomed
  <2>2. roots' \subseteq Live' BY <2>1, <1>1 DEF NoDangling, Link
  <2>3. ASSUME NEW x \in Live' PROVE Follow(x)' \subseteq Live'
    <3>1. CASE x = o
      <4>1. kind'[o] = k /\ ref'[o] = r BY DEF Link
      <4>2. Layout[k] \subseteq Slots BY DEF Layout, Kinds, Slots
      <4> QED BY <3>1, <4>1, <4>2, <1>1 DEF Follow
    <3>2. CASE x # o
      <4>1. kind'[x] = kind[x] /\ ref'[x] = ref[x] BY <3>2, <2>3 DEF Link, Live
      <4>2. Follow(x)' = Follow(x) BY <4>1 DEF Follow
      <4> QED BY <4>2, <3>2, <2>1, <1>1 DEF NoDangling
    <3> QED BY <3>1, <3>2
  <2> QED BY <2>1, <2>2, <2>3 DEF NoDangling
<1>5. MarkInvariant' BY DEF MarkInvariant, Marking
<1>6. CountExact' BY <1>1, LiveFinite, FS_AddElement DEF CountExact
<1>7. TriggerNeverDisabled' BY DEF TriggerNeverDisabled
<1> QED BY <1>1, <1>2, <1>3, <1>4, <1>5, <1>6, <1>7

LEMMA AllocateInv == IInv /\ ClientAllocate => IInv'
<1> SUFFICES ASSUME IInv, ClientAllocate, NEW o \in Obj,
                    \/ \E c \in Content : NewString(o, c)
                    \/ \E k \in {"Table", "Builtin", "Userdata"} : NewPlain(o, k)
                    \/ \E e \in HeldOrNone("Env"), t \in HeldOrNone("Table") : NewClosure(o, e, t)
                    \/ \E p \in HeldOrNone("Env") : NewEnv(o, p)
             PROVE  IInv'
  BY DEF ClientAllocate, Allocate
<1>1. phase = "idle" /\ count' = count + 1
      /\ UNCHANGED <<phase, pending, marked, worklist, unswept, swept, threshold>>
  BY DEF ClientAllocate
<1>2. NoRefs \in [Slots -> SUBSET Live] BY DEF NoRefs
<1>3. roots \subseteq Live /\ \A x \in Live : Follow(x) \subseteq Live
  BY <1>1, IdleSurvivors DEF IInv, NoDangling
<1>4. ASSUME NEW c \in Content, NewString(o, c) PROVE IInv'
  <2>1. Link(o, "String", NoRefs) BY <1>4 DEF NewString
  <2>2. "String" \in Kinds BY DEF Kinds
  <2>3. Live' = Live \cup {o} /\ o \notin Live
        /\ kind' \in [Obj -> Kinds \cup {None}] /\ ref' \in [Obj -> [Slots -> SUBSET Obj]]
        /\ roots' \in SUBSET Obj /\ count' \in Nat
        /\ NoDangling' /\ MarkInvariant' /\ CountExact' /\ TriggerNeverDisabled'
    BY <1>1, <1>2, <2>1, <2>2, LinkInv
  <2>4. TypeOK' BY <1>1, <1>4, <2>3 DEF IInv, TypeOK, NewString, Marking
  <2>5. InternCanonical'
    <3> USE DEF IInv, TypeOK, InternCanonical, NewString, Link
    <3>1. ASSUME NEW d \in Short, intern'[d] # None
          PROVE  kind'[intern'[d]] = "String" /\ content'[intern'[d]] = d
      <4>1. CASE d = c BY <1>4, <3>1, <4>1
      <4>2. CASE d # c
        <5>1. intern'[d] = intern[d] BY <1>4, <4>2
        <5>2. kind[intern[d]] = "String" /\ content[intern[d]] = d BY <5>1, <3>1
        <5>3. intern[d] \in Obj /\ intern[d] # o
          BY <5>1, <5>2, <3>1, <2>1, NoneIsNothing DEF Kinds
        <5> QED BY <5>1, <5>2, <5>3, <1>4
      <4> QED BY <4>1, <4>2
    <3>2. ASSUME NEW x \in Live', kind'[x] = "String", content'[x] \in Short
          PROVE  intern'[content'[x]] = x
      <4>1. CASE x = o BY <4>1, <1>4, <3>2 DEF Live
      <4>2. CASE x # o
        <5>1. x \in Live /\ kind[x] = "String" /\ content'[x] = content[x]
          BY <4>2, <3>2, <2>3, <1>4 DEF Live
        <5>2. intern[content[x]] = x BY <5>1, <3>2
        <5>3. content[x] # c BY <5>1, <5>2, <3>2, <1>4, NoneIsNothing DEF Live
        <5> QED BY <5>1, <5>2, <5>3, <1>4, <3>2
      <4> QED BY <4>1, <4>2
    <3> QED BY <3>1, <3>2
  <2>6. FreeIsBlank'
    BY <1>4, <2>3 DEF IInv, FreeIsBlank, NewString, Link, TypeOK, Live
  <2> QED BY <2>3, <2>4, <2>5, <2>6 DEF IInv
<1>5. ASSUME NEW k \in Kinds \ {"String"}, NEW r \in [Slots -> SUBSET Live], Link(o, k, r),
             UNCHANGED <<content, intern>>
      PROVE  IInv'
  <2>1. Live' = Live \cup {o} /\ o \notin Live
        /\ kind' \in [Obj -> Kinds \cup {None}] /\ ref' \in [Obj -> [Slots -> SUBSET Obj]]
        /\ roots' \in SUBSET Obj /\ count' \in Nat
        /\ NoDangling' /\ MarkInvariant' /\ CountExact' /\ TriggerNeverDisabled'
    BY <1>1, <1>5, LinkInv
  <2>2. TypeOK' BY <1>1, <1>5, <2>1 DEF IInv, TypeOK, Marking
  <2>3. kind' = [kind EXCEPT ![o] = k] /\ ref' = [ref EXCEPT ![o] = r] /\ kind[o] = None
    BY <1>5 DEF Link
  <2>4. InternCanonical'
    <3> USE DEF IInv, TypeOK, InternCanonical
    <3>1. ASSUME NEW d \in Short, intern'[d] # None
          PROVE  kind'[intern'[d]] = "String" /\ content'[intern'[d]] = d
      <4>1. kind[intern[d]] = "String" /\ content[intern[d]] = d BY <3>1, <1>5
      <4>2. intern[d] \in Obj /\ intern[d] # o
        BY <4>1, <3>1, <1>5, <2>3, NoneIsNothing DEF Kinds
      <4> QED BY <4>1, <4>2, <1>5, <2>3
    <3>2. ASSUME NEW x \in Live', kind'[x] = "String", content'[x] \in Short
          PROVE  intern'[content'[x]] = x
      <4>1. x # o BY <3>2, <2>3, <1>5 DEF Kinds
      <4> QED BY <4>1, <3>2, <2>1, <2>3, <1>5 DEF Live
    <3> QED BY <3>1, <3>2
  <2>5. FreeIsBlank' BY <1>5, <2>1, <2>3 DEF IInv, FreeIsBlank, TypeOK, Live
  <2> QED BY <2>1, <2>2, <2>4, <2>5 DEF IInv
<1>6. ASSUME NEW k \in {"Table", "Builtin", "Userdata"}, NewPlain(o, k) PROVE IInv'
  BY <1>2, <1>5, <1>6 DEF NewPlain, Kinds
<1>7. ASSUME NEW e \in HeldOrNone("Env"), NEW t \in HeldOrNone("Table"), NewClosure(o, e, t)
      PROVE  IInv'
  <2>1. PointTo(e) \subseteq Live /\ PointTo(t) \subseteq Live
    BY <1>3, <1>7 DEF HeldOrNone, PointTo
  <2>2. [NoRefs EXCEPT !["env"] = PointTo(e), !["env_table"] = PointTo(t)] \in [Slots -> SUBSET Live]
    BY <1>2, <2>1
  <2> QED BY <1>5, <1>7, <2>2 DEF NewClosure, Kinds
<1>8. ASSUME NEW p \in HeldOrNone("Env"), NewEnv(o, p) PROVE IInv'
  <2> DEFINE t == IF p = None THEN {} ELSE ref[p]["env_table"]
  <2>1. PointTo(p) \subseteq Live BY <1>3, <1>8 DEF HeldOrNone, PointTo
  <2>2. t \subseteq Live
    <3>1. CASE p = None BY <3>1
    <3>2. CASE p # None
      <4>1. p \in Live /\ kind[p] = "Env" /\ p \in Obj
        BY <1>3, <1>8, <3>2 DEF HeldOrNone, Live
      <4>2. "Env" # None /\ "env_table" \in Layout["Env"] \ {"key"} /\ "env_table" \in Slots
        BY NoneIsNothing DEF Layout, Kinds, Slots
      <4>3. ref[p]["env_table"] \subseteq Obj BY <4>1, <4>2 DEF IInv, TypeOK
      <4>4. ref[p]["env_table"] \subseteq Follow(p) BY <4>1, <4>2, <4>3 DEF Follow
      <4> QED BY <4>1, <4>4, <1>3, <3>2
    <3> QED BY <3>1, <3>2
  <2>3. [NoRefs EXCEPT !["parent"] = PointTo(p), !["env_table"] = t] \in [Slots -> SUBSET Live]
    BY <1>2, <2>1, <2>2
  <2> QED BY <1>5, <1>8, <2>3 DEF NewEnv, Kinds
<1> QED BY <1>4, <1>6, <1>7, <1>8

LEMMA MutateInv == IInv /\ ClientMutate => IInv'
<1> SUFFICES ASSUME IInv, ClientMutate PROVE IInv'
  OBVIOUS
<1> USE DEF IInv
<1>1. phase = "idle" /\ UNCHANGED gcVars /\ Mutate BY DEF ClientMutate
<1>2. UNCHANGED <<kind, content, intern>>
  BY <1>1 DEF Mutate, ReuseString, Store, Erase, Read, Drop
<1>3. Survivors = Live /\ Live' = Live /\ Survivors' = Live
  BY <1>1, <1>2 DEF Survivors, Doomed, Live, gcVars
<1>4. roots \subseteq Live /\ \A o \in Live : Follow(o) \subseteq Live
  BY <1>3 DEF NoDangling
<1>5. MarkInvariant' /\ CountExact' /\ TriggerNeverDisabled' /\ InternCanonical'
  BY <1>1, <1>2, <1>3
     DEF MarkInvariant, Marking, CountExact, TriggerNeverDisabled, InternCanonical, gcVars
<1>6. SUFFICES /\ ref' \in [Obj -> [Slots -> SUBSET Obj]] /\ roots' \subseteq Live
               /\ \A o \in Live : Follow(o)' \subseteq Live
               /\ \A o \in Obj \ Live : ref'[o] = ref[o]
  <2>1. TypeOK' BY <1>1, <1>2, <1>6 DEF TypeOK, gcVars, Live
  <2>2. NoDangling' BY <1>3, <1>6 DEF NoDangling
  <2>3. FreeIsBlank' BY <1>2, <1>3, <1>6 DEF FreeIsBlank
  <2> QED BY <1>5, <2>1, <2>2, <2>3
<1>7. CASE \E c \in Short : ReuseString(c)
  <2>1. PICK c \in Short : ReuseString(c) BY <1>7
  <2>2. intern[c] \in Obj /\ kind[intern[c]] = "String"
    BY <2>1 DEF ReuseString, TypeOK, InternCanonical
  <2>3. intern[c] \in Live BY <2>2, NoneIsNothing DEF Live, Kinds
  <2>4. ref' = ref /\ roots' = roots \cup {intern[c]} BY <2>1 DEF ReuseString
  <2>5. \A o \in Obj : Follow(o)' = Follow(o) BY <2>4, <1>2 DEF Follow
  <2> QED BY <1>4, <2>3, <2>4, <2>5 DEF TypeOK, Live
<1>8. CASE \E o \in roots, p \in roots, s \in Slots : Store(o, s, p)
  <2>1. PICK o \in roots, p \in roots, s \in Slots : Store(o, s, p) BY <1>8
  <2>2. o \in Live /\ p \in Live /\ o \in Obj /\ p \in Obj BY <1>4, <2>1 DEF Live
  <2>3. roots' = roots /\ ref' \in [Obj -> [Slots -> SUBSET Obj]]
    BY <2>1, <2>2 DEF Store, TypeOK
  <2>4. \A x \in Obj, z \in Slots : ref'[x][z] \subseteq ref[x][z] \cup {p}
    BY <2>1, <2>2 DEF Store, TypeOK
  <2>5. \A x \in Obj \ {o} : ref'[x] = ref[x] BY <2>1, <2>2 DEF Store, TypeOK
  <2>6. ASSUME NEW x \in Live PROVE Follow(x)' \subseteq Follow(x) \cup {p}
    <3>1. Layout[kind[x]] \subseteq Slots
      BY <2>6 DEF Layout, Kinds, Slots, Live, TypeOK
    <3> QED BY <3>1, <2>4, <2>6, <1>2 DEF Follow, Live
  <2> QED BY <1>4, <2>2, <2>3, <2>5, <2>6
<1>9. CASE \E o \in roots, p \in Obj, s \in Slots : Erase(o, s, p)
  <2>1. PICK o \in roots, p \in Obj, s \in Slots : Erase(o, s, p) BY <1>9
  <2>2. o \in Live /\ o \in Obj BY <1>4, <2>1 DEF Live
  <2>3. roots' = roots /\ ref' \in [Obj -> [Slots -> SUBSET Obj]]
    BY <2>1, <2>2 DEF Erase, TypeOK
  <2>4. \A x \in Obj, z \in Slots : ref'[x][z] \subseteq ref[x][z]
    BY <2>1, <2>2 DEF Erase, TypeOK
  <2>5. \A x \in Obj \ {o} : ref'[x] = ref[x] BY <2>1, <2>2 DEF Erase, TypeOK
  <2>6. ASSUME NEW x \in Live PROVE Follow(x)' \subseteq Follow(x)
    <3>1. Layout[kind[x]] \subseteq Slots
      BY <2>6 DEF Layout, Kinds, Slots, Live, TypeOK
    <3> QED BY <3>1, <2>4, <2>6, <1>2 DEF Follow, Live
  <2> QED BY <1>4, <2>2, <2>3, <2>5, <2>6
<1>10. CASE \E o \in roots, p \in Obj : Read(o, p)
  <2>1. PICK o \in roots, p \in Obj : Read(o, p) BY <1>10
  <2>2. p \in Live BY <1>4, <2>1 DEF Read
  <2>3. ref' = ref /\ roots' = roots \cup {p} BY <2>1 DEF Read
  <2>4. \A x \in Obj : Follow(x)' = Follow(x) BY <2>3, <1>2 DEF Follow
  <2> QED BY <1>4, <2>2, <2>3, <2>4 DEF TypeOK, Live
<1>11. CASE \E o \in roots : Drop(o)
  <2>1. ref' = ref /\ roots' \subseteq roots BY <1>11 DEF Drop
  <2>2. \A x \in Obj : Follow(x)' = Follow(x) BY <2>1, <1>2 DEF Follow
  <2> QED BY <1>4, <2>1, <2>2 DEF TypeOK, Live
<1> QED BY <1>1, <1>7, <1>8, <1>9, <1>10, <1>11 DEF Mutate

-----------------------------------------------------------------------------
(* The collector's steps. *)

(* Marking and the start of the sweep leave the graph and the list alone:   *)
(* the conjuncts about them survive.                                        *)
LEMMA GraphUntouched ==
  ASSUME IInv, UNCHANGED objVars, UNCHANGED <<count, threshold>>
  PROVE  /\ InternCanonical' /\ CountExact' /\ FreeIsBlank' /\ TriggerNeverDisabled'
         /\ Live' = Live /\ Reachable' = Reachable
         /\ \A o \in Obj : Follow(o)' = Follow(o)
BY DEF IInv, objVars, InternCanonical, CountExact, FreeIsBlank, TriggerNeverDisabled, Live,
       Reachable, Closed, Follow

(* Everything reachable survives. *)
LEMMA ReachableSurvives == IInv => Reachable \subseteq Survivors
<1> SUFFICES ASSUME IInv PROVE Reachable \subseteq Survivors
  OBVIOUS
<1>1. Closed(Survivors) BY DEF IInv, NoDangling, Closed
<1>2. Survivors \subseteq Obj BY DEF Survivors, Live
<1> QED BY <1>1, <1>2, ReachableClosed DEF IInv, TypeOK

(* A step of the mark phase keeps the survivors, all the live objects. *)
LEMMA MarkPhaseInv ==
  ASSUME IInv, UNCHANGED objVars, UNCHANGED <<count, threshold, unswept, swept>>,
         phase # "sweep", phase' # "sweep", TypeOK', MarkInvariant'
  PROVE  IInv'
<1>1. Survivors = Live /\ Survivors' = Live'
  BY DEF Survivors, Doomed
<1>2. NoDangling' BY <1>1, GraphUntouched DEF NoDangling, IInv, objVars, Live
<1> QED BY <1>2, GraphUntouched DEF IInv

LEMMA StartCollectInv == IInv /\ StartCollect => IInv'
<1> SUFFICES ASSUME IInv, StartCollect PROVE IInv'
  OBVIOUS
<1>1. TypeOK' BY DEF IInv, TypeOK, StartCollect, objVars, Marking
<1>2. MarkInvariant' BY DEF IInv, TypeOK, MarkInvariant, StartCollect, objVars, Marking
<1> QED BY <1>1, <1>2, MarkPhaseInv DEF StartCollect

LEMMA MarkRootInv == ASSUME NEW r \in pending PROVE IInv /\ MarkRoot(r) => IInv'
<1> SUFFICES ASSUME IInv, MarkRoot(r) PROVE IInv'
  OBVIOUS
<1>1. TypeOK' BY DEF IInv, TypeOK, MarkRoot, PushMark, objVars, Marking
<1>2. UNCHANGED objVars /\ UNCHANGED <<count, threshold>> BY DEF MarkRoot
<1>3. Reachable' = Reachable /\ \A o \in Obj : Follow(o)' = Follow(o) /\ roots' = roots
  BY <1>2, GraphUntouched DEF objVars
<1>4. roots \subseteq Reachable
  BY ReachableClosed DEF IInv, TypeOK, Closed
<1>5. r \in Reachable BY <1>4 DEF IInv, MarkInvariant, MarkRoot, Marking
<1>6. MarkInvariant'
  BY <1>2, <1>3, <1>5 DEF IInv, TypeOK, MarkInvariant, MarkRoot, PushMark, Marking, objVars
<1> QED BY <1>1, <1>6, MarkPhaseInv DEF MarkRoot

LEMMA RootsDoneInv == IInv /\ RootsDone => IInv'
<1> SUFFICES ASSUME IInv, RootsDone PROVE IInv'
  OBVIOUS
<1>1. TypeOK' BY DEF IInv, TypeOK, RootsDone, objVars, Marking
<1>2. Reachable' = Reachable /\ (\A o \in Obj : Follow(o)' = Follow(o)) /\ roots' = roots
  BY GraphUntouched DEF objVars, RootsDone
<1>3. MarkInvariant' BY <1>2 DEF IInv, TypeOK, MarkInvariant, RootsDone, Marking
<1> QED BY <1>1, <1>3, MarkPhaseInv DEF RootsDone

LEMMA DrainInv == ASSUME NEW o \in worklist PROVE IInv /\ Drain(o) => IInv'
<1> SUFFICES ASSUME IInv, Drain(o) PROVE IInv'
  OBVIOUS
<1>1. o \in Obj /\ Children(o) = Follow(o) BY ChildrenFollow DEF IInv, TypeOK
<1>2. TypeOK' BY <1>1 DEF IInv, TypeOK, Drain, Pop, objVars, Marking, Follow
<1>3. UNCHANGED objVars /\ UNCHANGED <<count, threshold>> BY DEF Drain
<1>4. Reachable' = Reachable /\ (\A x \in Obj : Follow(x)' = Follow(x)) /\ roots' = roots
  BY <1>3, GraphUntouched DEF objVars
<1>5. Closed(Reachable) BY ReachableClosed DEF IInv, TypeOK
<1>6. phase = "drain" /\ phase' = "drain" /\ Pop(o) /\ UNCHANGED <<pending, unswept>> BY DEF Drain
<1>7. /\ worklist \subseteq marked /\ marked \subseteq Reachable
      /\ roots \subseteq marked /\ pending = {} /\ unswept = {} /\ marked \subseteq Obj
      /\ \A x \in marked \ worklist : Follow(x) \subseteq marked
  BY <1>6 DEF IInv, TypeOK, MarkInvariant
<1>8. Follow(o) \subseteq Reachable BY <1>5, <1>7 DEF Closed
<1>9. marked' = marked \cup Follow(o) /\ worklist' = (worklist \ {o}) \cup (Follow(o) \ marked)
  BY <1>1, <1>6 DEF Pop
<1>10. \A x \in marked' \ worklist' : Follow(x) \subseteq marked'
  BY <1>7, <1>9
<1>11. marked' \subseteq Obj BY <1>2 DEF TypeOK
<1>12. \A x \in marked' \ worklist' : Follow(x)' \subseteq marked'
  BY <1>4, <1>10, <1>11
<1>13. MarkInvariant' BY <1>4, <1>6, <1>7, <1>8, <1>9, <1>12 DEF MarkInvariant
<1> QED BY <1>2, <1>13, MarkPhaseInv DEF Drain

(* When the worklist is empty the marked objects are a closed set made of   *)
(* reachable objects: exactly the reachable ones.                           *)
LEMMA MarkedIsReachable ==
  ASSUME IInv, phase = "drain", worklist = {}
  PROVE  marked = Reachable /\ Closed(marked) /\ marked \subseteq Live
<1>1. marked \subseteq Reachable /\ Closed(marked) /\ marked \subseteq Obj
  BY DEF IInv, TypeOK, MarkInvariant, Closed
<1>2. Reachable \subseteq marked BY <1>1, ReachableClosed DEF IInv, TypeOK
<1>3. Reachable \subseteq Live BY ReachableSurvives DEF Survivors
<1> QED BY <1>1, <1>2, <1>3

LEMMA StartSweepInv == IInv /\ StartSweep => IInv'
<1> SUFFICES ASSUME IInv, StartSweep PROVE IInv'
  OBVIOUS
<1>1. Closed(marked) /\ marked \subseteq Live BY MarkedIsReachable DEF StartSweep
<1>2. TypeOK' BY DEF IInv, TypeOK, StartSweep, objVars, Marking, Live
<1>3. UNCHANGED objVars /\ UNCHANGED <<count, threshold>> BY DEF StartSweep
<1>4. Live' = Live /\ (\A x \in Obj : Follow(x)' = Follow(x)) /\ roots' = roots
  BY <1>3, GraphUntouched DEF objVars
<1>5. Survivors' = marked BY <1>1, <1>4 DEF Survivors, Doomed, StartSweep
<1>6. NoDangling' BY <1>1, <1>4, <1>5 DEF NoDangling, Closed, Live
<1>7. MarkInvariant' BY <1>1, <1>4 DEF IInv, MarkInvariant, StartSweep, Marking
<1> QED BY <1>2, <1>3, <1>6, <1>7, GraphUntouched DEF IInv

LEMMA SweepMarkedInv == ASSUME NEW o \in unswept PROVE IInv /\ SweepMarked(o) => IInv'
<1> SUFFICES ASSUME IInv, SweepMarked(o) PROVE IInv'
  OBVIOUS
<1>1. TypeOK' BY DEF IInv, TypeOK, SweepMarked, Advance, objVars, Marking
<1>2. UNCHANGED objVars /\ UNCHANGED <<count, threshold>> BY DEF SweepMarked
<1>3. Live' = Live /\ (\A x \in Obj : Follow(x)' = Follow(x)) /\ roots' = roots
  BY <1>2, GraphUntouched DEF objVars
<1>4. Doomed' = Doomed BY DEF Doomed, SweepMarked, Advance
<1>5. NoDangling' BY <1>3, <1>4 DEF IInv, NoDangling, Survivors, Live
<1>6. MarkInvariant' BY <1>3 DEF IInv, MarkInvariant, SweepMarked, Advance, Marking
<1> QED BY <1>1, <1>2, <1>5, <1>6, GraphUntouched DEF IInv

LEMMA SweepFreeInv == ASSUME NEW o \in unswept PROVE IInv /\ SweepFree(o) => IInv'
<1> SUFFICES ASSUME IInv, SweepFree(o) PROVE IInv'
  OBVIOUS
<1>1. /\ phase = "sweep" /\ phase' = "sweep" /\ o \notin marked
      /\ kind' = [kind EXCEPT ![o] = None] /\ ref' = [ref EXCEPT ![o] = NoRefs]
      /\ content' = [content EXCEPT ![o] = None]
      /\ unswept' = unswept \ {o} /\ count' = count - 1 /\ swept' = swept + 1
      /\ UNCHANGED <<roots, pending, marked, worklist, threshold>>
  BY DEF SweepFree, Advance, Uncount
<1>2. /\ worklist = {} /\ pending = {} /\ unswept \subseteq Live /\ marked \subseteq unswept
  BY <1>1 DEF IInv, MarkInvariant, Marking
<1>3. o \in Live /\ o \in Obj BY <1>2 DEF Live
<1>4. Live' = Live \ {o} BY <1>1, <1>3 DEF IInv, TypeOK, Live
<1>5. count' = Cardinality(Live') /\ count' \in Nat
  BY <1>1, <1>3, <1>4, LiveFinite, FS_RemoveElement, FS_CardinalityType, FS_Subset
     DEF IInv, CountExact
<1>6. Survivors' = Survivors BY <1>1, <1>2, <1>3, <1>4 DEF Survivors, Doomed
<1>7. o \notin Survivors BY <1>1 DEF Survivors, Doomed
<1>8. \A x \in Obj \ {o} : kind'[x] = kind[x] /\ ref'[x] = ref[x] /\ content'[x] = content[x]
  BY <1>1 DEF IInv, TypeOK
<1>9. NoDangling'
  <2>1. \A x \in Survivors : Follow(x)' = Follow(x)
    BY <1>7, <1>8 DEF Follow, Survivors, Live
  <2> QED BY <2>1, <1>1, <1>6 DEF IInv, NoDangling
<1>10. MarkInvariant' BY <1>1, <1>2, <1>4 DEF MarkInvariant
<1>11. intern' \in [Short -> Obj \cup {None}]
       /\ \A c \in Short : intern'[c] = IF kind[o] = "String" /\ content[o] = c THEN None ELSE intern[c]
  BY DEF SweepFree, Prune, IInv, TypeOK
<1>12. InternCanonical'
  <2>1. ASSUME NEW c \in Short, intern'[c] # None
        PROVE  kind'[intern'[c]] = "String" /\ content'[intern'[c]] = c
    <3>1. intern'[c] = intern[c] /\ intern[c] \in Obj /\ kind[intern[c]] = "String" /\ content[intern[c]] = c
      BY <1>11, <2>1 DEF IInv, TypeOK, InternCanonical
    <3>2. intern[c] # o BY <3>1, <1>11, <2>1
    <3> QED BY <3>1, <3>2, <1>8
  <2>2. ASSUME NEW x \in Live', kind'[x] = "String", content'[x] \in Short
        PROVE  intern'[content'[x]] = x
    <3>1. x \in Live /\ x # o /\ x \in Obj BY <1>4, <2>2 DEF Live
    <3>2. kind[x] = "String" /\ content'[x] = content[x] /\ intern[content[x]] = x
      BY <3>1, <1>8, <2>2 DEF IInv, InternCanonical
    <3>3. ~(kind[o] = "String" /\ content[o] = content[x])
      BY <3>1, <3>2, <1>3, <2>2 DEF IInv, InternCanonical
    <3> QED BY <3>2, <3>3, <1>11, <2>2
  <2> QED BY <2>1, <2>2 DEF InternCanonical
<1>13. TypeOK'
  BY <1>1, <1>2, <1>5, <1>11 DEF IInv, TypeOK, NoRefs, Marking
<1>14. FreeIsBlank' BY <1>1, <1>3, <1>4, <1>8 DEF IInv, TypeOK, FreeIsBlank
<1>15. CountExact' /\ TriggerNeverDisabled'
  BY <1>1, <1>5 DEF IInv, CountExact, TriggerNeverDisabled
<1> QED BY <1>9, <1>10, <1>12, <1>13, <1>14, <1>15 DEF IInv

LEMMA FinishCollectInv == IInv /\ FinishCollect => IInv'
<1> SUFFICES ASSUME IInv, FinishCollect PROVE IInv'
  OBVIOUS
<1>1. phase = "sweep" /\ unswept = {} /\ phase' = "idle" /\ UNCHANGED objVars
      /\ UNCHANGED <<pending, marked, worklist, unswept, swept, count>> /\ threshold' = NextThreshold
  BY DEF FinishCollect
<1>2. threshold' \in Nat /\ threshold' > 0
  BY <1>1, ThresholdPositive DEF NextThreshold, IInv, TypeOK
<1>3. UNCHANGED <<kind, ref, content, intern, roots>> BY <1>1 DEF objVars
<1>4. TypeOK' BY <1>1, <1>2, <1>3 DEF IInv, TypeOK
<1>5. Live' = Live /\ \A o \in Obj : Follow(o)' = Follow(o) BY <1>3 DEF Live, Follow
<1>6. Survivors = Live /\ Survivors' = Live' BY <1>1 DEF Survivors, Doomed
<1>7. NoDangling' BY <1>3, <1>5, <1>6 DEF IInv, NoDangling, Live
<1>8. MarkInvariant' BY <1>1 DEF IInv, MarkInvariant, Marking
<1>9. InternCanonical' /\ CountExact' /\ FreeIsBlank'
  BY <1>1, <1>3, <1>5 DEF IInv, InternCanonical, CountExact, FreeIsBlank
<1> QED BY <1>2, <1>4, <1>7, <1>8, <1>9 DEF IInv, TriggerNeverDisabled

LEMMA DestroyInv == IInv /\ Destroy => IInv'
<1> SUFFICES ASSUME IInv, Destroy PROVE IInv'
  OBVIOUS
<1>1. Live' = {} BY DEF Live, Destroy
<1>2. TypeOK' BY DEF IInv, TypeOK, Destroy, NoRefs
<1>3. NoDangling' BY <1>1 DEF NoDangling, Survivors, Doomed, Destroy
<1>4. MarkInvariant' BY DEF IInv, MarkInvariant, Destroy, Marking
<1>5. InternCanonical' BY <1>1 DEF InternCanonical, Destroy
<1>6. CountExact' BY <1>1, FS_EmptySet DEF CountExact, Destroy
<1>7. FreeIsBlank' BY DEF FreeIsBlank, Destroy
<1>8. TriggerNeverDisabled' BY DEF IInv, TriggerNeverDisabled, Destroy
<1> QED BY <1>2, <1>3, <1>4, <1>5, <1>6, <1>7, <1>8 DEF IInv

LEMMA NextInv == IInv /\ [Next]_vars => IInv'
<1> SUFFICES ASSUME IInv, [Next]_vars PROVE IInv'
  OBVIOUS
<1>1. CASE ClientAllocate BY <1>1, AllocateInv
<1>2. CASE ClientMutate BY <1>2, MutateInv
<1>3. CASE StartCollect BY <1>3, StartCollectInv
<1>4. CASE Collector
  BY <1>4, MarkRootInv, RootsDoneInv, DrainInv, StartSweepInv, SweepMarkedInv, SweepFreeInv,
     FinishCollectInv DEF Collector
<1>5. CASE Destroy BY <1>5, DestroyInv
<1>6. CASE UNCHANGED vars
  <2>1. UNCHANGED <<kind, ref, content, intern, roots, phase, pending, marked, worklist, unswept,
                    swept, count, threshold>>
    BY <1>6 DEF vars, objVars, gcVars
  <2>2. Live' = Live /\ Reachable' = Reachable /\ Doomed' = Doomed /\ Survivors' = Survivors
        /\ \A o \in Obj : Follow(o)' = Follow(o)
    BY <2>1 DEF Live, Reachable, Closed, Follow, Doomed, Survivors
  <2>3. TypeOK' /\ InternCanonical' /\ CountExact' /\ FreeIsBlank' /\ TriggerNeverDisabled'
    BY <2>1, <2>2 DEF IInv, TypeOK, InternCanonical, CountExact, FreeIsBlank, TriggerNeverDisabled
  <2>4. NoDangling' BY <2>1, <2>2 DEF IInv, NoDangling, Survivors, Live
  <2>5. MarkInvariant' BY <2>1, <2>2 DEF IInv, TypeOK, MarkInvariant
  <2> QED BY <2>3, <2>4, <2>5 DEF IInv
<1> QED BY <1>1, <1>2, <1>3, <1>4, <1>5, <1>6 DEF Next

THEOREM Invariance == Spec => []IInv
BY InitInv, NextInv, PTL DEF Spec

-----------------------------------------------------------------------------
(* The theorems. *)

(* Every field keeps its type; in particular sweep() never takes m_count    *)
(* below zero.                                                              *)
THEOREM TypeCorrect == Spec => []TypeOK
<1>1. IInv => TypeOK BY DEF IInv
<1> QED BY <1>1, Invariance, PTL

(* Heap::collect never frees an object the program can still reach.         *)
THEOREM NoPrematureFree == Spec => []ReachableLive
<1>1. IInv => ReachableLive BY ReachableSurvives DEF ReachableLive, Survivors
<1> QED BY <1>1, Invariance, PTL

(* No pointer of a surviving object dangles, during a sweep included.       *)
THEOREM PointersValid == Spec => []NoDangling
<1>1. IInv => NoDangling BY DEF IInv
<1> QED BY <1>1, Invariance, PTL

(* The intern table is canonical at every step of a sweep: string equality  *)
(* by pointer and by content agree for short strings.                       *)
THEOREM InternTableCanonical == Spec => []InternCanonical
<1>1. IInv => InternCanonical BY DEF IInv
<1> QED BY <1>1, Invariance, PTL

(* Heap::m_count is the number of objects on the list.                      *)
THEOREM CountCorrect == Spec => []CountExact
<1>1. IInv => CountExact BY DEF IInv
<1> QED BY <1>1, Invariance, PTL

(* The tri-colour invariant.                                                *)
THEOREM TriColour == Spec => []MarkInvariant
<1>1. IInv => MarkInvariant BY DEF IInv
<1> QED BY <1>1, Invariance, PTL

(* What maybe_collect() reads as its trigger is never the value that        *)
(* disables automatic collection.                                           *)
THEOREM TriggerEnabled == Spec => []TriggerNeverDisabled
<1>1. IInv => TriggerNeverDisabled BY DEF IInv
<1> QED BY <1>1, Invariance, PTL

-----------------------------------------------------------------------------
(* Refinement: the collector implements AbstractHeap. *)

(* While nothing is doomed the abstract heap is the concrete one. *)
LEMMA SparedAll ==
  ASSUME TypeOK, Doomed = {}
  PROVE  /\ Spared(kind, None) = kind /\ Spared(ref, NoRefs) = ref
         /\ Spared(content, None) = content
         /\ [c \in Short |-> IF intern[c] \in Doomed THEN None ELSE intern[c]] = intern
BY DEF TypeOK, Spared

LEMMA InitMaps == Init => Promise!ObjInit
<1> SUFFICES ASSUME Init PROVE Promise!ObjInit
  OBVIOUS
<1>1. TypeOK BY InitInv DEF IInv
<1>2. Doomed = {} BY DEF Init, Doomed
<1>3. Promise!NoRefs = NoRefs BY DEF Promise!NoRefs, NoRefs, Promise!Slots, Slots
<1> QED BY <1>1, <1>2, <1>3, SparedAll DEF Init, ObjInit, Promise!ObjInit

(* A step of the client is the same step of the abstract client. *)
LEMMA ClientMaps ==
  ASSUME TypeOK, TypeOK', Doomed = {}, Doomed' = {}, Client
  PROVE  Promise!Client
<1>1. /\ Spared(kind, None) = kind /\ Spared(ref, NoRefs) = ref
      /\ Spared(content, None) = content
      /\ [c \in Short |-> IF intern[c] \in Doomed THEN None ELSE intern[c]] = intern
  BY SparedAll
<1>2. /\ Spared(kind, None)' = kind' /\ Spared(ref, NoRefs)' = ref'
      /\ Spared(content, None)' = content'
      /\ [c \in Short |-> IF intern[c] \in Doomed THEN None ELSE intern[c]]' = intern'
  BY DEF TypeOK, Spared
<1>3. Promise!NoRefs = NoRefs /\ Promise!Slots = Slots /\ Promise!Content = Content
      /\ Promise!Layout = Layout /\ Promise!Kinds = Kinds
  BY DEF Promise!NoRefs, NoRefs, Promise!Slots, Slots, Promise!Content, Content, Promise!Layout, Layout,
         Promise!Kinds, Kinds
<1>4. ASSUME NEW o \in Obj, NEW k, NEW r, Link(o, k, r) PROVE Promise!Link(o, k, r)
  BY <1>1, <1>2, <1>4 DEF Link, Promise!Link
<1>5. ASSUME Allocate PROVE Promise!Allocate
  <2>1. PICK o \in Obj :
          \/ \E c \in Content : NewString(o, c)
          \/ \E k \in {"Table", "Builtin", "Userdata"} : NewPlain(o, k)
          \/ \E e \in HeldOrNone("Env"), t \in HeldOrNone("Table") : NewClosure(o, e, t)
          \/ \E p \in HeldOrNone("Env") : NewEnv(o, p)
    BY <1>5 DEF Allocate
  <2>2. \A k \in Kinds : Promise!HeldOrNone(k) = HeldOrNone(k)
    BY <1>1 DEF HeldOrNone, Promise!HeldOrNone
  <2>3. ASSUME NEW c \in Content, NewString(o, c) PROVE Promise!NewString(o, c)
    BY <1>1, <1>2, <1>3, <1>4, <2>3 DEF NewString, Promise!NewString
  <2>4. ASSUME NEW k \in {"Table", "Builtin", "Userdata"}, NewPlain(o, k) PROVE Promise!NewPlain(o, k)
    BY <1>1, <1>2, <1>3, <1>4, <2>4 DEF NewPlain, Promise!NewPlain
  <2>5. ASSUME NEW e \in HeldOrNone("Env"), NEW t \in HeldOrNone("Table"), NewClosure(o, e, t)
        PROVE  Promise!NewClosure(o, e, t)
    BY <1>1, <1>2, <1>3, <1>4, <2>5 DEF NewClosure, Promise!NewClosure, PointTo, Promise!PointTo
  <2>6. ASSUME NEW p \in HeldOrNone("Env"), NewEnv(o, p) PROVE Promise!NewEnv(o, p)
    BY <1>1, <1>2, <1>3, <1>4, <2>6 DEF NewEnv, Promise!NewEnv, PointTo, Promise!PointTo
  <2> QED BY <2>1, <2>2, <2>3, <2>4, <2>5, <2>6, <1>3 DEF Promise!Allocate, Kinds
<1>6. ASSUME Mutate PROVE Promise!Mutate
  <2>1. ASSUME NEW c \in Short, ReuseString(c) PROVE Promise!ReuseString(c)
    BY <1>1, <1>2, <2>1 DEF ReuseString, Promise!ReuseString
  <2>2. ASSUME NEW o \in roots, NEW p \in roots, NEW s \in Slots, Store(o, s, p)
        PROVE  Promise!Store(o, s, p)
    <3>1. Promise!Writable(kind[o]) = Writable(kind[o]) BY <1>3 DEF Writable, Promise!Writable
    <3>2. Promise!Target(s) = Target(s) BY <1>3 DEF Target, Promise!Target
    <3>3. Promise!RefCount = RefCount BY <1>1, <1>3 DEF RefCount, Promise!RefCount, Cardinality, Promise!Cardinality
    <3> QED BY <1>1, <1>2, <2>2, <3>1, <3>2, <3>3 DEF Store, Promise!Store
  <2>3. ASSUME NEW o \in roots, NEW p \in Obj, NEW s \in Slots, Erase(o, s, p)
        PROVE  Promise!Erase(o, s, p)
    <3>1. Promise!Writable(kind[o]) = Writable(kind[o]) BY <1>3 DEF Writable, Promise!Writable
    <3> QED BY <1>1, <1>2, <2>3, <3>1 DEF Erase, Promise!Erase
  <2>4. ASSUME NEW o \in roots, NEW p \in Obj, Read(o, p) PROVE Promise!Read(o, p)
    <3>1. Promise!Follow(o) = Follow(o) BY <1>1, <1>3 DEF Follow, Promise!Follow
    <3> QED BY <1>1, <1>2, <2>4, <3>1 DEF Read, Promise!Read
  <2>5. ASSUME NEW o \in roots, Drop(o) PROVE Promise!Drop(o)
    BY <1>1, <1>2, <2>5 DEF Drop, Promise!Drop
  <2> QED BY <1>3, <1>6, <2>1, <2>2, <2>3, <2>4, <2>5 DEF Mutate, Promise!Mutate
<1> QED BY <1>5, <1>6 DEF Client, Promise!Client

(* The end of marking is the abstract collection. *)
LEMMA StartSweepMaps == IInv /\ IInv' /\ StartSweep => Promise!Collect
<1> SUFFICES ASSUME IInv, IInv', StartSweep PROVE Promise!Collect
  OBVIOUS
<1> USE DEF IInv
<1>1. Doomed = {} /\ UNCHANGED <<kind, ref, content, intern, roots>> /\ phase' = "sweep"
      /\ unswept' = Live /\ marked' = marked
  BY DEF StartSweep, Doomed, objVars
<1>2. /\ Spared(kind, None) = kind /\ Spared(ref, NoRefs) = ref
      /\ Spared(content, None) = content
      /\ [c \in Short |-> IF intern[c] \in Doomed THEN None ELSE intern[c]] = intern
  BY <1>1, SparedAll
<1>3. Promise!NoRefs = NoRefs /\ Promise!Layout = Layout
  BY DEF Promise!NoRefs, NoRefs, Promise!Slots, Slots, Promise!Layout, Layout
<1>4. Promise!Reachable = Reachable
  BY <1>2, <1>3 DEF Promise!Reachable, Reachable, Promise!Closed, Closed, Promise!Follow, Follow
<1>5. marked = Reachable /\ marked \subseteq Live BY MarkedIsReachable DEF StartSweep
<1>6. Doomed' = Live \ Reachable BY <1>1, <1>5 DEF Doomed
<1>7. \A o \in Obj \ Live : kind[o] = None /\ ref[o] = NoRefs /\ content[o] = None
  BY DEF FreeIsBlank, Live
<1>8. Spared(kind, None)' = [o \in Obj |-> IF o \in Reachable THEN kind[o] ELSE None]
  BY <1>1, <1>6, <1>7 DEF Spared
<1>9. Spared(ref, NoRefs)' = [o \in Obj |-> IF o \in Reachable THEN ref[o] ELSE NoRefs]
  BY <1>1, <1>6, <1>7 DEF Spared, NoRefs
<1>10. Spared(content, None)' = [o \in Obj |-> IF o \in Reachable THEN content[o] ELSE None]
  BY <1>1, <1>6, <1>7 DEF Spared
<1>11. [c \in Short |-> IF intern[c] \in Doomed THEN None ELSE intern[c]]'
         = [c \in Short |-> IF intern[c] \in Reachable THEN intern[c] ELSE None]
  <2>1. \A c \in Short : intern[c] \in Live \cup {None}
    BY NoneIsNothing DEF InternCanonical, TypeOK, Live, Kinds
  <2>2. None \notin Obj BY NoneIsNothing
  <2> QED BY <1>1, <1>5, <1>6, <2>1, <2>2 DEF Live
<1> QED BY <1>1, <1>2, <1>3, <1>4, <1>8, <1>9, <1>10, <1>11
        DEF Promise!Collect, Promise!Keep

(* Sweeping an object away frees what is already gone from the abstract heap.*)
LEMMA SweepFreeMaps ==
  ASSUME IInv, IInv', NEW o \in unswept, SweepFree(o)
  PROVE  UNCHANGED Promise!objVars
<1> USE DEF IInv
<1>1. /\ phase = "sweep" /\ phase' = "sweep" /\ o \notin marked /\ marked' = marked
      /\ kind' = [kind EXCEPT ![o] = None] /\ ref' = [ref EXCEPT ![o] = NoRefs]
      /\ content' = [content EXCEPT ![o] = None] /\ Prune(o)
      /\ unswept' = unswept \ {o} /\ roots' = roots
  BY DEF SweepFree, Advance
<1>2. Doomed' = Doomed \ {o} /\ o \in Doomed BY <1>1 DEF Doomed
<1>3. \A x \in Obj : Spared(kind, None)'[x] = Spared(kind, None)[x]
                   /\ Spared(ref, NoRefs)'[x] = Spared(ref, NoRefs)[x]
                   /\ Spared(content, None)'[x] = Spared(content, None)[x]
  <2> SUFFICES ASSUME NEW x \in Obj
               PROVE  /\ Spared(kind, None)'[x] = Spared(kind, None)[x]
                      /\ Spared(ref, NoRefs)'[x] = Spared(ref, NoRefs)[x]
                      /\ Spared(content, None)'[x] = Spared(content, None)[x]
    OBVIOUS
  <2>1. CASE x = o BY <1>1, <1>2, <2>1 DEF Spared, TypeOK, NoRefs
  <2>2. CASE x # o BY <1>1, <1>2, <2>2 DEF Spared, TypeOK, NoRefs
  <2> QED BY <2>1, <2>2
<1>4. [c \in Short |-> IF intern[c] \in Doomed THEN None ELSE intern[c]]'
        = [c \in Short |-> IF intern[c] \in Doomed THEN None ELSE intern[c]]
  <2> SUFFICES ASSUME NEW c \in Short
               PROVE  (IF intern'[c] \in Doomed' THEN None ELSE intern'[c])
                        = (IF intern[c] \in Doomed THEN None ELSE intern[c])
    OBVIOUS
  <2>1. None \notin Doomed BY NoneIsNothing DEF Doomed, MarkInvariant, Live
  <2>2. CASE intern[c] = o
    <3>1. intern[c] # None BY <2>1, <2>2, <1>2
    <3>2. kind[o] = "String" /\ content[o] = c BY <2>2, <3>1 DEF InternCanonical
    <3> QED BY <3>2, <2>1, <2>2, <1>1, <1>2 DEF Prune, TypeOK
  <2>3. CASE intern[c] # o
    <3>1. ~(kind[o] = "String" /\ content[o] = c)
      BY <2>3, <1>2 DEF InternCanonical, MarkInvariant, Doomed
    <3>2. intern'[c] = intern[c] BY <3>1, <1>1 DEF Prune, TypeOK
    <3> QED BY <3>2, <2>3, <1>2
  <2> QED BY <2>2, <2>3
<1>5. UNCHANGED <<Spared(kind, None), Spared(ref, NoRefs), Spared(content, None)>>
  BY <1>3 DEF Spared
<1> QED BY <1>1, <1>4, <1>5 DEF Promise!objVars

LEMMA StepMaps == IInv /\ IInv' /\ [Next]_vars => [Promise!AbsNext]_(Promise!objVars)
<1> SUFFICES ASSUME IInv, IInv', [Next]_vars PROVE [Promise!AbsNext]_(Promise!objVars)
  OBVIOUS
<1>1. CASE ClientAllocate
  <2>1. Doomed = {} /\ Doomed' = {} BY <1>1 DEF ClientAllocate, Doomed
  <2> QED BY <1>1, <2>1, ClientMaps DEF IInv, ClientAllocate, Client, Promise!AbsNext
<1>2. CASE ClientMutate
  <2>1. Doomed = {} /\ Doomed' = {} BY <1>2 DEF ClientMutate, Doomed, gcVars
  <2> QED BY <1>2, <2>1, ClientMaps DEF IInv, ClientMutate, Client, Promise!AbsNext
<1>3. ASSUME UNCHANGED objVars, Doomed' = Doomed PROVE UNCHANGED Promise!objVars
  BY <1>3 DEF objVars, Promise!objVars, Spared
<1>4. CASE StartCollect
  BY <1>3, <1>4 DEF StartCollect, Doomed
<1>5. CASE \E r \in pending : MarkRoot(r)
  BY <1>3, <1>5 DEF MarkRoot, Doomed
<1>6. CASE RootsDone
  BY <1>3, <1>6 DEF RootsDone, Doomed
<1>7. CASE \E o \in worklist : Drain(o)
  BY <1>3, <1>7 DEF Drain, Doomed
<1>8. CASE StartSweep
  BY <1>8, StartSweepMaps DEF Promise!AbsNext
<1>9. CASE \E o \in unswept : SweepMarked(o)
  <2>1. PICK o \in unswept : SweepMarked(o) BY <1>9
  <2>2. Doomed' = Doomed BY <2>1 DEF SweepMarked, Advance, Doomed
  <2> QED BY <1>3, <2>1, <2>2 DEF SweepMarked
<1>10. CASE \E o \in unswept : SweepFree(o)
  BY <1>10, SweepFreeMaps
<1>11. CASE FinishCollect
  <2>1. Doomed = {} /\ Doomed' = {} BY <1>11 DEF FinishCollect, Doomed
  <2> QED BY <1>3, <1>11, <2>1 DEF FinishCollect
<1>12. CASE Destroy
  <2>1. Doomed = {} /\ Doomed' = {} BY <1>12 DEF Destroy, Doomed
  <2>2. /\ Spared(kind, None) = kind /\ Spared(ref, NoRefs) = ref
        /\ Spared(content, None) = content
        /\ [c \in Short |-> IF intern[c] \in Doomed THEN None ELSE intern[c]] = intern
    BY <2>1, SparedAll DEF IInv
  <2>3. Promise!NoRefs = NoRefs BY DEF Promise!NoRefs, NoRefs, Promise!Slots, Slots
  <2> QED BY <1>12, <2>1, <2>2, <2>3
          DEF Destroy, Promise!AbsNext, Promise!DestroyAll, Promise!Keep, Spared
<1>13. CASE UNCHANGED vars
  <2>1. Doomed' = Doomed BY <1>13 DEF vars, gcVars, Doomed
  <2> QED BY <1>3, <1>13, <2>1 DEF vars
<1> QED BY <1>1, <1>2, <1>4, <1>5, <1>6, <1>7, <1>8, <1>9, <1>10, <1>11, <1>12, <1>13
        DEF Next, Collector

(* To its caller, Heap::collect is one atomic step that keeps exactly the   *)
(* reachable objects: the marking and sweeping loops implement AbstractHeap.*)
THEOREM Refinement == Spec => ImplementsPromise
<1>1. Init => Promise!ObjInit BY InitMaps
<1>2. IInv /\ IInv' /\ [Next]_vars => [Promise!AbsNext]_(Promise!objVars) BY StepMaps
<1> QED BY <1>1, <1>2, Invariance, PTL DEF Spec, ImplementsPromise, Promise!AbsSpec
=============================================================================
