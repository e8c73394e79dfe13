-------------------------------- MODULE Heap --------------------------------
(***************************************************************************)
(* Heap::collect of include/lua/heap.h and src/lua/heap.cpp, one loop      *)
(* iteration at a time, running against the client of HeapObjects.  The    *)
(* collector is stop-the-world: the client acts only when it is idle.      *)
(* The intrusive list and the worklist are sets, so that every traversal   *)
(* order is covered.                                                       *)
(***************************************************************************)
EXTENDS HeapObjects

CONSTANT InitThreshold   \* 1024 in the code

ASSUME ThresholdPositive == InitThreshold \in Nat \ {0}

VARIABLES
  phase,      \* where collect() stands; m_marking is phase \in Marking
  pending,    \* roots the callback has not visited yet
  marked,     \* GCObject::marked
  worklist,   \* Heap::m_worklist
  unswept,    \* list cells sweep() has not passed yet
  swept,      \* collect()'s result so far
  count,      \* Heap::m_count
  threshold   \* Heap::m_threshold

gcVars == <<phase, pending, marked, worklist, unswept, swept, count, threshold>>
vars == <<objVars, gcVars>>

Marking == {"roots", "drain", "sweep"}

Init ==
  /\ ObjInit
  /\ phase = "idle"
  /\ pending = {} /\ marked = {} /\ worklist = {} /\ unswept = {}
  /\ swept = 0 /\ count = 0 /\ threshold = InitThreshold

-----------------------------------------------------------------------------
(* The client.  link() counts the object and leaves it white; the trailing  *)
(* maybe_collect() changes nothing on any of its paths.                     *)
ClientAllocate ==
  /\ phase = "idle"
  /\ Allocate
  /\ count' = count + 1
  /\ UNCHANGED <<phase, pending, marked, worklist, unswept, swept, threshold>>

ClientMutate ==
  /\ phase = "idle"
  /\ Mutate
  /\ UNCHANGED gcVars

-----------------------------------------------------------------------------
(* What trace() emits: the slots it walks for each type of object. *)
TraceEdgesNoMetatable ==
  {<<"Table", "value">>, <<"Closure", "env">>, <<"Closure", "env_table">>,
   <<"Env", "parent">>, <<"Env", "env_table">>, <<"Env", "var">>, <<"Env", "vararg">>}
TraceEdgesNoEnvTable ==
  {<<"Table", "value">>, <<"Table", "metatable">>, <<"Closure", "env">>, <<"Closure", "metatable">>,
   <<"Env", "parent">>, <<"Env", "var">>, <<"Env", "vararg">>, <<"Userdata", "metatable">>}
TraceEdges ==
  {<<"Table", "value">>, <<"Table", "metatable">>,
   <<"Closure", "env">>, <<"Closure", "env_table">>, <<"Closure", "metatable">>,
   <<"Env", "parent">>, <<"Env", "env_table">>, <<"Env", "var">>, <<"Env", "vararg">>,
   <<"Userdata", "metatable">>}

Children(o) == {p \in Obj : \E s \in Slots : <<kind[o], s>> \in TraceEdges /\ p \in ref[o][s]}

(* push_mark of every object of S: the white ones turn black and are queued.*)
PushMark(S) ==
  /\ marked' = marked \cup S
  /\ worklist' = worklist \cup (S \ marked)

(* collect(): m_marking is set, reset_marks() clears every mark. *)
StartCollect ==
  /\ phase = "idle"
  /\ phase' = "roots"
  /\ marked' = {}
  /\ pending' = roots
  /\ UNCHANGED <<objVars, worklist, unswept, swept, count, threshold>>

(* roots(MarkVisitor): the visitor is called once per root. *)
MarkRoot(r) ==
  /\ phase = "roots"
  /\ PushMark({r})
  /\ pending' = pending \ {r}
  /\ UNCHANGED <<objVars, phase, unswept, swept, count, threshold>>

RootsDone ==
  /\ phase = "roots" /\ pending = {}
  /\ phase' = "drain"
  /\ UNCHANGED <<objVars, pending, marked, worklist, unswept, swept, count, threshold>>

(* drain_worklist(): pop an object and trace it. *)
PopRequeuing(o) ==
  /\ marked' = marked \cup Children(o)
  /\ worklist' = (worklist \ {o}) \cup Children(o)
Pop(o) ==
  /\ marked' = marked \cup Children(o)
  /\ worklist' = (worklist \ {o}) \cup (Children(o) \ marked)

Drain(o) ==
  /\ phase = "drain"
  /\ Pop(o)
  /\ UNCHANGED <<objVars, phase, pending, unswept, swept, count, threshold>>

StartSweep ==
  /\ phase = "drain" /\ worklist = {}
  /\ phase' = "sweep"
  /\ unswept' = Live
  /\ swept' = 0
  /\ UNCHANGED <<objVars, pending, marked, worklist, count, threshold>>

(* sweep() moves past a cell, and counts the one it freed. *)
AdvanceTwice(o) == \E p \in unswept : unswept' = unswept \ {o, p}
Advance(o) == unswept' = unswept \ {o}

UncountNothing == count' = count /\ swept' = swept + 1
Uncount == count' = count - 1 /\ swept' = swept + 1

(* sweep() on a black object: the mark is reset for the next cycle. *)
SweepMarked(o) ==
  /\ phase = "sweep" /\ o \in marked
  /\ marked' = marked \ {o}
  /\ Advance(o)
  /\ UNCHANGED <<objVars, phase, pending, worklist, swept, count, threshold>>

(* prune_intern_entry(): the entry is erased by content, not by pointer. *)
PruneNothing(o) == UNCHANGED intern
Prune(o) ==
  intern' = IF kind[o] = "String" /\ content[o] \in Short
              THEN [intern EXCEPT ![content[o]] = None] ELSE intern

(* sweep() on a white object: prune, unlink, free. *)
SweepFree(o) ==
  /\ phase = "sweep" /\ o \notin marked
  /\ Prune(o)
  /\ kind' = [kind EXCEPT ![o] = None]
  /\ ref' = [ref EXCEPT ![o] = NoRefs]
  /\ content' = [content EXCEPT ![o] = None]
  /\ Advance(o)
  /\ Uncount
  /\ UNCHANGED <<roots, phase, pending, marked, worklist, threshold>>

NextThreshold == IF count > 0 THEN 2 * count ELSE InitThreshold

FinishCollect ==
  /\ phase = "sweep" /\ unswept = {}
  /\ phase' = "idle"
  /\ threshold' = NextThreshold
  /\ UNCHANGED <<objVars, pending, marked, worklist, unswept, swept, count>>

(* ~Heap: every object on the list is freed. *)
Destroy ==
  /\ phase = "idle"
  /\ phase' = "dead"
  /\ kind' = [o \in Obj |-> None]
  /\ ref' = [o \in Obj |-> NoRefs]
  /\ content' = [o \in Obj |-> None]
  /\ intern' = [c \in Short |-> None]
  /\ roots' = {}
  /\ count' = 0
  /\ UNCHANGED <<pending, marked, worklist, unswept, swept, threshold>>

Collector ==
  \/ \E r \in pending : MarkRoot(r)
  \/ RootsDone
  \/ \E o \in worklist : Drain(o)
  \/ StartSweep
  \/ \E o \in unswept : SweepMarked(o) \/ SweepFree(o)
  \/ FinishCollect

Next == ClientAllocate \/ ClientMutate \/ StartCollect \/ Collector \/ Destroy

Spec == Init /\ [][Next]_vars

(* Once entered, collect() is a loop nothing interrupts: it keeps stepping. *)
FairSpec == Spec /\ WF_vars(Collector)

-----------------------------------------------------------------------------
TypeOK ==
  /\ kind \in [Obj -> Kinds \cup {None}]
  /\ ref \in [Obj -> [Slots -> SUBSET Obj]]
  /\ content \in [Obj -> Content \cup {None}]
  /\ intern \in [Short -> Obj \cup {None}]
  /\ roots \in SUBSET Obj
  /\ phase \in {"idle", "dead"} \cup Marking
  /\ pending \in SUBSET Obj /\ marked \in SUBSET Obj
  /\ worklist \in SUBSET Obj /\ unswept \in SUBSET Obj
  /\ swept \in Nat /\ count \in Nat /\ threshold \in Nat

(* No reachable object is ever freed, in the middle of a collection either. *)
ReachableLive == Reachable \subseteq Live

(* The objects sweep() is going to free: on the list, not passed, white. *)
Doomed == IF phase = "sweep" THEN unswept \ marked ELSE {}
Survivors == Live \ Doomed

(* No pointer the program can follow from a surviving object dangles. *)
NoDangling == roots \subseteq Survivors /\ \A o \in Survivors : Follow(o) \subseteq Survivors

(* The intern table and the short strings on the list are in bijection:     *)
(* one canonical String per content, no entry for a freed one, even in the  *)
(* middle of sweep().                                                       *)
InternCanonical ==
  /\ \A c \in Short : intern[c] # None =>
        kind[intern[c]] = "String" /\ content[intern[c]] = c
  /\ \A o \in Live : kind[o] = "String" /\ content[o] \in Short =>
        intern[content[o]] = o

(* m_count is the length of the list at every step. *)
CountExact == count = Cardinality(Live)

(* The trigger never falls to 0, the value maybe_collect() reads as         *)
(* "automatic collection disabled", whatever is collected.                  *)
TriggerNeverDisabled == threshold > 0

(* Tri-colour invariant of the mark phase, and what it leaves to sweep(). *)
MarkInvariant ==
  /\ phase = "idle" => marked = {}
  /\ phase # "roots" => pending = {}
  /\ phase \notin {"roots", "drain"} => worklist = {}
  /\ phase # "sweep" => unswept = {}
  /\ phase \in {"roots", "drain"} =>
       /\ worklist \subseteq marked /\ marked \subseteq Reachable
       /\ roots \subseteq marked \cup pending /\ pending \subseteq roots
       /\ \A o \in marked \ worklist : Follow(o) \subseteq marked
  /\ phase = "sweep" => unswept \subseteq Live /\ marked \subseteq unswept

(* A free address keeps nothing of the object that lay there. *)
FreeIsBlank == \A o \in Obj \ Live : ref[o] = NoRefs /\ content[o] = None

(* The inductive invariant.  CountExact is what keeps `count' a natural in  *)
(* sweep(); NoDangling and MarkInvariant depend on each other at the two    *)
(* ends of the mark phase.                                                  *)
IInv ==
  /\ TypeOK
  /\ NoDangling
  /\ MarkInvariant
  /\ InternCanonical
  /\ CountExact
  /\ FreeIsBlank
  /\ TriggerNeverDisabled

(* collect() returns to its caller. *)
CollectReturns == phase \in Marking ~> phase = "idle"

-----------------------------------------------------------------------------
(* A collection takes effect for its caller when marking ends: from there   *)
(* on the objects sweep() will free are no longer part of the heap.         *)
Spared(f, empty) == [o \in Obj |-> IF o \in Doomed THEN empty ELSE f[o]]

Promise == INSTANCE AbstractHeap WITH
  kind <- Spared(kind, None), ref <- Spared(ref, NoRefs), content <- Spared(content, None),
  intern <- [c \in Short |-> IF intern[c] \in Doomed THEN None ELSE intern[c]]

(* Heap implements the atomic, exact collection of AbstractHeap. *)
ImplementsPromise == Promise!AbsSpec
=============================================================================
