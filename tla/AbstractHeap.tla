----------------------------- MODULE AbstractHeap -----------------------------
(***************************************************************************)
(* What include/lua/heap.h promises of Heap: objects are reclaimed by      *)
(* reachability from the root set alone.  A collection is one step that    *)
(* keeps exactly the objects reachable from the roots, touches none of     *)
(* them, and forgets the interned strings it reclaims.                     *)
(***************************************************************************)
EXTENDS HeapObjects

(* The objects of S remain; the other addresses are free again. *)
Keep(S) ==
  /\ kind' = [o \in Obj |-> IF o \in S THEN kind[o] ELSE None]
  /\ ref' = [o \in Obj |-> IF o \in S THEN ref[o] ELSE NoRefs]
  /\ content' = [o \in Obj |-> IF o \in S THEN content[o] ELSE None]
  /\ intern' = [c \in Short |-> IF intern[c] \in S THEN intern[c] ELSE None]

(* Heap::collect as its caller sees it. *)
Collect == Keep(Reachable) /\ UNCHANGED roots

(* ~Heap frees every object. *)
DestroyAll == Keep({}) /\ roots' = {}

AbsNext == Client \/ Collect \/ DestroyAll

AbsSpec == ObjInit /\ [][AbsNext]_objVars
=============================================================================
