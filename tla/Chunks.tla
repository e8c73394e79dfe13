------------------------------- MODULE Chunks -------------------------------
(***************************************************************************)
(* The lifetime of syntax trees in Evaluator.  A tree parsed for           *)
(* Evaluator::run lives until run returns or throws; a tree parsed by      *)
(* load, dofile or a package searcher is moved into m_loaded_chunks.       *)
(* Closures hold raw pointers into both kinds of tree, and m_labels caches *)
(* labels under the addresses of their blocks.                             *)
(* A tree is abstracted to one chunk whose FuncBody the vector stores in   *)
(* place and one block, allocated on the heap, with the function bodies    *)
(* nested in it.                                                           *)
(***************************************************************************)
EXTENDS Naturals, Sequences

CONSTANTS
  Tree,   \* the parses; each happens once
  Addr,   \* addresses a block may lie at, free to be reused
  None    \* neither a tree nor an address

ASSUME NoneApart == None \notin Tree \cup Addr

VARIABLES
  root,       \* the tree Evaluator::run is evaluating, None between runs
  home,       \* where the block of a tree lies, None if it does not exist
  parsed,     \* the trees parsed so far
  chunks,     \* m_loaded_chunks
  capacity,   \* m_loaded_chunks.capacity()
  buffer,     \* the storage of m_loaded_chunks, numbered by reallocation
  closures,   \* the closures created so far
  labels      \* m_labels: the tree whose labels are cached under an address

chunksVars == <<root, home, parsed, chunks, capacity, buffer, closures, labels>>

Retained == {chunks[i] : i \in DOMAIN chunks}

ChunksInit ==
  /\ root = None /\ parsed = {}
  /\ home = [t \in Tree |-> None]
  /\ chunks = <<>> /\ capacity = 0 /\ buffer = 0
  /\ closures = {}
  /\ labels = [a \in Addr |-> None]

FreeAddr == {a \in Addr : \A t \in Tree : home[t] # a}

-----------------------------------------------------------------------------
ForgetNoLabels == UNCHANGED labels
ForgetLabels == labels' = [a \in Addr |-> None]

(* Evaluator::run: m_labels is cleared before the new tree is evaluated. *)
Run(t, a) ==
  /\ root = None /\ t \notin parsed /\ a \in FreeAddr
  /\ root' = t /\ parsed' = parsed \cup {t}
  /\ home' = [home EXCEPT ![t] = a]
  /\ ForgetLabels
  /\ UNCHANGED <<chunks, capacity, buffer, closures>>

(* run returns or throws: its parameter, the tree, is destroyed. *)
EndRun ==
  /\ root # None
  /\ root' = None
  /\ home' = [home EXCEPT ![root] = None]
  /\ UNCHANGED <<parsed, chunks, capacity, buffer, closures, labels>>

(* eval_block's lookup in m_labels: the labels are collected once. *)
Visit(t) == labels' = [labels EXCEPT ![home[t]] = IF @ = None THEN t ELSE @]

(* The run reaches a block of its own tree. *)
EvalRoot ==
  /\ root # None
  /\ Visit(root)
  /\ UNCHANGED <<root, home, parsed, chunks, capacity, buffer, closures>>

(* Where the pointer of a closure leads: a node nested in a tree, or the    *)
(* FuncBody stored in slot `index' of a buffer of m_loaded_chunks.          *)
InTree(t) == [tree |-> t, buffer |-> 0, index |-> 0]
InVector(t, b, i) == [tree |-> t, buffer |-> b, index |-> i]

(* The tree a closure's pointer designates now, None if it dangles. *)
Designates(c) ==
  IF c.index = 0 THEN (IF home[c.tree] # None THEN c.tree ELSE None)
  ELSE IF c.buffer = buffer THEN chunks[c.index] ELSE None

(* push_back: the elements move to a new buffer when the old one is full.   *)
PushBack(t) ==
  /\ chunks' = Append(chunks, t)
  /\ IF Len(chunks) = capacity
       THEN buffer' = buffer + 1 /\ capacity' = IF capacity = 0 THEN 1 ELSE 2 * capacity
       ELSE UNCHANGED <<buffer, capacity>>

(* load, loadstring, dofile and the package searchers: retain_chunk_ast and *)
(* make_closure on the FuncBody now at the back of the vector.              *)
Load(t, a) ==
  /\ root # None /\ t \notin parsed /\ a \in FreeAddr
  /\ parsed' = parsed \cup {t}
  /\ home' = [home EXCEPT ![t] = a]
  /\ PushBack(t)
  /\ closures' = closures \cup {InVector(t, buffer', Len(chunks'))}
  /\ UNCHANGED <<root, labels>>

(* A function expression of a tree being evaluated creates a closure. *)
Define(t) ==
  /\ root # None /\ t \in {root} \cup Retained
  /\ closures' = closures \cup {InTree(t)}
  /\ UNCHANGED <<root, home, parsed, chunks, capacity, buffer, labels>>

(* call_value on a closure whose pointer is good: its block is entered.     *)
Call(c) ==
  /\ root # None /\ Designates(c) # None
  /\ Visit(Designates(c))
  /\ UNCHANGED <<root, home, parsed, chunks, capacity, buffer, closures>>

ChunksNext ==
  \/ \E t \in Tree, a \in Addr : Run(t, a) \/ Load(t, a)
  \/ EndRun \/ EvalRoot
  \/ \E t \in Tree : Define(t)
  \/ \E c \in closures : Call(c)

ChunksSpec == ChunksInit /\ [][ChunksNext]_chunksVars

-----------------------------------------------------------------------------
ChunksTypeOK ==
  /\ root \in Tree \cup {None} /\ parsed \subseteq Tree
  /\ home \in [Tree -> Addr \cup {None}]
  /\ chunks \in Seq(Tree) /\ capacity \in Nat /\ buffer \in Nat
  /\ Len(chunks) <= capacity
  /\ closures \subseteq [tree : parsed, buffer : Nat, index : Nat]
  /\ labels \in [Addr -> Tree \cup {None}]

(* During a run m_labels never answers for a block that is gone: what is    *)
(* cached under an address was collected from the block that lies there,    *)
(* although blocks of earlier runs were freed and their addresses reused.   *)
LabelCacheFresh ==
  root # None => \A a \in Addr : labels[a] # None => home[labels[a]] = a

(* Loaded code is kept: the tree of every closure load ever returned.       *)
LoadedTreesKept == \A c \in closures : c.index # 0 => home[c.tree] # None /\ c.tree \in Retained

(* A tree that exists was parsed, and a retained one exists and is not the  *)
(* tree of the run, whose end destroys it.                                  *)
TreesExist ==
  /\ \A t \in Tree : home[t] # None => t \in parsed
  /\ root # None => root \in parsed /\ root \notin Retained /\ home[root] # None
  /\ \A t \in Retained : t \in parsed /\ home[t] # None

(* A closure that load returned points into the vector, or where the vector *)
(* was.                                                                     *)
PointersInVector == \A c \in closures : c.index # 0 => c.tree \in Retained /\ c.index <= Len(chunks)

(* The inductive invariant: a label is cached only for a block that exists, *)
(* which is why what a run evaluates must not disappear before it ends.     *)
ChunksIInv == ChunksTypeOK /\ TreesExist /\ PointersInVector /\ LabelCacheFresh

(* evaluator.h: retain_chunk_ast "Returns a stable const FuncBody* into the *)
(* retained tree."                                                          *)
LoadedBodiesStable == \A c \in closures : c.index # 0 => Designates(c) = c.tree
=============================================================================
