----------------------------- MODULE HeapObjects -----------------------------
(***************************************************************************)
(* The object graph of include/lua/value.h and what the code outside the   *)
(* collector (the client: the evaluator, the libraries, the tests) does to *)
(* it through Heap's allocators and through plain stores.                  *)
(*                                                                         *)
(* An element of Obj is an address.  The address of a freed object may be  *)
(* handed out again by a later allocation.  The fields of the C++ objects  *)
(* that can hold a GCObject* are grouped into slots; scalars are left out. *)
(* The client reaches objects only through `roots', the objects it holds   *)
(* (C++ locals, the environment chain, the global table) and would pass to *)
(* Heap::collect as the root set.                                          *)
(***************************************************************************)
EXTENDS Naturals, FiniteSets

CONSTANTS
  Obj,       \* addresses
  Short,     \* contents of at most MAX_SHORT_LEN bytes (interned)
  Long,      \* contents longer than that (never interned)
  None,      \* nullptr, and the kind of an address that holds no object
  MaxRefs    \* bound on the references stored in the whole graph

Kinds == {"String", "Table", "Closure", "Builtin", "Env", "Userdata"}

Slots == {"value", "key", "metatable", "env", "env_table", "parent", "var", "vararg"}

Content == Short \cup Long

ASSUME ObjFinite == IsFiniteSet(Obj)
ASSUME NoneIsNothing == None \notin Obj \cup Kinds \cup Content
ASSUME ContentDisjoint == Short \cap Long = {}
ASSUME MaxRefsNat == MaxRefs \in Nat

VARIABLES
  kind,      \* GCObject::type of the object at an address, None if free
  ref,       \* the objects each slot of an object points to
  content,   \* String::data
  intern,    \* Heap::m_intern
  roots      \* what the client holds

objVars == <<kind, ref, content, intern, roots>>

-----------------------------------------------------------------------------
(* Heap's intrusive list, as the set of addresses linked into it. *)
Live == {o \in Obj : kind[o] # None}

(* The pointer fields of each object type.  A table's entries are its value *)
(* slots, and its key slots for keys that are objects.                      *)
Layout ==
  [Table    |-> {"value", "key", "metatable"},
   Closure  |-> {"env", "env_table", "metatable"},
   Env      |-> {"parent", "env_table", "var", "vararg"},
   Userdata |-> {"metatable"},
   String   |-> {},
   Builtin  |-> {}]

(* The objects a program that holds o can get at by reading it.  An object  *)
(* key is not one of them: next() hands back nil for it.                    *)
Follow(o) ==
  {p \in Obj : kind[o] # None /\ \E s \in Layout[kind[o]] \ {"key"} : p \in ref[o][s]}

(* Sets that contain the roots and every object an element leads to. *)
Closed(S) == roots \subseteq S /\ \A o \in S : Follow(o) \subseteq S

(* The transitive closure of the roots: what lies in every closed set. *)
Reachable == {o \in Obj : \A S \in SUBSET Obj : Closed(S) => o \in S}

-----------------------------------------------------------------------------
NoRefs == [s \in Slots |-> {}]

(* Kinds a slot's pointer may point to.  A string key is stored by value. *)
Target(s) ==
  CASE s \in {"metatable", "env_table"}   -> {"Table"}
    [] s \in {"env", "parent"}            -> {"Env"}
    [] s = "key"                          -> Kinds \ {"Env", "String"}
    [] s \in {"value", "var", "vararg"}   -> Kinds \ {"Env"}

(* Slots written after construction; the others are set by the constructor. *)
Writable(k) ==
  IF k = None THEN {} ELSE
  Layout[k] \ (IF k = "Closure" THEN {"env", "env_table"} ELSE {"parent"})

RefCount == Cardinality({e \in Obj \X Slots \X Obj : e[3] \in ref[e[1]][e[2]]})

ObjInit ==
  /\ kind = [o \in Obj |-> None]
  /\ ref = [o \in Obj |-> NoRefs]
  /\ content = [o \in Obj |-> None]
  /\ intern = [c \in Short |-> None]
  /\ roots = {}

(* Heap::link of a new object at a free address; the caller holds it. *)
Link(o, k, r) ==
  /\ kind[o] = None
  /\ kind' = [kind EXCEPT ![o] = k]
  /\ ref' = [ref EXCEPT ![o] = r]
  /\ roots' = roots \cup {o}

HeldOrNone(k) == {o \in roots : kind[o] = k} \cup {None}

PointTo(o) == IF o = None THEN {} ELSE {o}

(* Heap::make_string: a short content already interned yields the canonical *)
(* String, whether or not anything else still refers to it.                 *)
ReuseString(c) ==
  /\ c \in Short
  /\ intern[c] # None
  /\ roots' = roots \cup {intern[c]}
  /\ UNCHANGED <<kind, ref, content, intern>>

NewString(o, c) ==
  /\ c \in Short => intern[c] = None
  /\ Link(o, "String", NoRefs)
  /\ content' = [content EXCEPT ![o] = c]
  /\ intern' = IF c \in Short THEN [intern EXCEPT ![c] = o] ELSE intern

(* Heap::make_table, make_builtin and make_userdata: no outgoing pointer. *)
NewPlain(o, k) ==
  /\ Link(o, k, NoRefs)
  /\ UNCHANGED <<content, intern>>

NewClosure(o, e, t) ==
  /\ Link(o, "Closure", [NoRefs EXCEPT !["env"] = PointTo(e), !["env_table"] = PointTo(t)])
  /\ UNCHANGED <<content, intern>>

(* Environment's constructor copies the parent's env_table. *)
NewEnv(o, p) ==
  /\ Link(o, "Env", [NoRefs EXCEPT !["parent"] = PointTo(p),
                                   !["env_table"] = IF p = None THEN {} ELSE ref[p]["env_table"]])
  /\ UNCHANGED <<content, intern>>

(* A store of p into slot s of o: a new map entry, a new binding, or the    *)
(* replacement of a pointer field.                                          *)
Store(o, s, p) ==
  /\ s \in Writable(kind[o])
  /\ kind[p] \in Target(s)
  /\ RefCount < MaxRefs
  /\ ref' = [ref EXCEPT ![o][s] = IF s \in {"metatable", "env_table"} THEN {p} ELSE @ \cup {p}]
  /\ UNCHANGED <<kind, content, intern, roots>>

(* Erasing an entry, overwriting a binding, clearing a pointer field. *)
Erase(o, s, p) ==
  /\ s \in Writable(kind[o])
  /\ p \in ref[o][s]
  /\ ref' = [ref EXCEPT ![o][s] = @ \ {p}]
  /\ UNCHANGED <<kind, content, intern, roots>>

(* Reading a pointer out of a held object; object keys cannot be read back  *)
(* (next() yields nil for them).                                            *)
Read(o, p) ==
  /\ p \in Follow(o)
  /\ roots' = roots \cup {p}
  /\ UNCHANGED <<kind, ref, content, intern>>

Drop(o) ==
  /\ roots' = roots \ {o}
  /\ UNCHANGED <<kind, ref, content, intern>>

(* Every allocator, store, read and release the client can perform. *)
Allocate ==
  \E o \in Obj :
    \/ \E c \in Content : NewString(o, c)
    \/ \E k \in {"Table", "Builtin", "Userdata"} : NewPlain(o, k)
    \/ \E e \in HeldOrNone("Env"), t \in HeldOrNone("Table") : NewClosure(o, e, t)
    \/ \E p \in HeldOrNone("Env") : NewEnv(o, p)

Mutate ==
  \/ \E c \in Short : ReuseString(c)
  \/ \E o \in roots, p \in roots, s \in Slots : Store(o, s, p)
  \/ \E o \in roots, p \in Obj, s \in Slots : Erase(o, s, p)
  \/ \E o \in roots, p \in Obj : Read(o, p)
  \/ \E o \in roots : Drop(o)

Client == Allocate \/ Mutate
=============================================================================
