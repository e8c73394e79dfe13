----------------------------- MODULE Metatables -----------------------------
(***************************************************************************)
(* Reading and writing fields in src/lua/evaluator.cpp: raw slots and the  *)
(* walks along __index and __newindex.  A metatable is a table like any    *)
(* other, so any write may change any walk.  What a metamethod that is a   *)
(* function does is up to the program: the walk ends with a call.          *)
(***************************************************************************)
EXTENDS Naturals, FiniteSets

CONSTANTS
  Table,      \* tables
  Plain,      \* values that are neither tables nor functions
  Function,   \* functions
  Nil,        \* the absent value, and no metatable
  String,     \* a string, whose metatable is StringMeta
  StringMeta, \* the table that install_string_lib makes the metatable of strings
  MaxChain    \* the steps of a walk: 100 in the code

ASSUME MetaAssumption ==
  /\ IsFiniteSet(Table) /\ StringMeta \in Table /\ String \in Plain
  /\ Table \cap (Plain \cup Function) = {} /\ Plain \cap Function = {}
  /\ Nil \notin Table \cup Plain \cup Function
  /\ MaxChain \in Nat \ {0}

VARIABLES
  raw,      \* Table::hash
  meta,     \* Table::metatable
  assigned  \* history: whether the operation just made was an assignment

metaVars == <<raw, meta, assigned>>

Events == {"__index", "__newindex"}
Fields == {"k"} \cup Events
BadKeys == {"nil", "NaN"}
Values == Table \cup Plain \cup Function

MetaInit ==
  /\ raw = [t \in Table |-> [k \in Fields |-> Nil]]
  /\ meta = [t \in Table |-> Nil]
  /\ assigned = FALSE

-----------------------------------------------------------------------------
(* metatable_of, getmetamethod *)
MetatableOf(v) ==
  IF v \in Table THEN meta[v] ELSE IF v = String THEN StringMeta ELSE Nil

GetMetamethod(v, event) ==
  IF MetatableOf(v) = Nil THEN Nil ELSE raw[MetatableOf(v)][event]

Slot(t, key) == IF key \in BadKeys THEN Nil ELSE raw[t][key]

Found(v) == [how |-> "value", value |-> v]
CallOf(f, v) == [how |-> "call", value |-> f, self |-> v]
Error(e) == [how |-> "error", value |-> e]
Stores(t) == [how |-> "store", value |-> t]
Nothing == [how |-> "nothing", value |-> Nil]

(* call_metamethod of a value that cannot be called raises. *)
CallOrError(f, v) == IF f \in Function THEN CallOf(f, v) ELSE Error("attempt to call")

WalkIndexOnce(start, key) ==
  LET mm == GetMetamethod(start, "__index") IN
  IF Slot(start, key) # Nil \/ mm \notin Table THEN Found(Slot(start, key)) ELSE Found(Slot(mm, key))

(* index_get of a table: the first raw slot on the walk along __index. *)
WalkIndex(start, key) ==
  LET walk[left \in 0 .. MaxChain] ==
        [t \in Table |->
           LET mm == GetMetamethod(t, "__index") IN
           IF left = 0 THEN Error("chain too long")
           ELSE IF Slot(t, key) # Nil THEN Found(Slot(t, key))
           ELSE IF mm = Nil THEN Found(Nil)
           ELSE IF mm \in Table THEN walk[left - 1][mm]
           ELSE CallOrError(mm, t)]
  IN  walk[MaxChain][start]

IndexGet(obj, key) ==
  LET mm == GetMetamethod(obj, "__index") IN
  CASE obj \in Table -> WalkIndex(obj, key)
    [] obj \notin Table /\ mm = Nil -> Error("attempt to index")
    [] obj \notin Table /\ mm \in Table -> WalkIndex(mm, key)
    [] OTHER -> CallOrError(mm, obj)

(* index_set of a table: where the value goes.  A raw slot wins; without    *)
(* one, __newindex is asked before anything is inserted.                    *)
GoesToObject(start, key) == Stores(start)
GoesTo(start, key) ==
  LET walk[left \in 0 .. MaxChain] ==
        [t \in Table |->
           LET mm == GetMetamethod(t, "__newindex") IN
           IF left = 0 THEN Error("chain too long")
           ELSE IF Slot(t, key) # Nil \/ mm = Nil THEN Stores(t)
           ELSE IF mm \in Table THEN walk[left - 1][mm]
           ELSE CallOrError(mm, t)]
  IN  IF key = "nil" THEN Nothing
      ELSE IF key = "NaN" THEN Error("table index is NaN")
      ELSE walk[MaxChain][start]

IndexSet(obj, key) ==
  LET mm == GetMetamethod(obj, "__newindex") IN
  CASE obj \in Table -> GoesTo(obj, key)
    [] obj \notin Table /\ mm = Nil -> Error("attempt to index")
    [] obj \notin Table /\ mm \in Table -> GoesTo(mm, key)
    [] OTHER -> CallOrError(mm, obj)

-----------------------------------------------------------------------------
(* obj[key] = v; a nil erases the slot. *)
Assign(obj, key, v) ==
  LET to == IndexSet(obj, key) IN
  /\ raw' = IF to.how = "store" THEN [raw EXCEPT ![to.value][key] = v] ELSE raw
  /\ assigned' = TRUE
  /\ UNCHANGED meta

(* rawset(t, key, v) *)
RawSet(t, key, v) ==
  /\ raw' = [raw EXCEPT ![t][key] = v]
  /\ assigned' = FALSE
  /\ UNCHANGED meta

(* setmetatable(t, mt) *)
SetMetatable(t, mt) ==
  /\ mt \in Table \cup {Nil}
  /\ meta' = [meta EXCEPT ![t] = mt]
  /\ assigned' = FALSE
  /\ UNCHANGED raw

Payload(key) == (IF key = "k" THEN Plain ELSE Values) \cup {Nil}

MetaNext ==
  \/ \E obj \in Table \cup Plain, key \in Fields \cup BadKeys : \E v \in Payload(key) :
       Assign(obj, key, v)
  \/ \E t \in Table, key \in Fields : \E v \in Payload(key) : RawSet(t, key, v)
  \/ \E t \in Table, mt \in Values \cup {Nil} : SetMetatable(t, mt)

MetaSpec == MetaInit /\ [][MetaNext]_metaVars

-----------------------------------------------------------------------------
MetaTypeOK ==
  /\ raw \in [Table -> [Fields -> Values \cup {Nil}]]
  /\ meta \in [Table -> Table \cup {Nil}]

(* The tables that a lookup may pass through: reached along edges of event, *)
(* each without the key.                                                    *)
Edge(event, key) ==
  [t \in Table |-> IF Slot(t, key) = Nil /\ GetMetamethod(t, event) \in Table
                     THEN {GetMetamethod(t, event)} ELSE {}]
Closed(S, edge) == \A t \in S : edge[t] \subseteq S
Reached(start, edge) ==
  {s \in Table : \A S \in SUBSET Table : start \in S /\ Closed(S, edge) => s \in S}

(* A read finds the value of the one table on the way that has the key, and *)
(* fails for a walk in a circle or through as many tables as the limit,     *)
(* never for a value that is there.  evaluator.cpp:1507.                    *)
ReadFindsKey ==
  \A t \in Table, key \in Fields :
    LET edge == Edge("__index", key)
        way == Reached(t, edge)
        ends == {s \in way : edge[s] = {}}
        r == IndexGet(t, key)
        tooLong == r = Error("chain too long")
    IN  /\ ends = {} => tooLong
        /\ tooLong => ends = {} \/ Cardinality(way) > MaxChain
        /\ \A s \in ends : Slot(s, key) # Nil => tooLong \/ r = Found(Slot(s, key))
        /\ \A s \in ends : Slot(s, key) = Nil /\ GetMetamethod(s, "__index") \in Function =>
             tooLong \/ r = CallOf(GetMetamethod(s, "__index"), s)

(* A proxy: an assignment through a table goes where a read through it      *)
(* looks, when __index and __newindex lead the same way from every table.   *)
ReadBack ==
  \A t \in Table :
    LET to == IndexSet(t, "k") IN
    (to.how = "store" /\ \A s \in Reached(t, Edge("__newindex", "k")) :
                            GetMetamethod(s, "__index") = GetMetamethod(s, "__newindex"))
      => Found(Slot(to.value, "k")) = IndexGet(t, "k")

(* A read finds the key its chain of tables has, and what a write through   *)
(* such a chain has stored.                                                 *)
ReadsAndWritesAgree == MetaTypeOK /\ ReadFindsKey /\ ReadBack

(* An assignment never creates a key in a table that has a __newindex: a    *)
(* read-only table or an empty proxy stays as it is whatever tables lead    *)
(* to it, and only rawset reaches it (evaluator.cpp:1553).                  *)
GuardedTablesStay ==
  [][assigned' =>
       \A s \in Table, key \in Fields :
         (raw[s][key] = Nil /\ GetMetamethod(s, "__newindex") # Nil) => raw'[s][key] = Nil]_metaVars
=============================================================================
