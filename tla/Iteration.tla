----------------------------- MODULE Iteration -----------------------------
(***************************************************************************)
(* for k in pairs(t) and for i in ipairs(t), with bodies that change the   *)
(* table: b_next, b_ipairs_iter and the generic for in                     *)
(* src/lua/evaluator.cpp.  The hash has an order of its own; a new key     *)
(* may go anywhere, and may reorder all others when the hash grows.        *)
(***************************************************************************)
EXTENDS Naturals, Sequences, FiniteSets, SequencesExt

CONSTANTS
  Named,     \* keys that are strings, booleans or floats
  MaxInt,    \* the positive integer keys are 1 .. MaxInt
  Objects    \* keys that are tables or functions

IntKeys == [int : 1 .. MaxInt]
Key == [name : Named] \cup IntKeys \cup [object : Objects]
NoKey == [none |-> TRUE]
IntKey(i) == [int |-> i]

ASSUME IterAssumption == IsFiniteSet(Named) /\ MaxInt \in Nat /\ IsFiniteSet(Objects)

VARIABLES
  order,     \* the keys of the table in the order of its hash
  loop,      \* the loop that runs: "none", "pairs" or "ipairs"
  over,      \* the iterator has returned nil
  control,   \* the control variable of the loop
  seen,      \* history: the keys the body has been run for
  again,     \* history: it has been run twice for a key
  always,    \* history: the keys there since the loop began
  changed    \* history: what the body has done to the table

iterVars == <<order, loop, over, control, seen, again, always, changed>>

Keys == Range(order)

IterInit ==
  /\ order \in {s \in UNION {[1 .. n -> Key] : n \in 0 .. Cardinality(Key)} :
                  \A i, j \in DOMAIN s : s[i] = s[j] => i = j}
  /\ loop = "none" /\ over = FALSE /\ control = NoKey /\ seen = {} /\ again = FALSE /\ always = {} /\ changed = {}

Start(kind) ==
  /\ loop = "none" /\ ~over
  /\ loop' = kind
  /\ control' = IF kind = "pairs" THEN NoKey ELSE IntKey(0)
  /\ always' = Keys
  /\ UNCHANGED <<order, over, seen, again, changed>>

-----------------------------------------------------------------------------
(* keyval: a key as a value; one that is an object comes back nil.          *)
KeyValue(k) == IF k \in [object : Objects] THEN NoKey ELSE k

PlaceOf(k) == CHOOSE i \in DOMAIN order : order[i] = k

NextSkips(k) ==
  IF order = <<>> THEN NoKey
  ELSE IF k = NoKey THEN KeyValue(order[1])
  ELSE IF k \notin Keys \/ PlaceOf(k) + 1 >= Len(order) THEN NoKey
  ELSE KeyValue(order[PlaceOf(k) + 2])

(* next(t, k): the key is looked up again; one that is gone ends the loop.  *)
NextKey(k) ==
  IF order = <<>> THEN NoKey
  ELSE IF k = NoKey THEN KeyValue(order[1])
  ELSE IF k \notin Keys \/ PlaceOf(k) = Len(order) THEN NoKey
  ELSE KeyValue(order[PlaceOf(k) + 1])

(* b_ipairs_iter(t, i): raw, up to the first hole. *)
IpairsIter(k) == IF IntKey(k.int + 1) \in Keys THEN IntKey(k.int + 1) ELSE NoKey

(* The generic for: call the iterator; nil ends the loop. *)
Iterate(next) ==
  /\ IF next = NoKey THEN over' = TRUE /\ UNCHANGED <<control, seen, again>>
     ELSE UNCHANGED over /\ control' = next
          /\ seen' = seen \cup {next} /\ again' = (again \/ next \in seen)
  /\ UNCHANGED <<order, loop, always, changed>>

StepPairs == loop = "pairs" /\ ~over /\ Iterate(NextKey(control))
StepIpairs == loop = "ipairs" /\ ~over /\ Iterate(IpairsIter(control))

InBody == loop # "none" /\ ~over /\ seen # {}

(* t[k] = v for a key that is not there, and one insertion in a loop. *)
Insert(k) ==
  /\ InBody /\ k \notin Keys /\ "insert" \notin changed
  /\ order' \in {s \in [1 .. Len(order) + 1 -> Keys \cup {k}] : Range(s) = Keys \cup {k}}
  /\ changed' = changed \cup {"insert"}
  /\ UNCHANGED <<loop, over, control, seen, again, always>>

(* t[k] = nil *)
Erase(k) ==
  /\ InBody /\ k \in Keys
  /\ order' = RemoveAt(order, PlaceOf(k))
  /\ always' = always \ {k}
  /\ changed' = changed \cup {IF k = control THEN "erase current"
                              ELSE IF k \in seen THEN "erase old" ELSE "erase"}
  /\ UNCHANGED <<loop, over, control, seen, again>>

(* break, or an error in the body. *)
Break ==
  /\ InBody
  /\ over' = TRUE /\ loop' = "none"
  /\ UNCHANGED <<order, control, seen, again, always, changed>>

IterNext ==
  \/ \E kind \in {"pairs", "ipairs"} : Start(kind)
  \/ StepPairs \/ StepIpairs \/ Break
  \/ \E k \in Key : Insert(k) \/ Erase(k)

(* The evaluator goes on with a loop whose body ends. *)
IterSpec == IterInit /\ [][IterNext]_iterVars /\ WF_iterVars(StepPairs) /\ WF_iterVars(StepIpairs)

-----------------------------------------------------------------------------
IterTypeOK ==
  /\ Range(order) \subseteq Key /\ IsInjective(order)
  /\ loop \in {"none", "pairs", "ipairs"} /\ over \in BOOLEAN
  /\ control \in Key \cup [int : {0}] \cup {NoKey}
  /\ seen \subseteq Key /\ again \in BOOLEAN
  /\ always \subseteq Keys
  /\ changed \subseteq {"insert", "erase", "erase old", "erase current"}

(* A loop over pairs that inserts nothing and does not erase the key it is  *)
(* at has run its body for every key that was there all along, unless a     *)
(* table or function is a key (evaluator.cpp:298, 314).                     *)
PairsComplete ==
  (loop = "pairs" /\ over /\ changed \cap {"insert", "erase current"} = {}
     /\ \A k \in always : KeyValue(k) # NoKey) => always \subseteq seen

(* Whatever the body erases, and until it inserts a key, it is run at most  *)
(* once for a key.                                                          *)
PairsNoRepeat == "insert" \notin changed => ~again

(* pairs visits every key that stays, once.                                 *)
PairsExact == IterTypeOK /\ PairsComplete /\ PairsNoRepeat

(* The loop goes on. *)
Going(kind) == loop = kind /\ ~over

(* The keys of the table up to k, in its order. *)
UpTo(k) == {order[i] : i \in 1 .. PlaceOf(k)}

(* Where a loop over pairs stands: at a key it has run its body for.  While *)
(* nothing is inserted and that key is still there, the body has seen no    *)
(* key behind it; while that key is not erased either, all before it.       *)
PairsPlace ==
  Going("pairs") =>
    /\ control \in Key \cup {NoKey}
    /\ IF control = NoKey THEN seen = {} ELSE control \in seen
    /\ "insert" \notin changed /\ control \in Keys => seen \cap Keys \subseteq UpTo(control)
    /\ changed \cap {"insert", "erase current"} = {} /\ control # NoKey =>
         control \in Keys /\ UpTo(control) \subseteq seen

(* ipairs counts: what it has seen is what it has counted. *)
IpairsPlace ==
  Going("ipairs") =>
    control \in [int : Nat] /\ \A k \in seen : k \in [int : Nat] /\ k.int <= control.int

(* Until a key is inserted, all that is left was there all along. *)
OnlyErased == loop # "none" /\ "insert" \notin changed => always = Keys

BeforeLoop == loop = "none" /\ ~over => seen = {} /\ ~again /\ changed = {}

IterIInv ==
  /\ IterTypeOK /\ order \in Seq(Key)
  /\ BeforeLoop /\ PairsPlace /\ IpairsPlace /\ OnlyErased
  /\ PairsComplete /\ PairsNoRepeat

(* Every loop comes to its end, with one key inserted meanwhile included.   *)
LoopEnds == (loop # "none") ~> over
=============================================================================
