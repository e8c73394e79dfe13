------------------------------ MODULE MCTables ------------------------------
(* Everything that works on tables, one part of it per behaviour: a call of *)
(* a range function of the library (every move, every insertion and removal *)
(* and every unpack from a non-negative index, on integers of a few bits);  *)
(* a call of sort, on a short array with a cutoff low enough for            *)
(* partitions; assignments through metatables; a loop with pairs or ipairs. *)
EXTENDS TabRange, TabSort, Metatables, Iteration

(* Every strict weak order, and every relation on two of the elements.      *)
MCOrder ==
  {r \in SUBSET (Elem \X Elem) :
     \/ r \subseteq {1, 2} \X {1, 2}
     \/ /\ \A x, y \in Elem : <<x, y>> \in r => <<y, x>> \notin r
        /\ \A x, y, z \in Elem : <<x, y>> \in r => <<x, z>> \in r \/ <<z, y>> \in r}

VARIABLE task

allVars == <<task, rangeVars, vars, metaVars, iterVars>>

(* The parts that a behaviour is not about.                                 *)
RangeIdle ==
  /\ call = [fn |-> "append", pos |-> 0]
  /\ orig = Empty /\ t = Empty /\ dest = Empty
  /\ length = 0 /\ pos = 0 /\ k = 0 /\ out = <<>> /\ status = "start"
SortIdle ==
  /\ table = [x \in {0} |-> 1] /\ input = table /\ a = table /\ lt = {}
  /\ ranges = <<<<0, 0>>>> /\ pc = "range" /\ i = 0 /\ j = 0 /\ held = 1
IterIdle ==
  /\ order = <<>> /\ loop = "none" /\ over = FALSE /\ control = NoKey
  /\ seen = {} /\ again = FALSE /\ always = {} /\ changed = {}

MCInit ==
  \/ task = "range" /\ RangeInit /\ SortIdle /\ MetaInit /\ IterIdle
  \/ task = "sort" /\ RangeIdle /\ Init /\ MetaInit /\ IterIdle
  \/ task = "meta" /\ RangeIdle /\ SortIdle /\ MetaInit /\ IterIdle
  \/ task = "iter" /\ RangeIdle /\ SortIdle /\ MetaInit /\ IterInit

StepRange == task = "range" /\ RangeNext /\ UNCHANGED <<task, vars, metaVars, iterVars>>
StepSort == task = "sort" /\ Progress /\ UNCHANGED <<task, rangeVars, metaVars, iterVars>>
FailSort == task = "sort" /\ ComparatorFails /\ UNCHANGED <<task, rangeVars, metaVars, iterVars>>
StepMeta == task = "meta" /\ MetaNext /\ UNCHANGED <<task, rangeVars, vars, iterVars>>
StepIter == task = "iter" /\ IterNext /\ UNCHANGED <<task, rangeVars, vars, metaVars>>
GoOn(step) == task = "iter" /\ step /\ UNCHANGED <<task, rangeVars, vars, metaVars>>

MCSpec ==
  /\ MCInit /\ [][StepRange \/ StepSort \/ FailSort \/ StepMeta \/ StepIter]_allVars
  /\ WF_allVars(StepRange) /\ WF_allVars(StepSort)
  /\ WF_allVars(GoOn(StepPairs)) /\ WF_allVars(GoOn(StepIpairs))

-----------------------------------------------------------------------------
(* A call of the library ends, however its integers wrap (for unpack, from  *)
(* index 0 up), sort with every comparator that is coherent or fails, and a *)
(* loop ends whatever its body inserts and erases.                          *)
LoopsEnd ==
  /\ task = "range" => CallEnds
  /\ task = "sort" => SortEnds
  /\ task = "iter" => LoopEnds

-----------------------------------------------------------------------------
MCCalls ==
  [fn : {"move", "copy"}, f : Int64, e : Int64, tt : Int64]
  \cup [fn : {"insert", "remove"}, pos : Int64]
  \cup [fn : {"append", "remove_last"}, pos : {0}]
  \cup [fn : {"unpack"}, i : 0 .. MaxI, j : Int64]

MCPresent == {{}, Int64 \ {1}, Int64 \ {MaxI}, 1 .. 3 \cup {5}, {x \in Int64 : x % 3 = 0}}

MCLens == {-2, 0, 1, MaxI - 1, MaxI}
=============================================================================
