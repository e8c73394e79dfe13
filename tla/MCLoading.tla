----------------------------- MODULE MCLoading -----------------------------
(* What happens to a chunk once it is parsed: a behaviour checks the gotos  *)
(* of one program of a few statements, or follows the trees of some chunks  *)
(* that are run and loaded, over fewer addresses than trees, so that        *)
(* addresses are reused.  The properties are those of the two modules: what *)
(* a behaviour is not about stays as it is initially.                       *)
EXTENDS GotoCheck, Chunks, TLC

VARIABLE task

MCInit == task \in {"check", "trees"} /\ Init /\ ChunksInit
StepCheck == task = "check" /\ Next /\ UNCHANGED <<task, chunksVars>>
StepTrees == task = "trees" /\ ChunksNext /\ UNCHANGED <<task, vars>>
MCSpec == MCInit /\ [][StepCheck \/ StepTrees]_<<task, vars, chunksVars>>

Symmetry == Permutations(Name)
=============================================================================
