------------------------------ MODULE GotoCheck ------------------------------
(***************************************************************************)
(* The static pass over labels, gotos, locals and breaks of                *)
(* src/lua/goto_check.cpp, run over every program of at most MaxSize       *)
(* statements.  The program is written while it is checked: an action is   *)
(* one statement, or the end of a block, and what check_block does there.  *)
(*                                                                         *)
(* Each entry of `open' is an activation of check_block.  The vectors      *)
(* cs.labels and cs.pending are kept as one set per activation: what       *)
(* stands above its firstlabel and firstgoto.  A function's activation     *)
(* delimits them, as check_function hides those of the enclosing function. *)
(* The history variables `placed' and `jumps' record the program, and the  *)
(* scope of every local in it, without reference to the pass's counters.   *)
(***************************************************************************)
EXTENDS Integers, Sequences, FiniteSets

CONSTANTS
  Name,      \* label names
  MaxSize    \* bound on the statements of the program

ASSUME SizeBound == MaxSize \in Nat

VARIABLES
  open,        \* the blocks being checked, innermost last
  nactvar,     \* cs.nactvar
  loop_depth,  \* cs.loop_depth
  verdict,     \* "checking", "accepted", or the rule found violated
  size,        \* statements so far; a statement is named by its number
  placed,      \* history: the labels of the program
  jumps        \* history: its gotos, with the label each was resolved to

vars == <<open, nactvar, loop_depth, verdict, size, placed, jumps>>

Loops == {"while", "repeat", "for"}
FunctionTops == {"chunk", "function"}

(* tail: what may still follow in the block, once a label was taken to be   *)
(* the last non-void statement ("void") or not to be ("due").               *)
Block(id, k, base, own) ==
  [id |-> id, kind |-> k, base |-> base, labels |-> {}, pending |-> {},
   saved_nactvar |-> nactvar, saved_loop_depth |-> loop_depth, tail |-> "free", own |-> own]

Top == open[Len(open)]

(* The blocks of the function being checked: all those from its body inwards*)
InFunction ==
  {i \in DOMAIN open : \A j \in i + 1 .. Len(open) : open[j].kind \notin FunctionTops}

(* The locals in scope, by Lua's scoping rules, and the blocks around.      *)
Scope == UNION {open[i].own : i \in InFunction}
Around == {open[i].id : i \in InFunction}

Init ==
  /\ open = <<[id |-> 0, kind |-> "chunk", base |-> 0, labels |-> {}, pending |-> {},
               saved_nactvar |-> 0, saved_loop_depth |-> 0, tail |-> "free", own |-> {}]>>
  /\ nactvar = 0 /\ loop_depth = 0
  /\ verdict = "checking"
  /\ size = 0 /\ placed = {} /\ jumps = {}

-----------------------------------------------------------------------------
Statement == verdict = "checking" /\ size < MaxSize /\ size' = size + 1

(* A statement that is neither a label nor void. *)
Real == Statement /\ Top.tail # "void"

ReplaceTop(b) == open' = [open EXCEPT ![Len(open)] = b]

VisibleLabels == UNION {open[i].labels : i \in InFunction}

(* find_label: the search of cs.labels. *)
FindLabel(n) == {l \in VisibleLabels : l.name = n}

(* check_jump_scope's condition. *)
JumpsIn(g, l) == g.nactvar < l.nactvar

(* The label's nactvar, with the end-of-block exemption. *)
LabelDepth(at_end) == IF at_end THEN Top.base ELSE nactvar

Landed(js, resolved, l) == {IF j.at \in resolved THEN [j EXCEPT !.target = l] ELSE j : j \in js}

(* ::n:: -- R3, then resolve_pending over the gotos of this block.          *)
(* is_last_nonvoid looks ahead: at_end is a promise about the rest of the   *)
(* block, kept by `tail'.  In a repeat body there is no exemption.          *)
PlaceLabel(n, at_end) ==
  LET here == [name |-> n, nactvar |-> LabelDepth(at_end), at |-> size']
      waiting == {g \in Top.pending : g.name = n}
  IN
  /\ Statement
  /\ Top.kind = "repeat" => ~at_end
  /\ at_end => Top.tail # "due"
  /\ ~at_end => Top.tail # "void"
  /\ placed' = placed \cup
       {[name |-> n, at |-> size', block |-> Top.id, around |-> Around,
         scope |-> IF at_end THEN Scope \ Top.own ELSE Scope]}
  /\ IF FindLabel(n) # {}
       THEN verdict' = "duplicate" /\ UNCHANGED <<open, jumps>>
       ELSE /\ ReplaceTop([Top EXCEPT
                 !.labels = @ \cup {here},
                 !.pending = @ \ waiting,
                 !.tail = CASE Top.kind = "repeat" -> "free" [] at_end -> "void" [] OTHER -> "due"])
            /\ jumps' = Landed(jumps, {g.at : g \in waiting}, size')
            /\ verdict' = IF \E g \in waiting : JumpsIn(g, here) THEN "jump" ELSE verdict
  /\ UNCHANGED <<nactvar, loop_depth>>

(* goto n -- resolved at once if the label is visible, deferred if not. *)
JumpTo(n) ==
  LET here == [name |-> n, nactvar |-> nactvar, at |-> size']
      target == FindLabel(n)
  IN
  /\ Real
  /\ ReplaceTop([Top EXCEPT !.tail = "free",
                            !.pending = IF target = {} THEN @ \cup {here} ELSE @])
  /\ jumps' = jumps \cup
       {[name |-> n, at |-> size', around |-> Around, scope |-> Scope,
         target |-> IF target = {} THEN 0 ELSE (CHOOSE l \in target : TRUE).at]}
  /\ verdict' = IF \E l \in target : JumpsIn(here, l) THEN "jump" ELSE verdict
  /\ UNCHANGED <<nactvar, loop_depth, placed>>

(* break -- R4. *)
BreakOut ==
  /\ Real
  /\ verdict' = IF loop_depth = 0 THEN "break" ELSE verdict
  /\ ReplaceTop([Top EXCEPT !.tail = "free"])
  /\ UNCHANGED <<nactvar, loop_depth, placed, jumps>>

(* local x *)
DeclareLocal ==
  /\ Real
  /\ nactvar' = nactvar + 1
  /\ ReplaceTop([Top EXCEPT !.tail = "free", !.own = @ \cup {<<size', "local">>}])
  /\ UNCHANGED <<loop_depth, verdict, placed, jumps>>

(* A statement without blocks, locals or functions. *)
Plain ==
  /\ Real
  /\ ReplaceTop([Top EXCEPT !.tail = "free"])
  /\ UNCHANGED <<nactvar, loop_depth, verdict, placed, jumps>>

-----------------------------------------------------------------------------
Entered(b) == Append([open EXCEPT ![Len(open)].tail = "free"], b)

(* do, an if branch, and the body of while and repeat. *)
OpenBlock(k) ==
  /\ Real
  /\ open' = Entered(Block(size', k, nactvar, {}))
  /\ loop_depth' = IF k \in Loops THEN loop_depth + 1 ELSE loop_depth
  /\ UNCHANGED <<nactvar, verdict, placed, jumps>>

(* for: the loop variable is made active before the body is entered.  In    *)
(* the program it belongs to the body.                                      *)
OpenFor ==
  /\ Real
  /\ nactvar' = nactvar + 1
  /\ open' = Entered(Block(size', "for", nactvar + 1, {<<size', "for">>}))
  /\ loop_depth' = loop_depth + 1
  /\ UNCHANGED <<verdict, placed, jumps>>

(* check_function of a function expression or statement: a fresh state, the *)
(* parameter active.                                                        *)
OpenFunction ==
  /\ Real
  /\ nactvar' = 1 /\ loop_depth' = 0
  /\ open' = Entered(Block(size', "function", 1, {<<size', "param">>}))
  /\ UNCHANGED <<verdict, placed, jumps>>

(* local function f: f is made active first. *)
OpenLocalFunction ==
  /\ Real
  /\ nactvar' = 1 /\ loop_depth' = 0
  /\ open' = Append([open EXCEPT ![Len(open)].tail = "free",
                                 ![Len(open)].own = @ \cup {<<size', "local">>}],
                    [Block(size', "function", 1, {<<size', "param">>})
                       EXCEPT !.saved_nactvar = nactvar + 1])
  /\ UNCHANGED <<verdict, placed, jumps>>

(* Migration of the unresolved gotos to the enclosing block. *)
MigrateAsIs(g) == g
Migrate(g) == [g EXCEPT !.nactvar = IF @ > Top.base THEN Top.base ELSE @]

LoopDepthAfter(k) == IF k \in Loops THEN loop_depth - 1 ELSE loop_depth

(* The end of a block that is not a function body: its labels and locals    *)
(* are dropped, its unresolved gotos become the enclosing block's.          *)
CloseBlock ==
  /\ verdict = "checking" /\ Top.tail # "due" /\ Top.kind \notin FunctionTops
  /\ open' = [SubSeq(open, 1, Len(open) - 1)
                EXCEPT ![Len(open) - 1].pending = @ \cup {Migrate(g) : g \in Top.pending}]
  /\ nactvar' = Top.base
  /\ loop_depth' = LoopDepthAfter(Top.kind)
  /\ UNCHANGED <<verdict, size, placed, jumps>>

CallerLoopDepthKept == loop_depth
CallerLoopDepth == Top.saved_loop_depth

(* The end of a function body or of the chunk: R1, and check_function's     *)
(* restoration of the caller's state.                                       *)
CloseFunction ==
  /\ verdict = "checking" /\ Top.tail # "due" /\ Top.kind \in FunctionTops
  /\ verdict' = IF Top.pending # {} THEN "no label"
                ELSE IF Top.kind = "chunk" THEN "accepted" ELSE verdict
  /\ open' = IF Len(open) > 1 THEN SubSeq(open, 1, Len(open) - 1) ELSE open
  /\ nactvar' = Top.saved_nactvar /\ loop_depth' = CallerLoopDepth
  /\ UNCHANGED <<size, placed, jumps>>

Next ==
  \/ \E n \in Name : JumpTo(n) \/ \E at_end \in BOOLEAN : PlaceLabel(n, at_end)
  \/ BreakOut \/ DeclareLocal \/ Plain
  \/ \E k \in {"do", "while", "repeat"} : OpenBlock(k)
  \/ OpenFor \/ OpenFunction \/ OpenLocalFunction
  \/ CloseBlock \/ CloseFunction

Spec == Init /\ [][Next]_vars

-----------------------------------------------------------------------------
Locals == (1 .. MaxSize) \X {"local", "for", "param"}

TypeOK ==
  /\ open # <<>> /\ open[1].kind = "chunk"
  /\ \A i \in DOMAIN open : open[i].base <= MaxSize + 1 /\ open[i].own \subseteq Locals
  /\ nactvar \in Nat /\ loop_depth \in Nat
  /\ size \in 0 .. MaxSize
  /\ \A j \in jumps : j.target \in 0 .. size
  /\ verdict \in {"checking", "accepted", "duplicate", "jump", "break", "no label"}

(* Where eval_block lands: it looks for the label in the block of the goto, *)
(* then in the blocks around it, up to the body of the function.            *)
Candidates(j) == {l \in placed : l.name = j.name /\ l.block \in j.around}
Landing(j) == CHOOSE l \in Candidates(j) : \A m \in Candidates(j) : m.block <= l.block

(* R1: in an accepted program every goto finds a label when it is executed, *)
(* and finds the one the pass resolved it to: the errors of call_value and  *)
(* run ("no visible label") cannot occur.                                   *)
AcceptedGotosLand ==
  verdict = "accepted" => \A j \in jumps : Candidates(j) # {} /\ Landing(j).at = j.target

(* R2: no goto of an accepted program enters the scope of a local.          *)
NoJumpIntoScope ==
  verdict = "accepted" => \A j \in jumps : Landing(j).scope \subseteq j.scope

(* R3: labels of one name that are visible together.                        *)
Clashing(l, m) == l.at # m.at /\ l.name = m.name /\ l.block \in m.around /\ l.at < m.at

(* The pass accuses a program of R1 and R3 when, and only when, the         *)
(* program breaks them.                                                     *)
LabelErrorsExact ==
  /\ verdict = "no label" => \E j \in jumps : Candidates(j) = {}
  /\ verdict = "duplicate" <=> \E l, m \in placed : Clashing(l, m)

(* R4: loop_depth counts the loops around, within the function, also after  *)
(* functions nested in loops and loops nested in functions have ended.      *)
LoopDepthExact ==
  verdict = "checking" =>
    loop_depth = Cardinality({i \in InFunction : open[i].kind \in Loops})

(* What a program that is accepted may rely on, and what a refusal means.   *)
AcceptedGotosSound == TypeOK /\ AcceptedGotosLand /\ NoJumpIntoScope
RefusalsExact == LabelErrorsExact /\ LoopDepthExact

-----------------------------------------------------------------------------
(* What makes the invariants inductive. *)

(* The blocks of its function from the body to block i, the locals declared *)
(* in them so far, and those of the blocks around i.                        *)
Visible(i) == {k \in 1 .. i : \A j \in k + 1 .. i : open[j].kind \notin FunctionTops}
Ids(i) == {open[k].id : k \in Visible(i)}
Outside(i) == UNION {open[k].own : k \in Visible(i) \ {i}}

(* cs.nactvar where block i goes on. *)
Level(i) ==
  IF i = Len(open) THEN nactvar
  ELSE IF open[i + 1].kind \in FunctionTops THEN open[i + 1].saved_nactvar
  ELSE open[i + 1].base

Kinds == Loops \cup FunctionTops \cup {"do"}
Description == [name : Name, nactvar : Nat, at : Nat]
BlockType ==
  [id : Nat, kind : Kinds, base : Nat, labels : SUBSET Description, pending : SUBSET Description,
   saved_nactvar : Nat, saved_loop_depth : Nat, tail : {"free", "void", "due"}, own : SUBSET Locals]
Types ==
  /\ open \in Seq(BlockType) /\ open # <<>>
  /\ nactvar \in Nat /\ loop_depth \in Nat /\ size \in Nat /\ size <= MaxSize
  /\ verdict \in {"checking", "accepted", "duplicate", "jump", "break", "no label"}
  /\ placed \subseteq [name : Name, at : Nat, block : Nat, around : SUBSET Nat, scope : SUBSET Locals]
  /\ jumps \subseteq [name : Name, at : Nat, around : SUBSET Nat, scope : SUBSET Locals, target : Nat]

(* Statements are numbered in order. *)
Numbered ==
  /\ open[1].kind = "chunk"
  /\ \A i \in DOMAIN open : open[i].id <= size /\ open[i].base <= size + 1
  /\ \A i, k \in DOMAIN open : i < k => open[i].id < open[k].id
  /\ \A l \in placed : l.at \in 1 .. size /\ l.block <= size
  /\ \A l, m \in placed : l.at = m.at => l = m
  /\ \A j \in jumps : j.at \in 1 .. size /\ j.target <= size /\ j.around \subseteq 0 .. size
  /\ \A j, h \in jumps : j.at = h.at => j = h

Nested ==
  /\ \A i \in DOMAIN open : open[i].kind = "chunk" <=> i = 1
  /\ \A i \in DOMAIN open : Level(i) \in open[i].base .. size + 1

(* cs.labels has the labels placed in the blocks that are open, each in the *)
(* scope of locals that is still there; no two that are visible are alike.  *)
LabelsKnown ==
  \A i \in DOMAIN open :
    /\ \A d \in open[i].labels : \E l \in placed :
         /\ l.name = d.name /\ l.at = d.at /\ l.block = open[i].id
         /\ l.scope \subseteq Outside(i) \cup open[i].own
    /\ \A l \in placed : l.block = open[i].id =>
         \E d \in open[i].labels : d.name = l.name /\ d.at = l.at
    /\ \A k \in Visible(i) : \A d \in open[i].labels, e \in open[k].labels : d.name = e.name => d = e

(* A goto that waits in block i was in that block, or in one inside it that *)
(* has ended; it has left no scope but those inside.  Its nactvar is that   *)
(* of i only if no local was declared in i since.                           *)
WaitsIn(i, g, j) ==
  /\ j.at = g.at /\ j.name = g.name /\ j.target = 0
  /\ open[i].id \in j.around /\ \A k \in i + 1 .. Len(open) : open[k].id \notin j.around
  /\ Outside(i) \subseteq j.scope
  /\ g.nactvar <= Level(i) /\ (g.nactvar = Level(i) => open[i].own \subseteq j.scope)
GotosWait ==
  /\ \A i \in DOMAIN open : \A g \in open[i].pending : \E j \in jumps : WaitsIn(i, g, j)
  /\ \A j \in jumps : j.target = 0 =>
       Candidates(j) = {} /\ \E i \in DOMAIN open : \E g \in open[i].pending : g.at = j.at
  /\ \A j \in jumps, i \in DOMAIN open :
       open[i].id \in j.around => {a \in j.around : a <= open[i].id} = Ids(i)

(* A goto that is resolved has its label, in whose scope it is, and no      *)
(* other nearer.                                                            *)
Resolved(j) ==
  j.target # 0 => \E l \in Candidates(j) :
    /\ l.at = j.target /\ l.scope \subseteq j.scope
    /\ \A m \in Candidates(j) : m = l \/ m.block < l.block

LoopsIn(i) == {k \in Visible(i) : open[k].kind \in Loops}
LoopsCounted ==
  /\ loop_depth = Cardinality(LoopsIn(Len(open)))
  /\ \A i \in DOMAIN open : i > 1 /\ open[i].kind \in FunctionTops =>
       open[i].saved_loop_depth = Cardinality(LoopsIn(i - 1))

IInv ==
  /\ Types /\ Numbered /\ LabelErrorsExact
  /\ verdict = "checking" => Nested /\ LabelsKnown /\ GotosWait /\ LoopsCounted
  /\ verdict \in {"checking", "accepted"} => \A j \in jumps : Resolved(j)
  /\ verdict = "accepted" => \A j \in jumps : j.target # 0
=============================================================================
