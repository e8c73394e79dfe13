------------------------------- MODULE Scopes -------------------------------
(***************************************************************************)
(* Blocks, loops, closures and names in src/lua/evaluator.cpp: which       *)
(* environment a statement runs in, what a name finds there, and how the   *)
(* signals Break, Return and Goto leave blocks.  The program is chosen     *)
(* while it runs: an action is one statement, one end of a block, or one   *)
(* step of a signal through eval_block and eval_stat.  It is a program the *)
(* goto check has accepted.  Values are left out, but for the tables       *)
(* that _ENV may hold.                                                     *)
(*                                                                         *)
(* A declaration gets a number when it is executed: an environment maps a  *)
(* name to the number of the declaration that last wrote there.  The       *)
(* history of Lua's own rules is kept beside it: `lex' maps every name to  *)
(* the declaration it means by the text of the program.                    *)
(***************************************************************************)
EXTENDS Naturals, Sequences, FiniteSets

CONSTANTS
  Var,          \* names of locals other than _ENV
  EnvTable,     \* tables that _ENV may be set to
  G,            \* the table of globals
  NoTable,      \* what leaves the globals as they are: a value that is no table
  NoName,       \* no parameter
  Labelled,     \* the kinds of blocks that have a label of the one name goto uses
  MaxSteps, MaxLocals, MaxBlocks   \* bounds: steps, declarations, environments

ASSUME EnvTables == NoTable \notin EnvTable \cup {G}
ASSUME NoNameIsNone == NoName \notin Var \cup {"_ENV"}
ASSUME ScopeBounds == {MaxSteps, MaxLocals, MaxBlocks} \subseteq Nat

VARIABLES
  env,       \* the environments ever made, numbered
  stack,     \* the blocks being evaluated, innermost last
  closures,  \* the functions the program can call
  flow,      \* Control::flow of the statement just evaluated
  aim,       \* history: the block that must take the signal
  decl,      \* history: the declarations executed
  steps      \* what has been executed of the program, for the bound

vars == <<env, stack, closures, flow, aim, decl, steps>>

Names == Var \cup {"_ENV"}
Loops == {"while", "repeat", "for"}
Kinds == Loops \cup {"chunk", "function", "do"}

Forever == MaxSteps + 2

(* born: for the frame of a closure, the declarations executed when the     *)
(* closure was made.                                                        *)
Environment(p, t, b) ==
  [parent |-> p, vars |-> [x \in Names |-> 0], consts |-> {}, env_table |-> t, born |-> b]

(* start: the declarations executed when the body was entered.  label: the  *)
(* label of the block, if it was passed, and what was in scope there.       *)
Label(passed, l) == [passed |-> passed, at |-> Len(decl), lex |-> l]
Block(k, e, l) ==
  [kind |-> k, env |-> e, lex |-> l, start |-> Len(decl), label |-> Label(FALSE, l)]

(* A declaration of x where lex is in scope.  table: the globals from there *)
(* on, t for a local _ENV that is given a table; any other declaration      *)
(* leaves them as they were.  assigned, meant: an assignment has reached    *)
(* it, or means it by the text, or meant the one that it left as it was.    *)
Declaration(x, c, t, lex) ==
  LET v == decl[lex["_ENV"]] IN
  [name |-> x, const |-> c, table |-> IF t = NoTable THEN v.table ELSE t,
   assigned |-> FALSE, meant |-> t = NoTable /\ (v.assigned \/ v.meant), over |-> FALSE]

Top == stack[Len(stack)]
Pop == SubSeq(stack, 1, Len(stack) - 1)
Env == env[Top.env]

(* Declaration 1 is the upvalue _ENV of the chunk. *)
Init ==
  /\ env = <<[parent |-> 0, vars |-> [x \in Names |-> 0], consts |-> {},
              env_table |-> G, born |-> Forever]>>
  /\ decl = <<[name |-> "_ENV", const |-> FALSE, table |-> G,
               assigned |-> FALSE, meant |-> FALSE, over |-> FALSE]>>
  /\ LET outermost == [x \in Names |-> IF x = "_ENV" THEN 1 ELSE 0] IN
     stack = <<[kind |-> "chunk", env |-> 1, lex |-> outermost, start |-> 1,
                label |-> [passed |-> FALSE, at |-> 1, lex |-> outermost]]>>
  /\ closures = {} /\ flow = "normal" /\ aim = 0 /\ steps = 0

-----------------------------------------------------------------------------
(* Names.  e and the environments around it: what following the parents    *)
(* from e comes through.                                                    *)
Outwards(e) ==
  {i \in DOMAIN env : \A S \in SUBSET DOMAIN env :
     e \in S /\ (\A j \in S : env[j].parent \in S \cup {0}) => i \in S}

(* The first environment from e outwards that binds x; 0 if none does.  An  *)
(* environment is younger than those around it.                             *)
Binders(e, x) == {i \in Outwards(e) : env[i].vars[x] # 0}
Innermost(S) == CHOOSE i \in S : \A j \in S : j <= i
Binding(e, x) == LET B == Binders(e, x) IN IF B = {} THEN 0 ELSE Innermost(B)

(* lookup: the declaration whose value x yields; for a global, 0, for _ENV, *)
(* the implicit upvalue.                                                    *)
Found(e, x) ==
  LET b == Binding(e, x) IN
  IF b # 0 THEN env[b].vars[x] ELSE IF x = "_ENV" THEN 1 ELSE 0

Running == flow = "normal" /\ stack # <<>>
Id == Len(decl) + 1
Calm == UNCHANGED <<flow, aim>>

BindNoAttribute(e, x, c, t) ==
  [env EXCEPT ![e].vars[x] = Id,
              ![e].env_table = IF x = "_ENV" /\ t # NoTable THEN t ELSE @]

(* env->vars[x] = v; the attribute; the rebinding of the scope's globals.   *)
Bind(e, x, c, t) ==
  [env EXCEPT ![e].vars[x] = Id,
              ![e].consts = IF c THEN @ \cup {x} ELSE @,
              ![e].env_table = IF x = "_ENV" /\ t # NoTable THEN t ELSE @]

InScope(x) == [stack EXCEPT ![Len(stack)].lex[x] = Id]

DeclareLocal(x, c, t) ==
  /\ Running
  /\ x # "_ENV" => t = NoTable
  /\ env' = Bind(Top.env, x, c, t)
  /\ stack' = InScope(x)
  /\ decl' = Append(decl, Declaration(x, c, t, Top.lex))
  /\ UNCHANGED closures /\ Calm

(* x = v for a local: the chain is searched again, and <const> enforced by  *)
(* name: "attempt to assign to const variable".  The history records only   *)
(* what must not happen.                                                    *)
AssignLocal(x) ==
  LET e == Binding(Top.env, x) IN
  /\ Running /\ x # "_ENV" /\ e # 0
  /\ x \notin env[e].consts
  /\ decl' = [decl EXCEPT ![env[e].vars[x]].assigned = @ \/ decl[env[e].vars[x]].const]
  /\ UNCHANGED <<env, stack, closures>> /\ Calm

(* _ENV = t, for the scope at hand and for the one that declared it.  The   *)
(* history records the assignment for the variable it means.                *)
AssignEnv(t) ==
  LET e == Binding(Top.env, "_ENV") IN
  /\ Running
  /\ e # 0 => "_ENV" \notin env[e].consts
  /\ env' = [i \in DOMAIN env |->
                IF i \in {e, Top.env} THEN [env[i] EXCEPT !.env_table = t] ELSE env[i]]
  /\ decl' = [decl EXCEPT ![Found(Top.env, "_ENV")].assigned = TRUE,
                          ![Top.lex["_ENV"]].meant = TRUE]
  /\ UNCHANGED <<stack, closures>> /\ Calm

-----------------------------------------------------------------------------
(* Functions.  A closure stands for the functions made where it was made,   *)
(* with any parameters.                                                     *)
ClosureHere(l, b) == [env |-> Top.env, env_table |-> Env.env_table, lex |-> l, born |-> b]

(* function ... end *)
MakeClosure ==
  /\ Running
  /\ closures' = closures \cup {ClosureHere(Top.lex, Len(decl))}
  /\ UNCHANGED <<env, stack, decl>> /\ Calm

(* local function x: bound first, so that the body can call itself.  Its    *)
(* value is no table.                                                       *)
LocalFunction(x) ==
  /\ Running
  /\ env' = Bind(Top.env, x, FALSE, NoTable)
  /\ stack' = InScope(x)
  /\ closures' = closures \cup {ClosureHere([Top.lex EXCEPT ![x] = Id], Id)}
  /\ decl' = Append(decl, Declaration(x, FALSE, NoTable, Top.lex))
  /\ Calm

FrameParentCaller(c) == Top.env
FrameParentSelf(c) == Len(env) + 1
FrameParent(c) == c.env

(* call_value of a closure with parameter p, if not NoName.  It is bound in *)
(* the new frame; the globals stay those of the closure, also when it is    *)
(* called _ENV.  (More parameters, and more variables of a for, are as      *)
(* locals declared first in the body that are given no table.)              *)
CallClosure(c, p) ==
  LET frame == Environment(FrameParent(c), c.env_table, c.born) IN
  /\ Running
  /\ IF p = NoName
       THEN /\ env' = Append(env, frame)
            /\ stack' = Append(stack, Block("function", Len(env'), c.lex))
            /\ UNCHANGED decl
       ELSE /\ env' = Append(env, [frame EXCEPT !.vars[p] = Id])
            /\ stack' = Append(stack, Block("function", Len(env'), [c.lex EXCEPT ![p] = Id]))
            /\ decl' = Append(decl, Declaration(p, FALSE, NoTable, c.lex))
  /\ UNCHANGED closures /\ Calm

-----------------------------------------------------------------------------
(* Blocks. *)
InnerOfGlobals == Environment(Top.env, G, Forever)
Inner == Environment(Top.env, Env.env_table, Forever)

(* do, a branch of if, and the body of repeat: a new environment. *)
OpenBlock(k) ==
  /\ Running
  /\ env' = Append(env, Inner)
  /\ stack' = Append(stack, Block(k, Len(env'), Top.lex))
  /\ UNCHANGED <<closures, decl>> /\ Calm

(* The body of while: the environment around it. *)
OpenWhile ==
  /\ Running
  /\ stack' = Append(stack, Block("while", Top.env, Top.lex))
  /\ UNCHANGED <<env, closures, decl>> /\ Calm

(* The body of a numeric or generic for: the variable is bound afresh.  The *)
(* globals stay those around the loop, also when it is called _ENV.         *)
OpenFor(x) ==
  /\ Running
  /\ env' = Append(env, [Inner EXCEPT !.vars[x] = Id])
  /\ stack' = Append(stack, [Block("for", Len(env'), [Top.lex EXCEPT ![x] = Id]) EXCEPT !.start = Id])
  /\ decl' = Append(decl, Declaration(x, FALSE, NoTable, Top.lex))
  /\ UNCHANGED closures /\ Calm

(* The locals that block b leaves behind in its environment go out of scope.*)
OutOfScope(b, since) ==
  [d \in DOMAIN decl |->
     IF d > since /\ \E x \in Names : env[b.env].vars[x] = d THEN [decl[d] EXCEPT !.over = TRUE]
     ELSE decl[d]]

Left(b) == IF b.kind = "while" THEN OutOfScope(b, b.start) ELSE decl

(* The end of a block that is no loop body; of a function body or chunk.    *)
CloseBlock ==
  /\ Running /\ Top.kind \notin Loops
  /\ stack' = Pop
  /\ UNCHANGED <<env, closures, decl>> /\ Calm

(* The condition fails, the range or iterator is exhausted. *)
LoopEnds ==
  /\ Running /\ Top.kind \in Loops
  /\ stack' = Pop /\ decl' = Left(Top)
  /\ UNCHANGED <<env, closures>> /\ Calm

Outer == stack[Len(stack) - 1]

RepeatAgain ==
  /\ Running /\ Top.kind = "repeat"
  /\ env' = Append(env, Environment(Outer.env, env[Outer.env].env_table, Forever))
  /\ stack' = Append(Pop, Block("repeat", Len(env'), Outer.lex))
  /\ UNCHANGED <<closures, decl>> /\ Calm

WhileAgain ==
  /\ Running /\ Top.kind = "while"
  /\ decl' = Left(Top)
  /\ stack' = Append(Pop, Block("while", Top.env, Outer.lex))
  /\ UNCHANGED <<env, closures>> /\ Calm

ForAgain(x) ==
  /\ Running
  /\ Top.kind = "for" /\ decl[Top.start].name = x
  /\ env' = Append(env, [Environment(Outer.env, env[Outer.env].env_table, Forever)
                           EXCEPT !.vars[x] = Id])
  /\ stack' = Append(Pop, [Block("for", Len(env'), [Outer.lex EXCEPT ![x] = Id])
                             EXCEPT !.start = Id])
  /\ decl' = Append(decl, Declaration(x, FALSE, NoTable, Outer.lex))
  /\ UNCHANGED closures /\ Calm

-----------------------------------------------------------------------------
(* Control signals. *)
InFunction ==
  {i \in DOMAIN stack : \A j \in i + 1 .. Len(stack) : stack[j].kind \notin {"chunk", "function"}}

(* ::l:: -- passed by, which does nothing. *)
PassLabel ==
  /\ Running /\ Top.kind \in Labelled /\ ~Top.label.passed
  /\ stack' = [stack EXCEPT ![Len(stack)].label = Label(TRUE, Top.lex)]
  /\ UNCHANGED <<env, closures, decl>> /\ Calm

Signal(f, S) ==
  /\ Running /\ S # {}
  /\ flow' = f /\ aim' = Innermost(S)
  /\ UNCHANGED <<env, stack, closures, decl>>

BreakStatement == Signal("break", {i \in InFunction : stack[i].kind \in Loops})
ReturnStatement == Signal("return", {i \in InFunction : stack[i].kind \in {"chunk", "function"}})
GotoStatement == Signal("goto", {i \in InFunction : stack[i].kind \in Labelled})

(* eval_block meets Flow::Goto with the label in its own cache: evaluation  *)
(* goes on behind it.  After a jump back, what was declared since is out of *)
(* scope again.                                                             *)
LandInBlock(b) == flow = "goto" /\ b.kind \in Labelled
LandGoto ==
  /\ flow = "goto" /\ LandInBlock(Top)
  /\ flow' = "normal" /\ aim' = 0
  /\ IF Top.label.passed
       THEN /\ stack' = [stack EXCEPT ![Len(stack)].lex = Top.label.lex]
            /\ decl' = OutOfScope(Top, Top.label.at)
       ELSE /\ stack' = [stack EXCEPT ![Len(stack)].label = Label(TRUE, Top.lex)]
            /\ UNCHANGED decl
  /\ UNCHANGED <<env, closures>>

(* A loop takes Break and ends; call_value and run take Return.             *)
TakesAnyLoop(b) == flow \in {"break", "goto"} /\ b.kind \in Loops
Takes(b) ==
  \/ flow = "break" /\ b.kind \in Loops
  \/ flow = "return" /\ b.kind \in {"chunk", "function"}

LeaveBlock ==
  /\ flow # "normal" /\ ~LandInBlock(Top)
  /\ stack' = Pop /\ decl' = Left(Top)
  /\ IF Takes(Top) THEN flow' = "normal" /\ aim' = 0 ELSE UNCHANGED <<flow, aim>>
  /\ UNCHANGED <<env, closures>>

Step ==
  \/ \E x \in Names, c \in BOOLEAN, t \in EnvTable \cup {NoTable} : DeclareLocal(x, c, t)
  \/ \E x \in Var : AssignLocal(x)
  \/ \E x \in Names : LocalFunction(x) \/ OpenFor(x) \/ ForAgain(x)
  \/ \E t \in EnvTable \cup {NoTable} : AssignEnv(t)
  \/ MakeClosure
  \/ \E c \in closures, p \in Names \cup {NoName} : CallClosure(c, p)
  \/ \E k \in {"do", "repeat"} : OpenBlock(k)
  \/ OpenWhile \/ CloseBlock \/ LoopEnds \/ RepeatAgain \/ WhileAgain
  \/ PassLabel \/ BreakStatement \/ ReturnStatement \/ GotoStatement
  \/ LandGoto \/ LeaveBlock

Next ==
  /\ steps < MaxSteps /\ steps' = steps + 1
  /\ Step
  /\ Len(decl') <= MaxLocals /\ Len(env') <= MaxBlocks /\ Cardinality(closures') <= 1

Spec == Init /\ [][Next]_vars

-----------------------------------------------------------------------------
Tables == EnvTable \cup {G, NoTable}
Lex == [Names -> Nat]
EnvironmentType ==
  [parent : Nat, vars : Lex, consts : SUBSET Names, env_table : Tables, born : Nat]
DeclarationType ==
  [name : Names, const : BOOLEAN, table : Tables, assigned : BOOLEAN, meant : BOOLEAN, over : BOOLEAN]
BlockType ==
  [kind : Kinds, env : Nat, lex : Lex, start : Nat, label : [passed : BOOLEAN, at : Nat, lex : Lex]]
ClosureType == [env : Nat, env_table : Tables, lex : Lex, born : Nat]
Types ==
  /\ env \in Seq(EnvironmentType) /\ decl \in Seq(DeclarationType)
  /\ stack \in Seq(BlockType) /\ closures \subseteq ClosureType
  /\ flow \in {"normal", "break", "return", "goto"} /\ aim \in Nat
  /\ steps \in 0 .. MaxSteps /\ Len(decl) \in 1 .. steps + 1

(* Environments are linked to older ones, and what is numbered exists. *)
Declared(lex) == \A x \in Names : lex[x] <= Len(decl)
TypeOK ==
  /\ Types
  /\ \A i \in DOMAIN env :
       env[i].parent < i /\ env[i].born \in 1 .. Forever /\ Declared(env[i].vars)
  /\ \A i \in DOMAIN stack : LET b == stack[i] IN
       /\ b.env \in DOMAIN env /\ b.start \in DOMAIN decl /\ b.label.at \in DOMAIN decl
       /\ Declared(b.lex) /\ Declared(b.label.lex)
  /\ \A c \in closures : c.env \in DOMAIN env /\ c.born \in DOMAIN decl /\ Declared(c.lex)

(* x is found beyond the frame of a closure that was made before the        *)
(* declaration it is found in.                                              *)
Late(e, x) == \E i \in Outwards(e) : i > Binding(e, x) /\ env[i].born < Found(e, x)

LeftBehind(d) == d # 0 /\ decl[d].over

(* A name means the declaration that is visible by the text of the program, *)
(* through blocks, loops, jumps and closures, with two exceptions that      *)
(* searching environments by name has: a declaration executed after the     *)
(* closure was made, and a declaration that a while body or a jump back has *)
(* left behind in the environment (evaluator.cpp:724).                      *)
NamesLexicalButLate ==
  Running => \A x \in Names :
    \/ Found(Top.env, x) = Top.lex[x]
    \/ Late(Top.env, x)
    \/ LeftBehind(Found(Top.env, x))

(* "New frame env, child of the closure's CAPTURED env (lexical scope)":    *)
(* evaluator.cpp:1344.                                                      *)
NamesAreLexical == Running => \A x \in Names : Found(Top.env, x) = Top.lex[x]

(* No assignment reaches a variable declared <const>, through whatever      *)
(* blocks and closures it is made (evaluator.cpp:1636).                     *)
ConstNeverWritten == \A d \in DOMAIN decl : decl[d].const => ~decl[d].assigned

(* Globals are those of the innermost local _ENV visible by the text that   *)
(* was given a table, in blocks entered and functions made anywhere in its  *)
(* scope; parameters, for variables and local functions called _ENV, and    *)
(* values that are no table, change nothing (evaluator.cpp:694, 785, 817,   *)
(* 1363).  Except after an assignment to the visible _ENV, or when an _ENV  *)
(* was left behind in an environment.  (env_table is copied into every      *)
(* environment and closure.)                                                *)
EnvLeftBehind == \E d \in DOMAIN decl : decl[d].name = "_ENV" /\ decl[d].over
Follows(t, lex) ==
  LET v == decl[lex["_ENV"]] IN t = v.table \/ v.assigned \/ v.meant \/ EnvLeftBehind
GlobalsFollowEnv == Running => Follows(Env.env_table, Top.lex)

(* A Break, Return or Goto on its way out stops at the innermost loop,      *)
(* function or block with the label, and at no other, whatever lies between.*)
SignalsLand ==
  [][flow # "normal" => /\ aim <= Len(stack)
                        /\ flow' = "normal" => Len(stack) = aim]_vars

-----------------------------------------------------------------------------
(* What makes the invariants inductive. *)

(* A variable lies under its own name, and a const one is known as such     *)
(* where it lies.                                                           *)
VariablesKnown ==
  /\ \A i \in DOMAIN env, x \in Names : env[i].vars[x] # 0 =>
       /\ decl[env[i].vars[x]].name = x
       /\ decl[env[i].vars[x]].const => x \in env[i].consts
  /\ decl[1].name = "_ENV" /\ ~decl[1].const

(* Blocks further in have younger environments; only the body of a while    *)
(* has the environment of the block around it.                              *)
StackNests ==
  /\ stack # <<>> => stack[1].kind = "chunk"
  /\ \A i \in DOMAIN stack, j \in DOMAIN stack : i < j => stack[i].env <= stack[j].env
  /\ \A i \in 1 .. Len(stack) - 1 : stack[i].env = stack[i + 1].env <=> stack[i + 1].kind = "while"

(* Where the signal goes, and nothing nearer takes it. *)
TakesSignal(b) ==
  CASE flow = "break" -> b.kind \in Loops
    [] flow = "return" -> b.kind \in {"chunk", "function"}
    [] flow = "goto" -> b.kind \in Labelled
Aimed ==
  flow # "normal" =>
    /\ aim \in DOMAIN stack /\ TakesSignal(stack[aim])
    /\ \A i \in aim + 1 .. Len(stack) : ~TakesSignal(stack[i])

(* What a scope that was lex in environment e may see there: if it goes on  *)
(* later, the declarations of e since then will have been left behind.      *)
Sees(e, lex, since, x) ==
  \/ Found(e, x) = lex[x]
  \/ Late(e, x)
  \/ LeftBehind(Found(e, x))
  \/ env[e].vars[x] > since

Good(e, lex, since) ==
  /\ lex["_ENV"] # 0
  /\ \A x \in Names : Sees(e, lex, since, x)
  /\ Follows(env[e].env_table, lex) \/ env[e].vars["_ENV"] > since

(* The declarations made when block i was last the innermost in its         *)
(* environment.                                                             *)
Since(i) ==
  IF i < Len(stack) /\ stack[i + 1].kind = "while" THEN stack[i + 1].start ELSE Forever

BlocksGood ==
  \A i \in DOMAIN stack :
    /\ Good(stack[i].env, stack[i].lex, Since(i))
    /\ stack[i].label.passed => Good(stack[i].env, stack[i].label.lex, stack[i].label.at)

ClosuresGood ==
  \A c \in closures :
    /\ c.lex["_ENV"] # 0
    /\ \A x \in Names : Sees(c.env, c.lex, Forever, x) \/ Found(c.env, x) > c.born
    /\ Follows(c.env_table, c.lex)

(* Scopes that share an environment mean the same _ENV, unless one was      *)
(* declared since.                                                          *)
SameEnv(e, later, earlier, since) ==
  later["_ENV"] = earlier["_ENV"] \/ env[e].vars["_ENV"] > since
Lexes(b) == {b.lex} \cup (IF b.label.passed THEN {b.label.lex} ELSE {})
EnvShared ==
  \A i \in DOMAIN stack, j \in DOMAIN stack : stack[i].env = stack[j].env =>
    \A l \in Lexes(stack[j]) :
      /\ i < j => SameEnv(stack[i].env, l, stack[i].lex, Since(i))
      /\ i <= j /\ stack[i].label.passed =>
           SameEnv(stack[i].env, l, stack[i].label.lex, stack[i].label.at)

IInv ==
  /\ TypeOK /\ VariablesKnown /\ StackNests /\ Aimed
  /\ BlocksGood /\ ClosuresGood /\ EnvShared /\ ConstNeverWritten
=============================================================================
