# yueshi in TLA+

yueshi is a Lua 5.4 interpreter in C++: a lexer and a PEG parser build a syntax
tree, a static pass checks its gotos and labels, and `Evaluator` walks the tree
over values that live on a mark-and-sweep `Heap`. The process is single-threaded;
what makes it hard is not interleaving of threads but control that is cut off in
the middle (C++ exceptions used for Lua errors), pointers whose targets have
lives of their own (objects of the heap, nodes of syntax trees, table keys), and
library functions that call back into Lua with state in their hands.

The modules are translated from `src/src/lua/*.cpp` and `src/include/lua/*.h`;
`PROJECT.json` gives the lines of every definition.

## Inventory

| component | state | operations | talks to | hard behaviour | correct when |
|---|---|---|---|---|---|
| **Heap** (`heap.cpp`, `heap.h`, objects of `value.h`) | intrusive list, marks, worklist, intern table, count, threshold | `make_*`, `maybe_collect`, `collect` (mark roots, drain, sweep), destructor | called by every component that allocates; roots come from a caller's callback | a trace case or field forgotten; interned strings that outlive or fall short of their table entry; addresses reused | nothing reachable is freed, exactly the unreachable is; interning stays canonical; count exact |
| **Calls and errors** (`evaluator.cpp`: `run`, `call_value`, `b_pcall`, `b_xpcall`, `b_error`, `b_assert`) | native stack, `m_depth`, the `LuaError` in flight | call, return, throw, unwind, catch, run the handler | every library function that calls back | an exception skips code after the call; handler runs unprotected; nil as error value | errors land at the innermost protected call with their value; depth is bounded and accounted for |
| **Life of syntax trees** (`run`, `retain_chunk_ast`, `b_load`, `b_dofile`, `m_labels`) | the tree being run, `m_loaded_chunks`, closures' raw pointers, label cache keyed by block address | run, load, define, call, end of run | package searchers and `State` | addresses of freed blocks come back; a vector of trees grows under pointers into it | caches are never stale; loaded code stays where its closures look for it |
| **Goto analysis** (`goto_check.cpp`) | active-local count, label and pending-goto lists, loop depth | `check_block`, `check_function`, `walk_expr` | runs on every chunk before `Evaluator` | nested functions, repeat blocks, end-of-block labels, migration of pending gotos | what it accepts cannot go wrong at run time; what it rejects is wrong |
| **Scopes and control flow** (`evaluator.cpp`: `eval_block`, `eval_stat`, `lookup`, `assign`, `call_value`) | environments, const flags, control signals (`Flow`) | declare, assign, call, open and leave blocks, break, return, goto | Heap, Calls | closures capture environments and not variables; `while` bodies share one; `_ENV` is copied into every environment | names, `<const>` and signals are Lua's |
| **Metatables** (`evaluator.cpp`: `index_get`, `index_set`, `b_setmetatable`) | slots and metatables of tables | read, write, raw write, set and get a metatable | every read and write of a field | circles, walks that an earlier write redirects | a read finds what the walk has, a write can be read back |
| **Iteration** (`evaluator.cpp`: `b_next`, `b_ipairs_iter`, generic `for`) | control variable, order of the hash | `pairs`, `ipairs`, a body that inserts and erases | table storage | the table changes during the loop | every key that stays is visited once, and the loop ends |
| **Table library** (`tablib.cpp`) | the table argument, the array `sort` copies | insert, remove, move, unpack, concat, sort | metamethods and comparators call back | integer bounds, overlap, inconsistent or failing comparators | every function does what Lua's does, and ends |
| **Package library** (`packagelib.cpp`) | `package.loaded`, `preload`, `searchers` | `require`, `searchpath` | loads chunks, calls searchers and loaders | re-entrant `require`, tables replaced during it | no load begins once one has returned; what it returned stays cached |
| **I/O library** (`iolib.cpp`) | file handles (open, closed, eof), default files | open, close, read, write, seek, lines, popen | heap (userdata) | use after close, default file closed, write mode | no operation on a closed handle |
| **Numbers** (`numops.cpp`, `mathlib.cpp`) | generator state per evaluator | arithmetic, comparison, conversion, `random` | all | wrap-around, floor division, mixed comparison, range + 1 | two's-complement results, total order |
| **Patterns and strings** (`pattern.cpp`, `strlib.cpp`) | captures, positions | match, find, gsub, gmatch, pack, format | callbacks of gsub | backtracking, empty matches, capture stack | agrees with the declarative meaning of patterns |
| **utf8** (`utf8lib.cpp`), **os** (`oslib.cpp`) | none | pure functions, C library wrappers | - | boundaries of encodings | - |
| **Lexer, parser, tree printer** (`lex*`, `parser*`, `ast*`, `compile*`) | none kept | text to tree | external PEG library | precedence | - |
| **State, executables** (`state.cpp`, `yueshi*.cpp`) | owns heap and evaluator | `run_string`, `run_file` | - | runs follow each other on one evaluator | - |

`Evaluator` never calls `Heap::collect`: only `test/gc_test.cpp` does, with a roots
callback of its own, although `heap.h` and `heap.cpp:133-136` announce collections at
statement boundaries. The heap is therefore modelled against the most general
client its interface allows.

`PROJECT.json` lists the hazards found in the survey, each with the properties that
cover it or the reason why none does.

## Modules

### Heap: `HeapObjects`, `AbstractHeap`, `Heap`, `MCHeap`, `HeapProofs`

`HeapObjects` holds the object graph (`kind`, `ref`, `content`, `intern`, `roots`)
and its client: what can be allocated (`Allocate`: `make_string` interns,
`make_closure`, `make_env`, ...) and how a program can change the graph (`Store`,
`Erase`, `Read`, release of a root). An object is an address; `Slots` are the
pointer-valued fields of its type, each a set of addresses. `Reachable` is the least
set containing the roots closed under the slots `LuaValue` lets a program follow;
a table's keys are a slot of their own, which no pointer dereference follows.

`Heap` runs `collect()` against that client, one iteration of each of its loops
per action: `StartCollect` (`reset_marks`), `MarkRoot`, `RootsDone`, `Drain`,
`StartSweep`, `SweepMarked`, `SweepFree` (`prune_intern_entry`, unlink, free),
`FinishCollect` (the new threshold). `Destroy` is `~Heap`. The list and the
worklist are sets: every order of traversal is a behaviour. The client acts
only between collections, as the code is single-threaded.

`AbstractHeap` is the promise: `Collect` is one step that removes exactly the
unreachable objects, and forgets exactly the interned strings among them. The
refinement mapping hides the objects sweep is going to free as soon as marking
has ended (`Doomed`, `Spared`).

### Calls: `AbstractCalls`, `Calls`, `MCCalls`, `CallsProofs`

`Calls` models the native stack of the evaluator: a frame per activation of `run`,
`call_value` on a closure, `b_pcall`, `b_xpcall` (in its try block, then as
`"handler"` in its catch block) or any other builtin. What Lua code does between
calls is left open: it may call, return, fail, or leave its body with an unresolved
goto at any moment. Errors unwind one frame per step. `m_depth` is incremented on
entry and decremented after `eval_block` *only when no exception passed by*.

`AbstractCalls` is the program's view: `Throw` transfers control in one step to the
innermost protected call. `caught`, `raised` and `leaked` are history variables.

### Chunks before and while they run: `GotoCheck`, `Chunks`, `MCLoading`, `MCChunks`, `LoadingProofs`

`GotoCheck` is `check_block` and `check_function`, run over every program of at most
`MaxSize` statements: the program is written while it is checked, an action per
statement, so the state space is the set of all programs. `is_last_nonvoid`, the only
place where the pass looks ahead, is a choice that the rest of the block must honour
(`tail`). The history variables `placed` and `jumps` record the program with
Lua's scopes, independently of the pass's counters; `Landing` is the label the
evaluator finds at run time. One local per declaration and one parameter per
function stand for any number of them.

`Chunks` holds the trees, the addresses of their blocks, `m_loaded_chunks` with its
capacity and the storage it lives in, the pointers closures hold, and `m_labels` keyed
by block address. Addresses of destroyed blocks are reused. A tree is abstracted to one
`FuncBody`, stored in the vector's element itself, and one block on the C++ heap.

`MCLoading` puts the two in one run; a behaviour is about one of them, and what it is not
about stays as it is initially.

### Scopes: `Scopes`, `MCScopes`, `ScopesProofs`

Environments, blocks, closures and the signals `Break`, `Return` and `Goto`, for every
program that can be written in `MaxSteps` steps: an action is one statement, one end
of a block, or one step of a signal through `eval_block` and `eval_stat`. An environment
maps a name to the number of the declaration that last wrote there. Beside it, `lex`
keeps what every name means by the text of the program; the properties compare the two.
The globals of a scope are `env_table`, which the code copies into every environment and
closure. A local `_ENV` that is given a table changes it; a parameter, a `for` variable or
a local function called `_ENV` is bound as a variable only, and each declaration therefore
records (`table`) the globals that go with it.

### Tables: `TabRange`, `TabSort`, `Metatables`, `Iteration`, `MCTables`, `LibraryProofs`, `TablesProofs`

`TabRange` makes one call of `insert`, `remove`, `move` or `unpack` per behaviour, with
one action for the argument checks and one per turn of the loop, on machine integers
from `-MaxI-1` to `MaxI`: unsigned operations wrap, a signed overflow is undefined behaviour
and ends the behaviour in `"undefined"`. A key holds itself as its value, since the
loops never look at values. The length is the border of the table or what a
`__len` answers (`Lens`). Tables have no `__index` and `__newindex` here.

`TabSort` is `table.sort`, one comparison per action: `sort_median3`, the two scans of
the partition, the recursion (`ranges` is the native stack of `sort_qsort`), the
insertion sort that holds one element outside the array, the totalness check and
the write back. The comparator is any relation of `Order`, and may raise an error
at any comparison. Without a comparator the code uses `<` and skips the totalness
check; that is the case of a strict order here, where the check finds nothing.
A scan that leaves the array ends in `"outside"`.

`Metatables` is `index_get`, `index_set`, `rawset` and `setmetatable` over tables that
may be each other's metatables and `__index`/`__newindex` targets. A call of a metamethod
that is a function ends a walk: what it does is the program's.

`Iteration` is `for` over `pairs` or `ipairs` with a body that inserts, erases and
breaks. The hash is a sequence of keys in an order of its own; an insertion may
rehash, that is, reorder everything.

`MCTables` chooses one of the four per behaviour and checks their properties together, each
stated in the module it is about: `RangeResults` and `ChecksExact` of `TabRange`, `SortResult` and `SortStaysIn` of
`TabSort`, `ReadsAndWritesAgree` and `GuardedTablesStay` of `Metatables`, `PairsExact` of
`Iteration`, `LoopsEnd` of all.

### Package library: `Require`, `MCRequire`, `RequireProofs`

`b_require` as a stack of loads in progress: the cache, the loop over
`package.searchers` (read anew at every turn, as in the code), the four searchers
that come with the library and one written in Lua, the templates of `package.path`,
the loader, the store of its result in the table that was `package.loaded` when
the load began. Between these steps runs Lua code, which may require further modules,
write to `package.loaded` or the tables exchanged for it, to `preload` and `searchers`,
remove them, and raise and catch errors. History: `served` is what the last load of a name into
each table returned, until the program writes there; a load remembers whether a true value had
been served when it was begun (`again`), which searchers have kept their places since (`kept`)
and which were asked; `last` is the load that has just returned.

### I/O library: `IoLib`, `MCIoLib`, `IoLibProofs`

File handles over the C++ streams they hold: one position for reading and writing,
a buffer (`pending`) that goes to `disk` when the stream is flushed, sought or
destroyed, bytes read ahead (to peek at a byte, as `read("n")` does before it takes any, fills the
buffer as a read does), a failure flag that makes every operation a no-op until a
seek clears it. `disk` is what is in the file; `said` is what the program has written
there, by its own account. Modes, default files, `read` with each format, `lines`,
`seek`, `close` and the collector's destruction are the actions. The loops of
`read` run a turn per step: `reading` is the call in progress with what it still has to
read, and no other call is made meanwhile.

### Strings: `PatternItems`, `Pattern`, `Strings`, `Pack`, `MCText`, `LibraryProofs`

`Pattern` is `match_rec` with its captures changed in place and undone by hand, and
beside it a definition that lists all matches in order of preference without any
state. `Strings` holds the three callers, with their three rules for empty
matches: `find`, the `gsub` loop and the iterator of `gmatch`. It is stated over any
matcher, the constant `MatchFrom`, of which `StringsAssumption` asks that an end it finds is
not before its start or behind the subject, that captures lie in the subject, and that
a pattern without special characters matches exactly its own text. `MCText` puts the matcher of
`Pattern` there, and TLC evaluates the assumption for it. `PatternItems` has what both
modules say of patterns. `Pack` reads a format from left to right as `pack`, `packsize` and
`unpack` do, each with its own header, count and code.

## Runs

| run | asks | bounds |
|---|---|---|
| `heap_graph` | is anything reachable freed, does a pointer dangle in the middle of a sweep | 3 objects, 2 references each: all graphs with cycles, sharing, and an address reused twice |
| `heap_strings` | is interning canonical; does the invariant of the proofs hold; does the stepwise collector implement the atomic, exact one; does `collect()` end | 2 addresses for objects and strings, 2 short contents (the same one twice, and different ones), 1 long, cycles of length 1 and 2 |
| `calls` | depth accounting, depth limit, error values, delivery of errors | limit 3 (200 in the code), 6 frames: the limit is reached, passed, and leaked away |
| `calls_depth` *(violated)* | is `m_depth` the nesting, as TODO.md says | same |
| `loading` | are accepted gotos right at run time, are label and break errors exact; is the label cache never stale | all programs of 6 statements over 2 labels; 4 trees, 3 addresses: addresses reused, the vector reallocated twice |
| `chunks_stable` *(violated)* | is `retain_chunk_ast`'s pointer stable | same trees |
| `scopes` | do names mean what the text says, but for two exceptions; is `<const>` never written; do globals follow `_ENV`; do break, return and goto stop where they must | all programs of 6 steps with 4 declarations, 3 environments, one closure, one name beside `_ENV`, either name for locals, parameters, `for` variables and local functions |
| `scopes_lexical` *(violated)* | are names lexical without those exceptions | same |
| `tables` | results and refusals of insert, remove, move, unpack; sort; metatable walks; loops over changing tables; termination of all | 4-bit integers: all moves, insertions, removals, unpacks from 0 up, five tables, lengths from `__len` too. Arrays of 1, 4 and 6 elements over 3 values, all 13 strict weak orders and all 16 relations on two values, cutoff 2 instead of 16. Two tables and chains of 3 instead of 100. Four keys of four kinds, one insertion per loop |
| `require` | does what the last load returned stay in its table, does no load begin after one has returned a true value, is a module's own value kept, is every searcher that keeps its place asked, does the search end | 2 names (one with `?`), 2 tables for `package.loaded`, 3 further lists of searchers, 2 templates, 2 nested loads, 2 writes of the program to the package table |
| `io` | does what was written reach the file, is it read back; do standard streams stay open and closed handles inert | one file of up to 4 bytes, two handles beside the standard streams, all six modes, five seeks, four format lists |
| `text` | does the matcher with captures undone by hand give the preferred match; do find, gmatch and gsub agree; do pack, packsize and unpack | every pattern of up to two items of 13 and those of up to seven that nest captures, subjects of up to 3 bytes; formats of 3 options, bytes of 3 bits, integers of 2 bytes, so that sizes 1, 2 and 3 are below, at and beyond an integer's |

Why the bounds are enough: the collector treats objects one at a time, and every
disagreement between marking and sweeping shows on two objects and a root; a third
adds sharing and reuse. For the heap, the calls, the label cache, the pass over
labels and gotos, scopes, tables, scans of strings, `require` and the file handles the theorems below
remove the bounds altogether; there the runs show that the interesting cases occur. For `GotoCheck` six
statements hold two gotos and two labels of one name with a block and a local in
between, which is what every rule of the pass compares. The loops of `TabRange` compare
and add machine integers: their boundary cases are the ends of the range and zero,
which four bits have. A cutoff of 2 lets six elements be partitioned and one side of
them inserted; the partition needs `hi - lo >= 3` and the code's 16 is larger. In
`Scopes` an exception to lexical scoping needs a declaration, a closure or a loop,
and a later declaration of the same name: five steps. In `IoLib` a write, a seek and a
read that straddle a flush fit into four bytes. A match that has to undo captures
needs one nested pair and a quantifier before it.

Deadlock checking is off where the system stops: after `Destroy` (heap), a verdict
(`loading`), the last step of a program (`scopes`), the end of a call (`tables`,
`text`), a search that spins (`require`).

**Fairness.** `FairSpec` of `Heap` assumes weak fairness of `Collector`, because
`collect()` is a loop that runs to its end without giving control back to the client;
nothing is assumed of the client. `FairSpec` of `Require` assumes it of `Search`: the
loop of `b_require` and the searchers it calls are C++ loops; a searcher written in
Lua need not return. `MCSpec` of `MCTables` assumes that the loop of the one library
call goes on, that a comparator comes back from every call, by an answer or by an
error (`Progress` holds the answers; an error ends the sort at once), and that the
iterator of a `for` loop is called when the body is over (`StepPairs`, `StepIpairs`); what
the body does is not assumed. No other specification assumes fairness: that a scan of
a string moves on is an action property (`MovesOn`).

## Findings

Shown by a run:

1. `calls_depth`: an error leaves `m_depth` one too high for every closure it
   unwinds, for the life of the evaluator; 200 caught errors make every call a
   stack overflow. `TODO.md:277-279` says the counter is correctly managed.
2. `chunks_stable`: the `FuncBody` of the n-th loaded chunk is moved when a later
   load reallocates `m_loaded_chunks`; `evaluator.h:118` calls the pointer stable.
3. `scopes_lexical`: `local function f() return x end; local x = 1` makes `f()` return 1;
   `evaluator.cpp:1344` speaks of lexical scope.

Met while reading, without a run of their own. Where a property is stated under a
condition because of one of them, the condition is named here.

Heap and evaluator:

- `trace()` (`heap.cpp:212`) never marks object keys, which `value.h:137-138` allows: once a
  collection runs, a table keeps the key of a freed object and a new object at that address
  is found under it. In `HeapObjects` no pointer follows the slot `"key"`.
- `pcall(assert, false, nil)` yields the string `"nil"` and not nil
  (`evaluator.cpp:187-189` against its own comment): `ErrorValueKept` is stated of `error` only.
- The variables of a `for` loop stay active for the goto pass after the loop
  (`goto_check.cpp:246`), so `goto l; for i = 1, 2 do end; ::l:: f()` is rejected, against the
  rule in `goto_check.h:6`. No wrong program is accepted for it (`AcceptedGotosSound`);
  `RefusalsExact` is not stated of this verdict.
- A parameter, a `for` variable or a local function called `_ENV` changes no globals
  (`evaluator.cpp:1363`, `785`, `817`, `837`; only `local _ENV` does, `:694`): in
  `function(_ENV) return x end` the `x` is read from the globals of the closure, where Lua
  reads it from the argument. `GlobalsFollowEnv` says what the code does.
- Redeclaring a `<const>` name in the same environment leaves it const. `_ENV = t` updates the
  current environment and the declaring one only. Locals declared after a closure was made,
  or left behind by a `while` body or a jump back, are visible where the text says they are
  not (`NamesLexicalButLate` names the two cases).
- Erasing the current key ends a `pairs` loop early (`evaluator.cpp:314`), and a key that is a
  table or function comes back from `next` as nil (`:298`): `PairsComplete` excludes both.
- A numeric `for` up to the last integer overflows its counter (`evaluator.cpp:792`).

Table library:

- From 18 elements on, a comparator that is always true drives `a[++i]` past the end of the
  vector (`tablib.cpp:500`). `evaluator_test.cpp:1802` says "Lua raises", and tests it on two
  elements, which the insertion sort handles. `ScansInBounds` is stated of coherent comparators.
- `table.unpack(t, -2, 0)` returns nothing, and with a last index of -1 the loop never
  ends (`tablib.cpp:263-265`, against the comment at 230-231): `UnpackReturnsRange` is stated
  from index 0 up.
- `table.insert` after a `__len` of `math.maxinteger` computes `n + 1` in signed arithmetic
  (`tablib.cpp:116`): `NoOverflow` leaves this case open, and no other.

Package library:

- A module name with a `?` makes the replacement of templates find its own output for ever
  (`packagelib.cpp:97`); so does `searchpath` when the first character of `package.config` is a
  dot. `SearchEnds` is stated of the other names.
- Nothing marks a module as being loaded: one that requires itself, directly or in a cycle,
  is loaded inside its own load until one of the loads returns or the depth limit is met.
  `LoadedOnce` begins with the first true value that is returned; a load that returns false
  ends it, since the cache asks for a true value (`packagelib.cpp:279`).
- A searcher that is moved to a place the loop has passed is skipped (`packagelib.cpp:294`):
  `SearchIsComplete` is about those that keep their places.

I/O library:

- Mode `"a"` opens with `out | ate`, which truncates the file (`iolib.cpp:281`).
- `f:seek("cur", n)` moves by `2n`: the stream has one position, which is moved for
  reading and for writing (`iolib.cpp:622-624`).
- No operation checks whether its handle is closed (`readable()` is unused); they fail in the
  stream, silently (`ClosedIsInert`). Writes after the end of the file was met are lost in the
  same way: `WrittenIsStored` counts what may be expected.
- `f:lines()` returns only the iterator, so that a `for` loop over it yields nothing;
  `io.flush` does not reach the default output; `read(0)` gives nil before the end.

String library:

- `byte(0)` and `byte(-10)` return the first byte, and `find` with an initial position beyond the
  end searches from the end instead of failing (`rel_pos`).
- `gsub` and `gmatch` raise "empty pattern" where `find` accepts one; an anchored `gmatch`
  yields consecutive matches; the iterator of `gmatch` called without its state returns
  nil; `gsub` counts only the matches it substitutes, and rejects a number as replacement.
- The recursion of `match_rec` has no bound of its own.
- `unpack` adds a length from the data to a `size_t` that can wrap (`strlib.cpp:1390`), and
  `int_value` accepts 2^63 (`strlib.cpp:1152`).

## Proofs

All constants are arbitrary, but for the assumptions stated in the module that declares
them (`ObjFinite`, `NoneApart`, `BoundsNat`, `ListsOfSearchers`, ...), which TLC
evaluates in the runs. They say that tokens for different things differ and that bounds are
numbers; what a proof needs beyond that is named below.

`HeapProofs`:

- The inductive invariant is `IInv` = `TypeOK`, `NoDangling`, `MarkInvariant`,
  `InternCanonical`, `CountExact`, `FreeIsBlank`, `TriggerNeverDisabled`. `ReachableLive`
  alone is not inductive: while sweeping it needs to know that a white cell still to
  be passed is unreachable (`MarkInvariant`), which in turn comes from the end of the
  mark phase, where the marked set is closed under the pointers a program can follow
  (`ChildrenFollow`: `trace()` emits exactly those). `CountExact` is in it because
  `count - 1` must stay a natural, `FreeIsBlank` because a reused address must not
  inherit pointers.
- One lemma per action (`DrainInv`, `SweepFreeInv`, ...), joined in `NextInv`;
  then `Invariance`, `NoPrematureFree`, `PointersValid`, `InternTableCanonical`,
  `CountCorrect`, `TriColour`, `TriggerEnabled`.
- `Refinement`: `Heap` implements `AbstractHeap`. `StartSweep` is the step that maps to
  `Collect`; every step of the sweep maps to a stutter.

`CallsProofs`:

- `DepthAccounted` and `NestingLimited` follow from `StackInv`, which adds the shape of the
  stack to the accounting. `ErrorValuesKept` needs `ErrorInv` too: what an error on its way
  carries, in every case the code tells apart, is what its protected call will make
  of it. `IInv` is the two together.
- `Refinement`: unwinding frame by frame implements the one-step `Throw` (`LandedPop`:
  removing a frame that catches nothing does not change where the error lands).

`LoadingProofs`, first of `Chunks`: `LabelsFresh` and `TreesKept`. A cached entry is right because it was made in
the run that is going on, whose trees are all alive: so the invariant relates the entries of
`m_labels` to the trees of this run and the addresses of live trees to each other.

`LoadingProofs`, then of `GotoCheck` (programs of any length and depth: `MaxSize` is any natural number):

- `GotosSound` (`AcceptedGotosSound`) and `LabelsAndLoops` (`RefusalsExact`). Neither is
  inductive. A goto is accepted long after it was written, when the block that has its label
  ends or the label is met, and by then the code compares only counters. `IInv` says what
  these counters stand for while the pass goes on: blocks nest, and `nactvar` of each counts
  the locals declared before it (`Nested`); `cs.labels` of each block are the
  labels placed in it (`LabelsKnown`); a pending goto lies in its block or has
  migrated out of blocks that have ended, and its recorded count of locals is the
  smallest since then (`GotosWait`); `loop_depth` counts the loops around in
  the same function (`LoopsCounted`); what is resolved is right (`Resolved`).
- TLC checked `IInv` on all programs of five statements first (697406 states).

`ScopesProofs` (programs and nestings of any size):

- `TypeCorrect`, `NamesLexical`, `ConstsKept`, `GlobalsFollow`, `SignalsStop`. A name is looked up
  through a chain of environments, long after the text around it was left, so `IInv` speaks of
  all that may be resumed: every block of the stack, every closure, every label a signal is aimed at
  (`BlocksGood`, `ClosuresGood`, `Aimed`) has an environment in which each name finds what
  it means by the text, or one of the two exceptions that `NamesLexicalButLate` names. A
  declaration disturbs only environments that share the one it writes to; `EnvShared` says who
  these are (the turns of a `while` body, and what was captured there).
  `StackNests` says that blocks lie inside each other, `VariablesKnown` that
  what an environment holds was declared, `ConstNeverWritten` is its own induction.
- The globals are the other half of `Good`: the `env_table` of every environment and closure that may
  be resumed is that of the `_ENV` its text means (`Follows`), unless that `_ENV` was assigned to. A
  declaration takes the globals of the one it is made under (`FollowsDeclared`), so that
  a parameter or a `for` variable called `_ENV` leaves them; `EnvShared` serves here too.
- TLC checked `IInv` on the bounds of the run `scopes` first.

`LibraryProofs`, of `TabSort` (any elements, comparators, lengths and cutoffs):

- `Sorts` (`SortResult`: a permutation always, sorted for every strict weak order) and `StaysIn`
  (`SortStaysIn`: scans stay in the array and recursion on the smaller side). Assumed
  (`SortBounds`): lengths are positive, since `b_sort` returns at once from an empty table, and the
  cutoff is positive, since the median needs three elements.
- The argument: elements move only inside the range of the running activation; ranges of
  different activations are disjoint (`Disjoint`); two elements that no range has between
  them are in order already (`Settled`). When no range is left that is sortedness. Inside
  an activation, `Inserting`, `Median` and `Scanning` say how far its loop has come:
  the scans need no bound of their own because the median leaves an element at each end that
  stops them. `Rearranged` keeps a bijection with the input, which gives `Permutation` without
  counting.
- TLC checked `IInv` first, on lengths 1 to 4 with cutoff 1 and, without `Rearranged`, whose
  bijections are too many to enumerate, on lengths 5 and 6 with cutoff 2.

`LibraryProofs`, of `Strings` (any subjects, patterns, replacements, limits and starting places, any
matcher):

- `ScansRight` (`ScansAgree`: find, gmatch and gsub report the matches of one scan from left to right
  that misses none, and the result of gsub is the subject with these replaced) and `ScansMoveOn` (the
  action property `MovesOn`).
- `ScanIInv` adds that the log of matches is in order, each as the matcher found it
  (`LogOrdered`), that it ends where the loop stands or before (`ScanPlace`), and that what was
  copied while nothing was substituted is the subject itself (`NothingCounted`: `b_gsub` then
  returns its argument instead of what it has built). A match that does not end behind the last one
  is empty and starts where that ended: the one case each loop has its rule for. The result
  is read as pieces, the bytes between two matches and the replacement; a step
  lengthens the open piece by a byte or closes it (`PiecesGrow`, `FlattenAppend`), and
  `SliceJoin` puts adjacent parts of the subject together.
- Assumed: `StringsAssumption` of the matcher, and that a position is written as bytes
  (`NumeralAssumption`).
- TLC checked `ScanIInv` on the bounds of the run `text` first.

`TablesProofs`, of `Iteration` (any keys, any order of the hash, any insertions and erasures):

- `PairsVisitsAll` (`PairsExact`). `IterIInv` says where a loop stands: its control variable is a key
  the body has been run for; while nothing was inserted and that key is still there, what is
  left of the keys seen lies before it in the order of the hash, and while the key was not erased
  either, all before it was seen (`PairsPlace`). Erasing a key moves those behind it down
  by one and leaves the order of the others, which is why `next` can look its key up again.

`TablesProofs`, of `TabRange` (integers of any width, any tables and arguments):

- `RangesRight` (`RangeResults`) and `RangeChecksExact` (`ChecksExact`). `RangeIInv` gives, for each
  loop, the range its variable is in and the whole table as a function of the one before the call:
  moved up to the loop variable, untouched beyond it (`InsertPlace`, `RemovePlace`, `MovePlace`,
  `UnpackPlace`). For `move` within one table that is where the direction counts: what a step reads
  must not be what an earlier one wrote. That the checks of `move`, in
  unsigned arithmetic, are those of exact arithmetic is proved of the operators, by cases on
  where the differences wrap.
- Assumed: no table holds all keys from 1 to the last integer (`RangeAssumption`), without which
  `table_border` would not end.

`TablesProofs`, of `Metatables` (any finite set of tables, any limit of the walks):

- `FieldsAgree` (`ReadsAndWritesAgree`) and `GuardedStay` (`GuardedTablesStay`). A walk is a recursive
  function of the steps left. `Iterates` and `WalkExists` show that there is such a function,
  `ReadWalk` and `WriteWalk` that `WalkIndex` and `GoesTo` are its values. `WalkEnds`, by induction on the
  limit, says what it returns: the outcome at the one table without an edge that is reached
  (`EndReached`: a way that ends has one end and no circle), or the error, which is certain for a
  circle and impossible for a way of no more tables than steps. `WalksAgree` runs
  the two walks side by side, for a write and the read of it. The state need only be well
  typed: the agreement holds of every graph of tables, not only of those that a program has built.
- TLC checked `RangeIInv`, `IterIInv` and limits of one, two and three steps first.

`IoLibProofs` (any handles, files, bytes and sequence of calls):

- `TypeCorrect`, `WritesStored` (`WrittenIsStored`), `ReadsBack` (`ReadsWhatWasWritten`),
  `ClosedStaysInert` (the action property `ClosedIsInert`). `IInv` adds to them that a
  stream's file exists, that its buffers fit its position and that a closed one has none
  (`Buffers`), that only one handle can hold bytes back for a file (`OneWriter`), where the held bytes lie (`HeldBack`), and
  that what a handle has read ahead is still what the file holds (`AheadFresh`).
- Every call changes one stream: `OneHandle` shows once what such a change has to respect, and
  a lemma per call shows that it does. `OverlayTwice` shows that two writes in a row are one
  write of both, which is why a buffer may be flushed in any portions.
- Assumed of the constants: slots are not standard streams, chunks are sequences of bytes, formats and
  arguments of `seek` are those of the library.
- TLC checked `IInv` on the bounds of the run `io` first (332820 states).

`RequireProofs`:

- `ServedCached`, `LoadsOnce`, `OwnValueKept`, `AllAsked`. The invariant `IInv` adds
  that only the innermost load searches (`OneSearches`), that the searchers which have kept their
  places are asked up to the place the loop has reached (`AskedUpTo`), and what a load has
  seen stored is still there (`StoreSeen`).
- `ServedIsCached` is stated of every table and not only of the one that is `package.loaded`
  now, and carries `LoadedOnce`: a load that is begun has met no true value in the cache, so
  that none can have been served.

A `CASE` of TLA+ whose guards overlap may take any of the arms that are open, and the provers
treat it so where TLC takes the first. The proofs brought out four such definitions (the
verdict of `CloseFunction`, the step of `ScanUp`, `Passed` of `Strings`, `CloseFile` of `IoLib`), which are
now `IF`s in the order of the code or have guards that exclude each other.

Only model-checked: liveness (`CollectReturns`, `LoopsEnd`, `SearchEnds`), which the prover does
not do, and the matcher and the formats (`MatcherAgrees`, `PackAgrees`): `Pattern` and `Pack` are out
of the prover's reach (recursive operators, `Bitwise`). That the matcher of `Pattern` is one that the
scans may rely on is therefore checked on the patterns of the run `text` and not proved.

## Plan

Done: every component of the inventory that keeps state of its own, but for the generators
of `math.random`. What could follow:

1. `move` with `__index` and `__newindex`, by joining `TabRange` and `Metatables`.
2. A composition of `Heap` and `Scopes`: which roots the evaluator would have to report
   if it collected at statement boundaries, as `heap.cpp:133-136` announces.
3. Integer arithmetic of `numops.cpp` (floor division, shifts) on a small width.

## Not modelled

- The lexer and the parser: the grammar is matched by an external PEG library, and the
  conversions from its matches keep no state. The tree printer is output layout.
- Numbers: floating-point results, their comparison with integers and their
  conversion from and to text. TLA+ has no such values. `math.random` keeps generator states
  in a map by evaluator address (`mathlib.cpp:313`).
- `utf8`: conversions without state. `os`: wrappers of the C library.
- Of the string library: `format`, `rep`, `byte`, `char`, `sub`, `reverse`, `upper`, `lower`, `len`.
- Of the table library: `concat` and `pack`, which keep no state.
- Of the evaluator: the metamethods of arithmetic, comparison, length and concatenation;
  varargs; the size of the native stack.
- Message wording and line numbers. Table key equality (`LuaKey`, floats that collapse
  to integers) is not part of the heap model.
