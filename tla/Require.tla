------------------------------ MODULE Require ------------------------------
(***************************************************************************)
(* require and the searchers of src/lua/packagelib.cpp.  An entry of       *)
(* `stack' is an activation of b_require that has passed the cache: it is  *)
(* asking the searchers, or the loader it found is running.  Loaders and   *)
(* searchers written in Lua are ordinary code: they require further        *)
(* modules, write to package.loaded, replace it, raise errors and catch    *)
(* them.  Module values are opaque; file names are the number of the       *)
(* template of package.path they were made from.                           *)
(***************************************************************************)
EXTENDS Naturals, Sequences

CONSTANTS
  Name,        \* module names
  Marked,      \* the names that contain a '?'
  Table,       \* the tables that may become package.loaded
  Module,      \* true values a loader may return
  Templates,   \* the templates of package.path are 1..Templates
  SearcherLists, \* contents the program may give package.searchers
  MaxStack,    \* bound on nested loads
  MaxWrites,   \* bound on the program's writes to the package table
  Nil, NoTable

ASSUME NamesMarked == Marked \subseteq Name
ASSUME NilApart == Nil \notin Module /\ NoTable \notin Table
ASSUME OneTable == Table # {}
ASSUME RequireBounds == Templates \in Nat /\ MaxStack \in Nat /\ MaxWrites \in Nat

VARIABLES
  stack,     \* the loads in progress, innermost last
  pc,        \* "lua", "search", "error": what runs; "spin": the replacement of '?' never ends
  tab,       \* the contents of each table that may be package.loaded
  loaded,    \* package.loaded
  pkg,       \* what else of the package table is as installed
  preload,   \* the names with a function in package.preload
  searchers, \* the contents of package.searchers
  disk,      \* the file of each module: the template that finds it, sound or not
  writes,    \* writes of the program so far
  last,      \* history: the load that has just returned
  served     \* history: what the last load of a name into each table returned,
             \* since the program last wrote to the entry

vars == <<stack, pc, tab, loaded, pkg, preload, searchers, disk, writes, last, served>>

True == "true"
False == "false"
Value == Module \cup {Nil, True, False}
Truthy(v) == v \notin {Nil, False}

Parts == {"package", "path", "searchers"}
Searchers == {"preload", "path", "cpath", "allinone", "custom"}

ASSUME ListsOfSearchers == SearcherLists \subseteq Seq(Searchers)

(* The searchers of list l at their places. *)
Places(l) == {<<i, l[i]>> : i \in DOMAIN l}

(* A load: the table b_require holds a pointer to, the searcher it has      *)
(* reached, the next template.  History: whether a load of its name had     *)
(* returned a true value when it was begun, the last value stored for its   *)
(* name in its table, the searchers that have kept their places since, and  *)
(* those asked.                                                             *)
LoadFromZero(n) ==
  [name |-> n, table |-> loaded, phase |-> "asking", i |-> 0, template |-> 1,
   again |-> Truthy(served[loaded][n]), stored |-> Nil, kept |-> Places(searchers), asked |-> {}]

Load(n) ==
  [name |-> n, table |-> loaded, phase |-> "asking", i |-> 1, template |-> 1,
   again |-> Truthy(served[loaded][n]), stored |-> Nil, kept |-> Places(searchers), asked |-> {}]

Top == stack[Len(stack)]
Pop == SubSeq(stack, 1, Len(stack) - 1)
WithTop(f) == [stack EXCEPT ![Len(stack)] = f]

NoResult == [value |-> Nil, returned |-> Nil, stored |-> Nil]

(* at = 0: no template finds it.  The search for a name with a '?' never    *)
(* gets to a file.                                                          *)
Files == {f \in [at : 0 .. Templates, sound : BOOLEAN] : f.at = 0 => f.sound}

Init ==
  /\ stack = <<>> /\ pc = "lua"
  /\ tab = [t \in Table |-> [n \in Name |-> Nil]]
  /\ loaded = CHOOSE t \in Table : TRUE
  /\ pkg = Parts /\ preload = {}
  /\ searchers = <<"preload", "path", "cpath", "allinone">>
  /\ disk \in {d \in [Name -> Files] : \A n \in Marked : d[n].at = 0}
  /\ writes = 0
  /\ last = NoResult
  /\ served = tab

(* A step of require itself, before the loader has returned. *)
PackageKept ==
  /\ UNCHANGED <<tab, loaded, pkg, preload, searchers, disk, writes, served>>
  /\ last' = NoResult

-----------------------------------------------------------------------------
(* Lua code: the main program, the loader of the innermost load, or a       *)
(* searcher written in Lua.                                                 *)
Write ==
  /\ pc = "lua" /\ writes < MaxWrites
  /\ writes' = writes + 1 /\ last' = NoResult
  /\ UNCHANGED <<pc, disk>>

(* What a store to entry n of t leaves in the histories of the loads.       *)
Stored(s, t, n, v) ==
  [j \in DOMAIN s |-> IF s[j].name = n /\ s[j].table = t THEN [s[j] EXCEPT !.stored = v] ELSE s[j]]

(* t is package.loaded, or a table that the program has exchanged for it.   *)
SetLoaded(t, n, v) ==
  /\ Write
  /\ tab' = [tab EXCEPT ![t][n] = v]
  /\ stack' = Stored(stack, t, n, v)
  /\ served' = [served EXCEPT ![t][n] = Nil]
  /\ UNCHANGED <<loaded, pkg, preload, searchers>>

(* package.loaded = another table, or something that is no table. *)
ReplaceLoaded(t) ==
  /\ Write /\ t # loaded
  /\ loaded' = t
  /\ UNCHANGED <<stack, tab, pkg, preload, searchers, served>>

SetPreload(n) ==
  /\ Write
  /\ preload' = IF n \in preload THEN preload \ {n} ELSE preload \cup {n}
  /\ UNCHANGED <<stack, tab, loaded, pkg, searchers, served>>

(* In place: a search in progress meets the new contents. *)
SetSearchers(l) ==
  /\ Write /\ l # searchers
  /\ searchers' = l
  /\ stack' = [j \in DOMAIN stack |-> [stack[j] EXCEPT !.kept = @ \cap Places(l)]]
  /\ UNCHANGED <<tab, loaded, pkg, preload, served>>

(* package, package.path or package.searchers = nil. *)
Spoil(p) ==
  /\ Write /\ p \in pkg
  /\ pkg' = pkg \ {p}
  /\ UNCHANGED <<stack, tab, loaded, preload, searchers, served>>

-----------------------------------------------------------------------------
(* b_require up to the search. *)
Cached(n) == Truthy(tab[loaded][n])

Installed == "package" \in pkg /\ loaded # NoTable

StartSearch(n) ==
  /\ pc = "lua" /\ Installed /\ "searchers" \in pkg
  /\ ~Cached(n)
  /\ Len(stack) < MaxStack
  /\ stack' = Append(stack, Load(n)) /\ pc' = "search"
  /\ PackageKept

(* No string, no package table, no package.loaded, no package.searchers:    *)
(* thrown before anything is changed.                                       *)
RequireRefused ==
  /\ pc = "lua"
  /\ pc' = "error"
  /\ UNCHANGED stack /\ PackageKept

-----------------------------------------------------------------------------
(* The loop over package.searchers.  The entry is read again at every turn. *)
Asking(k) ==
  /\ pc = "search" /\ Top.phase = "asking"
  /\ Top.i <= Len(searchers) /\ searchers[Top.i] = k

NextSearcherSame(f) == [f EXCEPT !.phase = "asking", !.template = 1]
NextSearcherSkips(f) == [f EXCEPT !.i = @ + 2, !.phase = "asking", !.template = 1]
NextSearcher(f) == [f EXCEPT !.i = @ + 1, !.phase = "asking", !.template = 1]

Asked == [Top EXCEPT !.asked = @ \cup {<<Top.i, searchers[Top.i]>>}]

GiveUp == stack' = WithTop(NextSearcher(Asked)) /\ UNCHANGED pc
Found == stack' = WithTop([Asked EXCEPT !.phase = "loading"]) /\ pc' = "lua"
Fails == stack' = Pop /\ pc' = "error"
(* searcher 1 *)
AskPreload ==
  /\ Asking("preload")
  /\ IF "package" \in pkg /\ Top.name \in preload THEN Found ELSE GiveUp
  /\ PackageKept

(* searcher 2, up to the search of the path *)
AskPath ==
  /\ Asking("path")
  /\ IF {"package", "path"} \subseteq pkg
       THEN stack' = WithTop([Top EXCEPT !.phase = "templates"]) /\ UNCHANGED pc
       ELSE Fails
  /\ PackageKept

(* searchpath_impl: one template of the path.  A name with a '?' is         *)
(* replaced into itself for ever.                                           *)
Trying == pc = "search" /\ Top.phase = "templates"

SpinOn(n) == n \in Marked

TryTemplate ==
  /\ Trying /\ ~SpinOn(Top.name) /\ Top.template <= Templates
  /\ disk[Top.name].at # Top.template
  /\ stack' = WithTop([Top EXCEPT !.template = @ + 1]) /\ UNCHANGED pc
  /\ PackageKept

TemplateSpins ==
  /\ \/ Trying /\ Top.template <= Templates
     \/ Asking("cpath") /\ "package" \in pkg
  /\ SpinOn(Top.name)
  /\ pc' = "spin"
  /\ UNCHANGED stack /\ PackageKept

PathExhausted == Trying /\ ~SpinOn(Top.name) /\ Top.template > Templates /\ GiveUp /\ PackageKept

Opened == Trying /\ ~SpinOn(Top.name) /\ disk[Top.name].at = Top.template

(* The file is opened a second time to be read; it may be gone. *)
FileFound ==
  /\ Opened
  /\ (disk[Top.name].sound /\ Found) \/ GiveUp
  /\ PackageKept

(* A syntax or goto error: thrown again with the name of the module. *)
FileBroken ==
  /\ Opened /\ ~disk[Top.name].sound
  /\ Fails
  /\ PackageKept

(* searchers 3 and 4 never find anything. *)
AskC ==
  /\ \/ Asking("cpath") /\ ("package" \in pkg => ~SpinOn(Top.name))
     \/ Asking("allinone")
  /\ GiveUp /\ PackageKept

(* A searcher written in Lua. *)
AskCustom ==
  /\ Asking("custom")
  /\ stack' = WithTop([Asked EXCEPT !.phase = "custom"]) /\ pc' = "lua"
  /\ PackageKept

InCustom == pc = "lua" /\ stack # <<>> /\ Top.phase = "custom"

CustomFinds ==
  /\ InCustom
  /\ stack' = WithTop([Top EXCEPT !.phase = "loading"]) /\ UNCHANGED pc
  /\ PackageKept

CustomGivesUp ==
  /\ InCustom
  /\ stack' = WithTop(NextSearcher(Top)) /\ pc' = "search"
  /\ PackageKept

NotFound ==
  /\ pc = "search" /\ Top.phase = "asking" /\ Top.i > Len(searchers)
  /\ Fails
  /\ PackageKept

-----------------------------------------------------------------------------
(* The loader has returned v, nil when it returned nothing. *)
ResultIgnoresStore(v, f) == IF v # Nil THEN v ELSE True
Result(v, f) ==
  IF v # Nil THEN v
  ELSE IF tab[f.table][f.name] # Nil THEN tab[f.table][f.name] ELSE True

StoreIfNew(f, r) == IF tab[f.table][f.name] = Nil THEN [tab EXCEPT ![f.table][f.name] = r] ELSE tab
StoreReturned(f, r) == IF r = True THEN tab ELSE [tab EXCEPT ![f.table][f.name] = r]
Store(f, r) == [tab EXCEPT ![f.table][f.name] = r]

LoaderReturns(v) ==
  /\ pc = "lua" /\ stack # <<>> /\ Top.phase = "loading"
  /\ LET r == Result(v, Top) IN
       /\ tab' = Store(Top, r)
       /\ stack' = Stored(Pop, Top.table, Top.name, r)
       /\ last' = [value |-> r, returned |-> v, stored |-> Top.stored]
       /\ served' = [served EXCEPT ![Top.table][Top.name] = r]
  /\ UNCHANGED <<pc, loaded, pkg, preload, searchers, disk, writes>>

-----------------------------------------------------------------------------
(* Errors: a loader or searcher raises one, the Lua code around it catches  *)
(* it or lets it pass through the require it belongs to.                    *)
Raise ==
  /\ pc = "lua" /\ stack # <<>>
  /\ Fails
  /\ PackageKept

Catch == pc = "error" /\ pc' = "lua" /\ UNCHANGED stack /\ PackageKept

Propagate == pc = "error" /\ stack # <<>> /\ Fails /\ PackageKept

Search ==
  \/ AskPreload \/ AskPath \/ TryTemplate \/ TemplateSpins \/ PathExhausted
  \/ FileFound \/ FileBroken \/ AskC \/ AskCustom \/ NotFound

Next ==
  \/ \E n \in Name : StartSearch(n) \/ SetPreload(n)
  \/ \E t \in Table, n \in Name, v \in {Nil, False} \cup Module : SetLoaded(t, n, v)
  \/ \E t \in Table \cup {NoTable} : ReplaceLoaded(t)
  \/ \E l \in SearcherLists : SetSearchers(l)
  \/ \E p \in Parts : Spoil(p)
  \/ RequireRefused
  \/ Search \/ CustomFinds \/ CustomGivesUp
  \/ \E v \in {Nil, False} \cup Module : LoaderReturns(v)
  \/ Raise \/ Catch \/ Propagate

Spec == Init /\ [][Next]_vars

(* The loop of b_require and the searchers it calls are plain C++ loops. *)
FairSpec == Spec /\ WF_vars(Search)

-----------------------------------------------------------------------------
Activation ==
  [name : Name, table : Table, phase : {"asking", "templates", "custom", "loading"},
   i : Nat \ {0}, template : 1 .. Templates + 1,
   again : BOOLEAN, stored : Value, kept : SUBSET (Nat \X Searchers), asked : SUBSET (Nat \X Searchers)]

TypeOK ==
  /\ stack \in Seq(Activation)
  /\ pc \in {"lua", "search", "error", "spin"}
  /\ pc \in {"search", "spin"} => stack # <<>>
  /\ tab \in [Table -> [Name -> Value]]
  /\ loaded \in Table \cup {NoTable}
  /\ pkg \subseteq Parts /\ preload \subseteq Name
  /\ searchers \in Seq(Searchers) /\ disk \in [Name -> Files]
  /\ writes \in Nat /\ last \in [value : Value, returned : Value, stored : Value]
  /\ served \in [Table -> [Name -> Value]]

(* The value of the last load of a module is found in the table that was    *)
(* package.loaded when that load was begun, however loads of the same name  *)
(* were nested and the table was exchanged, and exchanged back, meanwhile,  *)
(* until the program itself writes to the entry (packagelib.cpp:338).       *)
ServedIsCached ==
  \A t \in Table, n \in Name : served[t][n] # Nil => tab[t][n] = served[t][n]

(* Modules that require themselves or each other are loaded inside their    *)
(* own loads, for nothing marks them; but once one of these loads has       *)
(* returned a true value, no other is begun, inside the loads still in      *)
(* progress or after them, unless one of those returns false, the program   *)
(* writes to the entry or package.loaded is another table.                  *)
LoadedOnce == \A j \in DOMAIN stack : ~stack[j].again

(* A module that stores its value in package.loaded itself and returns      *)
(* nothing is required with the value it stored, the inner value of a       *)
(* nested load included.                                                    *)
SelfAssignmentKept == last.returned = Nil /\ last.stored # Nil => last.value = last.stored

(* "module not found" is only reported when every searcher was asked that   *)
(* has kept its place in package.searchers, whatever the searchers asked    *)
(* have removed, added or moved under the loop (packagelib.cpp:294).        *)
SearchIsComplete ==
  pc = "search" /\ Top.phase = "asking" /\ Top.i > Len(searchers) => Top.kept \subseteq Top.asked

-----------------------------------------------------------------------------
(* The inductive invariant. *)

(* Only the innermost load searches; the others have called Lua code.       *)
Searching(f) == f.phase \in {"asking", "templates"}
OneSearches ==
  \A j \in DOMAIN stack : Searching(stack[j]) <=> j = Len(stack) /\ pc \in {"search", "spin"}

(* The searchers that have kept their places stand where they stood, and    *)
(* are asked up to the place the loop has reached.                          *)
Passed(f) == IF f.phase = "custom" THEN f.i ELSE f.i - 1
AskedUpTo(f) ==
  /\ f.phase = "templates" => f.i <= Len(searchers)
  /\ f.kept \subseteq Places(searchers)
  /\ f.phase # "loading" => \A e \in f.kept : e[1] <= Passed(f) => e \in f.asked

(* What a load has seen stored for its name is still there.                 *)
StoreSeen(f) == f.stored # Nil => tab[f.table][f.name] = f.stored

LoadsInOrder == \A j \in DOMAIN stack : AskedUpTo(stack[j]) /\ StoreSeen(stack[j])

IInv ==
  /\ TypeOK /\ OneSearches /\ LoadsInOrder
  /\ ServedIsCached /\ LoadedOnce /\ SelfAssignmentKept

(* The search for a name without a '?' ends, whatever the paths hold: with  *)
(* a loader, in a searcher written in Lua, or with an error.                *)
SearchEnds ==
  \A n \in Name \ Marked : pc = "search" /\ Top.name = n ~> pc # "search"
=============================================================================
