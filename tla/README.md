# A TLA+ development of inquiry

`inquiry` reads a tree of C sources with clang and exports a graph of
*components* - functions, data, structures, macros - to MongoDB. This directory
holds TLA+ modules of its core logic, TLC configurations that check them on
small instances, and proofs that TLAPS checks. `PROJECT.json` maps every
definition to the lines it models and lists runs, mutants, hazards, findings
and theorems.

## 1. The system

`inquiry` is one thread. `main` (`src/inquiry.cc`) hands the arguments after
`-cc` to clang, which processes the main files one after the other:

```
main ── ExecuteAction ──┬─ CreateASTConsumer      new TU, empty lookup cache
                        ├─ preprocessing          MacroCallbacks: FileChanged, MacroDefined,
   (per main file)      │                         MacroUndefined, MacroExpands, ...   -> MRQ
                        ├─ HandleTranslationUnit  ReferenceBuilder visits the AST, consumes MRQ,
                        │                         completes macros
                        └─ EndSourceFile          leaveContext
     ── PostProcessMacros ── DumpAll ── MapComponents ── DumpDocuments ── report
```

| component | state | operations | what makes it correct |
|---|---|---|---|
| Component store (`model/TranslationUnit.h`, `Artifacts`, `Component`) | heap of components, `Components`, `AllFiles` with `File::components`, `TU->allComponents` (lookup cache), `bind`'s `_lastfile` | `TranslationUnit::create`, `enterContext`, `include`, `bind`, `lookup`, `reference`, `parent =`, `leaveContext` | one component per identifier and scope; a static is found exactly in the translation units that enter its file; no component is lost |
| Set of references (`Component::references`) | a `std::set` ordered by `Reference::operator<` | `reference` | none is lost, though the order is no strict weak order |
| Macro callbacks (`cc/MacroCallbacks`) | `MacroMap`, `MRQ`, `MacroPostProcessQueue`, the recursion of `CompleteDefinition` | the preprocessor callbacks, `CompleteDefinition`, `PostProcessMacros` | every macro becomes one component; references between macros survive any order of completion; a substituted function is found |
| AST visitor (`cc/ReferenceBuilder`) | `_currentStructure`, iterators into `MRQ` | one `Visit` method per declaration, `FindRelatedMacros`, field, statement and initializer traversal | references go to the right component; macros are matched with the declaration they are used in; the walks end |
| Document export (`model/Document`) | `DMap`, the collection | `MapComponents`, `DumpDocuments`, report | no dangling oid, no crash, everything is exported, it ends |
| Set of declarations (`Component::declarations`) | a `std::set` ordered by `Location::operator<` | inserts by the visitors | a declaration is only dropped for one at its place |
| Driver (`inquiry.cc`) | the options, the stage, `inqdebug` | `main`, signal handlers | options are what the manual says; signals change the level and nothing else; it ends |

The stages share state and no messages: preprocessor callbacks fill `MRQ` and
`MacroMap` and the lookup cache; the visitor reads and erases `MRQ` and calls
back into `CompleteDefinition`, which binds components in the store the visitor
looks names up in; the export reads what is left. Only the
handlers of two signals interrupt it. What is hard is not
concurrency but **order and staleness** across these stages: a cache rebuilt
per translation unit from sets that outlive it, a global table of macros, macro
resolution that happens during someone else's walk, recursion over pending
references, an iteration over a list that is erased from, and an export that
assumes that all that was allocated can be found again. Nothing is persisted
before the export; there is nothing to recover.

All hazards, each at its line and with the properties aimed at it, are in
`PROJECT.json`.

## 2. Modules

| module | models | with |
|---|---|---|
| `ComponentStore` | the store and clang's frontend around it; handlers appear through the calls they make (`Declare`, `Refer`, `Adopt`) | `MCStore`, `ComponentStoreProofs` |
| `Registry` | the abstract promise of the store: names resolve by scope, no caches, no sets | `StoreRefinement` |
| `StoreRefinement` | the refinement mapping from `ComponentStore` to `Registry` | `MCStore`, `ComponentStoreProofs` |
| `DocumentExport` | extends the store with what `main` does after the last translation unit | `MCExport`, `DocumentExportProofs` |
| `MacroTable` | extends the store with the macro callbacks and the part of the visitor that consumes `MRQ` (`VisitFunctionDecl`, `FindRelatedMacros`, `HandleTranslationUnit`, `PostProcessMacros`) | `MCMacro`, `MacroTableProofs` |
| `Visitor` | extends the store with the visitors that build structures: records, enums, typedefs, types of variables, and the macros of fields | `MCVisitor` |
| `Statements` | extends `Visitor` with functions and everything below declarations: bodies, expressions, casts, arguments, initializers | `MCVisitor` |
| `VisitorInvariants` | the inductive invariant of `Visitor` and `Statements` | `MCVisitor`, `VisitorProofs`, `FunctionProofs`, `FieldsProofs` |
| `ReferenceSet` | one component's `set<Reference>` | `MCReferences`, `SetProofs` |
| `DeclarationSet` | one component's `set<Location>` and its definition | `MCReferences`, `SetProofs` |
| `Driver` | `main`: the command line, the stages, the signals | `MCDriver`, `DriverProofs` |

### ComponentStore

State keeps the source's names. A `Component *` is a position of `heap` and
`NULL` is 0. `components[f]` is `File::components`, empty for a name without a
`File`. Names are spellings; `RealPath` is `realpath(3)`, idempotent, and
`File::create` is the lookup of the resolved name in `AllFiles`.
`component_ptr_less` makes a set hold one component per type and id: its
test of invalid definitions only returns the `false` that comparing two equal
ids returns anyway. That is why `Insert` may refuse, and `bind` does not
look.

Actions are `CreateASTConsumer`, `Include` (`FileChanged` and
`TranslationUnit::include`), `HandleTranslationUnit`, `EndSourceFile` for
clang's side and `Declare` (lookup, then bind on a miss), `Refer`, `Adopt` for
the handlers. What the sources contain is chosen freely: any header may be
entered any number of times, any declaration may be static or not and come
from any file entered. `Remapped` are names that a location may have without
a file being entered under them (`#line`, `<command line>`).
`EndSourceFileDispatched` covers both kinds of clang `inquiry` may be built
with: `EndSourceFile` overrides a method that is virtual in some only.

`SeparateSources` is what the store silently assumes of its input: main
files are distinct, no main file is also `#include`d, no `#line` moves a
declaration. Properties that need it are checked with it and proved from it;
the run `reentrant` shows what happens without.

### DocumentExport

`pc` walks through the tail of `main`. A component has at most one `Document`,
so `DMap` is the set of components that have one, and an oid is named by its
component. A subscript `DMap[x]` of an unmapped component makes a NULL entry
and the next read goes through it: `DumpUnmapped` is the crash. `ServerFails`
lets the server refuse the connection or lose an insert; `lost` records which
documents it did not get. The driver's calls
return: a server that hangs for ever is not considered, which is what the weak
fairness of `Export` rests on - `main` is one thread with nothing else to do.

### MacroTable

One call of a handler that loops or recurses is several steps; `stack` holds
the calls of `CompleteDefinition`, each with the pending references it has yet
to visit (in any order: the set is ordered by address), `walk` the visitor's
loop over `MRQ`. A definition is reduced to what `MacroDefined` reads of its
tokens. `sub`, `subrepl` and `pendingrefs` are as in the code; they are not
reset when a macro is redefined before it has its component. `MIlive` says
whether clang still owns the `MacroInfo` that `MI` points to: after `#undef` its
`isObjectLike` may answer anything.

A location is the place of a record among the records of its unit. A
declaration spans an interval of places; `VisitFunctionDecl` chooses it freely,
so walks come in any order (types are visited out of order). `MacroExpanded`
only collects the identifiers that decide whether a record matches a function
by name; this match is chosen freely. In C++, erasing a list node and then
incrementing its iterator is undefined: with `FreedNodesIntact = FALSE` the
walk may go astray after each erasure, where the modelled execution stops, or
go on as the freed node's links say. A main file that cannot be opened is, for
the macros, one without definitions.

Fairness: `FairMacroSpec` requires that the loops and calls in progress take
their next step. There is one thread; nothing else can run.

### Visitor

Where `ComponentStore` lets handlers declare and refer freely, `Visitor` has
programs: declarations with their types, fields and source ranges, and the
places where macros are expanded. `stack` holds the visitors in progress, since
they call each other: `VisitVarDecl`, `VisitTypedefDecl` and `TraverseFields`
name an anonymous type after its owner (`names`, which `RenameType` changes in
the AST of one unit only) and visit it; `DiscoverTypeReferences` visits a type
that is not in the store yet, wherever it is declared. All share
`_currentStructure` and `MRQ`. A step is what a visitor does between two calls
of others. `related` of a frame is the queue of macros that `FindRelatedMacros`
copied for a record and its nested ones; `uses` are the references to macros.
A macro is named by the place where it is expanded, and the program says which
names it mentions there (`identifiers`): `Matched` are the macros that
`FindRelatedMacros` hands to its handler with `idmatch`, because they mention the
component being visited. Of a variable, these refer to it and are not queued for
its initializer (`VarEnds`, `Initializer`); the handler of records does not
care. `struct` and `union` are one kind. Macros are complete here, as
`MacroTable` models their completion. Erasures from lists are modelled by what
they are meant to do (`MacroTable` has the freed nodes). Assertions are enabled
as in the Makefile; `aborted` is a failed one or a NULL that is read.
Fairness: one thread visits until it is done.

### Statements

A body or an expression is the sequence of its nodes in the order in which
`TraverseStmtChildren` leaves them. A frame of this traversal is on the stack of
`Visitor`, because a cast visits its type if that is not in the store yet. The
call for a node ends with the macros in it (`LeaveNode`); then its parent looks
at it: `LookAtNode` for names and accesses, `CastType` and `HandleCastExpr` for
casts. Only an initializer passes a queue of macros down; the macros of a body
are found by one walk at the end of `VisitFunctionDecl` (`FunctionMacros`): a
definition refers to those that do not mention it, those that do refer to the
function from its other declarations.

`arguments` and `argscomplete` are the members of `Function`. `InitField` is
the body of `TraverseInitializer`'s inner loop for a field designator; `last`
in the frame of an initializer holds its local variables `lastcom`,
`lastrecord`, `lastfindex` and `lastdli` (fields and indices are counted from
1). `k` counts sub-expressions but indexes designators: where there are more
of the former, what is read is arbitrary (`InitBeyond`).

`MCVisitor` builds eleven families of programs. `AnyPrograms`: two top-level
declarations - a record of one or two fields, a variable, a typedef, an enum or
a record without a definition - of any type in C's order, each with up to two
levels of anonymous types within; `Homonyms` and `HomonymInside` are such
programs where a record and a variable or typedef are both named `A`. `Predeclared`: such
programs where the second record is declared before the first uses it.
`OfTypedefs`: a field of the anonymous type of a typedef. `BodyPrograms`: a function, static or not,
whose body has up to two of twelve nodes: variables of every storage class,
a function, an enumerator, fields, casts to a structure that begins with the
other one, to a type declared in the body, and the reverse. `ShapePrograms`: the
same with other first fields and with fields of one name. `FunctionPrograms`:
prototypes and definitions of a function in any order, in one unit or two;
`StaticPrograms`: the same with static functions, in one of two units or in both;
`TypedefPrograms`: with a typedef as the type returned.
`InitPrograms`: initializers of up to three elements of ten forms, and one
(`Nameless`) with a designator into an anonymous structure. The macros expanded
in bodies, initializers and prototypes mention the function, the variable, both,
another one or none.

### ReferenceSet and DeclarationSet

`ReferenceSet` is the tree as its nodes in order, where an insertion ends in any
gap that the search may lead to. `DeclarationSet` is a plain set: without
files, `Location::operator<` is a strict weak order of line and column.

### Driver

Main's steps and those of the handlers interleave: a handler runs to its end
before main goes on, but the handler of the other signal may interrupt it
between the load and the store of `inqdebug`. A signal that is pending is not
sent twice. A step of `Stages` is what main calls; clang may call the handler of
fatal errors. Fairness: main and the handlers are scheduled; signals are not
owed to anybody.

## 3. Runs

| run | question | bounds | result |
|---|---|---|---|
| `store` | does the store implement the registry, and are the invariants of the proofs true? | 2 main files, a header with 2 spellings, 2 names, 1 type, 1 link | holds |
| `export` | is the export safe, complete and finite? | 2 main files, a header, 1 name (up to 4 components), 3 links: chains and cycles | holds |
| `export_any` | what survives sources that are not separate, and a server that fails? | main files include each other, `#line` into a header, 2 links | holds |
| `macros` | does the recursion of `CompleteDefinition` within walks over `MRQ` keep and complete everything? | 2 macros, 4 definitions (mentions of each other, of themselves and of a function), 3 records, 1 function declaration | holds |
| `macro_units` | does a function macro end up with the function it substitutes; is there one component of each macro, though it is bound without a lookup? | 2 units, shared header, 1 macro, 1 function, 2 records and 1 function declaration per unit | holds |
| `references` | does a set on a broken order lose elements; which declarations does a set lose? | 8 references, up to 5 nodes, all paths of the search; 2 files, 2 lines, 2 columns | holds |
| `visitor` | do the mutually recursive visitors and traversals end, fail no assertion, and build and refer to everything they should? | 4456 programs (see `MCVisitor`) in a header of 2 units or split over both, macros at the ends and in the middle of ranges | holds |
| `driver` | what do command lines and signals do to `main`? | all command lines of 3 of 5 words, 80 of the manual's form, 3 signals | holds |
| `reentrant` | a main file that another one includes | as `export`, 1 link | NULL dereference |
| `deferred` | "defer ... resolving up to the first expansion" | 1 unit, 1 record, 2 functions | resolved earlier, reference lost |
| `forward` | "safe to remove early macros" | three records, the first uses the third | macros of the second are lost |
| `field_index` | "Map the field name to the field index" | one initializer of two elements | index of another field |

Why the bounds are enough: what can go wrong in the store is a key bound twice,
which needs two files with a common name and two translation units; a second
name lets the two interfere, a second spelling exercises `realpath`. One type
suffices as `(type, id)` is only compared as a pair. References matter to the
export as a graph: three links on at most four components form every shape of chain, fork and cycle
up to that size. In `MacroTable` two macros give mutual recursion and
self-mention, three records give a definition, a redefinition or `#undef`, and
an expansion. In `Visitor` a second declaration is what a first one may visit
on the way, before or after its turn, and a third one what may lie between
(only `forward` needs it) or declare the second one first. In `Statements` two nodes give a cast before and
after another node, three elements of an initializer give every state of
`last` and two transitions between them. Three signals give a handler
interrupted by the other one, and a third signal pending meanwhile. No property depends on numbers; `MaxLinks`, `MaxRecords`,
`MaxVisits`, `MaxNodes`, `MaxSignals` bound counters that are otherwise unbounded.
`CHECK_DEADLOCK FALSE` is in all configurations because the program ends: every
behaviour may run out of main files, and a walk gone astray stops.

What the properties say:

- *Store.* `NoOrphan`: what was allocated is registered where `MapComponents`
  looks. `GlobalsKept`: the same of globals, whatever the sources. `CacheScoped`
  and `CacheComplete`: the lookup cache holds only components of files of the
  active unit, and one for every key there. `EntityOnce`,
  `ImplementsRegistry`: identifiers resolve as without caches; each has one
  component. `IInv`: the inductive invariant of the proofs.
- *Export.* `ExportSafe`: no read through a missing document. `ExportComplete`:
  none is missing in the collection when main reports, unless the server lost
  something. `LossesAccounted`: whatever the sources, of an export that comes to
  its end nothing is missing but what the server lost - no global component, and
  nothing that a document refers to. `ExportEnds`, `ExportStops`: the export ends, or stops at
  a read through NULL if the sources are not separate. `ExportInv`: the
  inductive invariant.
- *Macros.* `MacroInv`: the inductive invariant of the table, the queues, the
  walk and the recursion. `CompleteAtEnd`: no macro survives its unit incomplete (its `MI`
  would dangle). `MentionsKept`: references put aside are made.
  `StackDistinct`: the recursion is bounded by the number of macros.
  `MacrosBound`: no two components are macros of one name, as function or as
  data, and that of each complete macro is where `MapComponents` looks. `SubstitutionResolved`.
  `WalksEnd`: every walk over `MRQ` ends.
- *Visitor.* `AssertionsHold`: what the visitors assert of types they visit on
  the way is true, and so is what they take for granted, but for three forms of
  initializers (see 4). `NoReentry`: a cycle of types never leads back into a record
  whose fields are being traversed. `VisitorInv`: the inductive invariant behind
  these and `FieldsKept`: `NestingInv` (no call is about a record that one around it
  traverses), `Waiting` (what a call counts on when the calls it makes return is
  there), `BuildInv` (of what the structures are built) and `FunctionInv` (what the
  functions have).
  `FieldsKept`: each record that was visited has each field once, with its type.
  It needs `Unambiguous` names (see 4).
  `FieldMacrosUsedIfLinear`: a macro in a field is referred to by the record, if
  no type is used before it is declared. `NoReentry` and this one need
  that no record has the name of a variable of an anonymous type (`NamesApart`,
  see 4).
  `FieldsAdopted`: nested types get the record as their parent, unless a typedef
  has the type, too; the only other parent is a variable of an anonymous type,
  which may take them (see 4). `LeftMacrosUsedIfLinear`: a macro behind the last
  field is referred to by the record, or, if a type within the record was visited
  for a field, by a structure within it (see 4) - never by one outside, and it is
  not dropped. `VisitEnds`.
- *Statements.* `BodyReferred`: a function refers to exactly what its body names.
  `MembersReferred`: and to the fields it accesses, by number.
  `InheritanceFound`: casts between structures give exactly the references of
  the comment in `HandleCastExpr`, for types spelled alike.
  `ArgumentsOfDefinition`: at the end of a unit each function it defines, static or
  not, has the arguments of the definition and refers to their types and to the one
  it returns, wherever its other declarations are, if they agree (`Prototyped`).
  `FunctionMacrosUsed`: for each declaration of a function, a macro expanded in it
  is referred to by the definition, or refers to it from another declaration,
  as it mentions the function or not, where no walk for a type behind the macro
  (`Early`, or a type in the body) came first; and nothing else is.
  `InitializersIndexedIfApart`: a variable refers to what its
  initializer names and expands, by the index of the field each element
  initializes, and the macros that mention the variable refer to it, if no field is
  designated twice in a row and no element without a designator is behind one that
  leads elsewhere. The conditions are in the comments of the
  properties; each is where the code does something else (see 4).
- *References and declarations.* `NoReferenceLost`, `DeclarationsKept`.
- *Driver.* `LevelFollowsSignals`: the debugging level is exact while handlers
  do not interrupt each other, and within the range of the signals if they do.
  `OptionsOfSynopsis`, `MainEnds`.

Every property of a passing run has a mutant: an operator named after the
definition it replaces (`BindLocal_CacheOnly`, `Dump_Stuck`, ...) with which TLC
finds it violated.

## 4. Findings

1. **A main file that is also included** (`reentrant`): its statics are bound
   twice, the second copy is in no set, and `DMap[target]->_oid` is read through
   NULL. `bind` ignores the outcome of its inserts (`TranslationUnit.h:76`).
2. **Deferred resolution** (`deferred`): `FindRelatedMacros` completes every
   macro it reaches before it compares locations (`ReferenceBuilder.cc:945`), so
   that resolution is not deferred to the first expansion. An object-like macro
   resolved too early becomes data and loses its reference for good.
3. **Visits out of order** (`forward`): a type visited on the way lets
   `FindRelatedMacros` erase the macros of declarations that come before it and
   have not been visited (`ReferenceBuilder.cc:963`).
4. **The index of a designated field** (`field_index`): the fast path of
   `TraverseInitializer` adds one to the last index without a step in the list
   (`ReferenceBuilder.cc:817`), so the second of two members of one field gets
   the index of the next field.

Seen while modelling, without a run:

- `PostProcessMacros` looks up in the cache of the last unit
  (`MacroCallbacks.cc:388`): a macro of another unit may get a reference to a
  static function it shares no file with, though `Component.h:106` says of
  `TULocal` "scoped to translation unit". The global `MacroMap` leads to the same.
- `_currentStructure` is used after the visit of the fields as if no other type
  had been visited in between (`ReferenceBuilder.cc:432`): another record gets
  the macros left. `VisitVarDecl` makes the same mistake (line 290): for
  `tests/anonvar.c:5` the inner union gets the variable as its parent.
- A structure that has its fields is not traversed in a later unit, so its
  anonymous types get no names in that AST (line 405), and neither accesses to
  their members nor casts to them are recorded.
- `VisitVarDecl` returns when it finds the variable (line 269): the initializer
  of a variable that was declared before is never traversed.
- A static variable of a function is looked up by name (line 681): the reference
  goes to a global of that name.
- Fields without a name are taken for the first of them (line 717).
- Anonymous types are named by their owner and an ordinal (lines 281, 509): the type
  of a variable `A` and the first anonymous type in `struct A` are both
  `A::anon`, one component for two structures - the second is not
  traversed, as the first has its fields already, and its fields are lost.
- A `struct` that is declared without its fields gets an empty structure, which
  `DiscoverTypeReferences` then takes for one that was visited (line 580): it has no
  fields until the visit of its definition at its own turn.
- Two definitions of a structure of one name, in two units or of two blocks, are one
  component with the fields of the one visited first (line 405).
- A typedef of a structure that a field has made its child takes it away (line
  377): which of the two is the parent depends on the order of the visits.
- In a later unit an anonymous type of a structure that has its fields has no
  name. A designator into it, as in `static struct B b = { .x.y[0] = e };` in a header,
  looks it up without one and reads the fields of NULL (line 808). So does one into
  an anonymous structure within the second of the two `A::anon` above.
- An element without a designator is indexed by its place in the list (line 784),
  also behind one with a designator: of `{ .y = 1, G }`, where `y` is the second
  field, `G` initializes the third and gets the index of the second. Inner braces
  that are left out shift the places, too.
- `[2] = e` in an initializer has more sub-expressions than designators, and
  `getDesignator(k)` reads past them (line 788).
- Inheritance (lines 860-876): "has subject as its beginning" includes a first
  field that is a pointer to the subject, and not one spelled as a typedef.
- An initializer expression that itself is a name, an access or a cast is not
  looked at, only what is below it (line 662).
- A redefinition of a macro before its completion appends to the arguments of
  the former one (`MacroCallbacks.cc:134`).
- Two declarations at the same line and column of two files are one
  (`Artifacts.h:46`).
- A signal before `-d` is read is forgotten (`inquiry.cc:115`), one before
  line 139 may end the process. `-collection -collection -d 5` exports to
  a collection named "-d", as values of options are read as options.
- `main` prints the number of documents mapped as exported even if the server
  refused the connection (`inquiry.cc:177,191`).

## 5. Proofs

Every theorem holds for all values of the constants: any files, names, macros,
programs, command lines. What is assumed of them is stated by `StoreAssumption`,
`ExportAssumption`, `ReferenceAssumption`, `MacroAssumption`, `VisitorAssumption`,
`DriverAssumption` and `DeclarationAssumption`, which TLC evaluates in each run.
`MaxLinks`, `MaxRecords` and the like are only required to be numbers. Each inductive
invariant is checked by a run before anything is proved of it.

What is proved *whatever the sources*, and what only from `SeparateSources`:

| whatever the sources | from `SeparateSources` |
|---|---|
| `TypeOK`, `GlobalsKept` (store and export) | `IInv`, `NoOrphan`, `CacheScoped`, `CacheComplete` |
| `LossesAccounted` | `EntityOnce`, `ImplementsRegistry` |
| `MacroInv`, `StackDistinct`, `CompleteAtEnd`, `MentionsKept`, `MacrosBound` | `IInv` and `CacheComplete` under the macro callbacks |
| `SubstitutionResolved`, if `EndSourceFile` does not run | `ExportSafe`, `ExportComplete`, if all types are mapped |
| `VisitorInv`, `NoReentry`, `FieldsKept`, `ArgumentsOfDefinition`, `OnlyDesignatorsStray` | |
| `NoReferenceLost`, `DeclarationsKept`, `LevelFollowsSignals`, `OptionsOfSynopsis` | |

**Store** (`ComponentStoreProofs`). `GlobalsKept` needs only `TypeOK`: a global is
bound after a lookup in the very set it is inserted into. `NoOrphan` is not
inductive: that the insert into `File::components` is not refused follows from
the miss of the lookup only if the cache is complete for the file; that it is
complete when a unit begins needs that nothing is bound to a main file before
its turn (`FutureMainsEmpty`), which needs that components live in the file
they are bound to (`MembersAtHome`) and that a unit only enters its own main
file and headers (`EntersOwnSources`). `IInv` is their conjunction; there is one
lemma per action. `BoundFileIsReal` shows that `_lastfile` never changes the
result of `bind`.

**Refinement** (`ComponentStoreProofs`, too). `KeysUnique` (no two components of a key in
a scope) is kept because `IInv` makes a miss of the lookup mean that the scope has
none. Then each action maps to one of `Registry` or a stutter: a lookup in the
caches answers with an entity that `Registry` may answer with, a bind declares
exactly when nothing in scope has the name.

**Export** (`DocumentExportProofs`). `ExportAnyInv` holds whatever the sources.
`MapKept` says that the document map is what `MapComponents` would find at any time
until the process ends: the files that are made while locations are printed have no
components, as every component is in the file it was bound to (`MembersAtHome`).
`SentSoFar` says that what the iterator has passed is stored or lost, and
`RefersToMapped` what `Dump` checks. With `GlobalsKept`, `LossesAccounted` follows at
the end (`NothingElseLost`).
With separate sources, and all types mapped (a C++ class has type 0 and gets no
document), `DMap` is the whole heap once mapped (`MapComplete`), which the export
does not change: `DumpUnmapped` is never enabled, and by `SentSoFar` each component
has its document at the report.

**Macros** (`MacroTableProofs`). `MacroInv` is the conjunction of: `TableClosed`,
whatever a macro mentions is in the table; `Owned`, a macro is complete exactly when
it has a component, its own, which `MapComponents` finds, and no other component is a
macro of its name (`MacrosBound`); `WalkInPhase`, what the
walk may be doing in which phase; `Queued`, a macro that is incomplete has a record
in `MRQ` ahead of the walk (so none survives: `CompleteAtEnd`); `Running`, a call
of `CompleteDefinition` is for a macro that has its component already - thus no
second call for it can begin (`StackDistinct`) - and a mention that is not a
reference yet is pending with an incomplete macro or in the loop of a call
(`MentionsKept`). `MacrosKeepStore` carries `IInv` over: by `StoreSteps` whatever the
callbacks do to the store is a step of `ComponentStore`, references, or a
macro's component, and by `Owned` such a bind without lookup is as good as one after
a miss. `SubstitutionsResolved` adds `Deferred`: what is not resolved waits in the
queue of `PostProcessMacros`, which looks in the cache of the last unit. It assumes
`~EndSourceFileDispatched`; where clang does call `EndSourceFile`, that cache is
freed when it is read.

**Visitor** (`VisitorProofs`). That a record is bound before its fields are looked at
keeps a cycle of *named* types from leading back into it, but an anonymous type is
visited for what it is renamed to, found or not. `NestingInv` therefore says of any
two calls in progress that the inner one is about no record that the outer one
traverses, nor one the outer one is within: names grow inwards (`Within`), a record
without a structure has a plain name (`WellNamed`), and what it could be a part of
is bound before (`Rooted`). The homonyms of section 4 break exactly that, hence
`NamesApart`. There is one lemma for each visitor that may be entered and one for
each action, those of `Statements` included.

That the visitors find what they assert takes an invariant of the calls that wait,
for the calls they make bind, rename and set `_currentStructure` at will. `Waits` says
what each counts on: a record at a field, that the type of the field has a name and,
once visited, a structure, and that `_currentStructure` is one; a typedef, that its type
has a structure; a variable that adopts, that its type was visited last. It is kept
because nothing is unbound and a name, once given, stays (`StoreKept`, `NamesKept`),
and because a visit leaves a structure for what has a name (`EnterShape`,
`BoundOrFound`), whichever call asked for it. `BelowWait` carries it over for all
calls but the innermost one, so an action only answers for its own (`HeadGoesOn`,
`Returned`, `CallMade`). `OnlyDesignatorsAbort` follows: whatever the program, the one
place left where the visitors can stop is an element with designators in
`TraverseInitializer`.
`OnlyDesignatorsStray` is no property of a run: `AssertionsHold`, which `visitor` checks, says
more of the programs it is about, namely that designators do not stray either.

**Structures** (`FieldsProofs`). That a record has the fields of its definition is no
invariant while it is traversed, and what is in between depends on all calls in
progress: each may visit other records, rename types and bind structures. `BuildInv`
says of what each structure is built: a record that is traversed has the fields before
the one its call is at, and its anonymous types got the numbers it has counted
(`Builds`); any other structure has the fields of every definition that has its name or
may get it, or has none, and then nothing is named after it (`Built`). For that to be
kept when an anonymous type is renamed, no two types may be renamed to the same name
(`NamesBuilt`): the ordinal of a new one is above those of all types named after the
record, whoever named them, for only one call traverses it (`NoReentry`), and a record
whose traversal is yet to begin has no fields, thus no type named after it. `Denotes`
says which names a type may get from its variable or typedef, in any unit: a
structure that is found, rather than made, was built in a former unit from the same
definition. `Unbuilt` are the records of which only a declaration was visited. An
action keeps `BuildInv` if it keeps what it says of the structures it does not touch
(`StillBuilt`), so there is one lemma for what a push, a new name, a bind and the end
of a traversal do (`FieldPushBuilds`, `NamingBuilds`, `UnitBuilds`, ...), used by the
actions of all visitors. `FieldsKept` follows between two declarations, where no call
is in progress.

**Functions** (`FunctionProofs`). While the visitor of a definition fills in the
arguments it visits their types, so neither the arguments nor `argscomplete` say
what the function will have in the end. `FunctionInv` therefore tells what each
declaration that was visited has got so far (`Argued`, `Refers`) or is still owed by
a call in progress (`Completed`, `ReturnReferred`); `Makes` says how far that call is.
It is the outermost one: no type leads to a function, so `VisitFunctionDecl` is only
called for top-level declarations, and its loop over the arguments runs within it
(`depth`). A reference is made right away, or a second time after a visit of the type,
which therefore must bring the structure: `Comes` says that it is there or is being
bound by a typedef further out. That the next declaration finds the same component,
and the one of another function or unit does not, is `FunctionStore`: nothing but
variables and functions is bound to a file, no two components of a scope are alike,
and a static function in the cache was declared in this unit (`UnitFits`). As calls of
all visitors and traversals come in between, `FunctionMoves` says once what a step must
leave alone, and `PlainStep`, `FunctionStays` and `Continues` show it of them. What is
assumed is `Prototyped`, which C demands: all declarations of a function agree in what they
return, there is one definition, and a prototype of a function with arguments has them, too.
`ArgumentsOfDefinition` follows at the end of a unit.

**References, declarations.** Though `Less` is no strict weak order, two references
of which neither is less are equal (`IncomparableEqual`), so an insertion is only
refused for a reference that is there. A declaration is only refused for one of the same
line and column.

**Driver** (`DriverProofs`). `LevelFollowsSignals` by itself is not inductive: a handler
stores what it loaded, which may be long ago. `LevelInv` adds that what a handler
has loaded is within the range that the signals since span - which only grows while
a handler runs, for main, which alone resets it, waits - and that, unless a handler
interrupted another, at most one runs and the level is still what it loaded.
`CommandInv` describes `main`'s loops: of the words it has passed, the last flag with a
value before the first `-cc` has set its option. For a line of the manual's form
that makes the options those given (`OptionsAsDocumented`).

Only model-checked: liveness (outside the prover's reach) - `ExportEnds`,
`ExportStops`, `WalksEnd`, `VisitEnds`, `MainEnds`. Of `Visitor`: the properties about the
use of macros (`FieldMacrosUsedIfLinear`, `LeftMacrosUsedIfLinear`), about a queue of
places that every visitor erases from, for which an invariant that orders all visits in
the source would be needed; `FieldsAdopted`; and of `AssertionsHold` the part about
designators: it is about programs whose designators lead to the fields of the type
that is initialized, which `Programs` does not say. Of `Statements`: `BodyReferred`,
`MembersReferred`, `InheritanceFound`, `FunctionMacrosUsed` and
`InitializersIndexedIfApart`.

## 6. Not modelled

- `MacroExpanded` and `ConcatTokens`, which collect the identifiers of an
  expansion. In `MacroTable` whether a macro matches a function by name is chosen
  freely; in `Visitor` the names an expansion mentions are part of the program.
- The spelling of types and values kept for documents; terminal output.
- `Visitor` and `MacroTable` are not composed: in `Visitor` macros are complete and
  each expansion is of a macro of its own, in `MacroTable` visits are of functions at places chosen freely.
- `src/types.h` `Pointer`: the order of pending references is left open.
- clang, the MongoDB driver, the driver's own test program, the build.

## 7. What is left

Proofs that would go on from here: `FieldsAdopted` and the rest of `AssertionsHold`, from
`BuildInv`; `BodyReferred` and `MembersReferred`, the references a body makes, for
which an invariant of the traversal of statements is needed like `FunctionInv` for
arguments. To model: `Visitor` and `MacroTable` composed.
