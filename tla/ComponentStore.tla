--------------------------- MODULE ComponentStore ---------------------------
(***************************************************************************)
(* The in-memory model of inquiry (src/model): the heap of Components, the *)
(* global set Model::Components, one ComponentSet per File, the set of     *)
(* Files keyed by their resolved name, and the "lookup cache" that the     *)
(* active TranslationUnit keeps of the components scoped to a translation  *)
(* unit (TULocal).                                                         *)
(*                                                                         *)
(* The handlers that drive the store (preprocessor callbacks, AST visitor) *)
(* appear here through the calls they make: File::create, include, bind,   *)
(* lookup, Component::reference.  What clang hands them - which headers a  *)
(* file enters, which declarations it holds - is chosen freely.            *)
(***************************************************************************)
EXTENDS Naturals, Sequences, FiniteSets

CONSTANTS
  Types,         \* TYPE_*, DATA_*, FUNCTION_* (Component::type)
  Ids,           \* identifiers (Component::id)
  Kinds,         \* ReferenceDesc: the kind of a reference with its argument index
  Paths,         \* file names as spelled in argv, #include and #line
  RealPath,      \* realpath(3): the resolved name of each spelling ("" if none)
  NoFile,        \* a NULL File *
  Mains,         \* argv after -cc: the main files, in the order processed
  Headers,       \* spellings the preprocessor may enter
  Remapped,      \* spellings a location may have though no file of that name
                 \* is entered: #line directives, <command line>
  MaxLinks,      \* bound: references and parents recorded in one invocation
  EndSourceFileDispatched
    \* does clang call inquiry's EndSourceFile?  (only if FrontendAction
    \* declares it virtual, which depends on the clang built against)

Files == {RealPath[p] : p \in Paths}

ASSUME StoreAssumption ==
  /\ RealPath \in [Paths -> Paths]
  /\ \A p \in Paths : RealPath[RealPath[p]] = RealPath[p]
  /\ NoFile \notin Paths
  /\ Mains \in Seq(Paths)
  /\ Headers \subseteq Paths
  /\ Remapped \subseteq Paths
  /\ MaxLinks \in Nat
  /\ EndSourceFileDispatched \in BOOLEAN

NULL == 0  \* a null Component * (addresses are positions of the heap, from 1)

VARIABLES
  heap,             \* every Component ever allocated; none is ever freed
  references,       \* <<from, to, kind>>: from's references hold (to, kind)
  parent,           \* Component::parent of each component
  AllFiles,         \* set<File> AllFiles
  components,       \* File::components, {} for a name without a File yet
  Components,       \* ComponentSet Model::Components
  TranslationUnits, \* mainFile of each TranslationUnit created
  allComponents,    \* TU->allComponents: the lookup cache of the active TU
  context,          \* has the cache been allocated, has it been deleted?
  lastfile,         \* bind's static File *_lastfile (bind is static inline: each
                    \* .cc file has one; as BoundFile never depends on its
                    \* value, one stands for them all)
  phase,            \* what clang is doing with the current main file
  entered           \* spellings of the files entered in the current TU

storeVars == <<heap, references, parent, AllFiles, components, Components,
               TranslationUnits, allComponents, context, lastfile>>
clangVars == <<phase, entered>>
vars == <<storeVars, clangVars>>

-----------------------------------------------------------------------------
(* Names, scopes and keys                                                  *)

TU == Len(TranslationUnits)   \* Model::TU, the last one created

Scope == {RealPath[p] : p \in entered}  \* files of the active TU

(* component_ptr_less orders by (type, id); its test of invalid            *)
(* definitions only returns the FALSE that two equal ids return anyway.  A *)
(* set therefore holds one component of a (type, id).                      *)
Matches(c, t, i) == heap[c].type = t /\ heap[c].id = i

HasKey(S, t, i) == \E c \in S : Matches(c, t, i)

Find(S, t, i) == IF HasKey(S, t, i) THEN CHOOSE c \in S : Matches(c, t, i)
                                    ELSE NULL

(* set::insert of a component c with key (t, i): refused if the key exists *)
Insert(S, c, t, i) == IF HasKey(S, t, i) THEN S ELSE S \cup {c}

(* lookup<T>: the cache of the active TU first, then - in LOOKUP_FULL mode *)
(* only - the global set.                                                  *)
LookupLocal(t, i) == Find(allComponents, t, i)
(* Slip: the order of the two searches swapped.                            *)
LookupFull_GlobalFirst(t, i) ==
  IF HasKey(Components, t, i) THEN Find(Components, t, i) ELSE LookupLocal(t, i)

LookupFull(t, i)  == IF HasKey(allComponents, t, i) THEN LookupLocal(t, i)
                                                    ELSE Find(Components, t, i)

(* Slip: the default mode is LOOKUP_LOCAL.                                 *)
Lookup_AlwaysLocal(t, i, local) == LookupLocal(t, i)

(* The visitors pass the component's flags as the lookup mode: TULocal and *)
(* LOOKUP_LOCAL are both 1.                                                *)
Lookup(t, i, local) == IF local THEN LookupLocal(t, i) ELSE LookupFull(t, i)

-----------------------------------------------------------------------------
(* bind(object, filename), for an object just allocated                    *)

(* Slip: _lastfile used without comparing its name.                        *)
BoundFile_Stale(p) == IF lastfile # NoFile THEN lastfile ELSE RealPath[p]

BoundFile(p) == IF lastfile = p THEN lastfile ELSE RealPath[p]

Record(t, i, local, f) == [type |-> t, id |-> i, local |-> local, home |-> f]

(* Slip: the component goes to the cache but not to its File.              *)
BindLocal_CacheOnly(t, i, p) ==
  /\ heap' = Append(heap, Record(t, i, TRUE, BoundFile(p)))
  /\ parent' = Append(parent, NULL)
  /\ lastfile' = BoundFile(p)
  /\ AllFiles' = AllFiles \cup {BoundFile(p)}
  /\ allComponents' = Insert(allComponents, Len(heap) + 1, t, i)
  /\ UNCHANGED <<components, Components>>

BindLocal(t, i, p) ==
  LET o == Len(heap) + 1
      f == BoundFile(p)
  IN  /\ heap' = Append(heap, Record(t, i, TRUE, f))
      /\ parent' = Append(parent, NULL)
      /\ lastfile' = f
      /\ AllFiles' = AllFiles \cup {f}
      /\ components' = [components EXCEPT ![f] = Insert(@, o, t, i)]
      /\ allComponents' = Insert(allComponents, o, t, i)
      /\ UNCHANGED Components

(* Slip: the component is made by the constructor that sets no parent.     *)
BindGlobal_NoParent(t, i) ==
  /\ heap' = Append(heap, Record(t, i, FALSE, NoFile))
  /\ Components' = Insert(Components, Len(heap) + 1, t, i)
  /\ UNCHANGED <<parent, lastfile, AllFiles, components, allComponents>>

BindGlobal(t, i) ==
  LET o == Len(heap) + 1
  IN  /\ heap' = Append(heap, Record(t, i, FALSE, NoFile))
      /\ parent' = Append(parent, NULL)
      /\ Components' = Insert(Components, o, t, i)
      /\ UNCHANGED <<lastfile, AllFiles, components, allComponents>>

Bind(t, i, local, p) == IF local THEN BindLocal(t, i, p) ELSE BindGlobal(t, i)

-----------------------------------------------------------------------------
Init ==
  /\ heap = <<>> /\ references = {} /\ parent = <<>>
  /\ AllFiles = {} /\ components = [f \in Files |-> {}]
  /\ Components = {}
  /\ TranslationUnits = <<>> /\ allComponents = {} /\ context = "none"
  /\ lastfile = NoFile
  /\ phase = "idle" /\ entered = {}

(* Slip: enterContext is not called and the cache of the last TU stays.    *)
CreateASTConsumer_KeepsCache ==
  /\ phase = "idle" /\ TU < Len(Mains)
  /\ TranslationUnits' = Append(TranslationUnits, RealPath[Mains[TU + 1]])
  /\ AllFiles' = AllFiles \cup {RealPath[Mains[TU + 1]]}
  /\ entered' = {Mains[TU + 1]}
  /\ context' = "entered" /\ phase' = "preprocess"
  /\ UNCHANGED <<heap, references, parent, components, Components, allComponents, lastfile>>

(* ASTReferenceAnalysisAction::CreateASTConsumer: TranslationUnit::create  *)
(* makes a TU whatever its main file (the set it is inserted in compares   *)
(* addresses), then enterContext allocates an empty cache.  The main file  *)
(* is not include()d.                                                      *)
CreateASTConsumer ==
  /\ phase = "idle" /\ TU < Len(Mains)
  /\ LET p == Mains[TU + 1]
     IN  /\ TranslationUnits' = Append(TranslationUnits, RealPath[p])
         /\ AllFiles' = AllFiles \cup {RealPath[p]}
         /\ entered' = {p}
  /\ allComponents' = {} /\ context' = "entered"
  /\ phase' = "preprocess"
  /\ UNCHANGED <<heap, references, parent, components, Components, lastfile>>

(* Slip: a file that has been entered before is taken for cached.          *)
Cached_Once(f) == IF f \in AllFiles THEN {} ELSE components[f]

(* The cache after include() inserted the components of file f in it.      *)
Cached(f) == {c \in components[f] : ~HasKey(allComponents, heap[c].type, heap[c].id)}

(* FileChanged(EnterFile) of a file other than the main one, and           *)
(* TranslationUnit::include.                                               *)
Include(p) ==
  /\ phase = "preprocess" /\ p \in Headers
  /\ AllFiles' = AllFiles \cup {RealPath[p]}
  /\ allComponents' = allComponents \cup Cached(RealPath[p])
  /\ entered' = entered \cup {p}
  /\ UNCHANGED <<heap, references, parent, components, Components,
                 TranslationUnits, context, lastfile, phase>>

(* clang has parsed the file and calls HandleTranslationUnit.              *)
HandleTranslationUnit ==
  /\ phase = "preprocess" /\ phase' = "ast"
  /\ UNCHANGED <<storeVars, entered>>

(* What every Visit method starts with: look the identifier up, and on a   *)
(* miss allocate a component and bind it to the file its location names.   *)
Declare(t, i, local, p) ==
  /\ phase = "ast" /\ p \in entered \cup Remapped
  /\ Lookup(t, i, local) = NULL
  /\ Bind(t, i, local, p)
  /\ UNCHANGED <<references, TranslationUnits, context, clangVars>>

(* The components a handler of the active TU can hold a pointer to.        *)
Held == allComponents \cup Components

Links == Cardinality(references) + Cardinality({c \in 1..Len(heap) : parent[c] # NULL})

(* Component::reference(target): a handler refers from a component it      *)
(* holds to the result of a lookup.                                        *)
Refer(c, t, i, k) ==
  /\ phase = "ast" /\ c \in Held
  /\ LookupFull(t, i) # NULL
  /\ <<c, LookupFull(t, i), k>> \notin references
  /\ Links < MaxLinks
  /\ references' = references \cup {<<c, LookupFull(t, i), k>>}
  /\ UNCHANGED <<heap, parent, AllFiles, components, Components,
                 TranslationUnits, allComponents, context, lastfile, clangVars>>

(* anon->parent = sr, underlying->parent = type                            *)
Adopt(c, d) ==
  /\ phase = "ast" /\ c \in Held /\ d \in Held /\ c # d
  /\ parent[c] # NULL \/ Links < MaxLinks
  /\ parent' = [parent EXCEPT ![c] = d]
  /\ UNCHANGED <<heap, references, AllFiles, components, Components,
                 TranslationUnits, allComponents, context, lastfile, clangVars>>

(* clang is done with the file - parsed, or never opened.  leaveContext    *)
(* deletes the cache but leaves Model::TU and the dangling pointer alone.  *)
EndSourceFile ==
  /\ phase \in {"preprocess", "ast"}
  /\ phase' = "idle" /\ entered' = {}
  /\ context' = IF EndSourceFileDispatched THEN "left" ELSE context
  /\ UNCHANGED <<heap, references, parent, AllFiles, components, Components,
                 TranslationUnits, allComponents, lastfile>>

Frontend ==
  \/ CreateASTConsumer
  \/ \E p \in Paths : Include(p)
  \/ HandleTranslationUnit
  \/ EndSourceFile

Handlers ==
  \/ \E t \in Types, i \in Ids, p \in Paths : Declare(t, i, TRUE, p)
  \/ \E t \in Types, i \in Ids, p \in Paths : Declare(t, i, FALSE, p)
  \/ \E c \in 1..Len(heap), t \in Types, i \in Ids, k \in Kinds : Refer(c, t, i, k)
  \/ \E c, d \in 1..Len(heap) : Adopt(c, d)

Next == Frontend \/ Handlers

Spec == Init /\ [][Next]_vars

-----------------------------------------------------------------------------
Component == [type : Types, id : Ids, local : BOOLEAN, home : Files \cup {NoFile}]
Address == 1..Len(heap)

(* Every variable has its type; pointers point into the heap, and the      *)
(* component sets hold components of the right scope.                      *)
TypeOK ==
  /\ heap \in Seq(Component)
  /\ references \subseteq Address \X Address \X Kinds
  /\ parent \in [Address -> Address \cup {NULL}]
  /\ AllFiles \subseteq Files
  /\ components \in [Files -> SUBSET Address]
  /\ Components \subseteq Address
  /\ TranslationUnits \in Seq(Files)
  /\ allComponents \subseteq Address
  /\ context \in {"none", "entered", "left"}
  /\ lastfile \in Files \cup {NoFile}
  /\ phase \in {"idle", "preprocess", "ast"}
  /\ entered \subseteq Paths

(* Component c is in the set MapComponents() will find it in: the set of   *)
(* its File if it is TULocal, Model::Components otherwise.                 *)
Registered(c) == IF heap[c].local THEN /\ heap[c].home \in AllFiles
                                       /\ c \in components[heap[c].home]
                                  ELSE c \in Components

(* No component is lost: whatever a handler allocated and bound, and may   *)
(* have made references to, is found again by MapComponents().  (bind does *)
(* not look at the outcome of its two inserts.)                            *)
NoOrphan == \A c \in Address : Registered(c)

(* Whatever the sources, only TULocal components can be lost: the lookup   *)
(* before a global one is bound always consults Model::Components.         *)
GlobalsKept == \A c \in Address : ~heap[c].local => c \in Components

(* A TULocal component found through the cache lives in a file the active  *)
(* TU has entered: no lookup of a handler leaves the translation unit.     *)
CacheScoped == phase # "idle" =>
  \A c \in allComponents : heap[c].local /\ heap[c].home \in Scope

(* The cache hides nothing: an identifier that some entered file has a     *)
(* TULocal component of is found without consulting the files.             *)
CacheComplete == \A f \in Scope : \A c \in components[f] :
  HasKey(allComponents, heap[c].type, heap[c].id)

(* What argv and the sources must satisfy for the store to be sound: the   *)
(* main files are distinct, no file is both a main file and entered by     *)
(* #include, and no #line directive moves a declaration to another file.   *)
SeparateSources ==
  /\ \A j, k \in 1..Len(Mains) : RealPath[Mains[j]] = RealPath[Mains[k]] => j = k
  /\ \A k \in 1..Len(Mains) : \A p \in Headers : RealPath[Mains[k]] # RealPath[p]
  /\ Remapped = {}

-----------------------------------------------------------------------------
(* The inductive invariant, for sources that are separate.                 *)

(* File::components holds only TULocal components bound to that file.      *)
MembersAtHome == \A f \in Files : \A c \in components[f] :
  heap[c].local /\ heap[c].home = f /\ f \in AllFiles

(* The active TU has entered its own main file and headers, no more.       *)
EntersOwnSources ==
  /\ TU <= Len(Mains)
  /\ phase = "idle" => entered = {}
  /\ phase # "idle" => TU # 0 /\ entered \subseteq Headers \cup {Mains[TU]}

(* No component is bound to a main file before its turn comes.             *)
FutureMainsEmpty == \A k \in TU+1..Len(Mains) : components[RealPath[Mains[k]]] = {}

(* A component that is not TULocal is bound to no File, and only those are *)
(* in Model::Components.                                                   *)
GlobalsApart ==
  /\ \A c \in Address : ~heap[c].local => heap[c].home = NoFile
  /\ \A c \in Components : ~heap[c].local

IInv ==
  /\ TypeOK
  /\ MembersAtHome
  /\ GlobalsApart
  /\ EntersOwnSources
  /\ FutureMainsEmpty
  /\ CacheComplete
  /\ CacheScoped
  /\ NoOrphan

=============================================================================
