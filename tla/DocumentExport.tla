--------------------------- MODULE DocumentExport ---------------------------
(***************************************************************************)
(* What main() does once clang has processed every main file:              *)
(* MapComponents() gives each component it finds a Document, with an oid   *)
(* of its own, and DumpDocuments() writes the documents to a MongoDB       *)
(* collection, where references and parents are oids of other documents.   *)
(*                                                                         *)
(* An oid is generated for each Document and a component has at most one,  *)
(* so the oid of a component's document is named by the component.         *)
(***************************************************************************)
EXTENDS ComponentStore

CONSTANTS
  Mapped,       \* types that isStructure, isData or isFunction recognise
  ServerFails   \* may MongoDB refuse a connection or lose an insert?

ASSUME ExportAssumption == ServerFails \in BOOLEAN

VARIABLES
  DMap,         \* components with a Document (DMap's values are not NULL)
  pc,           \* where main() is
  todo,         \* DumpDocuments(): what the iterator has not reached
  collection,   \* the documents the server stores
  lost          \* history: the documents the server refused or lost

exportVars == <<DMap, pc, todo, collection, lost>>

ExportInit ==
  /\ Init
  /\ DMap = {} /\ pc = "processing" /\ todo = {} /\ collection = {} /\ lost = {}

(* Slip: only the main files are searched.                                 *)
Found_MainFiles ==
  Components \cup UNION {components[TranslationUnits[k]] : k \in 1..TU}

(* The components in Components and in the File of every translation unit. *)
Found == Components \cup UNION {components[f] : f \in AllFiles}

(* A component whose type is 0 (a C++ class) gets no Document.             *)
MapComponents ==
  /\ pc = "processing" /\ phase = "idle" /\ TU = Len(Mains)
  /\ DMap' = {c \in Found : heap[c].type \in Mapped}
  /\ pc' = "mapped"
  /\ UNCHANGED <<vars, todo, collection, lost>>

Connect ==
  /\ pc = "mapped"
  /\ pc' = "dumping" /\ todo' = DMap
  /\ UNCHANGED <<vars, DMap, collection, lost>>

ConnectFails ==
  /\ pc = "mapped" /\ ServerFails
  /\ pc' = "dumped" /\ lost' = DMap
  /\ UNCHANGED <<vars, DMap, todo, collection>>

(* The oids written into the document of c: its references and its parent. *)
Targets(c) == {l[2] : l \in {r \in references : r[1] = c}} \cup ({parent[c]} \ {NULL})

Doc(c) == [_id |-> c, oids |-> Targets(c)]

(* Location::str() resolves the file of every location it prints, which    *)
(* makes a File for a name that no file was entered under.                 *)
ResolveLocations ==
  \E R \in SUBSET Remapped : AllFiles' = AllFiles \cup {RealPath[p] : p \in R}

storeVarsButFiles == <<heap, references, parent, components, Components,
                       TranslationUnits, allComponents, context, lastfile>>

(* Slip: the iterator is not advanced.                                     *)
Dump_Stuck(c) ==
  /\ pc = "dumping" /\ c \in todo
  /\ collection' = collection \cup {Doc(c)}
  /\ UNCHANGED <<vars, DMap, pc, todo, lost>>

(* generate##type and mongo_insert, which is not acknowledged.             *)
Dump(c) ==
  /\ pc = "dumping" /\ c \in todo
  /\ Targets(c) \subseteq DMap
  /\ ResolveLocations
  /\ todo' = todo \ {c}
  /\ \/ collection' = collection \cup {Doc(c)} /\ UNCHANGED lost
     \/ ServerFails /\ lost' = lost \cup {c} /\ UNCHANGED collection
  /\ UNCHANGED <<storeVarsButFiles, clangVars, DMap, pc>>

(* &DMap[target]->_oid of a target that MapComponents() did not find: the  *)
(* subscript makes a NULL entry and bson_append_oid reads through it.      *)
DumpUnmapped(c) ==
  /\ pc = "dumping" /\ c \in todo
  /\ ~(Targets(c) \subseteq DMap)
  /\ pc' = "crashed"
  /\ UNCHANGED <<vars, DMap, todo, collection, lost>>

(* Slip: the loop stops before the last document.                          *)
DumpEnds_Early ==
  /\ pc = "dumping" /\ Cardinality(todo) <= 1
  /\ pc' = "dumped"
  /\ UNCHANGED <<vars, DMap, todo, collection, lost>>

(* The index on references.oid is created and the connection closed.       *)
DumpEnds ==
  /\ pc = "dumping" /\ todo = {}
  /\ pc' = "dumped"
  /\ UNCHANGED <<vars, DMap, todo, collection, lost>>

(* main() does not look at what DumpDocuments() returned.                  *)
Report ==
  /\ pc = "dumped"
  /\ pc' = "exited"
  /\ UNCHANGED <<vars, DMap, todo, collection, lost>>

Process == pc = "processing" /\ Next /\ UNCHANGED exportVars

Export ==
  \/ MapComponents \/ Connect \/ ConnectFails
  \/ \E c \in DMap : Dump(c)
  \/ \E c \in DMap : DumpUnmapped(c)
  \/ DumpEnds \/ Report

ExportNext == Process \/ Export

(* main() is one thread that, past the last translation unit, only runs    *)
(* the export: it takes its next step as long as there is one.             *)
ExportSpec == ExportInit /\ [][ExportNext]_<<vars, exportVars>> /\ WF_<<vars, exportVars>>(Export)

-----------------------------------------------------------------------------
ExportTypeOK ==
  /\ TypeOK
  /\ DMap \subseteq Address /\ todo \subseteq DMap
  /\ pc \in {"processing", "mapped", "dumping", "dumped", "exited", "crashed"}
  /\ collection \subseteq [_id : DMap, oids : SUBSET Address]
  /\ lost \subseteq DMap

(* The export never reads through a NULL Document: every component that a  *)
(* reference or a parent leads to was given a Document by MapComponents(). *)
ExportSafe == pc # "crashed"

Stored == {d._id : d \in collection}

(* An export the server did not interrupt leaves a document of every       *)
(* component that a visitor allocated, and no reference that dangles.      *)
ExportComplete == pc = "exited" /\ lost = {} =>
  Stored = Address /\ \A d \in collection : d.oids \subseteq Stored

(* Whatever the sources, of an export that comes to its end nothing but    *)
(* what the server lost is missing: no component that is not TULocal, of   *)
(* the types that are exported, and nothing a document refers to.          *)
LossesAccounted == pc = "exited" =>
  /\ \A c \in Address : ~heap[c].local /\ heap[c].type \in Mapped => c \in Stored \cup lost
  /\ \A d \in collection : d.oids \subseteq Stored \cup lost

(* Once mapped, the model is exported: main() returns.                     *)
ExportEnds == pc = "mapped" ~> pc = "exited"

(* Whatever the sources, the export does not go on for ever.               *)
ExportStops == pc = "mapped" ~> pc \in {"exited", "crashed"}

-----------------------------------------------------------------------------
(* The inductive invariant that needs nothing of the sources.              *)

(* The document map is what MapComponents() finds, also at the end: the    *)
(* Files that the dump makes have no components.                           *)
MapKept == DMap = IF pc = "processing" THEN {} ELSE {c \in Found : heap[c].type \in Mapped}

(* What the server got or lost are the documents the iterator has passed.  *)
SentSoFar ==
  /\ Stored \cup lost = IF pc \in {"processing", "mapped"} THEN {} ELSE DMap \ todo
  /\ pc \notin {"dumping", "crashed"} => todo = {}

(* A document refers to mapped components only.                            *)
RefersToMapped == \A d \in collection : d.oids \subseteq DMap

ExportAnyInv ==
  /\ ExportTypeOK /\ GlobalsKept /\ MembersAtHome
  /\ MapKept /\ SentSoFar /\ RefersToMapped

(* For separate sources of mapped types, MapComponents() finds every       *)
(* component.                                                              *)
MapComplete == DMap = IF pc = "processing" THEN {} ELSE Address

ExportInv == ExportAnyInv /\ IInv /\ MapComplete /\ ExportSafe
=============================================================================
