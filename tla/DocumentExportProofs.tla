------------------------ MODULE DocumentExportProofs ------------------------
(* Proofs about DocumentExport: what holds of every export, and that for   *)
(* sources that are separate and whose components all have a type that     *)
(* MapComponent() knows, the export finds a Document wherever it looks for *)
(* one and leaves out none.                                                *)
EXTENDS DocumentExport, ComponentStoreProofs

(* What bind puts into the set of a File is at home there; nothing else is *)
(* put there, whatever the sources.                                        *)
LEMMA BindAtHome ==
  ASSUME TypeOK, MembersAtHome, NEW t \in Types, NEW i \in Ids, NEW local \in BOOLEAN,
         NEW p \in Paths, Bind(t, i, local, p)
  PROVE  MembersAtHome'
<1>1. CASE local
  <2> DEFINE o == Len(heap) + 1
             f == RealPath[p]
  <2>1. BindLocal(t, i, p)
    BY <1>1 DEF Bind
  <2>2. /\ o \notin Address /\ \A c \in Address : heap'[c] = heap[c]
        /\ AllFiles' = AllFiles \cup {f}
    BY <2>1, BindLocalEffect
  <2>3. /\ heap'[o] = Record(t, i, TRUE, f)
        /\ components' = [components EXCEPT ![f] = Insert(@, o, t, i)]
    <3>1. heap'[o] = Record(t, i, TRUE, f)
      BY <2>1, BindLocalEffect
    <3>2. components' = [components EXCEPT ![f] = Insert(@, o, t, i)]
      BY <2>1, BoundFileIsReal DEF BindLocal, TypeOK
    <3>3. QED
      BY <3>1, <3>2
  <2>4. components \in [Files -> SUBSET Address]
    BY DEF TypeOK
  <2>5. SUFFICES ASSUME NEW g \in Files, NEW c \in components'[g]
                 PROVE  heap'[c].local /\ heap'[c].home = g /\ g \in AllFiles'
    BY DEF MembersAtHome
  <2>6. CASE c \in components[g]
    BY <2>2, <2>3, <2>4, <2>6 DEF MembersAtHome
  <2>7. CASE c \notin components[g]
    <3>1. g = f /\ c = o
      BY <2>3, <2>4, <2>7 DEF Insert
    <3>2. QED
      BY <2>2, <2>3, <3>1 DEF Record
  <2>8. QED
    BY <2>6, <2>7
<1>2. CASE ~local
  <2>1. BindGlobal(t, i)
    BY <1>2 DEF Bind
  <2>2. (\A c \in Address : heap'[c] = heap[c]) /\ UNCHANGED <<AllFiles, components>>
    BY <2>1, BindGlobalEffect
  <2>3. \A g \in Files : components[g] \subseteq Address
    BY DEF TypeOK
  <2>4. QED
    BY <2>2, <2>3 DEF MembersAtHome
<1>3. QED
  BY <1>1, <1>2

(* The sets of the Files change only when something is bound.              *)
LEMMA HomeStep == TypeOK /\ MembersAtHome /\ [Next]_vars => MembersAtHome'
<1> SUFFICES ASSUME TypeOK, MembersAtHome, [Next]_vars PROVE MembersAtHome'
  OBVIOUS
<1>1. CASE Frontend \/ UNCHANGED vars \/ (\E c, d \in Address : Adopt(c, d))
           \/ (\E c \in Address, t \in Types, i \in Ids, k \in Kinds : Refer(c, t, i, k))
  <2>1. UNCHANGED <<heap, components>> /\ AllFiles \subseteq AllFiles'
    BY <1>1 DEF Frontend, CreateASTConsumer, Include, HandleTranslationUnit, EndSourceFile,
                Adopt, Refer, vars, storeVars, clangVars
  <2>2. QED
    BY <2>1 DEF MembersAtHome
<1>2. ASSUME NEW t \in Types, NEW i \in Ids, NEW p \in Paths, NEW local \in BOOLEAN,
             Declare(t, i, local, p)
      PROVE  MembersAtHome'
  BY <1>2, BindAtHome DEF Declare
<1>3. QED
  BY <1>1, <1>2 DEF Next, Handlers, Address

(* What MapComponents() finds are components.                              *)
LEMMA FoundAllocated == ASSUME TypeOK PROVE Found \subseteq Address
  BY DEF Found, TypeOK

-----------------------------------------------------------------------------
(* What holds whatever the sources.                                        *)

(* A step that leaves store and documents alone keeps what is said of      *)
(* them.                                                                   *)
LEMMA StoreStays ==
  ASSUME ExportAnyInv, UNCHANGED vars
  PROVE  /\ TypeOK' /\ GlobalsKept' /\ MembersAtHome' /\ Address' = Address /\ Found' = Found
         /\ heap' = heap
<1>1. TypeOK' /\ GlobalsKept' /\ MembersAtHome'
  BY TypeStep, GlobalsStep, HomeStep DEF ExportAnyInv, ExportTypeOK
<1>2. Address' = Address /\ Found' = Found /\ heap' = heap
  BY DEF Address, Found, vars, storeVars
<1>3. QED
  BY <1>1, <1>2

(* Nothing is exported before anything is processed.                       *)
LEMMA AnyInit == ExportInit => ExportAnyInv
<1> SUFFICES ASSUME ExportInit PROVE ExportAnyInv
  OBVIOUS
<1>1. TypeOK /\ GlobalsKept /\ MembersAtHome
  BY InitTypes DEF ExportInit, Init, GlobalsKept, MembersAtHome, Address
<1>2. Stored \cup lost = {}
  BY DEF ExportInit, Stored
<1>3. QED
  BY <1>1, <1>2 DEF ExportInit, ExportAnyInv, ExportTypeOK, MapKept, SentSoFar, RefersToMapped

(* A step of the store, while nothing is exported.                         *)
LEMMA AnyProcessStep == ASSUME ExportAnyInv, Process PROVE ExportAnyInv'
<1> USE DEF ExportAnyInv
<1>1. TypeOK' /\ GlobalsKept' /\ MembersAtHome'
  BY TypeStep, GlobalsStep, HomeStep DEF Process, ExportTypeOK
<1>2. pc = "processing" /\ UNCHANGED exportVars
  BY DEF Process
<1>3. DMap = {} /\ todo = {} /\ collection = {} /\ lost = {}
  BY <1>2 DEF ExportTypeOK, MapKept, SentSoFar, Stored
<1>4. UNCHANGED Stored
  BY <1>2 DEF exportVars, Stored
<1>5. ExportTypeOK' /\ MapKept' /\ SentSoFar' /\ RefersToMapped'
  BY <1>1, <1>2, <1>3, <1>4 DEF ExportTypeOK, exportVars, MapKept, SentSoFar, RefersToMapped
<1>6. QED
  BY <1>1, <1>5

(* MapComponents() reads the store and changes nothing in it.              *)
LEMMA AnyMapStep == ASSUME ExportAnyInv, MapComponents PROVE ExportAnyInv'
<1> USE DEF ExportAnyInv
<1>1. /\ UNCHANGED <<vars, todo, collection, lost>>
      /\ pc = "processing" /\ pc' = "mapped"
      /\ DMap' = {c \in Found : heap[c].type \in Mapped}
  BY DEF MapComponents
<1>2. /\ TypeOK' /\ GlobalsKept' /\ MembersAtHome'
      /\ Address' = Address /\ Found' = Found /\ heap' = heap
  BY <1>1, StoreStays
<1>3. todo = {} /\ collection = {} /\ lost = {} /\ UNCHANGED Stored /\ Stored = {}
  BY <1>1 DEF SentSoFar, Stored
<1>4. DMap' \subseteq Address
  BY <1>1, FoundAllocated DEF ExportTypeOK
<1>5. ExportTypeOK' /\ MapKept' /\ SentSoFar' /\ RefersToMapped'
  BY <1>1, <1>2, <1>3, <1>4 DEF ExportTypeOK, MapKept, SentSoFar, RefersToMapped
<1>6. QED
  BY <1>2, <1>5

(* Location::str() may make Files, none of which has a component.          *)
LEMMA ResolveKeeps ==
  ASSUME TypeOK, GlobalsKept, MembersAtHome, ResolveLocations,
         UNCHANGED <<storeVarsButFiles, clangVars>>
  PROVE  TypeOK' /\ GlobalsKept' /\ MembersAtHome' /\ Address' = Address /\ Found' = Found
<1>1. AllFiles \subseteq AllFiles' /\ AllFiles' \subseteq Files
  <2>1. PICK R \in SUBSET Remapped : AllFiles' = AllFiles \cup {RealPath[p] : p \in R}
    BY DEF ResolveLocations
  <2>2. QED
    BY <2>1, StoreAssumption DEF Files, TypeOK
<1>2. Address' = Address /\ UNCHANGED <<heap, components, Components>>
  BY DEF storeVarsButFiles, Address
<1>3. TypeOK'
  BY <1>1, <1>2 DEF TypeOK, storeVarsButFiles, clangVars
<1>4. GlobalsKept' /\ MembersAtHome'
  BY <1>1, <1>2 DEF GlobalsKept, MembersAtHome
<1>5. Found' = Found
  <2>1. \A f \in AllFiles' : components[f] # {} => f \in AllFiles
    BY <1>1 DEF MembersAtHome
  <2>2. QED
    BY <1>1, <1>2, <2>1 DEF Found
<1>6. QED
  BY <1>2, <1>3, <1>4, <1>5

(* A document is only written when all its oids are those of documents.    *)
LEMMA AnyDumpStep == ASSUME ExportAnyInv, NEW c \in DMap, Dump(c) PROVE ExportAnyInv'
<1> USE DEF ExportAnyInv
<1>1. TypeOK' /\ GlobalsKept' /\ MembersAtHome' /\ Address' = Address /\ Found' = Found
  BY ResolveKeeps DEF Dump, ExportTypeOK
<1>2. /\ pc = "dumping" /\ UNCHANGED <<pc, DMap, heap>> /\ todo' = todo \ {c} /\ c \in todo
      /\ \/ collection' = collection \cup {Doc(c)} /\ lost' = lost
         \/ collection' = collection /\ lost' = lost \cup {c}
  BY DEF Dump, storeVarsButFiles
<1>3. /\ Targets(c) \subseteq DMap /\ Doc(c).oids = Targets(c) /\ Doc(c)._id = c
      /\ Doc(c) \in [_id : DMap, oids : SUBSET Address]
  BY DEF Dump, Doc, ExportTypeOK
<1>4. ExportTypeOK'
  BY <1>1, <1>2, <1>3 DEF ExportTypeOK
<1>5. MapKept' /\ RefersToMapped'
  BY <1>1, <1>2, <1>3 DEF MapKept, RefersToMapped
<1>6. SentSoFar'
  <2>1. (Stored \cup lost)' = (Stored \cup lost) \cup {c}
    BY <1>2, <1>3 DEF Stored
  <2>2. Stored \cup lost = DMap \ todo
    BY <1>2 DEF SentSoFar
  <2>3. (Stored \cup lost)' = DMap' \ todo'
    BY <1>2, <2>1, <2>2
  <2>4. QED
    BY <1>2, <2>3 DEF SentSoFar
<1>7. QED
  BY <1>1, <1>4, <1>5, <1>6

(* The other steps of main(), the one into the NULL Document included.     *)
LEMMA AnyQuietStep ==
  ASSUME ExportAnyInv,
         \/ Connect \/ ConnectFails \/ DumpEnds \/ Report
         \/ \E c \in DMap : DumpUnmapped(c)
         \/ UNCHANGED <<vars, exportVars>>
  PROVE  ExportAnyInv'
<1> USE DEF ExportAnyInv
<1>1. UNCHANGED <<vars, DMap, collection>>
  BY DEF Connect, ConnectFails, DumpEnds, Report, DumpUnmapped, exportVars
<1>2. /\ TypeOK' /\ GlobalsKept' /\ MembersAtHome'
      /\ Address' = Address /\ Found' = Found /\ heap' = heap
  BY <1>1, StoreStays
<1>3. /\ todo' \in {todo, DMap} /\ lost' \in {lost, DMap}
      /\ \/ pc' = pc
         \/ pc # "processing" /\ pc' \in {"dumping", "dumped", "exited", "crashed"}
  BY DEF Connect, ConnectFails, DumpEnds, Report, DumpUnmapped, exportVars
<1>4. ExportTypeOK' /\ MapKept' /\ RefersToMapped'
  BY <1>1, <1>2, <1>3 DEF ExportTypeOK, MapKept, RefersToMapped
<1>5. SentSoFar'
  <2>1. UNCHANGED Stored /\ Stored \subseteq DMap
    BY <1>1 DEF Stored, ExportTypeOK
  <2>2. CASE Connect
    BY <2>1, <2>2 DEF Connect, SentSoFar
  <2>3. CASE ConnectFails
    BY <1>1, <2>1, <2>3 DEF ConnectFails, SentSoFar
  <2>4. CASE DumpEnds
    BY <2>1, <2>4 DEF DumpEnds, SentSoFar
  <2>5. CASE Report
    BY <2>1, <2>5 DEF Report, SentSoFar
  <2>6. CASE \E c \in DMap : DumpUnmapped(c)
    BY <2>1, <2>6 DEF DumpUnmapped, SentSoFar
  <2>7. CASE UNCHANGED <<vars, exportVars>>
    BY <2>1, <2>7 DEF exportVars, SentSoFar
  <2>8. QED
    BY <2>2, <2>3, <2>4, <2>5, <2>6, <2>7
<1>6. QED
  BY <1>2, <1>4, <1>5

(* Every step of the store or of the export                                *)
LEMMA AnyStep == ExportAnyInv /\ [ExportNext]_<<vars, exportVars>> => ExportAnyInv'
  BY AnyProcessStep, AnyMapStep, AnyDumpStep, AnyQuietStep DEF ExportNext, Export

(* ExportAnyInv: whatever the sources, the document map is what            *)
(* MapComponents() found, and a document that DumpDocuments() has passed   *)
(* is stored or lost.                                                      *)
THEOREM AnyInvariance == ExportSpec => []ExportAnyInv
  BY AnyInit, AnyStep, PTL DEF ExportSpec

(* GlobalsKept: no global component is ever lost, whichever files include  *)
(* or rename each other.                                                   *)
THEOREM GlobalsExported == ExportSpec => []GlobalsKept
<1>1. ExportAnyInv => GlobalsKept
  BY DEF ExportAnyInv
<1>2. QED
  BY <1>1, AnyInvariance, PTL

(* LossesAccounted: whatever the sources and however the server fails, at  *)
(* the end nothing is missing but what the server lost: neither a global   *)
(* component nor one that a document refers to.                            *)
THEOREM NothingElseLost == ExportSpec => []LossesAccounted
<1>1. ExportAnyInv => LossesAccounted
  <2> SUFFICES ASSUME ExportAnyInv, pc = "exited"
               PROVE  /\ \A c \in Address : ~heap[c].local /\ heap[c].type \in Mapped =>
                                            c \in Stored \cup lost
                      /\ \A d \in collection : d.oids \subseteq Stored \cup lost
    BY DEF LossesAccounted
  <2>1. Stored \cup lost = DMap
    BY DEF ExportAnyInv, SentSoFar
  <2>2. ASSUME NEW c \in Address, ~heap[c].local, heap[c].type \in Mapped PROVE c \in DMap
    BY <2>2 DEF ExportAnyInv, GlobalsKept, MapKept, Found
  <2>3. QED
    BY <2>1, <2>2 DEF ExportAnyInv, RefersToMapped
<1>2. QED
  BY <1>1, AnyInvariance, PTL

-----------------------------------------------------------------------------
(* What holds of separate sources of mapped types.                         *)

(* MapComponents() comes across every component there is.                  *)
LEMMA FoundIsAddress == ASSUME TypeOK, NoOrphan PROVE Found = Address
<1>1. ASSUME NEW c \in Address PROVE c \in Found
  BY DEF NoOrphan, Registered, Found
<1>2. QED
  BY <1>1, FoundAllocated

(* ... and gives each of them a Document.                                  *)
LEMMA MappedIsAddress ==
  ASSUME Types \subseteq Mapped PROVE ExportAnyInv /\ IInv => MapComplete
<1> SUFFICES ASSUME ExportAnyInv, IInv PROVE MapComplete
  OBVIOUS
<1>1. ASSUME NEW c \in Address PROVE heap[c].type \in Mapped
  <2>1. heap[c] \in Component
    BY DEF IInv, TypeOK, Address
  <2>2. QED
    BY <2>1 DEF Component
<1>2. Found = Address
  BY FoundIsAddress DEF IInv
<1>3. QED
  BY <1>1, <1>2 DEF ExportAnyInv, MapKept, MapComplete

(* References and parents are components.                                  *)
LEMMA TargetsAreComponents == ASSUME TypeOK, NEW c \in Address PROVE Targets(c) \subseteq Address
<1>1. ASSUME NEW l \in references PROVE l[2] \in Address
  BY DEF TypeOK
<1>2. parent[c] \in Address \cup {NULL}
  BY DEF TypeOK
<1>3. QED
  BY <1>1, <1>2 DEF Targets

(* The NULL Document is never met.                                         *)
LEMMA NoDumpUnmapped == ASSUME ExportInv, NEW c \in DMap PROVE ~DumpUnmapped(c)
<1>1. pc = "dumping" => DMap = Address
  BY DEF ExportInv, MapComplete
<1>2. pc = "dumping" => Targets(c) \subseteq DMap
  BY <1>1, TargetsAreComponents DEF ExportInv, IInv
<1>3. QED
  BY <1>2 DEF DumpUnmapped

(* The export leaves a store of separate sources alone.                    *)
LEMMA ExportKeepsStore ==
  ASSUME SeparateSources, [ExportNext]_<<vars, exportVars>> PROVE [Next]_vars
<1>1. ASSUME NEW c \in DMap, Dump(c) PROVE UNCHANGED vars
  BY <1>1 DEF Dump, ResolveLocations, storeVarsButFiles, SeparateSources, vars, storeVars, clangVars
<1>2. QED
  BY <1>1 DEF ExportNext, Export, Process, MapComponents, Connect, ConnectFails, DumpUnmapped,
              DumpEnds, Report

(* ExportInv: throughout, the documents are those of all the components.   *)
THEOREM ExportInvariance ==
  ASSUME SeparateSources, Types \subseteq Mapped PROVE ExportSpec => []ExportInv
<1>1. ExportInit => ExportInv
  <2> SUFFICES ASSUME ExportInit PROVE ExportInv
    OBVIOUS
  <2>1. ExportAnyInv /\ IInv
    BY AnyInit, InitIInv DEF ExportInit
  <2>2. QED
    BY <2>1, MappedIsAddress DEF ExportInit, ExportInv, ExportSafe
<1>2. ExportInv /\ [ExportNext]_<<vars, exportVars>> => ExportInv'
  <2> SUFFICES ASSUME ExportInv, [ExportNext]_<<vars, exportVars>> PROVE ExportInv'
    OBVIOUS
  <2>1. ExportAnyInv' /\ IInv'
    BY AnyStep, ExportKeepsStore, NextStep DEF ExportInv
  <2>2. MapComplete'
    BY <2>1, MappedIsAddress, PTL
  <2>3. ExportSafe'
    BY NoDumpUnmapped DEF ExportInv, ExportSafe, ExportNext, Export, Process, MapComponents,
       Connect, ConnectFails, Dump, DumpEnds, Report, exportVars
  <2>4. QED
    BY <2>1, <2>2, <2>3 DEF ExportInv
<1>3. QED
  BY <1>1, <1>2, PTL DEF ExportSpec

(* ExportSafe: DumpDocuments() never reads through a NULL Document.        *)
THEOREM ExportNeverCrashes ==
  ASSUME SeparateSources, Types \subseteq Mapped PROVE ExportSpec => []ExportSafe
<1>1. ExportInv => ExportSafe
  BY DEF ExportInv
<1>2. QED
  BY <1>1, ExportInvariance, PTL

(* ExportComplete: an export the server did not interrupt leaves a         *)
(* document of every component, and no oid in it that leads nowhere.       *)
THEOREM ExportLeavesOutNone ==
  ASSUME SeparateSources, Types \subseteq Mapped PROVE ExportSpec => []ExportComplete
<1>1. ExportInv => ExportComplete
  <2> SUFFICES ASSUME ExportInv, pc = "exited", lost = {}
               PROVE  Stored = Address /\ \A d \in collection : d.oids \subseteq Stored
    BY DEF ExportComplete
  <2>1. DMap = Address
    BY DEF ExportInv, MapComplete
  <2>2. Stored = Address
    BY <2>1 DEF ExportInv, ExportAnyInv, SentSoFar
  <2>3. QED
    BY <2>1, <2>2 DEF ExportInv, ExportAnyInv, RefersToMapped
<1>2. QED
  BY <1>1, ExportInvariance, PTL
=============================================================================
