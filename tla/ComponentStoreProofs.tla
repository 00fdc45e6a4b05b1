------------------------ MODULE ComponentStoreProofs ------------------------
(* Proofs about ComponentStore, for every tree of sources and every argv,  *)
(* and about StoreRefinement: with separate sources the component store    *)
(* implements the Registry.                                                *)
EXTENDS StoreRefinement, SequenceTheorems, TLAPS

(* Resolved names are spellings, each resolving to itself.                 *)
LEMMA FilesArePaths == Files \subseteq Paths /\ NoFile \notin Files
  BY StoreAssumption DEF Files

(* A main file has a spelling, and a name it resolves to.                  *)
LEMMA MainIsFile == ASSUME NEW k \in 1..Len(Mains)
                    PROVE  Mains[k] \in Paths /\ RealPath[Mains[k]] \in Files
  BY StoreAssumption DEF Files

(* bind's _lastfile never changes the File an object goes to: it is the    *)
(* one File::create would return.                                          *)
LEMMA BoundFileIsReal == ASSUME NEW p \in Paths, lastfile \in Files \cup {NoFile}
                         PROVE  BoundFile(p) = RealPath[p]
  BY StoreAssumption DEF BoundFile, Files

(* What set::find returns is a member with the key it was asked for.       *)
LEMMA FindHit == ASSUME NEW S, NEW t, NEW i, HasKey(S, t, i)
                 PROVE  Find(S, t, i) \in S /\ Matches(Find(S, t, i), t, i)
<1>1. \E c \in S : Matches(c, t, i)
  BY DEF HasKey
<1>2. Find(S, t, i) = CHOOSE c \in S : Matches(c, t, i)
  BY DEF Find
<1>3. QED
  BY <1>1, <1>2

(* A lookup answers with a component of the cache that has the key; only   *)
(* if there is none, and in LOOKUP_FULL mode, with a global one.           *)
LEMMA LookupHit ==
  ASSUME TypeOK, NEW t, NEW i, NEW local \in BOOLEAN, Lookup(t, i, local) # NULL
  PROVE  /\ Lookup(t, i, local) \in Address
         /\ Matches(Lookup(t, i, local), t, i)
         /\ \/ Lookup(t, i, local) \in allComponents
            \/ ~HasKey(allComponents, t, i) /\ Lookup(t, i, local) \in Components
<1>1. allComponents \subseteq Address /\ Components \subseteq Address
  BY DEF TypeOK
<1>2. CASE HasKey(allComponents, t, i)
  <2>1. Lookup(t, i, local) = Find(allComponents, t, i)
    BY <1>2 DEF Lookup, LookupFull, LookupLocal
  <2>2. QED
    BY <1>1, <1>2, <2>1, FindHit
<1>3. CASE ~HasKey(allComponents, t, i)
  <2>1. Lookup(t, i, local) = Find(Components, t, i)
    BY <1>3 DEF Lookup, LookupFull, LookupLocal, Find
  <2>2. HasKey(Components, t, i)
    BY <2>1 DEF Find
  <2>3. QED
    BY <1>1, <1>3, <2>1, <2>2, FindHit
<1>4. QED
  BY <1>2, <1>3

(* The same of a lookup in LOOKUP_FULL mode.                               *)
LEMMA LookupFullHit ==
  ASSUME TypeOK, NEW t, NEW i, LookupFull(t, i) # NULL
  PROVE  /\ LookupFull(t, i) \in Address
         /\ Matches(LookupFull(t, i), t, i)
         /\ \/ LookupFull(t, i) \in allComponents
            \/ ~HasKey(allComponents, t, i) /\ LookupFull(t, i) \in Components
<1>1. LookupFull(t, i) = Lookup(t, i, FALSE)
  BY DEF Lookup
<1>2. QED
  BY <1>1, LookupHit

(* A lookup that finds nothing means that the key is in no set it consults.*)
LEMMA LookupMiss ==
  ASSUME TypeOK, NEW t, NEW i, NEW local \in BOOLEAN, Lookup(t, i, local) = NULL
  PROVE  /\ ~HasKey(allComponents, t, i)
         /\ ~local => ~HasKey(Components, t, i)
<1>1. ASSUME NEW S \in SUBSET Address, Find(S, t, i) = NULL PROVE ~HasKey(S, t, i)
  BY <1>1, FindHit DEF Address, NULL
<1>2. allComponents \in SUBSET Address /\ Components \in SUBSET Address
  BY DEF TypeOK
<1>3. CASE local
  BY <1>1, <1>2, <1>3 DEF Lookup, LookupLocal
<1>4. CASE ~local
  BY <1>1, <1>2, <1>4 DEF Lookup, LookupFull, LookupLocal
<1>5. QED
  BY <1>3, <1>4

(* The components allocated before keep their address and their record.    *)
LEMMA HeapGrows ==
  ASSUME TypeOK, NEW r \in Component, heap' = Append(heap, r)
  PROVE  /\ Address' = Address \cup {Len(heap) + 1} /\ Len(heap) + 1 \notin Address
         /\ heap' \in Seq(Component)
         /\ \A c \in Address : heap'[c] = heap[c]
         /\ heap'[Len(heap) + 1] = r
  BY DEF Address, TypeOK

(* A component just allocated has a parent field, which is NULL.           *)
LEMMA ParentGrows ==
  ASSUME TypeOK, parent' = Append(parent, NULL), Address' = Address \cup {Len(heap) + 1}
  PROVE  parent' \in [Address' -> Address' \cup {NULL}]
<1> DEFINE P == Address \cup {NULL}
<1>1. Len(heap) \in Nat /\ parent \in [1..Len(heap) -> P]
  BY DEF TypeOK, Address
<1>2. parent \in Seq(P) /\ Len(parent) = Len(heap)
  BY <1>1, IsASeq, LenProperties
<1>3. parent' \in Seq(P) /\ Len(parent') = Len(heap) + 1
  BY <1>2 DEF NULL
<1>4. parent' \in [1..(Len(heap) + 1) -> P]
  BY <1>3, LenProperties
<1>5. QED
  BY <1>1, <1>4 DEF Address

(* What bind does with a TULocal object, whatever the sources: it has a    *)
(* fresh address, and no other component moves.                            *)
LEMMA BindLocalEffect ==
  ASSUME TypeOK, NEW t \in Types, NEW i \in Ids, NEW p \in Paths, BindLocal(t, i, p)
  PROVE  /\ Address' = Address \cup {Len(heap) + 1} /\ Len(heap) + 1 \notin Address
         /\ heap' = Append(heap, Record(t, i, TRUE, RealPath[p]))
         /\ heap' \in Seq(Component)
         /\ \A c \in Address : heap'[c] = heap[c]
         /\ heap'[Len(heap) + 1] = Record(t, i, TRUE, RealPath[p])
         /\ parent' \in [Address' -> Address' \cup {NULL}]
         /\ lastfile' = RealPath[p] /\ RealPath[p] \in Files
         /\ AllFiles' = AllFiles \cup {RealPath[p]}
         /\ components' = [components EXCEPT ![RealPath[p]] = Insert(@, Len(heap) + 1, t, i)]
         /\ components' \in [Files -> SUBSET (Address')]
         /\ allComponents' = Insert(allComponents, Len(heap) + 1, t, i)
         /\ allComponents' \subseteq Address'
         /\ Components' = Components
<1> DEFINE o == Len(heap) + 1
           f == RealPath[p]
           r == Record(t, i, TRUE, f)
<1>1. f \in Files /\ BoundFile(p) = f
  BY StoreAssumption, BoundFileIsReal DEF Files, TypeOK
<1>2. r \in Component
  BY <1>1 DEF Record, Component
<1>3. /\ heap' = Append(heap, r)
      /\ parent' = Append(parent, NULL)
      /\ lastfile' = f /\ AllFiles' = AllFiles \cup {f}
      /\ components' = [components EXCEPT ![f] = Insert(@, o, t, i)]
      /\ allComponents' = Insert(allComponents, o, t, i)
      /\ Components' = Components
  BY <1>1 DEF BindLocal
<1>4. /\ Address' = Address \cup {o} /\ o \notin Address
      /\ heap' \in Seq(Component)
      /\ \A c \in Address : heap'[c] = heap[c]
      /\ heap'[o] = r
  BY <1>2, <1>3, HeapGrows
<1>5. parent' \in [Address' -> Address' \cup {NULL}]
  BY <1>3, <1>4, ParentGrows
<1>6. ASSUME NEW S \in SUBSET Address PROVE Insert(S, o, t, i) \in SUBSET (Address')
  BY <1>4 DEF Insert
<1>7. components' \in [Files -> SUBSET (Address')]
  <2>1. components \in [Files -> SUBSET Address]
    BY DEF TypeOK
  <2>2. Insert(components[f], o, t, i) \in SUBSET (Address')
    BY <1>1, <1>6, <2>1
  <2>3. components \in [Files -> SUBSET (Address')]
    BY <1>4, <2>1
  <2>4. QED
    BY <1>1, <1>3, <2>2, <2>3
<1>8. allComponents' \subseteq Address'
  BY <1>3, <1>6 DEF TypeOK
<1>9. QED
  BY <1>1, <1>3, <1>4, <1>5, <1>7, <1>8

(* The same of an object that is not TULocal.                              *)
LEMMA BindGlobalEffect ==
  ASSUME TypeOK, NEW t \in Types, NEW i \in Ids, BindGlobal(t, i)
  PROVE  /\ Address' = Address \cup {Len(heap) + 1} /\ Len(heap) + 1 \notin Address
         /\ heap' = Append(heap, Record(t, i, FALSE, NoFile))
         /\ heap' \in Seq(Component)
         /\ \A c \in Address : heap'[c] = heap[c]
         /\ heap'[Len(heap) + 1] = Record(t, i, FALSE, NoFile)
         /\ parent' \in [Address' -> Address' \cup {NULL}]
         /\ Components' = Insert(Components, Len(heap) + 1, t, i)
         /\ Components' \subseteq Address'
         /\ UNCHANGED <<lastfile, AllFiles, components, allComponents>>
<1> DEFINE r == Record(t, i, FALSE, NoFile)
<1>1. r \in Component
  BY DEF Record, Component
<1>2. /\ heap' = Append(heap, r) /\ parent' = Append(parent, NULL)
      /\ Components' = Insert(Components, Len(heap) + 1, t, i)
      /\ UNCHANGED <<lastfile, AllFiles, components, allComponents>>
  BY DEF BindGlobal
<1>3. /\ Address' = Address \cup {Len(heap) + 1} /\ Len(heap) + 1 \notin Address
      /\ heap' \in Seq(Component)
      /\ \A c \in Address : heap'[c] = heap[c]
      /\ heap'[Len(heap) + 1] = r
  BY <1>1, <1>2, HeapGrows
<1>4. parent' \in [Address' -> Address' \cup {NULL}]
  BY <1>2, <1>3, ParentGrows
<1>5. Components' \subseteq Address'
  BY <1>2, <1>3 DEF Insert, TypeOK
<1>6. QED
  BY <1>2, <1>3, <1>4, <1>5

-----------------------------------------------------------------------------
(* Type correctness, whatever the sources.                                 *)

(* bind keeps the store well-typed, whatever else its caller records.      *)
LEMMA BindTypes ==
  ASSUME TypeOK, NEW t \in Types, NEW i \in Ids, NEW local \in BOOLEAN, NEW p \in Paths,
         Bind(t, i, local, p),
         references' \subseteq Address' \X Address' \X Kinds,
         UNCHANGED <<TranslationUnits, context, phase, entered>>
  PROVE  TypeOK'
<1>1. CASE local
  <2>1. BindLocal(t, i, p)
    BY <1>1 DEF Bind
  <2>2. /\ Address' = Address \cup {Len(heap) + 1}
        /\ lastfile' = RealPath[p] /\ RealPath[p] \in Files
        /\ AllFiles' = AllFiles \cup {RealPath[p]} /\ Components' = Components
    BY <2>1, BindLocalEffect
  <2>3. AllFiles' \subseteq Files /\ lastfile' \in Files /\ Components' \subseteq Address'
    BY <2>2 DEF TypeOK
  <2>4. /\ heap' \in Seq(Component)
        /\ parent' \in [Address' -> Address' \cup {NULL}]
        /\ components' \in [Files -> SUBSET (Address')]
        /\ allComponents' \subseteq Address'
    BY <2>1, BindLocalEffect
  <2>5. QED
    BY <2>3, <2>4 DEF TypeOK
<1>2. CASE ~local
  <2>1. BindGlobal(t, i)
    BY <1>2 DEF Bind
  <2>2. /\ Address' = Address \cup {Len(heap) + 1}
        /\ heap' \in Seq(Component)
        /\ parent' \in [Address' -> Address' \cup {NULL}]
        /\ Components' \subseteq Address'
        /\ UNCHANGED <<lastfile, AllFiles, components, allComponents>>
    BY <2>1, BindGlobalEffect
  <2>3. components' \in [Files -> SUBSET (Address')] /\ allComponents' \subseteq Address'
    BY <2>2 DEF TypeOK
  <2>4. QED
    BY <2>2, <2>3 DEF TypeOK
<1>3. QED
  BY <1>1, <1>2

(* No reference is lost when components are allocated.                     *)
LEMMA ReferencesGrow ==
  ASSUME TypeOK, Address' = Address \cup {Len(heap) + 1}
  PROVE  references \subseteq Address' \X Address' \X Kinds
  BY DEF TypeOK

(* A handler that declares something does.                                 *)
LEMMA DeclareTypes ==
  ASSUME TypeOK, NEW t \in Types, NEW i \in Ids, NEW local \in BOOLEAN, NEW p \in Paths,
         Declare(t, i, local, p)
  PROVE  TypeOK'
<1>1. Bind(t, i, local, p) /\ UNCHANGED <<references, TranslationUnits, context, phase, entered>>
  BY DEF Declare, clangVars
<1>2. Address' = Address \cup {Len(heap) + 1}
  BY <1>1, BindLocalEffect, BindGlobalEffect DEF Bind
<1>3. references' \subseteq Address' \X Address' \X Kinds
  BY <1>1, <1>2, ReferencesGrow
<1>4. QED
  BY <1>1, <1>3, BindTypes

(* A handler refers to what a lookup found.                                *)
LEMMA ReferTypes ==
  ASSUME TypeOK, NEW c \in Address, NEW t \in Types, NEW i \in Ids, NEW k \in Kinds,
         Refer(c, t, i, k)
  PROVE  TypeOK'
<1>1. LookupFull(t, i) \in Address
  BY LookupFullHit DEF Refer
<1>2. references' \subseteq Address \X Address \X Kinds
  BY <1>1 DEF Refer, TypeOK
<1>3. /\ Address' = Address
      /\ UNCHANGED <<heap, parent, AllFiles, components, Components, TranslationUnits,
                     allComponents, context, lastfile, phase, entered>>
  BY DEF Refer, Address, clangVars
<1>4. QED
  BY <1>2, <1>3 DEF TypeOK

(* A translation unit that begins is the one of the next main file.        *)
LEMMA NextUnit ==
  ASSUME TypeOK, CreateASTConsumer
  PROVE  /\ TU \in Nat /\ TU + 1 \in 1..Len(Mains) /\ TU' = TU + 1
         /\ TranslationUnits' \in Seq(Files)
         /\ RealPath[Mains[TU + 1]] \in Files /\ Mains[TU + 1] \in Paths
<1>1. TU \in Nat /\ TU + 1 \in 1..Len(Mains)
  BY StoreAssumption DEF CreateASTConsumer, TU, TypeOK
<1>2. RealPath[Mains[TU + 1]] \in Files /\ Mains[TU + 1] \in Paths
  BY <1>1, MainIsFile
<1>3. TranslationUnits' \in Seq(Files) /\ TU' = TU + 1
  BY <1>2 DEF CreateASTConsumer, TU, TypeOK
<1>4. QED
  BY <1>1, <1>2, <1>3

(* Every step keeps the store well-typed.                                  *)
LEMMA TypeStep == TypeOK /\ [Next]_vars => TypeOK'
<1> SUFFICES ASSUME TypeOK, [Next]_vars PROVE TypeOK'
  OBVIOUS
<1>1. CASE CreateASTConsumer
  <2>1. UNCHANGED <<heap, references, parent, components, Components, lastfile>> /\ Address' = Address
    BY <1>1 DEF CreateASTConsumer, Address
  <2>2. /\ AllFiles' \subseteq Files /\ TranslationUnits' \in Seq(Files)
        /\ allComponents' = {} /\ context' = "entered" /\ phase' = "preprocess"
        /\ entered' \subseteq Paths
    BY <1>1, NextUnit DEF CreateASTConsumer, TypeOK
  <2>3. QED
    BY <2>1, <2>2 DEF TypeOK
<1>2. ASSUME NEW p \in Paths, Include(p) PROVE TypeOK'
  <2>1. RealPath[p] \in Files /\ Cached(RealPath[p]) \subseteq Address
    BY StoreAssumption DEF Files, Cached, TypeOK
  <2>2. QED
    BY <1>2, <2>1 DEF Include, TypeOK, Address
<1>3. CASE HandleTranslationUnit \/ EndSourceFile
  BY <1>3 DEF HandleTranslationUnit, EndSourceFile, storeVars, TypeOK, Address
<1>4. ASSUME NEW c \in Address, NEW d \in Address, Adopt(c, d) PROVE TypeOK'
  BY <1>4 DEF Adopt, TypeOK, Address, clangVars
<1>5. CASE UNCHANGED vars
  BY <1>5 DEF vars, storeVars, clangVars, TypeOK, Address
<1>6. ASSUME NEW t \in Types, NEW i \in Ids, NEW p \in Paths,
             Declare(t, i, TRUE, p) \/ Declare(t, i, FALSE, p)
      PROVE  TypeOK'
  BY <1>6, DeclareTypes
<1>7. ASSUME NEW c \in Address, NEW t \in Types, NEW i \in Ids, NEW k \in Kinds,
             Refer(c, t, i, k)
      PROVE  TypeOK'
  BY <1>7, ReferTypes
<1>8. QED
  BY <1>1, <1>2, <1>3, <1>4, <1>5, <1>6, <1>7 DEF Next, Frontend, Handlers, Address

(* The empty store is well-typed.                                          *)
LEMMA InitTypes == Init => TypeOK
  BY StoreAssumption DEF Init, TypeOK, Files, Component, Address, NULL

(* TypeOK: whatever the sources, the store never holds a pointer that was  *)
(* not allocated, and the sets of bind, include and lookup hold components.*)
THEOREM TypeCorrect == Spec => []TypeOK
  BY InitTypes, TypeStep, PTL DEF Spec

-----------------------------------------------------------------------------
(* GlobalsKept, whatever the sources.                                      *)

(* A component that is bound as a global one is registered: the lookup     *)
(* before it missed in Model::Components too.                              *)
LEMMA GlobalsStep == TypeOK /\ GlobalsKept /\ [Next]_vars => GlobalsKept'
<1> SUFFICES ASSUME TypeOK, GlobalsKept, [Next]_vars PROVE GlobalsKept'
  OBVIOUS
<1>1. CASE UNCHANGED <<heap, Components>>
  BY <1>1 DEF GlobalsKept, Address
<1>2. ASSUME NEW t \in Types, NEW i \in Ids, NEW p \in Paths, Declare(t, i, TRUE, p)
      PROVE  GlobalsKept'
  <2>1. BindLocal(t, i, p)
    BY <1>2 DEF Declare, Bind
  <2>2. /\ Address' = Address \cup {Len(heap) + 1}
        /\ \A c \in Address : heap'[c] = heap[c]
        /\ heap'[Len(heap) + 1] = Record(t, i, TRUE, RealPath[p])
        /\ Components' = Components
    BY <2>1, BindLocalEffect
  <2>3. heap'[Len(heap) + 1].local
    BY <2>2 DEF Record
  <2>4. QED
    BY <2>2, <2>3 DEF GlobalsKept
<1>3. ASSUME NEW t \in Types, NEW i \in Ids, NEW p \in Paths, Declare(t, i, FALSE, p)
      PROVE  GlobalsKept'
  <2>1. BindGlobal(t, i) /\ ~HasKey(Components, t, i)
    BY <1>3, LookupMiss DEF Declare, Bind
  <2>2. /\ Address' = Address \cup {Len(heap) + 1}
        /\ \A c \in Address : heap'[c] = heap[c]
        /\ Components' = Components \cup {Len(heap) + 1}
    BY <2>1, BindGlobalEffect DEF Insert
  <2>3. QED
    BY <2>2 DEF GlobalsKept
<1>4. QED
  BY <1>1, <1>2, <1>3
     DEF Next, Frontend, Handlers, CreateASTConsumer, Include, HandleTranslationUnit,
         EndSourceFile, Refer, Adopt, vars, storeVars

(* GlobalsKept: whatever the sources, no global component is lost.         *)
THEOREM GlobalsNeverLost == Spec => []GlobalsKept
<1>1. Init => TypeOK /\ GlobalsKept
  BY InitTypes DEF Init, GlobalsKept, Address
<1>2. TypeOK /\ GlobalsKept /\ [Next]_vars => (TypeOK /\ GlobalsKept)'
  BY TypeStep, GlobalsStep
<1>3. QED
  BY <1>1, <1>2, PTL DEF Spec

-----------------------------------------------------------------------------
(* The inductive invariant, with separate sources: one lemma per action.   *)

(* The empty store satisfies the invariant.                                *)
LEMMA InitIInv == Init => IInv
<1> SUFFICES ASSUME Init PROVE IInv
  OBVIOUS
<1> USE DEF Init
<1>1. TypeOK
  BY InitTypes
<1>2. MembersAtHome
  BY DEF MembersAtHome
<1>3. EntersOwnSources
  BY StoreAssumption DEF EntersOwnSources, TU
<1>4. FutureMainsEmpty
  <2> SUFFICES ASSUME NEW k \in TU+1..Len(Mains) PROVE components[RealPath[Mains[k]]] = {}
    BY DEF FutureMainsEmpty
  <2>0. k \in 1..Len(Mains)
    BY StoreAssumption DEF TU
  <2>1. RealPath[Mains[k]] \in Files
    BY <2>0, StoreAssumption DEF Files
  <2>2. QED
    BY <2>1
<1>5. CacheComplete
  BY DEF CacheComplete, Scope
<1>6. CacheScoped
  BY DEF CacheScoped
<1>7. NoOrphan /\ GlobalsApart
  BY DEF NoOrphan, GlobalsApart, Address
<1>8. QED
  BY <1>1, <1>2, <1>3, <1>4, <1>5, <1>6, <1>7 DEF IInv

(* A new unit starts with an empty cache, which is complete: its main file *)
(* holds nothing yet.                                                      *)
LEMMA CreateStep == IInv /\ SeparateSources /\ CreateASTConsumer => IInv'
<1> SUFFICES ASSUME IInv, SeparateSources, CreateASTConsumer PROVE IInv'
  OBVIOUS
<1> USE DEF IInv
<1>1. TU + 1 \in 1..Len(Mains) /\ TU' = TU + 1
  BY NextUnit
<1> DEFINE p == Mains[TU + 1]
           f == RealPath[p]
<1>2. p \in Paths /\ f \in Files
  BY NextUnit
<1>3. Scope' = {f} /\ components[f] = {}
  BY <1>1 DEF Scope, CreateASTConsumer, FutureMainsEmpty
<1>4. TypeOK'
  BY TypeStep DEF Next, Frontend
<1>5. MembersAtHome'
  BY DEF MembersAtHome, CreateASTConsumer
<1>6. EntersOwnSources'
  BY <1>1, <1>2 DEF EntersOwnSources, CreateASTConsumer
<1>7. FutureMainsEmpty'
  BY <1>1 DEF FutureMainsEmpty, CreateASTConsumer
<1>8. CacheComplete'
  BY <1>3 DEF CacheComplete, CreateASTConsumer
<1>9. CacheScoped'
  BY DEF CacheScoped, CreateASTConsumer
<1>10. NoOrphan' /\ GlobalsApart'
  BY DEF NoOrphan, Registered, GlobalsApart, Address, CreateASTConsumer
<1>11. QED
  BY <1>4, <1>5, <1>6, <1>7, <1>8, <1>9, <1>10

(* Entering a header extends the cache by exactly what the header holds.   *)
LEMMA IncludeStep == IInv /\ (\E p \in Paths : Include(p)) => IInv'
<1> SUFFICES ASSUME IInv, NEW p \in Paths, Include(p) PROVE IInv'
  OBVIOUS
<1> USE DEF IInv
<1> DEFINE f == RealPath[p]
<1>1. f \in Files
  BY StoreAssumption DEF Files
<1>2. Scope' = Scope \cup {f} /\ TU' = TU /\ Address' = Address
  BY DEF Include, Scope, TU, Address
<1>3. allComponents' \subseteq Address /\ Cached(f) \subseteq components[f]
  BY <1>1 DEF Include, Cached, TypeOK
<1>4. TypeOK'
  BY TypeStep DEF Next, Frontend
<1>5. MembersAtHome'
  BY DEF MembersAtHome, Include
<1>6. EntersOwnSources'
  BY <1>2 DEF EntersOwnSources, Include
<1>7. FutureMainsEmpty'
  BY <1>2 DEF FutureMainsEmpty, Include
<1>8. CacheComplete'
  <2> SUFFICES ASSUME NEW g \in Scope \cup {f}, NEW c \in components[g]
               PROVE  HasKey(allComponents, heap[c].type, heap[c].id)'
    BY <1>2 DEF CacheComplete, Include
  <2> DEFINE t == heap[c].type
             i == heap[c].id
  <2>1. CASE HasKey(allComponents, t, i)
    BY <2>1 DEF HasKey, Matches, Include
  <2>2. CASE ~HasKey(allComponents, t, i)
    <3>1. g = f
      BY <2>2 DEF CacheComplete
    <3>2. c \in allComponents'
      BY <2>2, <3>1 DEF Cached, Include
    <3>3. QED
      BY <3>2 DEF HasKey, Matches, Include
  <2>3. QED
    BY <2>1, <2>2
<1>9. CacheScoped'
  BY <1>1, <1>2, <1>3 DEF CacheScoped, MembersAtHome, Include
<1>10. NoOrphan' /\ GlobalsApart'
  BY <1>2 DEF NoOrphan, Registered, GlobalsApart, Include
<1>11. QED
  BY <1>4, <1>5, <1>6, <1>7, <1>8, <1>9, <1>10

(* Ending the preprocessing or the unit leaves the store alone.            *)
LEMMA QuietFrontendStep == IInv /\ (HandleTranslationUnit \/ EndSourceFile) => IInv'
<1> SUFFICES ASSUME IInv, HandleTranslationUnit \/ EndSourceFile PROVE IInv'
  OBVIOUS
<1> USE DEF IInv, HandleTranslationUnit, EndSourceFile, storeVars
<1>1. TU' = TU /\ Address' = Address /\ Scope' \in {Scope, {}}
  BY DEF TU, Address, Scope
<1>2. TypeOK'
  BY TypeStep DEF Next, Frontend
<1>3. MembersAtHome'
  BY DEF MembersAtHome
<1>4. EntersOwnSources'
  BY <1>1 DEF EntersOwnSources
<1>5. FutureMainsEmpty'
  BY <1>1 DEF FutureMainsEmpty
<1>6. CacheComplete'
  BY <1>1 DEF CacheComplete, HasKey, Matches
<1>7. CacheScoped'
  BY DEF CacheScoped, Scope
<1>8. NoOrphan' /\ GlobalsApart'
  BY <1>1 DEF NoOrphan, Registered, GlobalsApart
<1>9. QED
  BY <1>2, <1>3, <1>4, <1>5, <1>6, <1>7, <1>8

(* References and parents do not affect where components are registered.   *)
LEMMA LinksKeep ==
  ASSUME IInv, TypeOK',
         UNCHANGED <<heap, AllFiles, components, Components, TranslationUnits,
                     allComponents, phase, entered>>
  PROVE  IInv'
<1>1. TU' = TU /\ Scope' = Scope /\ Address' = Address
  BY DEF TU, Scope, Address
<1>2. QED
  BY <1>1 DEF IInv, MembersAtHome, EntersOwnSources, FutureMainsEmpty, CacheComplete,
     CacheScoped, NoOrphan, Registered, GlobalsApart, HasKey, Matches

LEMMA LinkStep ==
  IInv /\ (\/ \E c \in 1..Len(heap), t \in Types, i \in Ids, k \in Kinds : Refer(c, t, i, k)
           \/ \E c, d \in 1..Len(heap) : Adopt(c, d)) => IInv'
<1> SUFFICES ASSUME IInv,
                    \/ \E c \in 1..Len(heap), t \in Types, i \in Ids, k \in Kinds : Refer(c, t, i, k)
                    \/ \E c, d \in 1..Len(heap) : Adopt(c, d)
             PROVE  IInv'
  OBVIOUS
<1>1. UNCHANGED <<heap, AllFiles, components, Components, TranslationUnits,
                  allComponents, phase, entered>>
  BY DEF Refer, Adopt, clangVars
<1>2. TypeOK'
  BY TypeStep DEF IInv, Next, Handlers
<1>3. QED
  BY <1>1, <1>2, LinksKeep

(* A component bound as a global one, of a key that no other has, is       *)
(* registered.                                                             *)
LEMMA BindGlobalStep ==
  ASSUME IInv, TypeOK', NEW t \in Types, NEW i \in Ids, BindGlobal(t, i),
         ~HasKey(Components, t, i), UNCHANGED <<TranslationUnits, phase, entered>>
  PROVE  IInv'
<1> USE DEF IInv
<1> DEFINE o == Len(heap) + 1
<1>2. /\ Components' = Insert(Components, o, t, i)
      /\ UNCHANGED <<lastfile, AllFiles, components, allComponents,
                     TranslationUnits, phase, entered>>
  BY BindGlobalEffect
<1>3. /\ Address' = Address \cup {o} /\ o \notin Address
      /\ \A c \in Address : heap'[c] = heap[c]
      /\ heap'[o] = Record(t, i, FALSE, NoFile)
  BY BindGlobalEffect
<1>4. Components' = Components \cup {o}
  BY <1>2 DEF Insert
<1>5. TU' = TU /\ Scope' = Scope
  BY <1>2 DEF TU, Scope
<1>7. MembersAtHome'
  <2> SUFFICES ASSUME NEW f \in Files, NEW c \in components[f]
               PROVE  heap'[c].local /\ heap'[c].home = f /\ f \in AllFiles
    BY <1>2 DEF MembersAtHome
  <2>1. c \in Address
    BY DEF TypeOK
  <2>2. QED
    BY <1>3, <2>1 DEF MembersAtHome
<1>8. EntersOwnSources' /\ FutureMainsEmpty'
  BY <1>2, <1>5 DEF EntersOwnSources, FutureMainsEmpty
<1>9. CacheComplete'
  <2> SUFFICES ASSUME NEW f \in Scope, NEW c \in components[f]
               PROVE  \E x \in allComponents : /\ heap'[x].type = heap'[c].type
                                               /\ heap'[x].id = heap'[c].id
    BY <1>2, <1>5 DEF CacheComplete, HasKey, Matches
  <2>1. f \in Files
    BY StoreAssumption DEF Scope, Files, TypeOK
  <2>2. c \in Address
    BY <2>1 DEF TypeOK
  <2>3. PICK x \in allComponents : heap[x].type = heap[c].type /\ heap[x].id = heap[c].id
    BY DEF CacheComplete, HasKey, Matches
  <2>4. x \in Address
    BY DEF TypeOK
  <2>5. QED
    BY <1>3, <2>2, <2>3, <2>4
<1>10. CacheScoped'
  BY <1>2, <1>3, <1>5 DEF CacheScoped, TypeOK
<1>11. NoOrphan'
  <2> SUFFICES ASSUME NEW c \in Address \cup {o} PROVE Registered(c)'
    BY <1>3 DEF NoOrphan
  <2>1. CASE c = o
    <3>1. heap'[c].local = FALSE
      BY <1>3, <2>1 DEF Record
    <3>2. c \in Components'
      BY <1>4, <2>1
    <3>3. QED
      BY <3>1, <3>2 DEF Registered
  <2>2. CASE c # o
    <3>1. heap'[c] = heap[c] /\ Registered(c)
      BY <1>3, <2>2 DEF NoOrphan
    <3>2. QED
      BY <1>2, <1>4, <3>1 DEF Registered
  <2>3. QED
    BY <2>1, <2>2
<1>12. GlobalsApart'
  <2>1. ~heap'[o].local /\ heap'[o].home = NoFile
    BY <1>3 DEF Record
  <2>2. QED
    BY <1>3, <1>4, <2>1 DEF GlobalsApart, TypeOK
<1>13. QED
  BY <1>7, <1>8, <1>9, <1>10, <1>11, <1>12

(* A visitor does so after a miss.                                         *)
LEMMA DeclareGlobalStep ==
  ASSUME IInv, NEW t \in Types, NEW i \in Ids, NEW p \in Paths, Declare(t, i, FALSE, p)
  PROVE  IInv'
<1>1. TypeOK' /\ ~HasKey(Components, t, i)
  BY DeclareTypes, LookupMiss DEF IInv, Declare
<1>2. BindGlobal(t, i) /\ UNCHANGED <<TranslationUnits, phase, entered>>
  BY DEF Declare, Bind, clangVars
<1>3. QED
  BY <1>1, <1>2, BindGlobalStep

(* A component bound as TULocal to a file that was entered, of a key that  *)
(* the cache does not know, is registered in its File: the complete cache  *)
(* would know the key had the File such a component.                       *)
LEMMA BindLocalStep ==
  ASSUME IInv, SeparateSources, TypeOK', NEW t \in Types, NEW i \in Ids, NEW p \in entered,
         BindLocal(t, i, p), ~HasKey(allComponents, t, i), phase # "idle",
         UNCHANGED <<TranslationUnits, phase, entered>>
  PROVE  IInv'
<1> USE DEF IInv
<1> DEFINE o == Len(heap) + 1
           f == RealPath[p]
<1>0. p \in Paths /\ f \in Files /\ f \in Scope
  BY StoreAssumption DEF Files, Scope, TypeOK
<1>2. /\ AllFiles' = AllFiles \cup {f}
      /\ components' = [components EXCEPT ![f] = Insert(@, o, t, i)]
      /\ allComponents' = Insert(allComponents, o, t, i)
      /\ UNCHANGED <<Components, TranslationUnits, phase, entered>>
  BY <1>0, BindLocalEffect
<1>3. /\ Address' = Address \cup {o} /\ o \notin Address
      /\ \A c \in Address : heap'[c] = heap[c]
      /\ heap'[o] = Record(t, i, TRUE, f)
  BY <1>0, BindLocalEffect
<1>5. ~HasKey(components[f], t, i)
  BY <1>0 DEF CacheComplete, HasKey, Matches
<1>6. /\ allComponents' = allComponents \cup {o}
      /\ components' = [components EXCEPT ![f] = @ \cup {o}]
  BY <1>2, <1>5 DEF Insert
<1>7. components'[f] = components[f] \cup {o}
  BY <1>0, <1>6 DEF TypeOK
<1>8. ASSUME NEW g \in Files, NEW c \in components'[g]
      PROVE  (c \in components[g] /\ c \in Address) \/ (c = o /\ g = f)
  <2>1. CASE g = f
    BY <1>7, <2>1 DEF TypeOK
  <2>2. CASE g # f
    BY <1>6, <2>2 DEF TypeOK
  <2>3. QED
    BY <2>1, <2>2
<1>9. TU' = TU /\ Scope' = Scope
  BY <1>2 DEF TU, Scope
<1>11. MembersAtHome'
  <2> SUFFICES ASSUME NEW g \in Files, NEW c \in components'[g]
               PROVE  heap'[c].local /\ heap'[c].home = g /\ g \in AllFiles'
    BY DEF MembersAtHome
  <2>1. CASE c \in components[g] /\ c \in Address
    BY <1>2, <1>3, <2>1 DEF MembersAtHome
  <2>2. CASE c = o /\ g = f
    BY <1>2, <1>3, <2>2 DEF Record
  <2>3. QED
    BY <1>8, <2>1, <2>2
<1>12. EntersOwnSources'
  BY <1>2, <1>9 DEF EntersOwnSources
<1>13. FutureMainsEmpty'
  <2> SUFFICES ASSUME NEW k \in TU+1..Len(Mains) PROVE components'[RealPath[Mains[k]]] = {}
    BY <1>9 DEF FutureMainsEmpty
  <2>0. TU \in Nat /\ TU # 0 /\ TU <= Len(Mains) /\ Len(Mains) \in Nat
    BY StoreAssumption DEF EntersOwnSources, TU, TypeOK
  <2>1. k \in 1..Len(Mains) /\ TU \in 1..Len(Mains) /\ k # TU
    BY <2>0
  <2>2. RealPath[Mains[k]] \in Files
    BY <2>1, MainIsFile
  <2>3. p \in Headers \/ p = Mains[TU]
    BY DEF EntersOwnSources
  <2>4. RealPath[Mains[k]] # f
    <3>1. CASE p \in Headers
      BY <2>1, <3>1 DEF SeparateSources
    <3>2. CASE p = Mains[TU]
      BY <2>1, <3>2 DEF SeparateSources
    <3>3. QED
      BY <2>3, <3>1, <3>2
  <2>5. components[RealPath[Mains[k]]] = {}
    BY DEF FutureMainsEmpty
  <2>6. QED
    BY <1>6, <2>2, <2>4, <2>5 DEF TypeOK
<1>14. CacheComplete'
  <2> SUFFICES ASSUME NEW g \in Scope, NEW c \in components'[g]
               PROVE  \E x \in allComponents' : /\ heap'[x].type = heap'[c].type
                                                /\ heap'[x].id = heap'[c].id
    BY <1>9 DEF CacheComplete, HasKey, Matches
  <2>1. g \in Files
    BY StoreAssumption DEF Scope, Files, TypeOK
  <2>2. CASE c \in components[g] /\ c \in Address
    <3>1. PICK x \in allComponents : heap[x].type = heap[c].type /\ heap[x].id = heap[c].id
      BY <2>2 DEF CacheComplete, HasKey, Matches
    <3>2. x \in Address /\ x \in allComponents'
      BY <1>6 DEF TypeOK
    <3>3. QED
      BY <1>3, <2>2, <3>1, <3>2
  <2>3. CASE c = o
    BY <1>6, <2>3
  <2>4. QED
    BY <1>8, <2>1, <2>2, <2>3
<1>15. CacheScoped'
  <2> SUFFICES ASSUME NEW c \in allComponents \cup {o}
               PROVE  heap'[c].local /\ heap'[c].home \in Scope
    BY <1>6, <1>9 DEF CacheScoped
  <2>1. CASE c = o
    BY <1>0, <1>3, <2>1 DEF Record
  <2>2. CASE c # o
    <3>1. c \in Address
      BY <2>2 DEF TypeOK
    <3>2. QED
      BY <1>3, <2>2, <3>1 DEF CacheScoped
  <2>3. QED
    BY <2>1, <2>2
<1>16. NoOrphan'
  <2> SUFFICES ASSUME NEW c \in Address \cup {o} PROVE Registered(c)'
    BY <1>3 DEF NoOrphan
  <2>1. CASE c = o
    <3>1. heap'[c].local /\ heap'[c].home = f
      BY <1>3, <2>1 DEF Record
    <3>2. c \in components'[f] /\ f \in AllFiles'
      BY <1>2, <1>7, <2>1
    <3>3. QED
      BY <3>1, <3>2 DEF Registered
  <2>2. CASE c # o
    <3>0. heap[c] \in Component
      BY <2>2 DEF TypeOK, Address
    <3>1. heap'[c] = heap[c] /\ Registered(c) /\ heap[c].home \in Files \cup {NoFile}
      BY <1>3, <2>2, <3>0 DEF NoOrphan, Component
    <3>2. CASE heap[c].local
      <4>1. c \in components[heap[c].home] /\ heap[c].home \in AllFiles
        BY <3>1, <3>2 DEF Registered
      <4>2. heap[c].home \in Files
        BY <4>1 DEF TypeOK
      <4>3. c \in components'[heap[c].home] /\ heap[c].home \in AllFiles'
        BY <1>2, <1>6, <4>1, <4>2 DEF TypeOK
      <4>4. QED
        BY <3>1, <3>2, <4>3 DEF Registered
    <3>3. CASE ~heap[c].local
      BY <1>2, <3>1, <3>3 DEF Registered
    <3>4. QED
      BY <3>2, <3>3
  <2>3. QED
    BY <2>1, <2>2
<1>17. GlobalsApart'
  <2>1. heap'[o].local
    BY <1>3 DEF Record
  <2>2. QED
    BY <1>2, <1>3, <2>1 DEF GlobalsApart, TypeOK
<1>18. QED
  BY <1>11, <1>12, <1>13, <1>14, <1>15, <1>16, <1>17

(* A visitor does so after a miss.                                         *)
LEMMA DeclareLocalStep ==
  ASSUME IInv, SeparateSources,
         NEW t \in Types, NEW i \in Ids, NEW p \in Paths, Declare(t, i, TRUE, p)
  PROVE  IInv'
<1>1. TypeOK' /\ ~HasKey(allComponents, t, i)
  BY DeclareTypes, LookupMiss DEF IInv, Declare
<1>2. BindLocal(t, i, p) /\ phase # "idle" /\ UNCHANGED <<TranslationUnits, phase, entered>>
  BY DEF Declare, Bind, clangVars
<1>3. p \in entered
  BY DEF Declare, SeparateSources
<1>4. QED
  BY <1>1, <1>2, <1>3, BindLocalStep

(* Every step keeps the invariant.                                         *)
LEMMA NextStep == IInv /\ SeparateSources /\ [Next]_vars => IInv'
<1> SUFFICES ASSUME IInv, SeparateSources, [Next]_vars PROVE IInv'
  OBVIOUS
<1>1. CASE CreateASTConsumer
  BY <1>1, CreateStep
<1>2. CASE \E p \in Paths : Include(p)
  BY <1>2, IncludeStep
<1>3. CASE HandleTranslationUnit \/ EndSourceFile
  BY <1>3, QuietFrontendStep
<1>4. CASE \E t \in Types, i \in Ids, p \in Paths : Declare(t, i, TRUE, p)
  BY <1>4, DeclareLocalStep
<1>5. CASE \E t \in Types, i \in Ids, p \in Paths : Declare(t, i, FALSE, p)
  BY <1>5, DeclareGlobalStep
<1>6. CASE \/ \E c \in 1..Len(heap), t \in Types, i \in Ids, k \in Kinds : Refer(c, t, i, k)
           \/ \E c, d \in 1..Len(heap) : Adopt(c, d)
  BY <1>6, LinkStep
<1>7. CASE UNCHANGED vars
  <2> USE <1>7 DEF IInv, vars, storeVars, clangVars
  <2>1. TypeOK'
    BY DEF TypeOK, Address
  <2>2. MembersAtHome' /\ EntersOwnSources' /\ FutureMainsEmpty'
    BY DEF MembersAtHome, EntersOwnSources, FutureMainsEmpty, TU
  <2>3. CacheComplete' /\ CacheScoped'
    BY DEF CacheComplete, CacheScoped, HasKey, Matches, Scope
  <2>4. NoOrphan' /\ GlobalsApart'
    BY DEF NoOrphan, Registered, GlobalsApart, Address
  <2>5. QED
    BY <2>1, <2>2, <2>3, <2>4
<1>8. QED
  BY <1>1, <1>2, <1>3, <1>4, <1>5, <1>6, <1>7 DEF Next, Frontend, Handlers

-----------------------------------------------------------------------------
(* With separate sources the inductive invariant holds throughout.         *)
THEOREM Invariance == ASSUME SeparateSources PROVE Spec => []IInv
<1>1. Init => IInv
  BY InitIInv
<1>2. IInv /\ [Next]_vars => IInv'
  BY NextStep
<1>3. QED
  BY <1>1, <1>2, PTL DEF Spec

(* NoOrphan: with separate sources neither insert of bind is ever refused, *)
(* so MapComponents() finds every component a visitor may have referred to.*)
THEOREM NothingOrphaned == ASSUME SeparateSources PROVE Spec => []NoOrphan
<1>1. IInv => NoOrphan
  BY DEF IInv
<1>2. QED
  BY <1>1, Invariance, PTL

(* CacheScoped: with separate sources the lookup cache holds nothing of    *)
(* another translation unit.                                               *)
THEOREM CacheOfThisUnit == ASSUME SeparateSources PROVE Spec => []CacheScoped
<1>1. IInv => CacheScoped
  BY DEF IInv
<1>2. QED
  BY <1>1, Invariance, PTL

(* CacheComplete: with separate sources the cache holds a component for    *)
(* every identifier that the files of the active unit declare TULocal.     *)
THEOREM CacheHidesNothing == ASSUME SeparateSources PROVE Spec => []CacheComplete
<1>1. IInv => CacheComplete
  BY DEF IInv
<1>2. QED
  BY <1>1, Invariance, PTL

-----------------------------------------------------------------------------
(* The entities                                                            *)

(* There is an entity for each address, with the key of its component.     *)
LEMMA EntityOfAddress ==
  ASSUME TypeOK
  PROVE  /\ Entities \in Seq(Abstract!Entity) /\ Len(Entities) = Len(heap)
         /\ \A c \in Address : /\ Entities[c].type = heap[c].type
                                /\ Entities[c].id = heap[c].id
                                /\ Entities[c].home = heap[c].home
         /\ \A c, d \in Address : Entities[c] = Entities[d] <=>
              heap[c].type = heap[d].type /\ heap[c].id = heap[d].id /\ heap[c].home = heap[d].home
<1>1. Len(heap) \in Nat
  BY DEF TypeOK
<1>2. ASSUME NEW c \in 1..Len(heap)
      PROVE  [type |-> heap[c].type, id |-> heap[c].id, home |-> heap[c].home] \in Abstract!Entity
  <2>1. heap[c] \in Component
    BY DEF TypeOK
  <2>2. QED
    BY <2>1 DEF Component, Abstract!Entity
<1>3. Entities \in [1..Len(heap) -> Abstract!Entity]
  BY <1>2 DEF Entities
<1>4. Entities \in Seq(Abstract!Entity)
  BY <1>1, <1>2, IsASeq DEF Entities
<1>5. Len(Entities) = Len(heap)
  BY <1>1, <1>3, <1>4, LenProperties
<1>6. \A c \in Address : Entities[c] = [type |-> heap[c].type, id |-> heap[c].id,
                                       home |-> heap[c].home]
  BY DEF Entities, Address
<1>7. \A c \in Address : /\ Entities[c].type = heap[c].type
                         /\ Entities[c].id = heap[c].id
                         /\ Entities[c].home = heap[c].home
  <2>1. ASSUME NEW c \in Address
        PROVE  /\ Entities[c].type = heap[c].type /\ Entities[c].id = heap[c].id
               /\ Entities[c].home = heap[c].home
    <3>1. Entities[c] = [type |-> heap[c].type, id |-> heap[c].id, home |-> heap[c].home]
      BY <1>6
    <3>2. QED
      BY <3>1
  <2>2. QED
    BY <2>1
<1>8. QED
  BY <1>4, <1>5, <1>6, <1>7

(* An entity is named like its component.                                  *)
LEMMA NamedMatches ==
  ASSUME TypeOK, NEW t, NEW i
  PROVE  Abstract!Named(t, i) = {c \in Address : Matches(c, t, i)}
<1>1. 1..Len(Entities) = Address
  BY EntityOfAddress DEF Address
<1>2. \A c \in Address : Entities[c].type = heap[c].type /\ Entities[c].id = heap[c].id
  BY EntityOfAddress
<1>3. QED
  BY <1>1, <1>2 DEF Abstract!Named, Matches

(* It is in scope if the file of its component is.                         *)
LEMMA InScopeMatches ==
  ASSUME TypeOK, NEW t, NEW i
  PROVE  Abstract!InScope(t, i) = {c \in Address : Matches(c, t, i) /\ heap[c].home \in Scope}
<1>1. \A c \in Address : Entities[c].home = heap[c].home
  BY EntityOfAddress
<1>2. QED
  BY <1>1, NamedMatches DEF Abstract!InScope

(* A component just allocated is the last entity.                          *)
LEMMA EntitiesGrow ==
  ASSUME TypeOK, TypeOK', NEW t, NEW i, NEW local, NEW h,
         heap' = Append(heap, Record(t, i, local, h))
  PROVE  Entities' = Append(Entities, [type |-> t, id |-> i, home |-> h])
<1> DEFINE e == [type |-> t, id |-> i, home |-> h]
           o == Len(heap) + 1
<1>1. /\ Len(heap) \in Nat /\ Len(heap') = o
      /\ \A c \in 1..Len(heap) : heap'[c] = heap[c]
      /\ heap'[o] = Record(t, i, local, h)
  BY DEF TypeOK
<1>2. Entities' \in Seq(Abstract!Entity) /\ Len(Entities') = o
  <2>1. ASSUME NEW c \in 1..o
        PROVE  [type |-> heap'[c].type, id |-> heap'[c].id, home |-> heap'[c].home] \in Abstract!Entity
    <3>1. heap'[c] \in Component
      <4>1. heap' \in Seq(Component)
        BY DEF TypeOK
      <4>2. QED
        BY <1>1, <4>1, ElementOfSeq
    <3>2. QED
      BY <3>1 DEF Component, Abstract!Entity
  <2>2. Entities' = [c \in 1..o |-> [type |-> heap'[c].type, id |-> heap'[c].id,
                                     home |-> heap'[c].home]]
    BY <1>1 DEF Entities
  <2>3. Entities' \in [1..o -> Abstract!Entity]
    BY <2>1, <2>2
  <2>4. Entities' \in Seq(Abstract!Entity)
    BY <1>1, <2>1, <2>2, IsASeq
  <2>5. QED
    BY <1>1, <2>3, <2>4, LenProperties
<1>3. Entities'[o] = e
  BY <1>1 DEF Entities, Record
<1>4. o \in 1..Len(Entities')
  BY <1>1, <1>2
<1>5. e \in Abstract!Entity
  BY <1>2, <1>3, <1>4, ElementOfSeq
<1>6. /\ Entities \in Seq(Abstract!Entity) /\ Len(Entities) = Len(heap)
  BY EntityOfAddress
<1>7. /\ Append(Entities, e) \in Seq(Abstract!Entity) /\ Len(Append(Entities, e)) = o
      /\ Append(Entities, e)[o] = e
      /\ \A c \in 1..Len(heap) : Append(Entities, e)[c] = Entities[c]
  BY <1>1, <1>5, <1>6
<1>8. ASSUME NEW c \in 1..o PROVE Entities'[c] = Append(Entities, e)[c]
  <2>1. CASE c = o
    BY <1>3, <1>7, <2>1
  <2>2. CASE c \in 1..Len(heap)
    <3>1. Entities'[c] = Entities[c]
      BY <1>1, <2>2 DEF Entities
    <3>2. QED
      BY <1>7, <2>2, <3>1
  <2>3. c = o \/ c \in 1..Len(heap)
    BY <1>1
  <2>4. QED
    BY <2>1, <2>2, <2>3
<1>9. QED
  BY <1>2, <1>7, <1>8, SeqEqual

-----------------------------------------------------------------------------
(* Lookups                                                                 *)

(* What the Registry finds in scope is what the files in scope hold, of    *)
(* which the cache hides nothing.                                          *)
LEMMA InScopeCached ==
  ASSUME IInv, NEW t, NEW i, Abstract!InScope(t, i) # {}
  PROVE  HasKey(allComponents, t, i)
<1> USE DEF IInv
<1>1. PICK c \in Address : Matches(c, t, i) /\ heap[c].home \in Scope
  BY InScopeMatches
<1>2. heap[c].home # NoFile
  BY <1>1, StoreAssumption DEF Scope, TypeOK
<1>3. heap[c].local
  BY <1>2 DEF GlobalsApart
<1>4. c \in components[heap[c].home]
  BY <1>3 DEF NoOrphan, Registered
<1>5. QED
  BY <1>1, <1>4 DEF CacheComplete, HasKey, Matches

(* What the cache finds is in scope.                                       *)
LEMMA CachedInScope ==
  ASSUME IInv, phase # "idle", NEW t, NEW i, NEW c \in allComponents, Matches(c, t, i)
  PROVE  c \in Abstract!InScope(t, i)
<1>1. c \in Address /\ heap[c].home \in Scope
  BY DEF IInv, TypeOK, CacheScoped
<1>2. QED
  BY <1>1, InScopeMatches DEF IInv

(* An entity that is in no file is a component of the global set.          *)
LEMMA HomelessGlobal ==
  ASSUME IInv, NEW c \in Address PROVE heap[c].home = NoFile <=> c \in Components
<1> USE DEF IInv
<1>1. ASSUME heap[c].home = NoFile PROVE c \in Components
  <2>1. NoFile \notin AllFiles
    BY FilesArePaths DEF TypeOK
  <2>2. QED
    BY <1>1, <2>1 DEF NoOrphan, Registered
<1>2. QED
  BY <1>1 DEF GlobalsApart

(* A lookup that hits answers with what the name resolves to.              *)
LEMMA HitResolves ==
  ASSUME IInv, phase # "idle", NEW t, NEW i, LookupFull(t, i) # NULL
  PROVE  LookupFull(t, i) \in Abstract!Resolve(t, i)
<1> DEFINE d == LookupFull(t, i)
<1>1. /\ d \in Address /\ Matches(d, t, i)
      /\ d \in allComponents \/ (~HasKey(allComponents, t, i) /\ d \in Components)
  BY LookupFullHit DEF IInv
<1>2. CASE d \in allComponents
  BY <1>1, <1>2, CachedInScope DEF Abstract!Resolve
<1>3. CASE ~HasKey(allComponents, t, i) /\ d \in Components
  <2>1. Abstract!InScope(t, i) = {}
    BY <1>3, InScopeCached
  <2>2. d \in Abstract!Named(t, i)
    BY <1>1, NamedMatches DEF IInv
  <2>3. Entities[d].home = NoFile
    <3>1. heap[d].home = NoFile
      BY <1>1, <1>3, HomelessGlobal
    <3>2. Entities[d].home = heap[d].home
      BY <1>1, EntityOfAddress DEF IInv
    <3>3. QED
      BY <3>1, <3>2
  <2>4. QED
    BY <2>1, <2>2, <2>3 DEF Abstract!Resolve
<1>4. QED
  BY <1>1, <1>2, <1>3

(* A lookup that misses is of a name that does not resolve.                *)
LEMMA MissUnresolved ==
  ASSUME IInv, NEW t, NEW i, NEW local \in BOOLEAN, Lookup(t, i, local) = NULL
  PROVE  /\ Abstract!InScope(t, i) = {}
         /\ ~local => Abstract!Resolve(t, i) = {}
<1>1. ~HasKey(allComponents, t, i) /\ (~local => ~HasKey(Components, t, i))
  BY LookupMiss DEF IInv
<1>2. Abstract!InScope(t, i) = {}
  BY <1>1, InScopeCached
<1>3. ASSUME ~local, NEW c \in Abstract!Named(t, i), Entities[c].home = NoFile PROVE FALSE
  <2>1. c \in Address /\ Matches(c, t, i) /\ heap[c].home = NoFile
    <3>1. c \in Address /\ Matches(c, t, i)
      BY NamedMatches DEF IInv
    <3>2. Entities[c].home = heap[c].home
      BY <3>1, EntityOfAddress DEF IInv
    <3>3. QED
      BY <1>3, <3>1, <3>2
  <2>2. c \in Components
    BY <2>1, HomelessGlobal
  <2>3. QED
    BY <1>1, <1>3, <2>1, <2>2 DEF HasKey
<1>4. QED
  BY <1>2, <1>3 DEF Abstract!Resolve

-----------------------------------------------------------------------------
(* EntityOnce                                                              *)

(* EntityOnce, said of the components.                                     *)
KeysUnique == \A c, d \in Address :
  heap[c].type = heap[d].type /\ heap[c].id = heap[d].id /\ heap[c].home = heap[d].home => c = d

LEMMA EntityOnceKeys == ASSUME TypeOK PROVE EntityOnce <=> KeysUnique
<1>1. 1..Len(Entities) = Address
  BY EntityOfAddress DEF Address
<1>2. \A c, d \in Address : Entities[c] = Entities[d] <=>
        heap[c].type = heap[d].type /\ heap[c].id = heap[d].id /\ heap[c].home = heap[d].home
  BY EntityOfAddress
<1>3. QED
  BY <1>1, <1>2 DEF EntityOnce, Abstract!EntityOnce, KeysUnique

(* A component is only allocated with a key that no other one has.         *)
LEMMA FreshKey ==
  ASSUME IInv, SeparateSources, NEW t \in Types, NEW i \in Ids, NEW local \in BOOLEAN,
         NEW p \in Paths, Declare(t, i, local, p), NEW c \in Address, Matches(c, t, i)
  PROVE  heap[c].home # IF local THEN RealPath[p] ELSE NoFile
<1>1. ~HasKey(allComponents, t, i) /\ (~local => ~HasKey(Components, t, i))
  BY LookupMiss DEF IInv, Declare
<1>2. CASE local
  <2>1. RealPath[p] \in Scope /\ p \in entered
    BY DEF Declare, SeparateSources, Scope
  <2>2. ASSUME heap[c].home = RealPath[p] PROVE FALSE
    <3>1. heap[c].home # NoFile
      BY <2>2, StoreAssumption
    <3>2. c \in components[heap[c].home]
      BY <3>1 DEF IInv, GlobalsApart, NoOrphan, Registered
    <3>3. HasKey(allComponents, t, i)
      BY <2>1, <2>2, <3>2 DEF IInv, CacheComplete, Matches
    <3>4. QED
      BY <1>1, <3>3
  <2>3. QED
    BY <1>2, <2>2
<1>3. CASE ~local
  BY <1>1, <1>3, HomelessGlobal DEF HasKey
<1>4. QED
  BY <1>2, <1>3

(* bind appends to the heap, in both cases.                                *)
LEMMA DeclareAppends ==
  ASSUME TypeOK, NEW t \in Types, NEW i \in Ids, NEW local \in BOOLEAN, NEW p \in Paths,
         Declare(t, i, local, p)
  PROVE  /\ heap' = Append(heap, Record(t, i, local, IF local THEN RealPath[p] ELSE NoFile))
         /\ Address' = Address \cup {Len(heap) + 1}
         /\ \A c \in Address : heap'[c] = heap[c]
<1>1. CASE local
  <2>1. BindLocal(t, i, p)
    BY <1>1 DEF Declare, Bind
  <2>2. local = TRUE
    BY <1>1
  <2>3. QED
    BY <2>1, <2>2, BindLocalEffect
<1>2. CASE ~local
  <2>1. BindGlobal(t, i)
    BY <1>2 DEF Declare, Bind
  <2>2. local = FALSE
    BY <1>2
  <2>3. QED
    BY <2>1, <2>2, BindGlobalEffect
<1>3. QED
  BY <1>1, <1>2

LEMMA DeclareOnce ==
  ASSUME IInv, SeparateSources, KeysUnique, NEW t \in Types, NEW i \in Ids,
         NEW local \in BOOLEAN, NEW p \in Paths, Declare(t, i, local, p)
  PROVE  KeysUnique'
<1> DEFINE o == Len(heap) + 1
           h == IF local THEN RealPath[p] ELSE NoFile
<1>1. /\ heap' = Append(heap, Record(t, i, local, h))
      /\ Address' = Address \cup {o} /\ \A c \in Address : heap'[c] = heap[c]
  BY DeclareAppends DEF IInv
<1>2. heap'[o].type = t /\ heap'[o].id = i /\ heap'[o].home = h
  <2>1. heap'[o] = Record(t, i, local, h)
    BY <1>1 DEF IInv, TypeOK
  <2>2. QED
    BY <2>1 DEF Record
<1>3. ASSUME NEW c \in Address, heap[c].type = t, heap[c].id = i PROVE heap[c].home # h
  BY <1>3, FreshKey DEF Matches
<1>4. SUFFICES ASSUME NEW c \in Address \cup {o}, NEW d \in Address \cup {o},
                      heap'[c].type = heap'[d].type, heap'[c].id = heap'[d].id,
                      heap'[c].home = heap'[d].home
               PROVE  c = d
  BY <1>1 DEF KeysUnique
<1>5. CASE c \in Address /\ d \in Address
  BY <1>1, <1>4, <1>5 DEF KeysUnique
<1>6. CASE c \in Address /\ d = o
  BY <1>1, <1>2, <1>3, <1>4, <1>6
<1>7. CASE c = o /\ d \in Address
  BY <1>1, <1>2, <1>3, <1>4, <1>7
<1>8. QED
  BY <1>5, <1>6, <1>7

(* Every step keeps the keys unique.                                       *)
LEMMA OnceStep == IInv /\ SeparateSources /\ KeysUnique /\ [Next]_vars => KeysUnique'
<1> SUFFICES ASSUME IInv, SeparateSources, KeysUnique, [Next]_vars PROVE KeysUnique'
  OBVIOUS
<1>1. CASE UNCHANGED heap
  BY <1>1 DEF KeysUnique, Address
<1>2. ASSUME NEW t \in Types, NEW i \in Ids, NEW p \in Paths,
             Declare(t, i, TRUE, p) \/ Declare(t, i, FALSE, p)
      PROVE  KeysUnique'
  BY <1>2, DeclareOnce
<1>3. QED
  BY <1>1, <1>2
     DEF Next, Frontend, Handlers, CreateASTConsumer, Include, HandleTranslationUnit,
         EndSourceFile, Refer, Adopt, vars, storeVars

(* EntityOnce: with separate sources an identifier of a scope never has    *)
(* two components, though bind does not look at what its inserts returned. *)
THEOREM OneEntity == ASSUME SeparateSources PROVE Spec => []EntityOnce
<1>1. Init => KeysUnique
  BY DEF Init, KeysUnique, Address
<1>2. IInv /\ KeysUnique /\ [Next]_vars => KeysUnique'
  BY OnceStep
<1>3. IInv /\ KeysUnique => EntityOnce
  BY EntityOnceKeys DEF IInv
<1>4. QED
  BY <1>1, <1>2, <1>3, Invariance, PTL DEF Spec

-----------------------------------------------------------------------------
(* The refinement: one lemma per kind of step.                             *)

(* The store starts as an empty registry.                                  *)
LEMMA InitRefines == Init => Abstract!Init
<1> SUFFICES ASSUME Init PROVE Abstract!Init
  OBVIOUS
<1>1. Entities = <<>>
  BY DEF Init, Entities
<1>2. EntityLinks = {} /\ Scope = {}
  BY DEF Init, EntityLinks, Scope
<1>3. QED
  BY <1>1, <1>2 DEF Abstract!Init

(* A translation unit begins, enters a file, ends.                         *)
LEMMA FrontendRefines ==
  ASSUME IInv, Frontend
  PROVE  Abstract!Next \/ UNCHANGED <<Entities, EntityLinks, Scope>>
<1>1. UNCHANGED <<Entities, EntityLinks>>
  BY DEF Frontend, CreateASTConsumer, Include, HandleTranslationUnit, EndSourceFile, storeVars,
         Entities, EntityLinks
<1>2. CASE CreateASTConsumer
  <2>1. Scope = {}
    BY <1>2 DEF CreateASTConsumer, IInv, EntersOwnSources, Scope
  <2>2. PICK f \in Files : Scope' = {f}
    BY <1>2, NextUnit DEF CreateASTConsumer, IInv, Scope
  <2>3. Abstract!Begin(f)
    BY <1>1, <2>1, <2>2 DEF Abstract!Begin
  <2>4. QED
    BY <2>3 DEF Abstract!Next
<1>3. ASSUME NEW p \in Paths, Include(p) PROVE Abstract!Next
  <2>1. RealPath[p] \in Files
    BY DEF Files
  <2>2. Scope' = Scope \cup {RealPath[p]}
    BY <1>3 DEF Include, Scope
  <2>3. Abstract!Enter(RealPath[p])
    BY <1>1, <2>2 DEF Abstract!Enter
  <2>4. QED
    BY <2>1, <2>3 DEF Abstract!Next
<1>4. CASE HandleTranslationUnit
  BY <1>1, <1>4 DEF HandleTranslationUnit, Scope
<1>5. CASE EndSourceFile
  <2>1. Scope' = {}
    BY <1>5 DEF EndSourceFile, Scope
  <2>2. Abstract!End
    BY <1>1, <2>1 DEF Abstract!End
  <2>3. QED
    BY <2>2 DEF Abstract!Next
<1>6. QED
  BY <1>2, <1>3, <1>4, <1>5 DEF Frontend

(* A handler declares a name that does not resolve.                        *)
LEMMA DeclareRefines ==
  ASSUME IInv, SeparateSources, NEW t \in Types, NEW i \in Ids, NEW local \in BOOLEAN,
         NEW p \in Paths, Declare(t, i, local, p)
  PROVE  Abstract!Next
<1> DEFINE h == IF local THEN RealPath[p] ELSE NoFile
<1>1. Entities' = Append(Entities, [type |-> t, id |-> i, home |-> h])
  <2>1. heap' = Append(heap, Record(t, i, local, h))
    BY DeclareAppends DEF IInv
  <2>2. TypeOK /\ TypeOK'
    BY DeclareTypes DEF IInv
  <2>3. QED
    BY <2>1, <2>2, EntitiesGrow
<1>2. UNCHANGED <<EntityLinks, Scope>>
  BY DEF Declare, clangVars, EntityLinks, Scope
<1>3. Abstract!InScope(t, i) = {} /\ (~local => Abstract!Resolve(t, i) = {})
  BY MissUnresolved DEF Declare
<1>4. CASE local
  <2>1. RealPath[p] \in Scope /\ RealPath[p] \in Files
    BY DEF Declare, SeparateSources, Scope, Files
  <2>2. Abstract!DeclareLocal(t, i, RealPath[p])
    BY <1>1, <1>2, <1>3, <1>4, <2>1 DEF Abstract!DeclareLocal, Abstract!New
  <2>3. QED
    BY <2>1, <2>2 DEF Abstract!Next
<1>5. CASE ~local
  <2>1. Abstract!DeclareGlobal(t, i)
    BY <1>1, <1>2, <1>3, <1>5 DEF Abstract!DeclareGlobal, Abstract!New
  <2>2. QED
    BY <2>1 DEF Abstract!Next
<1>6. QED
  BY <1>4, <1>5

(* A handler refers to what a name resolves to.                            *)
LEMMA ReferRefines ==
  ASSUME IInv, NEW c \in Address, NEW t \in Types, NEW i \in Ids, NEW k \in Kinds,
         Refer(c, t, i, k)
  PROVE  Abstract!Next
<1> DEFINE d == LookupFull(t, i)
<1>1. d \in Abstract!Resolve(t, i) /\ d \in Address /\ Matches(d, t, i)
  BY HitResolves, LookupFullHit DEF Refer, IInv
<1>2. references' = references \cup {<<c, d, k>>}
  BY DEF Refer
<1>3. EntityLinks' = EntityLinks \cup {<<c, d>>}
  <2>1. EntityLinks' = {<<l[1], l[2]>> : l \in references'}
    BY DEF EntityLinks
  <2>2. <<c, d, k>>[1] = c /\ <<c, d, k>>[2] = d
    OBVIOUS
  <2>3. QED
    BY <1>2, <2>1, <2>2, Zenon DEF EntityLinks
<1>4. UNCHANGED <<Entities, Scope>>
  BY DEF Refer, Entities, Scope, clangVars
<1>5. Entities[d].type = t /\ Entities[d].id = i
  <2>1. Entities[d].type = heap[d].type /\ Entities[d].id = heap[d].id
    BY <1>1, EntityOfAddress DEF IInv
  <2>2. QED
    BY <1>1, <2>1 DEF Matches
<1>6. c \in 1..Len(Entities) /\ d \in 1..Len(Entities)
  BY <1>1, EntityOfAddress DEF IInv, Address
<1>7. Abstract!Link(c, d)
  BY <1>1, <1>3, <1>4, <1>5, <1>6 DEF Abstract!Link
<1>8. QED
  BY <1>6, <1>7 DEF Abstract!Next

(* Every step of the store is one of the Registry, or none.                *)
LEMMA StepRefines ==
  ASSUME IInv, SeparateSources, [Next]_vars
  PROVE  [Abstract!Next]_Abstract!registryVars
<1>1. ASSUME NEW c \in Address, NEW d \in Address, Adopt(c, d)
      PROVE  UNCHANGED <<Entities, EntityLinks, Scope>>
  BY <1>1 DEF Adopt, clangVars, Entities, EntityLinks, Scope
<1>2. CASE UNCHANGED vars
  BY <1>2 DEF vars, storeVars, clangVars, Entities, EntityLinks, Scope, Abstract!registryVars
<1>3. CASE Frontend
  BY <1>3, FrontendRefines DEF Abstract!registryVars
<1>4. ASSUME NEW t \in Types, NEW i \in Ids, NEW p \in Paths,
             Declare(t, i, TRUE, p) \/ Declare(t, i, FALSE, p)
      PROVE  Abstract!Next
  BY <1>4, DeclareRefines
<1>5. QED
  BY <1>1, <1>2, <1>3, <1>4, ReferRefines DEF Next, Handlers, Address, Abstract!registryVars

(* ImplementsRegistry: with separate sources the lookup cache, the sets of *)
(* the Files and the global set resolve every name as a search of all that *)
(* was ever declared would, through every translation unit.                *)
THEOREM Refinement == ASSUME SeparateSources PROVE Spec => ImplementsRegistry
<1>1. Init => Abstract!Init
  BY InitRefines
<1>2. IInv /\ [Next]_vars => [Abstract!Next]_Abstract!registryVars
  BY StepRefines
<1>3. QED
  BY <1>1, <1>2, Invariance, PTL DEF Spec, ImplementsRegistry, Abstract!Spec
=============================================================================
