-------------------------- MODULE MacroTableProofs --------------------------
(* Proofs about MacroTable, for any number of macros, records and units.   *)
EXTENDS MacroTable, ComponentStoreProofs

-----------------------------------------------------------------------------
(* The walk                                                                *)

LEMMA NoWalkState ==
  /\ NoWalk \in WalkState /\ NoWalk.kind = "none" /\ NoWalk.at = 0
  /\ \A k \in {"astray", "flush", "done"} :
       /\ [NoWalk EXCEPT !.kind = k] \in WalkState
       /\ [NoWalk EXCEPT !.kind = k].kind = k /\ [NoWalk EXCEPT !.kind = k].at = 0
  /\ [NoWalk EXCEPT !.kind = "flush", !.at = 1] \in WalkState
<1>1. 0 \in 0..MaxRecords /\ 0 \in Nat /\ NULL \in Nat
  BY MacroAssumption DEF NULL
<1>2. NoWalk \in WalkState /\ NoWalk.kind = "none" /\ NoWalk.at = 0
  BY <1>1 DEF NoWalk, WalkState
<1>3. ASSUME NEW k \in {"astray", "flush", "done"}
      PROVE  /\ [NoWalk EXCEPT !.kind = k] \in WalkState
             /\ [NoWalk EXCEPT !.kind = k].kind = k /\ [NoWalk EXCEPT !.kind = k].at = 0
  BY <1>2 DEF WalkState
<1>4. [NoWalk EXCEPT !.kind = "flush", !.at = 1] \in WalkState
  BY <1>2 DEF WalkState
<1>5. QED
  BY <1>2, <1>3, <1>4

LEMMA WalkAt == ASSUME walk \in WalkState PROVE walk.at \in Nat
BY DEF WalkState

LEMMA WalkAdvances ==
  ASSUME walk \in WalkState, walk' = [walk EXCEPT !.at = @ + 1]
  PROVE  /\ walk' \in WalkState /\ walk'.kind = walk.kind /\ walk'.C = walk.C
         /\ walk'.at = walk.at + 1 /\ walk.at \in Nat
BY DEF WalkState

-----------------------------------------------------------------------------
(* Effects on the store                                                    *)

(* Most handlers leave it alone.                                           *)
LEMMA StoreStutters == ASSUME TypeOK, UNCHANGED vars PROVE TypeOK' /\ Address' = Address
<1>1. TypeOK'
  BY TypeStep
<1>2. Address' = Address
  BY DEF vars, storeVars, Address
<1>3. QED
  BY <1>1, <1>2

(* Some make a reference.                                                  *)
LEMMA ReferenceTypes ==
  ASSUME TypeOK, UNCHANGED Unbound, references' \subseteq Address \X Address \X Kinds
  PROVE  TypeOK' /\ Address' = Address
<1>1. Address' = Address
  BY DEF Unbound, Address
<1>2. QED
  BY <1>1 DEF TypeOK, Unbound, clangVars

(* What a macro is registered as, it stays.                                *)
LEMMA BoundKept ==
  ASSUME UNCHANGED <<heap, AllFiles, components, Components>>, NEW n,
         MacroMap'[n].component = MacroMap[n].component,
         MacroMap'[n].function = MacroMap[n].function, Bound(n)
  PROVE  Bound(n)'
  BY DEF Bound, Registered, Address

-----------------------------------------------------------------------------
(* The initial state, and the translation units                            *)

LEMMA MacroInitInv == MacroInit => MacroInv
<1> SUFFICES ASSUME MacroInit PROVE MacroInv
  OBVIOUS
<1> USE DEF MacroInit
<1>1. TypeOK /\ Address = {} /\ Known = {} /\ stack = <<>> /\ MRQ = <<>> /\ PostQueue = <<>>
  BY InitTypes DEF Init, Address, Known
<1>2. MacroTypeOK
  BY <1>1 DEF MacroTypeOK, Known
<1>3. TableClosed /\ Owned
  BY <1>1 DEF TableClosed, Owned
<1>4. WalkInPhase
  BY <1>1, MacroAssumption, NoWalkState DEF WalkInPhase, Init
<1>5. Queued /\ Running
  BY <1>1 DEF Queued, Running, StackDistinct
<1>6. QED
  BY <1>2, <1>3, <1>4, <1>5 DEF MacroInv

(* A unit begins, enters a file, is parsed, or ends.                       *)
UnitStep == BeginUnit \/ (\E p \in Paths : EnterFile(p)) \/ Parsed \/ EndUnit

LEMMA UnitKeeps == ASSUME MacroInv, UnitStep PROVE MacroInv'
<1> USE DEF MacroInv
<1>1. /\ UNCHANGED <<MacroMap, MRQ, PostQueue, stack, mentions>>
      /\ UNCHANGED <<heap, references, components, Components>>
      /\ AllFiles \subseteq AllFiles' /\ Address' = Address
  BY DEF UnitStep, BeginUnit, EnterFile, Parsed, EndUnit, macroVars, tableVars, CreateASTConsumer,
     Include, HandleTranslationUnit, EndSourceFile, storeVars, Address
<1>2. defined' \in {defined, {}} /\ position' \in {position, 0} /\ walk' \in {walk, NoWalk}
  BY DEF UnitStep, BeginUnit, EnterFile, Parsed, EndUnit, macroVars, tableVars, clangMacroVars
<1>3. TypeOK'
  BY TypeStep DEF UnitStep, BeginUnit, EnterFile, Parsed, EndUnit, Next, Frontend, MacroTypeOK
<1>4. MacroTypeOK'
  BY <1>1, <1>3 DEF MacroTypeOK
<1>5. TableClosed'
  BY <1>1, <1>2 DEF TableClosed, Known
<1>6. Owned'
  BY <1>1 DEF Owned, Bound, Registered, Known, Done
<1>7. Running'
  BY <1>1 DEF Running, StackDistinct, Done, OnStack, ToDo, Referred, Known
<1>8. WalkInPhase' /\ Queued'
  <2>1. CASE BeginUnit
    <3>1. /\ phase = "idle" /\ phase' = "preprocess" /\ position' = 0
          /\ walk'.kind = "none" /\ walk' \in WalkState
      BY <2>1, NoWalkState DEF BeginUnit, CreateASTConsumer
    <3>2. stack = <<>> /\ MRQ = <<>>
      BY <3>1 DEF WalkInPhase
    <3>3. WalkInPhase'
      BY <1>1, <3>1, <3>2, MacroAssumption DEF WalkInPhase
    <3>4. \A n \in Known : Done(n)
      BY <3>2 DEF Queued
    <3>5. QED
      BY <1>1, <3>3, <3>4 DEF Queued, Known, Done
  <2>2. CASE \E p \in Paths : EnterFile(p)
    BY <1>1, <2>2 DEF EnterFile, Include, macroVars, tableVars, clangMacroVars,
       WalkInPhase, Queued, Known, Done
  <2>3. CASE Parsed
    BY <1>1, <2>3 DEF Parsed, HandleTranslationUnit, macroVars, tableVars, clangMacroVars,
       WalkInPhase, Queued, Known, Done
  <2>4. CASE EndUnit
    BY <1>1, <2>4 DEF EndUnit, EndSourceFile, tableVars, clangMacroVars,
       WalkInPhase, Queued, Known, Done
  <2>5. QED
    BY <2>1, <2>2, <2>3, <2>4 DEF UnitStep
<1>9. QED
  BY <1>4, <1>5, <1>6, <1>7, <1>8

-----------------------------------------------------------------------------
(* The preprocessor                                                        *)

(* A macro is incomplete exactly when it has no component yet.             *)
LEMMA DoneHasComponent ==
  ASSUME MacroInv, NEW n \in Known PROVE Done(n) <=> MacroMap[n].component # NULL
<1>1. NULL \notin Address
  BY DEF Address, NULL
<1>2. QED
  BY <1>1 DEF MacroInv, Owned, Bound

(* mlookup() answers with a macro, incomplete if it has no component.      *)
LEMMA LookupMacro ==
  ASSUME MacroInv, NEW n \in Names
  PROVE  /\ mlookup(n) \in Macro /\ mlookup(n).component <= Len(heap)
         /\ n \in Known => mlookup(n) = MacroMap[n]
         /\ n \notin Known => mlookup(n) = NewMacro
         /\ mlookup(n).component = NULL => mlookup(n).incomplete
         /\ \A i, j \in mlookup(n).sub : i = j
         /\ mlookup(n).pendingrefs \subseteq Known /\ mlookup(n).subrepl \subseteq Known
<1>1. CASE n \in Known
  <2>1. mlookup(n) = MacroMap[n]
    BY <1>1 DEF mlookup, Known
  <2>2. QED
    BY <1>1, <2>1, DoneHasComponent DEF MacroInv, MacroTypeOK, TableClosed, Known, Done
<1>2. CASE n \notin Known
  <2>1. mlookup(n) = NewMacro
    BY <1>2 DEF mlookup, Known
  <2>2. NewMacro \in Macro /\ NewMacro.component <= Len(heap)
    BY DEF NewMacro, Macro, NULL, MacroInv, MacroTypeOK, TypeOK
  <2>3. /\ NewMacro.incomplete /\ NewMacro.sub = {} /\ NewMacro.pendingrefs = {}
        /\ NewMacro.subrepl = {}
    BY DEF NewMacro
  <2>4. QED
    BY <1>2, <2>1, <2>2, <2>3
<1>3. QED
  BY <1>1, <1>2

(* An assignment to a Macro leaves the others alone.                       *)
LEMMA SetMacroEffect ==
  ASSUME NEW n, NEW m, SetMacro(n, m)
  PROVE  /\ Known' = Known \cup {n} /\ MacroMap'[n] = m
         /\ \A x \in Known : x # n => MacroMap'[x] = MacroMap[x]
  BY DEF SetMacro, Known

(* A record is appended, behind all those of the unit.                     *)
LEMMA PushRecordEffect ==
  ASSUME MacroInv, NEW n \in Names, NEW embedded \in BOOLEAN, PushRecord(n, embedded)
  PROVE  /\ MRQ' \in Seq([m : Names, loc : 1..MaxRecords, embedded : BOOLEAN])
         /\ Len(MRQ') = Len(MRQ) + 1 /\ Len(MRQ) \in Nat
         /\ \A k \in 1..Len(MRQ) : MRQ'[k] = MRQ[k]
         /\ MRQ'[Len(MRQ) + 1].m = n
         /\ position' \in 0..MaxRecords
<1> DEFINE R == [m : Names, loc : 1..MaxRecords, embedded : BOOLEAN]
           r == [m |-> n, loc |-> position + 1, embedded |-> embedded]
<1>1. position' = position + 1 /\ position' \in 1..MaxRecords
  BY MacroAssumption DEF PushRecord, MacroInv, WalkInPhase
<1>2. r \in R
  BY <1>1
<1>3. MRQ \in Seq(R) /\ MRQ' = Append(MRQ, r)
  BY DEF PushRecord, MacroInv, MacroTypeOK
<1>4. r.m = n
  OBVIOUS
<1> HIDE DEF R, r
<1>5. /\ MRQ' \in Seq(R) /\ Len(MRQ') = Len(MRQ) + 1 /\ Len(MRQ) \in Nat
      /\ \A k \in 1..Len(MRQ) : MRQ'[k] = MRQ[k]
      /\ MRQ'[Len(MRQ) + 1] = r
  BY <1>2, <1>3
<1>6. QED
  BY <1>1, <1>4, <1>5 DEF R

(* What a definition may substitute or mention are identifiers of the      *)
(* right kind, at most one of the former.                                  *)
LEMMA MentionedKnown == ASSUME NEW d, NEW known PROVE Mentioned(d, known) \subseteq known
  BY DEF Mentioned

LEMMA SubAtMostOne ==
  ASSUME NEW d, NEW known, NEW old, old \subseteq Ids, \A i, j \in old : i = j
  PROVE  Sub(old, d, known) \subseteq Ids /\ \A i, j \in Sub(old, d, known) : i = j
<1>1. 1 \in FreeTokens(d) => d.body[1] \in Ids
  BY DEF FreeTokens, Free
<1>2. QED
  BY <1>1 DEF Sub

LEMMA SubreplKnown ==
  ASSUME NEW d, NEW known, NEW old, old \subseteq known
  PROVE  Subrepl(old, d, known) \subseteq known
  BY MentionedKnown DEF Subrepl

(* A callback that assigns to a macro: its component stays as it is, the   *)
(* macros it mentions are known, and nothing that was pending is lost.     *)
LEMMA AssignKeeps ==
  ASSUME MacroInv, NEW n \in Names, NEW m \in Macro,
         Known' = Known \cup {n}, MacroMap'[n] = m,
         \A x \in Known : x # n => MacroMap'[x] = MacroMap[x],
         NEW embedded \in BOOLEAN, PushRecord(n, embedded),
         m.component = mlookup(n).component, m.incomplete = mlookup(n).incomplete,
         m.function = mlookup(n).function,
         mlookup(n).pendingrefs \subseteq m.pendingrefs,
         ~m.incomplete => m.pendingrefs = mlookup(n).pendingrefs,
         m.pendingrefs \cup m.subrepl \subseteq Known',
         m.file \in Paths, m.incomplete => m.file \in entered \cup Remapped,
         \A i, j \in m.sub : i = j,
         phase = "preprocess", defined' \subseteq defined \cup {n},
         mentions' \subseteq mentions \cup {<<n, r>> : r \in m.pendingrefs},
         m.incomplete \/ mentions' = mentions,
         UNCHANGED <<vars, PostQueue, stack, walk>>
  PROVE  MacroInv'
<1> USE DEF MacroInv
<1>0. /\ Len(MRQ') = Len(MRQ) + 1 /\ Len(MRQ) \in Nat
      /\ \A k \in 1..Len(MRQ) : MRQ'[k] = MRQ[k]
      /\ MRQ'[Len(MRQ) + 1].m = n
  BY PushRecordEffect
<1>1. /\ Known' = Known \cup {n} /\ MacroMap'[n] = m
      /\ \A x \in Known : x # n => MacroMap'[x] = MacroMap[x]
  OBVIOUS
<1>2. /\ mlookup(n).component <= Len(heap)
      /\ n \in Known => mlookup(n) = MacroMap[n]
      /\ n \notin Known => m.incomplete /\ m.component = NULL
  BY LookupMacro DEF NewMacro
<1>3. /\ \A x \in Known : /\ MacroMap'[x].component = MacroMap[x].component
                         /\ MacroMap'[x].incomplete = MacroMap[x].incomplete
                         /\ MacroMap'[x].function = MacroMap[x].function
      /\ n \notin Known => MacroMap'[n].incomplete /\ MacroMap'[n].component = NULL
  BY <1>1, <1>2
<1>4. TypeOK' /\ Address' = Address /\ stack = <<>>
  BY StoreStutters DEF MacroTypeOK, WalkInPhase
<1>5. UNCHANGED <<heap, references, AllFiles, components, Components, phase, entered>>
  BY DEF vars, storeVars, clangVars
<1>6. MacroTypeOK'
  <2>1. \A x \in Known' : MacroMap'[x] \in Macro /\ MacroMap'[x].component <= Len(heap)
    BY <1>1, <1>2 DEF MacroTypeOK, Known
  <2>2. Known' \subseteq Names
    BY <1>1 DEF MacroTypeOK, Known
  <2>3. PostQueue' \in Seq(Known')
    BY <1>1, SeqMonotonic DEF MacroTypeOK, Known
  <2>4. stack' \in Seq([m : Known', todo : SUBSET Known'])
    BY <1>4, EmptySeq
  <2>5. MRQ' \in Seq([m : Names, loc : 1..MaxRecords, embedded : BOOLEAN])
    BY PushRecordEffect
  <2>6. QED
    BY <1>4, <1>5, <2>1, <2>2, <2>3, <2>4, <2>5 DEF MacroTypeOK, Known
<1>7. TableClosed'
  <2>1. \A k \in 1..Len(MRQ') : MRQ'[k].m \in Known'
    <3> SUFFICES ASSUME NEW k \in 1..Len(MRQ') PROVE MRQ'[k].m \in Known'
      OBVIOUS
    <3>1. k = Len(MRQ) + 1 \/ k \in 1..Len(MRQ)
      BY <1>0
    <3>2. QED
      BY <1>0, <1>1, <3>1 DEF TableClosed
  <2>2. \A x \in Known' : /\ MacroMap'[x].subrepl \cup MacroMap'[x].pendingrefs \subseteq Known'
                          /\ MacroMap'[x].file \in Paths
                          /\ \A i, j \in MacroMap'[x].sub : i = j
    BY <1>1 DEF TableClosed
  <2>3. mentions' \subseteq Known' \X Known'
    BY <1>1 DEF TableClosed
  <2>4. QED
    BY <1>1, <2>1, <2>2, <2>3 DEF TableClosed
<1>8. Owned'
  <2>1. ASSUME NEW x \in Known' PROVE (IF Done(x) THEN Bound(x) ELSE MacroMap[x].component = NULL)'
    BY <1>1, <1>3, <1>5 DEF Owned, Done, Bound, Registered, Address
  <2>2. QED
    BY <1>1, <1>3, <1>4, <1>5, <2>1 DEF Owned
<1>9. WalkInPhase'
  BY <1>4, <1>5, PushRecordEffect DEF WalkInPhase
<1>10. Queued'
  <2> SUFFICES ASSUME NEW x \in Known', MacroMap'[x].incomplete
               PROVE  /\ \E k \in 1..Len(MRQ') : MRQ'[k].m = x
                      /\ MacroMap'[x].file \in entered \cup Remapped
    BY <1>5 DEF Queued, Done
  <2>1. CASE x = n
    <3>1. Len(MRQ) + 1 \in 1..Len(MRQ') /\ MRQ'[Len(MRQ) + 1].m = x
      BY <1>0, <2>1
    <3>2. QED
      BY <1>1, <2>1, <3>1
  <2>2. CASE x # n
    <3>1. x \in Known /\ MacroMap'[x] = MacroMap[x] /\ ~Done(x)
      BY <1>1, <2>2 DEF Done
    <3>2. PICK k \in 1..Len(MRQ) : MRQ[k].m = x
      BY <3>1 DEF Queued
    <3>3. k \in 1..Len(MRQ') /\ MRQ'[k] = MRQ[k]
      BY <1>0
    <3>4. QED
      BY <3>1, <3>2, <3>3 DEF Queued
  <2>3. QED
    BY <2>1, <2>2
<1>11. Running'
  <2>1. StackDistinct' /\ (\A k \in 1..Len(stack) : Done(stack[k].m))'
    BY <1>4 DEF StackDistinct
  <2>2. (\A x \in Known : Done(x) => MacroMap[x].pendingrefs = {} \/ OnStack(x))'
    <3> SUFFICES ASSUME NEW x \in Known', ~MacroMap'[x].incomplete
                 PROVE  MacroMap'[x].pendingrefs = {}
      BY DEF Done
    <3>1. x \in Known /\ Done(x) /\ MacroMap'[x].pendingrefs = MacroMap[x].pendingrefs
      BY <1>1, <1>2, <1>3 DEF Done
    <3>2. QED
      BY <1>4, <3>1 DEF Running, OnStack
  <2>3. ASSUME NEW l \in mentions'
        PROVE  (IF Done(l[1]) THEN Referred(l[1], l[2]) \/ ToDo(l[1], l[2])
                              ELSE l[2] \in MacroMap[l[1]].pendingrefs)'
    <3>1. CASE l \in mentions
      <4>1. l[1] \in Known /\ l[2] \in Known
        BY <3>1 DEF TableClosed
      <4>2. CASE Done(l[1])
        <5>1. Referred(l[1], l[2])
          BY <1>4, <3>1, <4>2 DEF Running, ToDo
        <5>2. QED
          BY <1>3, <1>5, <4>1, <4>2, <5>1 DEF Referred, Done
      <4>3. CASE ~Done(l[1])
        <5>1. l[2] \in MacroMap[l[1]].pendingrefs
          BY <3>1, <4>3 DEF Running
        <5>2. MacroMap'[l[1]].incomplete /\ l[2] \in MacroMap'[l[1]].pendingrefs
          BY <1>1, <1>2, <1>3, <4>1, <4>3, <5>1 DEF Done
        <5>3. QED
          BY <5>2 DEF Done
      <4>4. QED
        BY <4>2, <4>3
    <3>2. CASE l \notin mentions
      <4>1. l[1] = n /\ l[2] \in m.pendingrefs /\ m.incomplete
        BY <3>2
      <4>2. QED
        BY <1>1, <4>1 DEF Done
    <3>3. QED
      BY <3>1, <3>2
  <2>4. QED
    BY <2>1, <2>2, <2>3, Zenon DEF Running
<1>12. QED
  BY <1>6, <1>7, <1>8, <1>9, <1>10, <1>11

(* MacroDefined() of a macro without a component.                          *)
LEMMA MacroDefinedKeeps ==
  ASSUME MacroInv, NEW n \in Names, NEW d \in Definitions, NEW p \in Paths, MacroDefined(n, d, p)
  PROVE  MacroInv'
<1> DEFINE old == mlookup(n)
           known == Known \cup {n}
           m == [old EXCEPT !.file = p, !.objlike = d.objlike, !.MIlive = TRUE,
                            !.sub = Sub(@, d, known), !.subrepl = Subrepl(@, d, known),
                            !.pendingrefs = @ \cup Mentioned(d, known)]
<1>1. /\ SetMacro(n, m) /\ PushRecord(n, FALSE) /\ phase = "preprocess"
      /\ p \in entered \cup Remapped /\ old.component = NULL
      /\ mentions' = mentions \cup {<<n, r>> : r \in Mentioned(d, known)}
      /\ defined' = defined \cup {n} /\ UNCHANGED <<vars, PostQueue, stack, walk>>
  BY DEF MacroDefined, Known
<1>2. Known' = known /\ MacroMap'[n] = m /\ \A x \in Known : x # n => MacroMap'[x] = MacroMap[x]
  BY <1>1, SetMacroEffect
<1>3. /\ old \in Macro /\ old.incomplete /\ \A i, j \in old.sub : i = j
      /\ old.pendingrefs \subseteq Known /\ old.subrepl \subseteq Known
  BY <1>1, LookupMacro
<1>4. known \subseteq Names
  BY DEF MacroInv, MacroTypeOK, Known
<1>5. old.sub \subseteq Ids /\ old.subrepl \subseteq known /\ old.pendingrefs \subseteq known
  BY <1>3 DEF Macro
<1>6. /\ Mentioned(d, known) \subseteq known
      /\ Sub(old.sub, d, known) \subseteq Ids
      /\ \A i, j \in Sub(old.sub, d, known) : i = j
      /\ Subrepl(old.subrepl, d, known) \subseteq known
  BY <1>3, <1>5, MentionedKnown, SubAtMostOne, SubreplKnown
<1>7. /\ m.component = old.component /\ m.incomplete = old.incomplete
      /\ m.function = old.function /\ m.file = p /\ m.sub = Sub(old.sub, d, known)
      /\ m.subrepl = Subrepl(old.subrepl, d, known)
      /\ m.pendingrefs = old.pendingrefs \cup Mentioned(d, known)
  BY <1>3 DEF Macro
<1>8. m \in Macro
  <2>1. d.objlike \in BOOLEAN
    BY MacroAssumption
  <2>2. /\ Sub(old.sub, d, known) \in SUBSET Ids
        /\ Subrepl(old.subrepl, d, known) \in SUBSET Names
        /\ old.pendingrefs \cup Mentioned(d, known) \in SUBSET Names
    BY <1>4, <1>5, <1>6
  <2>3. QED
    BY <1>3, <2>1, <2>2 DEF Macro
<1> HIDE DEF m, old, known
<1>9. /\ old.pendingrefs \subseteq m.pendingrefs
      /\ m.pendingrefs \cup m.subrepl \subseteq Known'
      /\ mentions' \subseteq mentions \cup {<<n, r>> : r \in m.pendingrefs}
  BY <1>1, <1>2, <1>5, <1>6, <1>7
<1>10. m.incomplete
  BY <1>3, <1>7
<1>11. Known' = Known \cup {n}
  BY <1>2 DEF known
<1>12. \A i, j \in m.sub : i = j
  BY <1>6, <1>7
<1>13. QED
  BY <1>1, <1>2, <1>7, <1>8, <1>9, <1>10, <1>11, <1>12, AssignKeeps DEF old

(* MacroUndefined() and MacroExpands() of a macro that is defined.         *)
LEMMA MacroUsedKeeps ==
  ASSUME MacroInv, NEW n \in Names,
         MacroUndefined(n) \/ \E embedded \in BOOLEAN : MacroExpands(n, embedded)
  PROVE  MacroInv'
<1> DEFINE m == MacroMap'[n]
<1>1. n \in Known /\ mlookup(n) = MacroMap[n] /\ phase = "preprocess"
  BY LookupMacro DEF MacroUndefined, MacroExpands, MacroInv, TableClosed
<1>2. /\ Known' = Known \cup {n} /\ \A x \in Known : x # n => MacroMap'[x] = MacroMap[x]
      /\ m \in {MacroMap[n], [MacroMap[n] EXCEPT !.MIlive = FALSE]}
  BY <1>1, SetMacroEffect DEF MacroUndefined, MacroExpands, Known
<1>3. MacroMap[n] \in Macro
  BY <1>1 DEF MacroInv, MacroTypeOK, Known
<1>4. /\ m \in Macro /\ m.component = MacroMap[n].component /\ m.incomplete = MacroMap[n].incomplete
      /\ m.function = MacroMap[n].function /\ m.pendingrefs = MacroMap[n].pendingrefs
      /\ m.file = MacroMap[n].file /\ m.sub = MacroMap[n].sub /\ m.subrepl = MacroMap[n].subrepl
  BY <1>2, <1>3 DEF Macro
<1>5. /\ MacroMap[n].pendingrefs \cup MacroMap[n].subrepl \subseteq Known
      /\ MacroMap[n].file \in Paths
      /\ \A i, j \in MacroMap[n].sub : i = j
      /\ MacroMap[n].incomplete => MacroMap[n].file \in entered \cup Remapped
  BY <1>1 DEF MacroInv, TableClosed, Queued, Done
<1>6. PICK embedded \in BOOLEAN : PushRecord(n, embedded)
  BY DEF MacroUndefined, MacroExpands
<1>7. /\ UNCHANGED <<vars, PostQueue, stack, walk, mentions>> /\ defined' \subseteq defined \cup {n}
  BY DEF MacroUndefined, MacroExpands
<1> HIDE DEF m
<1>8. QED
  BY <1>1, <1>2, <1>4, <1>5, <1>6, <1>7, AssignKeeps DEF m

(* MacroDefined() of a macro that has its component.                       *)
LEMMA MacroDefinedAgainKeeps ==
  ASSUME MacroInv, NEW n \in Names, MacroDefinedAgain(n) PROVE MacroInv'
<1> USE DEF MacroInv
<1>1. /\ UNCHANGED <<MacroMap, MRQ, PostQueue, stack, walk, position, mentions>>
      /\ UNCHANGED <<heap, references, AllFiles, components, Components, phase, entered>>
      /\ defined' = defined \cup {n}
  BY DEF MacroDefinedAgain, tableVars, vars, storeVars, clangVars
<1>2. n \in Known
  BY LookupMacro DEF MacroDefinedAgain, NewMacro
<1>3. TypeOK' /\ Address' = Address
  BY StoreStutters DEF MacroDefinedAgain, MacroTypeOK
<1>4. MacroTypeOK' /\ TableClosed'
  BY <1>1, <1>2, <1>3 DEF MacroTypeOK, TableClosed, Known
<1>5. Owned' /\ WalkInPhase' /\ Queued'
  BY <1>1, <1>3 DEF Owned, Bound, Registered, Done, Known, WalkInPhase, Queued
<1>6. Running'
  BY <1>1 DEF Running, StackDistinct, Done, OnStack, ToDo, Referred, Known
<1>7. QED
  BY <1>4, <1>5, <1>6

-----------------------------------------------------------------------------
(* Binding                                                                 *)

(* bind never takes a component out of the set it is in.                   *)
LEMMA BindGrows ==
  ASSUME TypeOK, NEW t \in Types, NEW i \in Ids, NEW local \in BOOLEAN, NEW p \in Paths,
         Bind(t, i, local, p)
  PROVE  /\ Address' = Address \cup {Len(heap) + 1} /\ Len(heap) + 1 \notin Address
         /\ \A c \in Address : heap'[c] = heap[c]
         /\ heap'[Len(heap) + 1].type = t /\ heap'[Len(heap) + 1].id = i
         /\ heap'[Len(heap) + 1].local = local
         /\ AllFiles \subseteq AllFiles' /\ Components \subseteq Components'
         /\ \A f \in Files : components[f] \subseteq components'[f]
<1> DEFINE o == Len(heap) + 1
<1>1. CASE local
  <2>1. BindLocal(t, i, p)
    BY <1>1 DEF Bind
  <2>2. /\ Address' = Address \cup {o} /\ o \notin Address
        /\ \A c \in Address : heap'[c] = heap[c]
        /\ heap'[o] = Record(t, i, TRUE, RealPath[p])
    BY <2>1, BindLocalEffect
  <2>3. /\ AllFiles' = AllFiles \cup {RealPath[p]} /\ Components' = Components
        /\ components' = [components EXCEPT ![RealPath[p]] = Insert(@, o, t, i)]
        /\ RealPath[p] \in Files
    BY <2>1, BindLocalEffect
  <2>4. heap'[o].type = t /\ heap'[o].id = i /\ heap'[o].local = TRUE
    BY <2>2 DEF Record
  <2>5. \A f \in Files : components[f] \subseteq components'[f]
    BY <2>3 DEF Insert, TypeOK
  <2>6. QED
    BY <1>1, <2>2, <2>3, <2>4, <2>5
<1>2. CASE ~local
  <2>1. BindGlobal(t, i)
    BY <1>2 DEF Bind
  <2>2. /\ Address' = Address \cup {o} /\ o \notin Address
        /\ \A c \in Address : heap'[c] = heap[c]
        /\ heap'[o] = Record(t, i, FALSE, NoFile)
    BY <2>1, BindGlobalEffect
  <2>3. Components \subseteq Components' /\ UNCHANGED <<AllFiles, components>>
    BY <2>1, BindGlobalEffect DEF Insert
  <2>4. heap'[o].type = t /\ heap'[o].id = i /\ heap'[o].local = FALSE
    BY <2>2 DEF Record
  <2>5. QED
    BY <1>2, <2>2, <2>3, <2>4
<1>3. QED
  BY <1>1, <1>2

(* So a component that MapComponents() finds is found later, too.          *)
LEMMA RegisteredGrows ==
  ASSUME TypeOK, NEW c \in Address, heap'[c] = heap[c], Registered(c),
         AllFiles \subseteq AllFiles', Components \subseteq Components',
         \A f \in Files : components[f] \subseteq components'[f]
  PROVE  Registered(c)'
<1>1. AllFiles \subseteq Files
  BY DEF TypeOK
<1>2. CASE heap[c].local
  BY <1>1, <1>2 DEF Registered
<1>3. CASE ~heap[c].local
  BY <1>3 DEF Registered
<1>4. QED
  BY <1>2, <1>3

(* A component of another kind has no effect on the macros.                *)
LEMMA OwnedGrows ==
  ASSUME MacroInv, NEW i \in Ids, NEW local \in BOOLEAN, NEW p \in Paths,
         Bind(FUNCTION_REG, i, local, p), UNCHANGED MacroMap
  PROVE  Owned'
<1> USE DEF MacroInv, MacroTypeOK
<1> DEFINE o == Len(heap) + 1
<1>1. FUNCTION_REG \in Types
  BY MacroAssumption
<1>2. /\ Address' = Address \cup {o} /\ \A c \in Address : heap'[c] = heap[c]
      /\ heap'[o].type = FUNCTION_REG
      /\ AllFiles \subseteq AllFiles' /\ Components \subseteq Components'
      /\ \A f \in Files : components[f] \subseteq components'[f]
  BY <1>1, BindGrows
<1>3. Known' = Known /\ \A n \in Known : MacroMap'[n] = MacroMap[n]
  BY DEF Known
<1>4. ASSUME NEW n \in Known, Done(n) PROVE Bound(n)'
  <2> DEFINE c == MacroMap[n].component
  <2>1. c \in Address /\ Bound(n)
    BY <1>4 DEF Owned, Bound
  <2>2. Registered(c)'
    BY <1>2, <2>1, RegisteredGrows DEF Bound
  <2>3. QED
    BY <1>2, <1>3, <2>1, <2>2 DEF Bound
<1>5. \A n \in Known : ~Done(n) => MacroMap'[n].component = NULL
  BY <1>3 DEF Owned
<1>6. ASSUME NEW c \in Address', heap'[c].type \in {FUNCTION_MACRO, DATA_MACRO}
      PROVE  heap'[c].id \in Known /\ MacroMap'[heap'[c].id].component = c
  <2>1. c \in Address
    BY <1>2, <1>6 DEF FUNCTION_REG, FUNCTION_MACRO, DATA_MACRO
  <2>2. QED
    BY <1>2, <1>3, <1>6, <2>1 DEF Owned
<1>7. QED
  BY <1>3, <1>4, <1>5, <1>6 DEF Owned, Done

(* A function is visited: it is looked up, and bound on a miss.            *)
LEMMA VisitKeeps ==
  ASSUME MacroInv, NEW i \in Declared, NEW local \in BOOLEAN, NEW isdef \in BOOLEAN,
         NEW p \in Paths, NEW from \in 0..MaxRecords, NEW to \in from..MaxRecords,
         VisitFunctionDecl(i, local, p, isdef, from, to)
  PROVE  MacroInv'
<1> USE DEF MacroInv
<1> DEFINE hit == Lookup(FUNCTION_REG, i, local)
           o == Len(heap) + 1
<1>0. i \in Ids /\ FUNCTION_REG \in Types /\ TypeOK
  BY MacroAssumption DEF MacroTypeOK
<1>1. /\ UNCHANGED <<references, TranslationUnits, context, phase, entered, MacroMap, MRQ,
                     PostQueue, stack, defined, position, mentions>>
      /\ stack = <<>> /\ phase = "ast"
      /\ walk' = [kind |-> "find", at |-> 1, from |-> from, to |-> to,
                  C |-> IF hit = NULL THEN o ELSE hit, isdef |-> isdef]
  BY DEF VisitFunctionDecl, Visiting, clangVars
<1>2. ASSUME (IF hit = NULL THEN o ELSE hit) \in Nat
       PROVE  walk' \in WalkState /\ walk'.kind = "find" /\ walk'.at = 1
              /\ walk'.C = IF hit = NULL THEN o ELSE hit
  <2>1. from \in 0..MaxRecords /\ to \in 0..MaxRecords
    BY MacroAssumption
  <2>2. QED
    BY <1>1, <1>2, <2>1 DEF WalkState
<1>3. CASE hit # NULL
  <2>1. UNCHANGED <<heap, parent, AllFiles, components, Components, allComponents, lastfile>>
    BY <1>3 DEF VisitFunctionDecl
  <2>2. UNCHANGED vars
    BY <1>1, <2>1 DEF vars, storeVars, clangVars
  <2>3. TypeOK' /\ Address' = Address
    BY <1>0, <2>2, StoreStutters
  <2>4. hit \in Address
    BY <1>0, <1>3, LookupHit
  <2>5. MacroTypeOK' /\ TableClosed'
    BY <1>1, <2>1, <2>3 DEF MacroTypeOK, TableClosed, Known
  <2>6. Owned' /\ Queued'
    BY <1>1, <2>1, <2>3 DEF Owned, Bound, Registered, Done, Known, Queued
  <2>7. WalkInPhase'
    <3>1. hit \in Nat
      BY <2>4 DEF Address
    <3>2. walk' \in WalkState /\ walk'.kind = "find" /\ walk'.at = 1 /\ walk'.C = hit
      BY <1>2, <1>3, <3>1
    <3>3. QED
      BY <1>1, <2>3, <2>4, <3>2 DEF WalkInPhase
  <2>8. Running'
    BY <1>1 DEF Running, StackDistinct, Done, OnStack, ToDo, Referred, Known
  <2>9. QED
    BY <2>5, <2>6, <2>7, <2>8
<1>4. CASE hit = NULL
  <2>1. Bind(FUNCTION_REG, i, local, p)
    BY <1>4 DEF VisitFunctionDecl
  <2>2. /\ Address' = Address \cup {o} /\ Len(heap') = Len(heap) + 1 /\ Len(heap) \in Nat
    <3>1. Address' = Address \cup {o}
      BY <1>0, <2>1, BindGrows
    <3>2. PICK r : heap' = Append(heap, r)
      BY <2>1 DEF Bind, BindLocal, BindGlobal
    <3>3. Len(heap') = Len(heap) + 1 /\ Len(heap) \in Nat
      BY <1>0, <3>2 DEF TypeOK
    <3>4. QED
      BY <3>1, <3>3
  <2>3. TypeOK'
    <3>1. references' \subseteq Address' \X Address' \X Kinds
      BY <1>0, <1>1, <2>2, ReferencesGrow
    <3>2. QED
      BY <1>0, <1>1, <2>1, <3>1, BindTypes
  <2>4. MacroTypeOK' /\ TableClosed'
    <3>1. \A n \in Known : MacroMap[n].component \in Nat /\ MacroMap[n].component <= Len(heap)
      BY DEF MacroTypeOK, Macro, Known
    <3>2. \A n \in Known : MacroMap[n].component <= Len(heap')
      BY <2>2, <3>1
    <3>3. QED
      BY <1>1, <2>3, <3>2 DEF MacroTypeOK, TableClosed, Known
  <2>5. Owned'
    BY <1>0, <1>1, <2>1, OwnedGrows
  <2>6. WalkInPhase'
    <3>1. o \in Nat
      BY <2>2
    <3>2. walk' \in WalkState /\ walk'.kind = "find" /\ walk'.at = 1 /\ walk'.C = o
      BY <1>2, <1>4, <3>1
    <3>3. QED
      BY <1>1, <2>2, <3>2 DEF WalkInPhase
  <2>7. Queued' /\ Running'
    BY <1>1 DEF Queued, Running, StackDistinct, Done, OnStack, ToDo, Referred, Known
  <2>8. QED
    BY <2>4, <2>5, <2>6, <2>7
<1>5. QED
  BY <1>3, <1>4

-----------------------------------------------------------------------------
(* CompleteDefinition                                                      *)

(* What LookupFunction() finds is a function, or a function-like macro.    *)
LEMMA FunctionFound ==
  ASSUME TypeOK, NEW i, LookupFunction(i) # NULL
  PROVE  /\ LookupFunction(i) \in Address /\ heap[LookupFunction(i)].id = i
         /\ heap[LookupFunction(i)].type \in {FUNCTION_REG, FUNCTION_MACRO}
<1>1. CASE LookupFull(FUNCTION_REG, i) # NULL
  <2>1. LookupFunction(i) = LookupFull(FUNCTION_REG, i)
    BY <1>1 DEF LookupFunction
  <2>2. QED
    BY <1>1, <2>1, LookupFullHit DEF Matches
<1>2. CASE LookupFull(FUNCTION_REG, i) = NULL
  <2>1. LookupFunction(i) = LookupFull(FUNCTION_MACRO, i)
    BY <1>2 DEF LookupFunction
  <2>2. QED
    BY <2>1, LookupFullHit DEF Matches
<1>3. QED
  BY <1>1, <1>2

(* A substitution is resolved by a reference, or deferred.                 *)
Resolved(o, S) == \E c \in Address : /\ heap[c].type \in {FUNCTION_REG, FUNCTION_MACRO}
                                     /\ heap[c].id \in S
                                     /\ <<o, c, REF_SUBSTITUTION>> \in references'

(* The call for macro n, by its effects: the component o it binds, as a    *)
(* data macro or not, and the macros P the loop will see to.               *)
Completes(n, data, P) ==
  LET o == Len(heap) + 1
  IN  /\ BindLocal(IF data THEN DATA_MACRO ELSE FUNCTION_MACRO, n, MacroMap[n].file)
      /\ MacroMap[n].pendingrefs \subseteq P
      /\ Known' = Known /\ \A x \in Known : x # n => MacroMap'[x] = MacroMap[x]
      /\ MacroMap'[n] \in Macro
      /\ MacroMap'[n].component = o /\ ~MacroMap'[n].incomplete
      /\ MacroMap'[n].function = ~data
      /\ MacroMap'[n].sub = MacroMap[n].sub /\ MacroMap'[n].subrepl = MacroMap[n].subrepl
      /\ MacroMap'[n].file = MacroMap[n].file /\ MacroMap'[n].pendingrefs = P
      /\ stack' = <<[m |-> n, todo |-> P]>> \o stack
      /\ \/ references' = references
         \/ \E c \in Address : references' = references \cup {<<o, c, REF_SUBSTITUTION>>}
      /\ \/ PostQueue' = PostQueue
         \/ PostQueue' = Append(PostQueue, n) /\ MacroMap[n].sub # {}
      /\ \/ data \/ MacroMap[n].sub = {}
         \/ PostQueue' = Append(PostQueue, n) \/ Resolved(o, MacroMap[n].sub)

LEMMA CompleteEffect ==
  ASSUME MacroInv, NEW n \in Known, CompleteDefinition(n)
  PROVE  \E data \in BOOLEAN, P \in SUBSET Known : Completes(n, data, P)
<1> USE DEF MacroInv, MacroTypeOK
<1> DEFINE m == MacroMap[n]
           o == Len(heap) + 1
           s == CHOOSE i \in m.sub : TRUE
           frepl == IF m.sub = {} THEN NULL ELSE LookupFunction(s)
           pend(data) == m.pendingrefs \cup IF data THEN {} ELSE m.subrepl
<1>1. PICK data \in BOOLEAN :
        /\ BindLocal(IF data THEN DATA_MACRO ELSE FUNCTION_MACRO, n, m.file)
        /\ references' = IF ~data /\ frepl # NULL
                         THEN references \cup {<<o, frepl, REF_SUBSTITUTION>>}
                         ELSE references
        /\ PostQueue' = IF ~data /\ frepl = NULL /\ m.sub # {}
                        THEN Append(PostQueue, n) ELSE PostQueue
        /\ MacroMap' = [MacroMap EXCEPT ![n] =
             [m EXCEPT !.component = o, !.incomplete = FALSE, !.function = ~data,
                       !.pendingrefs = pend(data)]]
        /\ stack' = <<[m |-> n, todo |-> pend(data)]>> \o stack
  <2>1. ObjectLike(m) \subseteq BOOLEAN
    BY DEF ObjectLike, Macro, Known
  <2>2. ASSUME NEW isfunc, NEW objlike \in BOOLEAN PROVE (~isfunc /\ objlike) \in BOOLEAN
    OBVIOUS
  <2>3. QED
    BY <2>1, <2>2 DEF CompleteDefinition
<1> DEFINE P == pend(data)
           g == [m EXCEPT !.component = o, !.incomplete = FALSE, !.function = ~data,
                          !.pendingrefs = P]
<1>2. m \in Macro /\ P \in SUBSET Known /\ P \in SUBSET Names /\ m.pendingrefs \subseteq P
  BY DEF TableClosed, Known
<1>3. /\ g.component = o /\ g.incomplete = FALSE /\ g.function = ~data /\ g.sub = m.sub
      /\ g.subrepl = m.subrepl /\ g.file = m.file /\ g.pendingrefs = P
  BY <1>2 DEF Macro
<1>4. g \in Macro
  <2>1. Len(heap) \in Nat
    BY DEF TypeOK
  <2>2. o \in Nat
    BY <2>1
  <2>3. (~data) \in BOOLEAN
    OBVIOUS
  <2>4. QED
    BY <1>2, <2>2, <2>3 DEF Macro
<1>5. Known' = Known /\ MacroMap'[n] = g /\ \A x \in Known : x # n => MacroMap'[x] = MacroMap[x]
  BY <1>1 DEF Known
<1>6. m.sub # {} => s \in m.sub
  OBVIOUS
<1>7. frepl # NULL =>
        /\ m.sub # {} /\ frepl \in Address /\ heap[frepl].id \in m.sub
        /\ heap[frepl].type \in {FUNCTION_REG, FUNCTION_MACRO}
  <2> SUFFICES ASSUME frepl # NULL
               PROVE  /\ m.sub # {} /\ frepl \in Address /\ heap[frepl].id \in m.sub
                      /\ heap[frepl].type \in {FUNCTION_REG, FUNCTION_MACRO}
    OBVIOUS
  <2>1. m.sub # {} /\ frepl = LookupFunction(s) /\ s \in m.sub
    BY <1>6
  <2>2. QED
    BY <2>1, FunctionFound
<1> HIDE DEF frepl, g, P, s
<1>8. \/ references' = references
      \/ \E c \in Address : references' = references \cup {<<o, c, REF_SUBSTITUTION>>}
  BY <1>1, <1>7
<1>9. \/ PostQueue' = PostQueue
      \/ PostQueue' = Append(PostQueue, n) /\ m.sub # {}
  BY <1>1
<1>10. \/ data \/ m.sub = {}
       \/ PostQueue' = Append(PostQueue, n) \/ Resolved(o, m.sub)
  <2>1. CASE ~data /\ m.sub # {} /\ frepl = NULL
    BY <1>1, <2>1
  <2>2. CASE ~data /\ frepl # NULL
    <3>1. <<o, frepl, REF_SUBSTITUTION>> \in references'
      BY <1>1, <2>2
    <3>2. QED
      BY <1>7, <2>2, <3>1 DEF Resolved
  <2>3. QED
    BY <2>1, <2>2
<1>11. stack' = <<[m |-> n, todo |-> P]>> \o stack
  BY <1>1 DEF P
<1>12. Completes(n, data, P)
  BY <1>1, <1>2, <1>3, <1>4, <1>5, <1>8, <1>9, <1>10, <1>11 DEF Completes
<1>13. QED
  BY <1>2, <1>12

(* A frame pushed on the stack.                                            *)
LEMMA PushFrame ==
  ASSUME NEW F, stack \in Seq(F), NEW f \in F, stack' = <<f>> \o stack
  PROVE  /\ stack' \in Seq(F) /\ Len(stack') = Len(stack) + 1 /\ Len(stack) \in Nat
         /\ stack'[1] = f
         /\ \A k \in 1..Len(stack) : k + 1 \in 1..Len(stack') /\ stack'[k + 1] = stack[k]
         /\ \A k \in 1..Len(stack') : k # 1 => k - 1 \in 1..Len(stack) /\ stack'[k] = stack[k - 1]
<1>1. <<f>> \in Seq(F) /\ Len(<<f>>) = 1 /\ <<f>>[1] = f
  OBVIOUS
<1>2. /\ stack' \in Seq(F) /\ Len(stack') = 1 + Len(stack) /\ Len(stack) \in Nat
      /\ \A k \in 1..1 + Len(stack) : stack'[k] = IF k <= 1 THEN <<f>>[k] ELSE stack[k - 1]
  BY <1>1, ConcatProperties
<1>3. QED
  BY <1>1, <1>2

(* A local component of a new name is in the file it is bound to.          *)
LEMMA BindLocalPlace ==
  ASSUME TypeOK, NEW t \in Types, NEW i \in Ids, NEW p \in Paths, BindLocal(t, i, p),
         ~HasKey(components[RealPath[p]], t, i)
  PROVE  /\ RealPath[p] \in AllFiles' /\ Len(heap) + 1 \in components'[RealPath[p]]
         /\ heap'[Len(heap) + 1].home = RealPath[p]
<1> DEFINE o == Len(heap) + 1
<1>1. /\ components' = [components EXCEPT ![RealPath[p]] = Insert(@, o, t, i)]
      /\ AllFiles' = AllFiles \cup {RealPath[p]} /\ RealPath[p] \in Files
      /\ heap'[o] = Record(t, i, TRUE, RealPath[p])
  BY BindLocalEffect
<1> HIDE DEF o
<1>2. heap'[o].home = RealPath[p]
  BY <1>1 DEF Record
<1>3. o \in components'[RealPath[p]]
  BY <1>1 DEF Insert, TypeOK
<1>4. QED
  BY <1>1, <1>2, <1>3 DEF o

(* A call of CompleteDefinition for a macro that is incomplete.            *)
LEMMA CompleteKeeps ==
  ASSUME MacroInv, NEW n \in Known, ~Done(n), NEW data \in BOOLEAN, NEW P \in SUBSET Known,
         Completes(n, data, P), walk.kind \in {"find", "flush"},
         UNCHANGED <<TranslationUnits, context, clangVars, MRQ, walk, clangMacroVars, mentions>>
  PROVE  MacroInv'
<1> USE DEF MacroInv, MacroTypeOK
<1> DEFINE o == Len(heap) + 1
           t == IF data THEN DATA_MACRO ELSE FUNCTION_MACRO
           p == MacroMap[n].file
           f == [m |-> n, todo |-> P]
           F == [m : Known, todo : SUBSET Known]
<1>1. /\ BindLocal(t, n, p)
      /\ MacroMap[n].pendingrefs \subseteq P
      /\ Known' = Known /\ \A x \in Known : x # n => MacroMap'[x] = MacroMap[x]
      /\ MacroMap'[n] \in Macro
      /\ MacroMap'[n].component = o /\ ~MacroMap'[n].incomplete
      /\ MacroMap'[n].function = ~data
      /\ MacroMap'[n].sub = MacroMap[n].sub /\ MacroMap'[n].subrepl = MacroMap[n].subrepl
      /\ MacroMap'[n].file = MacroMap[n].file /\ MacroMap'[n].pendingrefs = P
      /\ stack' = <<f>> \o stack
      /\ \/ references' = references
         \/ \E c \in Address : references' = references \cup {<<o, c, REF_SUBSTITUTION>>}
      /\ PostQueue' = PostQueue \/ PostQueue' = Append(PostQueue, n)
  BY DEF Completes
<1>2. t \in Types /\ n \in Ids /\ n \in Names /\ p \in Paths /\ TypeOK
      /\ t \in {FUNCTION_MACRO, DATA_MACRO}
  BY MacroAssumption DEF TableClosed, Known
<1>3. Bind(t, n, TRUE, p)
  BY <1>1 DEF Bind
<1>4. /\ Address' = Address \cup {o} /\ o \notin Address
      /\ \A c \in Address : heap'[c] = heap[c]
      /\ heap'[o].type = t /\ heap'[o].id = n /\ heap'[o].local = TRUE
      /\ AllFiles \subseteq AllFiles' /\ Components \subseteq Components'
      /\ \A g \in Files : components[g] \subseteq components'[g]
  BY <1>2, <1>3, BindGrows
<1>5. /\ UNCHANGED <<TranslationUnits, context, phase, entered, MRQ, walk, mentions>>
      /\ UNCHANGED <<defined, position>>
  BY DEF clangVars, clangMacroVars
<1>6. TypeOK'
  <2>1. references' \subseteq Address' \X Address' \X Kinds
    <3>1. references \subseteq Address' \X Address' \X Kinds
      BY <1>2, <1>4, ReferencesGrow
    <3>2. ASSUME NEW c \in Address
          PROVE  <<o, c, REF_SUBSTITUTION>> \in Address' \X Address' \X Kinds
      BY <1>4, MacroAssumption
    <3>3. QED
      BY <1>1, <3>1, <3>2
  <2>2. QED
    BY <1>2, <1>3, <1>5, <2>1, BindTypes
<1>7. Len(heap') = o /\ Len(heap) \in Nat
  <2>1. PICK r : heap' = Append(heap, r)
    BY <1>1 DEF BindLocal
  <2>2. QED
    BY <1>2, <2>1 DEF TypeOK
<1>8. /\ stack' \in Seq(F) /\ Len(stack') = Len(stack) + 1 /\ Len(stack) \in Nat
      /\ stack'[1] = f
      /\ \A k \in 1..Len(stack) : k + 1 \in 1..Len(stack') /\ stack'[k + 1] = stack[k]
      /\ \A k \in 1..Len(stack') : k # 1 => k - 1 \in 1..Len(stack) /\ stack'[k] = stack[k - 1]
  <2>1. stack \in Seq(F) /\ f \in F
    BY DEF Known
  <2> HIDE DEF f, F
  <2>2. QED
    BY <1>1, <2>1, PushFrame
<1>9. MacroTypeOK'
  <2>1. \A x \in Known' : MacroMap'[x] \in Macro /\ MacroMap'[x].component <= Len(heap')
    <3>1. \A x \in Known : MacroMap[x] \in Macro /\ MacroMap[x].component <= Len(heap)
      BY DEF Known
    <3>2. \A x \in Known : MacroMap[x].component \in Nat
      BY <3>1 DEF Macro
    <3>3. QED
      BY <1>1, <1>7, <3>1, <3>2
  <2>2. PostQueue' \in Seq(Known')
    <3>1. PostQueue \in Seq(Known) /\ Append(PostQueue, n) \in Seq(Known)
      BY DEF Known
    <3>2. PostQueue' \in Seq(Known)
      BY <1>1, <3>1
    <3>3. QED
      BY <1>1, <3>2
  <2>3. stack' \in Seq([m : Known', todo : SUBSET Known'])
    BY <1>1, <1>8
  <2>4. Known' \subseteq Names /\ MRQ' \in Seq([m : Names, loc : 1..MaxRecords, embedded : BOOLEAN])
    BY <1>1, <1>5 DEF Known
  <2>5. QED
    BY <1>6, <2>1, <2>2, <2>3, <2>4 DEF Known
<1>10. TableClosed'
  <2>1. \A x \in Known : /\ MacroMap'[x].subrepl \cup MacroMap'[x].pendingrefs \subseteq Known
                         /\ MacroMap'[x].file \in Paths
                         /\ \A i, j \in MacroMap'[x].sub : i = j
    BY <1>1 DEF TableClosed
  <2>2. QED
    BY <1>1, <1>5, <2>1 DEF TableClosed
<1>11. \A x \in Known : Done(x)' <=> Done(x) \/ x = n
  BY <1>1 DEF Done
<1>12. Owned'
  <2>1. ~HasKey(components[RealPath[p]], t, n)
    <3> SUFFICES ASSUME NEW c \in components[RealPath[p]], heap[c].type = t, heap[c].id = n
                 PROVE  FALSE
      BY DEF HasKey, Matches
    <3>1. c \in Address
      BY <1>2, StoreAssumption DEF TypeOK, Files
    <3>2. MacroMap[n].component = c
      BY <1>2, <3>1 DEF Owned
    <3>3. QED
      BY <3>1, <3>2 DEF Owned, Address, NULL
  <2>2. Bound(n)'
    <3>1. RealPath[p] \in AllFiles' /\ o \in components'[RealPath[p]] /\ heap'[o].home = RealPath[p]
      BY <1>1, <1>2, <2>1, BindLocalPlace
    <3>2. /\ MacroMap'[n].component = o /\ o \in Address'
          /\ heap'[o].id = n /\ heap'[o].type = t /\ heap'[o].local
      BY <1>1, <1>4
    <3>3. t = IF MacroMap'[n].function THEN FUNCTION_MACRO ELSE DATA_MACRO
      BY <1>1
    <3> HIDE DEF t, o
    <3>4. QED
      BY <3>1, <3>2, <3>3 DEF Bound, Registered
  <2>3. ASSUME NEW x \in Known, x # n, Done(x) PROVE Bound(x)'
    <3> DEFINE c == MacroMap[x].component
    <3>1. c \in Address /\ Bound(x) /\ MacroMap'[x] = MacroMap[x]
      BY <1>1, <2>3 DEF Owned, Bound
    <3>2. Registered(c)'
      BY <1>2, <1>4, <3>1, RegisteredGrows DEF Bound
    <3>3. QED
      BY <1>4, <3>1, <3>2 DEF Bound
  <2>4. ASSUME NEW x \in Known, x # n, ~Done(x) PROVE MacroMap'[x].component = NULL
    BY <1>1, <2>4 DEF Owned
  <2>5. ASSUME NEW c \in Address', heap'[c].type \in {FUNCTION_MACRO, DATA_MACRO}
        PROVE  heap'[c].id \in Known' /\ MacroMap'[heap'[c].id].component = c
    <3>1. CASE c = o
      BY <1>1, <1>4, <3>1
    <3>2. CASE c # o
      <4>1. c \in Address /\ heap'[c] = heap[c]
        BY <1>4, <3>2
      <4>2. heap[c].id \in Known /\ MacroMap[heap[c].id].component = c
        BY <2>5, <4>1 DEF Owned
      <4>3. heap[c].id # n
        BY <4>1, <4>2 DEF Owned, Address, NULL
      <4>4. QED
        BY <1>1, <4>1, <4>2, <4>3
    <3>3. QED
      BY <3>1, <3>2
  <2>6. (\A x \in Known : IF Done(x) THEN Bound(x) ELSE MacroMap[x].component = NULL)'
    BY <1>1, <1>11, <2>2, <2>3, <2>4
  <2>7. QED
    BY <2>5, <2>6 DEF Owned
<1>13. WalkInPhase'
  BY <1>4, <1>5 DEF WalkInPhase
<1>14. Queued'
  BY <1>1, <1>5, <1>11 DEF Queued
<1>15. Running'
  <2>1. StackDistinct'
    <3> SUFFICES ASSUME NEW j \in 1..Len(stack'), NEW k \in 1..Len(stack'),
                        stack'[j].m = stack'[k].m
                 PROVE  j = k
      BY DEF StackDistinct
    <3>1. \A i \in 1..Len(stack) : stack[i].m # n
      BY DEF Running
    <3>2. ASSUME j = 1 \/ k = 1 PROVE j = k
      <4>1. \A i \in 1..Len(stack') : i # 1 => stack'[i].m # n
        <5> SUFFICES ASSUME NEW i \in 1..Len(stack'), i # 1 PROVE stack'[i].m # n
          OBVIOUS
        <5>1. i - 1 \in 1..Len(stack) /\ stack'[i] = stack[i - 1]
          BY <1>8
        <5>2. QED
          BY <3>1, <5>1
      <4>2. stack'[1].m = n
        BY <1>8
      <4>3. QED
        BY <3>2, <4>1, <4>2
    <3>3. ASSUME j # 1, k # 1 PROVE j = k
      <4>1. j - 1 \in 1..Len(stack) /\ k - 1 \in 1..Len(stack) /\ stack[j - 1].m = stack[k - 1].m
        BY <1>8, <3>3
      <4>2. j - 1 = k - 1
        BY <4>1 DEF Running, StackDistinct
      <4>3. QED
        BY <4>2
    <3>4. QED
      BY <3>2, <3>3
  <2>2. ASSUME NEW k \in 1..Len(stack') PROVE ~MacroMap'[stack'[k].m].incomplete
    <3>1. CASE k = 1
      BY <1>1, <1>8, <3>1
    <3>2. CASE k # 1
      <4>1. k - 1 \in 1..Len(stack) /\ stack'[k] = stack[k - 1]
        BY <1>8, <3>2
      <4>2. Done(stack[k - 1].m)
        BY <4>1 DEF Running
      <4>3. stack[k - 1].m \in Known
        <5>1. stack[k - 1] \in F
          BY <4>1, ElementOfSeq DEF Known
        <5>2. QED
          BY <5>1
      <4>4. QED
        BY <1>11, <4>1, <4>2, <4>3 DEF Done
    <3>3. QED
      BY <3>1, <3>2
  <2>3. OnStack(n)' /\ \A x : OnStack(x) => OnStack(x)'
    <3>1. 1 \in 1..Len(stack') /\ stack'[1].m = n
      BY <1>8
    <3>2. QED
      BY <1>8, <3>1 DEF OnStack
  <2>4. \A r : (r \in P => ToDo(n, r)') /\ \A x : ToDo(x, r) => ToDo(x, r)'
    <3>1. 1 \in 1..Len(stack') /\ stack'[1].m = n /\ stack'[1].todo = P
      BY <1>8
    <3>2. QED
      BY <1>8, <3>1 DEF ToDo
  <2>5. ASSUME NEW x \in Known, ~MacroMap'[x].incomplete
        PROVE  MacroMap'[x].pendingrefs = {} \/ OnStack(x)'
    <3>1. CASE x = n
      BY <2>3, <3>1
    <3>2. CASE x # n
      BY <1>1, <2>3, <2>5, <3>2 DEF Running, Done
    <3>3. QED
      BY <3>1, <3>2
  <2>6. ASSUME NEW l \in mentions
        PROVE  (IF Done(l[1]) THEN Referred(l[1], l[2]) \/ ToDo(l[1], l[2])
                              ELSE l[2] \in MacroMap[l[1]].pendingrefs)'
    <3>0. l[1] \in Known /\ l[2] \in Known
      BY DEF TableClosed
    <3>1. CASE l[1] = n
      <4>1. l[2] \in P
        BY <1>1, <3>1 DEF Running
      <4>2. ToDo(l[1], l[2])' /\ Done(l[1])'
        BY <1>11, <2>4, <3>0, <3>1, <4>1
      <4>3. QED
        BY <4>2
    <3>2. CASE l[1] # n /\ Done(l[1])
      <4>1. Done(l[1])' /\ MacroMap'[l[1]] = MacroMap[l[1]]
        BY <1>1, <1>11, <3>0, <3>2
      <4>2. CASE ToDo(l[1], l[2])
        BY <2>4, <4>1, <4>2
      <4>3. CASE Referred(l[1], l[2])
        <5>1. l[2] # n /\ Done(l[2])
          BY <4>3 DEF Referred
        <5>2. Done(l[2])' /\ MacroMap'[l[2]] = MacroMap[l[2]] /\ references \subseteq references'
          BY <1>1, <1>11, <3>0, <5>1
        <5>3. Referred(l[1], l[2])'
          BY <4>1, <4>3, <5>2 DEF Referred
        <5>4. QED
          BY <4>1, <5>3
      <4>4. QED
        BY <3>2, <4>2, <4>3 DEF Running
    <3>3. CASE l[1] # n /\ ~Done(l[1])
      <4>1. ~Done(l[1])' /\ MacroMap'[l[1]] = MacroMap[l[1]] /\ l[2] \in MacroMap[l[1]].pendingrefs
        BY <1>1, <1>11, <3>0, <3>3 DEF Running
      <4>2. QED
        BY <4>1
    <3>4. QED
      BY <3>1, <3>2, <3>3
  <2>7. (\A k \in 1..Len(stack) : Done(stack[k].m))'
    BY <2>2 DEF Done
  <2>8. (\A x \in Known : Done(x) => MacroMap[x].pendingrefs = {} \/ OnStack(x))'
    BY <1>1, <2>5 DEF Done
  <2>9. QED
    BY <1>5, <2>1, <2>6, <2>7, <2>8, Zenon DEF Running
<1>16. QED
  BY <1>9, <1>10, <1>12, <1>13, <1>14, <1>15

(* The two callers of CompleteDefinition.                                  *)
LEMMA CompletionKeeps ==
  ASSUME MacroInv, NEW n \in Known, MacroMap[n].incomplete, CompleteDefinition(n),
         walk.kind \in {"find", "flush"},
         UNCHANGED <<TranslationUnits, context, clangVars, MRQ, walk, clangMacroVars, mentions>>
  PROVE  MacroInv'
<1>1. ~Done(n)
  BY DEF Done
<1>2. PICK data \in BOOLEAN, P \in SUBSET Known : Completes(n, data, P)
  BY CompleteEffect
<1>3. QED
  BY <1>1, <1>2, CompleteKeeps

LEMMA PendingIncompleteKeeps ==
  ASSUME MacroInv, NEW r \in Known, PendingIncomplete(r) PROVE MacroInv'
<1>1. walk.kind \in {"find", "flush"}
  BY DEF MacroInv, WalkInPhase, PendingIncomplete
<1>2. QED
  BY <1>1, CompletionKeeps DEF PendingIncomplete

LEMMA RecordAhead ==
  ASSUME MacroInv, WalkCompletes
  PROVE  walk.kind \in {"find", "flush"} /\ MRQ[walk.at].m \in Known
<1>1. walk.kind \in {"find", "flush"} /\ walk.at \in Nat /\ walk.at >= 1 /\ walk.at <= Len(MRQ)
  BY WalkAt DEF MacroInv, WalkInPhase, WalkCompletes, Walking
<1>2. Len(MRQ) \in Nat
  BY DEF MacroInv, MacroTypeOK
<1>3. walk.at \in 1..Len(MRQ)
  BY <1>1, <1>2
<1>4. QED
  BY <1>1, <1>3 DEF MacroInv, TableClosed

LEMMA WalkCompletesKeeps == ASSUME MacroInv, WalkCompletes PROVE MacroInv'
BY RecordAhead, CompletionKeeps DEF WalkCompletes

(* The call on top of the stack.                                           *)
LEMMA TopOfStack ==
  ASSUME MacroInv, stack # <<>>
  PROVE  /\ Head(stack) = stack[1] /\ 1 \in 1..Len(stack) /\ Len(stack) \in Nat
         /\ stack[1].m \in Known /\ stack[1].todo \subseteq Known
         /\ Done(stack[1].m) /\ MacroMap[stack[1].m].component \in Address
         /\ stack \in Seq([m : Known, todo : SUBSET Known])
<1>1. stack \in Seq([m : Known, todo : SUBSET Known])
  BY DEF MacroInv, MacroTypeOK, Known
<1>2. Head(stack) = stack[1] /\ 1 \in 1..Len(stack) /\ Len(stack) \in Nat
  BY <1>1
<1>3. stack[1] \in [m : Known, todo : SUBSET Known]
  BY <1>1, <1>2, ElementOfSeq
<1>4. Done(stack[1].m)
  BY <1>2 DEF MacroInv, Running
<1>5. QED
  BY <1>1, <1>2, <1>3, <1>4 DEF MacroInv, Owned, Bound

(* A pending reference is made, as both macros are complete.               *)
LEMMA PendingCompleteKeeps ==
  ASSUME MacroInv, NEW r \in Known, PendingComplete(r) PROVE MacroInv'
<1> USE DEF MacroInv
<1> DEFINE n == stack[1].m
           F == [m : Known, todo : SUBSET Known]
           e == [m |-> n, todo |-> stack[1].todo \ {r}]
<1>1. /\ Head(stack) = stack[1] /\ 1 \in 1..Len(stack) /\ Len(stack) \in Nat
      /\ n \in Known /\ stack[1].todo \subseteq Known /\ Done(n)
      /\ MacroMap[n].component \in Address /\ stack \in Seq(F)
  BY TopOfStack DEF PendingComplete
<1>2. /\ r \in stack[1].todo /\ Done(r)
      /\ UNCHANGED <<MacroMap, MRQ, PostQueue, walk, clangMacroVars, mentions>>
      /\ UNCHANGED Unbound
  BY <1>1 DEF PendingComplete, Done
<1>3. references' = references \cup {<<MacroMap[n].component, MacroMap[r].component, REF_BODYENC>>}
  BY <1>1 DEF PendingComplete, ReferTo
<1>4. stack' = [stack EXCEPT ![1] = e]
  BY <1>1 DEF PendingComplete
<1>5. e \in F
  BY <1>1
<1>6. /\ stack' \in Seq(F) /\ Len(stack') = Len(stack)
      /\ \A k \in 1..Len(stack) : stack'[k] = IF k = 1 THEN e ELSE stack[k]
  <2> HIDE DEF e, F
  <2>1. QED
    BY <1>1, <1>4, <1>5, ExceptSeq
<1>7. e.m = stack[1].m /\ e.todo = stack[1].todo \ {r}
  OBVIOUS
<1> HIDE DEF e
<1>8. /\ \A k \in 1..Len(stack) : stack'[k].m = stack[k].m
      /\ \A k \in 1..Len(stack) : \A x \in stack[k].todo :
           x \in stack'[k].todo \/ (k = 1 /\ x = r)
  BY <1>6, <1>7
<1>9. MacroMap[r].component \in Address
  BY <1>2 DEF Owned, Bound
<1>10. TypeOK' /\ Address' = Address
  <2>1. references' \subseteq Address \X Address \X Kinds
    BY <1>1, <1>3, <1>9, MacroAssumption DEF MacroTypeOK, TypeOK
  <2>2. QED
    BY <1>2, <2>1, ReferenceTypes DEF MacroTypeOK
<1>11. UNCHANGED <<heap, AllFiles, components, Components, phase, entered, defined, position>>
  BY <1>2 DEF Unbound, clangVars, clangMacroVars
<1>12. Known' = Known /\ \A x \in Known : Done(x)' <=> Done(x)
  BY <1>2 DEF Known, Done
<1>13. MacroTypeOK'
  <2>1. stack' \in Seq([m : DOMAIN MacroMap', todo : SUBSET DOMAIN MacroMap'])
    BY <1>2, <1>6 DEF Known
  <2>2. QED
    BY <1>2, <1>10, <1>11, <2>1 DEF MacroTypeOK
<1>14. TableClosed' /\ Queued'
  BY <1>2, <1>11, <1>12 DEF TableClosed, Queued, Done
<1>15. Owned'
  BY <1>2, <1>10, <1>11 DEF Owned, Bound, Registered, Known, Done
<1>16. WalkInPhase'
  <2>1. stack # <<>>
    BY <1>1
  <2>2. QED
    BY <1>2, <1>10, <1>11, <2>1 DEF WalkInPhase
<1>17. Running'
  <2>1. StackDistinct'
    BY <1>6, <1>8 DEF Running, StackDistinct
  <2>2. (\A k \in 1..Len(stack) : Done(stack[k].m))'
    BY <1>2, <1>6, <1>8 DEF Running, Done
  <2>3. \A x : OnStack(x)' <=> OnStack(x)
    BY <1>6, <1>8 DEF OnStack
  <2>4. (\A x \in Known : Done(x) => MacroMap[x].pendingrefs = {} \/ OnStack(x))'
    BY <1>2, <1>12, <2>3 DEF Running
  <2>5. ASSUME NEW l \in mentions
        PROVE  (IF Done(l[1]) THEN Referred(l[1], l[2]) \/ ToDo(l[1], l[2])
                              ELSE l[2] \in MacroMap[l[1]].pendingrefs)'
    <3>1. CASE ~Done(l[1])
      BY <1>2, <3>1 DEF Running, Done
    <3>2. CASE Referred(l[1], l[2]) /\ Done(l[1])
      <4>1. Referred(l[1], l[2])' /\ Done(l[1])'
        BY <1>2, <1>3, <3>2 DEF Referred, Done
      <4>2. QED
        BY <4>1
    <3>3. CASE ToDo(l[1], l[2]) /\ Done(l[1])
      <4>1. PICK k \in 1..Len(stack) : stack[k].m = l[1] /\ l[2] \in stack[k].todo
        BY <3>3 DEF ToDo
      <4>2. Done(l[1])'
        BY <1>2, <3>3 DEF Done
      <4>3. CASE l[2] \in stack'[k].todo
        <5>1. ToDo(l[1], l[2])'
          BY <1>6, <1>8, <4>1, <4>3 DEF ToDo
        <5>2. QED
          BY <4>2, <5>1
      <4>4. CASE k = 1 /\ l[2] = r
        <5>1. Referred(l[1], l[2])'
          BY <1>2, <1>3, <4>1, <4>4 DEF Referred, Done
        <5>2. QED
          BY <4>2, <5>1
      <4>5. QED
        BY <1>8, <4>1, <4>3, <4>4
    <3>4. QED
      BY <3>1, <3>2, <3>3 DEF Running
  <2>6. QED
    BY <1>2, <2>1, <2>2, <2>4, <2>5, Zenon DEF Running
<1>18. QED
  BY <1>13, <1>14, <1>15, <1>16, <1>17

(* A call returns with no reference pending.                               *)
LEMMA CompleteReturnsKeeps == ASSUME MacroInv, CompleteReturns PROVE MacroInv'
<1> USE DEF MacroInv
<1> DEFINE n == stack[1].m
           F == [m : Known, todo : SUBSET Known]
           g == [MacroMap[n] EXCEPT !.pendingrefs = {}]
<1>1. /\ Head(stack) = stack[1] /\ 1 \in 1..Len(stack) /\ Len(stack) \in Nat
      /\ n \in Known /\ Done(n) /\ stack \in Seq(F) /\ stack # <<>>
  BY TopOfStack DEF CompleteReturns
<1>2. /\ stack[1].todo = {} /\ stack' = Tail(stack) /\ MacroMap' = [MacroMap EXCEPT ![n] = g]
      /\ UNCHANGED <<vars, MRQ, PostQueue, walk, clangMacroVars, mentions>>
  BY <1>1 DEF CompleteReturns
<1>3. /\ stack' \in Seq(F) /\ Len(stack') = Len(stack) - 1
      /\ \A k \in 1..Len(stack') : stack'[k] = stack[k + 1]
  <2> HIDE DEF F
  <2>1. QED
    BY <1>1, <1>2, HeadTailProperties
<1>4. \A k \in 1..Len(stack') : k + 1 \in 1..Len(stack) /\ stack'[k] = stack[k + 1]
  BY <1>1, <1>3
<1>5. \A k \in 1..Len(stack) : k # 1 => k - 1 \in 1..Len(stack') /\ stack'[k - 1] = stack[k]
  <2> SUFFICES ASSUME NEW k \in 1..Len(stack), k # 1
               PROVE  k - 1 \in 1..Len(stack') /\ stack'[k - 1] = stack[k]
    OBVIOUS
  <2>1. k - 1 \in 1..Len(stack') /\ (k - 1) + 1 = k
    BY <1>1, <1>3
  <2>2. QED
    BY <1>4, <2>1
<1>6. MacroMap[n] \in Macro
  BY <1>1 DEF MacroTypeOK, Known
<1>7. /\ g \in Macro /\ g.pendingrefs = {} /\ g.component = MacroMap[n].component
      /\ g.incomplete = MacroMap[n].incomplete /\ g.function = MacroMap[n].function
      /\ g.sub = MacroMap[n].sub /\ g.subrepl = MacroMap[n].subrepl /\ g.file = MacroMap[n].file
  BY <1>6 DEF Macro
<1>8. Known' = Known /\ MacroMap'[n] = g /\ \A x \in Known : x # n => MacroMap'[x] = MacroMap[x]
  BY <1>1, <1>2 DEF Known
<1> HIDE DEF g
<1>9. \A x \in Known : /\ MacroMap'[x].component = MacroMap[x].component
                       /\ MacroMap'[x].incomplete = MacroMap[x].incomplete
                       /\ MacroMap'[x].function = MacroMap[x].function
                       /\ MacroMap'[x].sub = MacroMap[x].sub
                       /\ MacroMap'[x].subrepl = MacroMap[x].subrepl
                       /\ MacroMap'[x].file = MacroMap[x].file
                       /\ MacroMap'[x].pendingrefs \subseteq MacroMap[x].pendingrefs
                       /\ MacroMap'[x] \in Macro
  BY <1>1, <1>7, <1>8 DEF MacroTypeOK, Known
<1>10. TypeOK' /\ Address' = Address
  BY <1>2, StoreStutters DEF MacroTypeOK
<1>11. UNCHANGED <<heap, references, AllFiles, components, Components, phase, entered>>
  BY <1>2 DEF vars, storeVars, clangVars
<1>12. UNCHANGED <<MRQ, PostQueue, walk, defined, position, mentions>>
  BY <1>2 DEF clangMacroVars
<1>13. MacroTypeOK'
  <2>1. stack' \in Seq([m : Known', todo : SUBSET Known'])
    BY <1>3, <1>8
  <2>2. \A x \in Known' : MacroMap'[x] \in Macro /\ MacroMap'[x].component <= Len(heap')
    BY <1>8, <1>9, <1>11 DEF MacroTypeOK, Known
  <2>3. PostQueue' \in Seq(Known') /\ Known' \subseteq Names
    BY <1>8, <1>12 DEF MacroTypeOK, Known
  <2>4. QED
    BY <1>10, <1>12, <2>1, <2>2, <2>3 DEF MacroTypeOK, Known
<1>14. TableClosed'
  <2>1. \A x \in Known : /\ MacroMap'[x].subrepl \cup MacroMap'[x].pendingrefs \subseteq Known
                         /\ MacroMap'[x].file \in Paths
                         /\ \A i, j \in MacroMap'[x].sub : i = j
    BY <1>9 DEF TableClosed
  <2>2. QED
    BY <1>8, <1>12, <2>1 DEF TableClosed
<1>15. Owned'
  <2>1. \A x \in Known : Done(x)' <=> Done(x)
    BY <1>9 DEF Done
  <2>2. ASSUME NEW x \in Known, Done(x) PROVE Bound(x)'
    BY <1>9, <1>11, <2>2, BoundKept DEF Owned
  <2>3. \A x \in Known : ~Done(x) => MacroMap'[x].component = NULL
    BY <1>9 DEF Owned
  <2>4. (\A x \in Known : IF Done(x) THEN Bound(x) ELSE MacroMap[x].component = NULL)'
    BY <1>8, <2>1, <2>2, <2>3
  <2>5. (\A c \in Address : heap[c].type \in {FUNCTION_MACRO, DATA_MACRO} =>
           heap[c].id \in Known /\ MacroMap[heap[c].id].component = c)'
    BY <1>8, <1>9, <1>10, <1>11 DEF Owned
  <2>6. QED
    BY <2>4, <2>5 DEF Owned
<1>16. WalkInPhase'
  <2>1. stack # <<>>
    BY <1>1
  <2>2. QED
    BY <1>10, <1>11, <1>12, <2>1 DEF WalkInPhase
<1>17. Queued'
  BY <1>8, <1>9, <1>11, <1>12 DEF Queued, Done
<1>18. Running'
  <2>1. StackDistinct'
    <3> SUFFICES ASSUME NEW j \in 1..Len(stack'), NEW k \in 1..Len(stack'),
                        stack'[j].m = stack'[k].m
                 PROVE  j = k
      BY DEF StackDistinct
    <3>1. j + 1 \in 1..Len(stack) /\ k + 1 \in 1..Len(stack) /\ stack[j + 1].m = stack[k + 1].m
      BY <1>4
    <3>2. j + 1 = k + 1
      BY <3>1 DEF Running, StackDistinct
    <3>3. QED
      BY <3>2
  <2>2. ASSUME NEW k \in 1..Len(stack') PROVE ~MacroMap'[stack'[k].m].incomplete
    <3>1. k + 1 \in 1..Len(stack) /\ stack'[k] = stack[k + 1]
      BY <1>4
    <3>2. Done(stack[k + 1].m)
      BY <3>1 DEF Running
    <3>3. stack[k + 1].m \in Known
      <4>1. stack[k + 1] \in F
        BY <1>1, <3>1, ElementOfSeq
      <4>2. QED
        BY <4>1
    <3>4. QED
      BY <1>9, <3>1, <3>2, <3>3 DEF Done
  <2>3. \A x : OnStack(x) => x = n \/ OnStack(x)'
    <3> SUFFICES ASSUME NEW x, x # n, NEW k \in 1..Len(stack), stack[k].m = x PROVE OnStack(x)'
      BY DEF OnStack
    <3>1. k # 1
      OBVIOUS
    <3>2. k - 1 \in 1..Len(stack') /\ stack'[k - 1] = stack[k]
      BY <1>5, <3>1
    <3>3. QED
      BY <3>2 DEF OnStack
  <2>4. \A x, r : ToDo(x, r) => ToDo(x, r)'
    <3> SUFFICES ASSUME NEW x, NEW r, NEW k \in 1..Len(stack), stack[k].m = x, r \in stack[k].todo
                 PROVE  ToDo(x, r)'
      BY DEF ToDo
    <3>1. k # 1
      BY <1>2
    <3>2. k - 1 \in 1..Len(stack') /\ stack'[k - 1] = stack[k]
      BY <1>5, <3>1
    <3>3. QED
      BY <3>2 DEF ToDo
  <2>5. ASSUME NEW x \in Known, ~MacroMap'[x].incomplete
        PROVE  MacroMap'[x].pendingrefs = {} \/ OnStack(x)'
    <3>1. CASE x = n
      BY <1>7, <1>8, <3>1
    <3>2. CASE x # n
      <4>1. Done(x) /\ MacroMap'[x] = MacroMap[x]
        BY <1>8, <2>5, <3>2 DEF Done
      <4>2. QED
        BY <2>3, <3>2, <4>1 DEF Running
    <3>3. QED
      BY <3>1, <3>2
  <2>6. ASSUME NEW l \in mentions
        PROVE  (IF Done(l[1]) THEN Referred(l[1], l[2]) \/ ToDo(l[1], l[2])
                              ELSE l[2] \in MacroMap[l[1]].pendingrefs)'
    <3>0. l[1] \in Known /\ l[2] \in Known
      BY DEF TableClosed
    <3>1. CASE ~Done(l[1])
      <4>1. l[1] # n
        BY <1>1, <3>1
      <4>2. MacroMap'[l[1]] = MacroMap[l[1]]
        BY <1>8, <3>0, <4>1
      <4>3. QED
        BY <3>1, <4>2 DEF Running, Done
    <3>2. CASE Done(l[1])
      <4>1. Done(l[1])'
        BY <1>9, <3>0, <3>2 DEF Done
      <4>2. CASE Referred(l[1], l[2])
        <5>1. Referred(l[1], l[2])'
          BY <1>9, <1>11, <3>0, <4>2 DEF Referred, Done
        <5>2. QED
          BY <4>1, <5>1
      <4>3. CASE ToDo(l[1], l[2])
        BY <2>4, <4>1, <4>3
      <4>4. QED
        BY <3>2, <4>2, <4>3 DEF Running
    <3>3. QED
      BY <3>1, <3>2
  <2>7. (\A k \in 1..Len(stack) : Done(stack[k].m))'
    BY <2>2 DEF Done
  <2>8. (\A x \in Known : Done(x) => MacroMap[x].pendingrefs = {} \/ OnStack(x))'
    BY <1>8, <2>5 DEF Done
  <2>9. QED
    BY <1>12, <2>1, <2>6, <2>7, <2>8, Zenon DEF Running
<1>19. QED
  BY <1>13, <1>14, <1>15, <1>16, <1>17, <1>18

-----------------------------------------------------------------------------
(* The walk over MRQ                                                       *)

(* What every step of the walk, and of PostProcessMacros(), leaves alone.  *)
(* A record may go once its macro is complete.                             *)
LEMMA QuietKeeps ==
  ASSUME MacroInv, UNCHANGED Unbound, UNCHANGED <<MacroMap, stack, clangMacroVars, mentions>>,
         references \subseteq references', references' \subseteq Address \X Address \X Kinds,
         PostQueue' \in Seq(Known),
         MRQ' \in Seq([m : Names, loc : 1..MaxRecords, embedded : BOOLEAN]),
         \A k \in 1..Len(MRQ') : MRQ'[k].m \in Known,
         \A n \in Known : ~Done(n) => \E k \in 1..Len(MRQ') : MRQ'[k].m = n,
         WalkInPhase'
  PROVE  MacroInv'
<1> USE DEF MacroInv
<1>1. TypeOK' /\ Address' = Address
  BY ReferenceTypes DEF MacroTypeOK
<1>2. UNCHANGED <<heap, AllFiles, components, Components, phase, entered, defined, position>>
  BY DEF Unbound, clangVars, clangMacroVars
<1>3. MacroTypeOK'
  BY <1>1, <1>2 DEF MacroTypeOK, Known
<1>4. TableClosed'
  BY <1>2 DEF TableClosed, Known
<1>5. Queued'
  BY <1>2 DEF Queued, Known, Done
<1>6. Owned'
  BY <1>1, <1>2 DEF Owned, Bound, Registered, Known, Done
<1>7. Running'
  BY DEF Running, StackDistinct, Known, Done, OnStack, ToDo, Referred
<1>8. QED
  BY <1>3, <1>4, <1>5, <1>6, <1>7

(* The same of a step that does not touch the queues.                      *)
LEMMA StrollKeeps ==
  ASSUME MacroInv, UNCHANGED <<vars, MacroMap, MRQ, PostQueue, stack, clangMacroVars, mentions>>,
         WalkInPhase'
  PROVE  MacroInv'
<1> USE DEF MacroInv
<1>1. UNCHANGED Unbound /\ references' = references
  BY DEF vars, storeVars, Unbound
<1>2. references \subseteq Address \X Address \X Kinds
  BY DEF MacroTypeOK, TypeOK
<1>3. /\ PostQueue \in Seq(Known)
      /\ MRQ \in Seq([m : Names, loc : 1..MaxRecords, embedded : BOOLEAN])
  BY DEF MacroTypeOK, Known
<1>4. /\ \A k \in 1..Len(MRQ) : MRQ[k].m \in Known
      /\ \A n \in Known : ~Done(n) => \E k \in 1..Len(MRQ) : MRQ[k].m = n
  BY DEF TableClosed, Queued
<1>5. QED
  BY <1>1, <1>2, <1>3, <1>4, QuietKeeps

LEMMA FlushMacrosKeeps == ASSUME MacroInv, FlushMacros PROVE MacroInv'
<1>1. /\ UNCHANGED <<vars, MacroMap, MRQ, PostQueue, stack, clangMacroVars, mentions>>
      /\ UNCHANGED <<phase, stack, MRQ, position>> /\ stack = <<>>
      /\ phase = "ast" /\ walk'.kind = "flush" /\ walk'.at = 1 /\ walk' \in WalkState
  BY NoWalkState DEF FlushMacros, Visiting, NoWalk, vars, clangVars, clangMacroVars
<1>2. WalkInPhase'
  BY <1>1 DEF MacroInv, WalkInPhase
<1>3. QED
  BY <1>1, <1>2, StrollKeeps

LEMMA WalkEndsKeeps == ASSUME MacroInv, WalkEnds PROVE MacroInv'
<1>1. /\ UNCHANGED <<vars, MacroMap, MRQ, PostQueue, stack, clangMacroVars, mentions>>
      /\ UNCHANGED <<phase, stack, MRQ, position>> /\ stack = <<>> /\ walk.kind = "find"
      /\ walk'.kind = "none" /\ walk'.at = 0 /\ walk' \in WalkState
  BY NoWalkState DEF WalkEnds, Walking, NoWalk, vars, clangVars, clangMacroVars
<1>2. WalkInPhase'
  BY <1>1 DEF MacroInv, WalkInPhase
<1>3. QED
  BY <1>1, <1>2, StrollKeeps

LEMMA FlushEndsKeeps == ASSUME MacroInv, FlushEnds PROVE MacroInv'
<1>1. /\ UNCHANGED <<vars, MacroMap, MRQ, PostQueue, stack, clangMacroVars, mentions>>
      /\ UNCHANGED <<phase, stack, MRQ, position>> /\ stack = <<>> /\ walk.kind = "flush"
      /\ MRQ = <<>> /\ walk'.kind = "done" /\ walk' \in WalkState
  BY NoWalkState DEF FlushEnds, Walking, NoWalk, vars, clangVars, clangMacroVars
<1>2. WalkInPhase'
  BY <1>1 DEF MacroInv, WalkInPhase
<1>3. QED
  BY <1>1, <1>2, StrollKeeps

(* A loop over MRQ looks at a record once its macro is complete.           *)
LEMMA RecordReached ==
  ASSUME MacroInv, Walking("find") \/ Walking("flush"), Reached
  PROVE  /\ walk.at \in 1..Len(MRQ) /\ Len(MRQ) \in Nat /\ phase = "ast" /\ stack = <<>>
         /\ MRQ[walk.at].m \in Known /\ Done(MRQ[walk.at].m)
         /\ MacroMap[MRQ[walk.at].m].component \in Address
<1>1. walk.at \in Nat /\ walk.at >= 1 /\ walk.at <= Len(MRQ) /\ phase = "ast" /\ stack = <<>>
  BY WalkAt DEF MacroInv, WalkInPhase, Walking, Reached
<1>2. Len(MRQ) \in Nat
  BY DEF MacroInv, MacroTypeOK
<1>3. walk.at \in 1..Len(MRQ)
  BY <1>1, <1>2
<1>4. MRQ[walk.at].m \in Known
  BY <1>3 DEF MacroInv, TableClosed
<1>5. Done(MRQ[walk.at].m)
  BY DEF Reached, Done
<1>6. QED
  BY <1>1, <1>2, <1>3, <1>4, <1>5 DEF MacroInv, Owned, Bound

LEMMA WalkErasesKeeps == ASSUME MacroInv, WalkErases PROVE MacroInv'
<1> USE DEF MacroInv
<1> DEFINE R == [m : Names, loc : 1..MaxRecords, embedded : BOOLEAN]
           a == walk.at
<1>1. /\ a \in 1..Len(MRQ) /\ Len(MRQ) \in Nat /\ phase = "ast" /\ stack = <<>>
      /\ MRQ[a].m \in Known /\ Done(MRQ[a].m)
  BY RecordReached DEF WalkErases
<1>2. /\ UNCHANGED <<vars, MacroMap, PostQueue, stack, clangMacroVars, mentions>>
      /\ MRQ' = [k \in 1..Len(MRQ) - 1 |-> IF k < a THEN MRQ[k] ELSE MRQ[k + 1]]
      /\ UNCHANGED walk \/ walk' = [NoWalk EXCEPT !.kind = "astray"]
      /\ walk.kind = "find"
  BY DEF WalkErases, Erase, Walking
<1>3. MRQ \in Seq(R)
  BY DEF MacroTypeOK
<1>4. \A k \in 1..Len(MRQ) : MRQ[k] \in R
  BY <1>3, ElementOfSeq
<1> HIDE DEF R, a
<1>5. \A k \in 1..Len(MRQ) - 1 : k \in 1..Len(MRQ) /\ k + 1 \in 1..Len(MRQ)
  BY <1>1
<1>6. MRQ' \in Seq(R) /\ Len(MRQ') = Len(MRQ) - 1
  <2>1. Len(MRQ) - 1 \in Nat
    BY <1>1
  <2>2. \A k \in 1..Len(MRQ) - 1 : (IF k < a THEN MRQ[k] ELSE MRQ[k + 1]) \in R
    BY <1>4, <1>5
  <2>3. MRQ' \in [1..Len(MRQ) - 1 -> R]
    BY <1>2, <2>2
  <2>4. QED
    BY <2>1, <2>3, IsASeq
<1>7. /\ \A k \in 1..Len(MRQ') : MRQ'[k] = IF k < a THEN MRQ[k] ELSE MRQ[k + 1]
      /\ \A k \in 1..Len(MRQ') : k \in 1..Len(MRQ) /\ k + 1 \in 1..Len(MRQ)
  BY <1>2, <1>5, <1>6
<1>8. \A k \in 1..Len(MRQ') : MRQ'[k].m \in Known
  BY <1>7 DEF TableClosed
<1>9. ASSUME NEW n \in Known, ~Done(n) PROVE \E k \in 1..Len(MRQ') : MRQ'[k].m = n
  <2>1. PICK k \in 1..Len(MRQ) : MRQ[k].m = n
    BY <1>9 DEF Queued
  <2>2. k # a
    BY <1>1, <1>9, <2>1
  <2>3. CASE k < a
    <3>1. k \in 1..Len(MRQ')
      BY <1>1, <1>6, <2>3
    <3>2. QED
      BY <1>7, <2>1, <2>3, <3>1
  <2>4. CASE k > a
    <3>1. k - 1 \in 1..Len(MRQ') /\ ~(k - 1 < a) /\ (k - 1) + 1 = k
      BY <1>1, <1>6, <2>4
    <3>2. MRQ'[k - 1] = MRQ[k]
      BY <1>7, <3>1
    <3>3. QED
      BY <2>1, <3>1, <3>2
  <2>5. QED
    BY <1>1, <2>2, <2>3, <2>4
<1>10. UNCHANGED Unbound /\ UNCHANGED <<references, phase, position, heap>>
  BY <1>2 DEF vars, storeVars, Unbound, clangVars, clangMacroVars
<1>11. WalkInPhase'
  <2>1. walk' \in WalkState /\ (walk' = walk \/ walk'.kind = "astray")
    BY <1>2, NoWalkState DEF WalkInPhase
  <2>2. QED
    BY <1>1, <1>2, <1>10, <2>1 DEF WalkInPhase, Address
<1>12. references \subseteq Address \X Address \X Kinds /\ PostQueue \in Seq(Known)
  BY DEF MacroTypeOK, TypeOK, Known
<1>13. QED
  BY <1>2, <1>6, <1>8, <1>9, <1>10, <1>11, <1>12, QuietKeeps DEF R

LEMMA WalkPassesKeeps == ASSUME MacroInv, WalkPasses PROVE MacroInv'
<1> USE DEF MacroInv
<1> DEFINE c == MacroMap[MRQ[walk.at].m].component
<1>1. walk.at \in 1..Len(MRQ) /\ phase = "ast" /\ stack = <<>> /\ c \in Address
  BY RecordReached DEF WalkPasses
<1>2. /\ UNCHANGED Unbound
      /\ UNCHANGED <<MacroMap, MRQ, PostQueue, stack, clangMacroVars, mentions>>
      /\ walk.kind = "find" /\ walk' = [walk EXCEPT !.at = @ + 1]
      /\ UNCHANGED <<phase, heap, position>>
  BY DEF WalkPasses, Walking, Unbound, clangVars, clangMacroVars
<1>3. PICK idmatch \in BOOLEAN : references' = references \cup Found(walk.C, c, walk.isdef, idmatch)
  BY DEF WalkPasses
<1>4. walk.C \in Address
  BY <1>2 DEF WalkInPhase
<1>5. Found(walk.C, c, walk.isdef, idmatch) \subseteq Address \X Address \X Kinds
  BY <1>1, <1>4, MacroAssumption DEF Found
<1>6. references \subseteq references' /\ references' \subseteq Address \X Address \X Kinds
  BY <1>3, <1>5 DEF MacroTypeOK, TypeOK
<1>7. WalkInPhase'
  <2>1. walk' \in WalkState /\ walk'.kind = "find" /\ walk'.C = walk.C /\ walk'.at >= 1
    BY <1>2, WalkAdvances DEF WalkInPhase
  <2>2. QED
    BY <1>1, <1>2, <1>4, <2>1 DEF WalkInPhase, Address
<1>8. /\ PostQueue' \in Seq(Known)
      /\ MRQ' \in Seq([m : Names, loc : 1..MaxRecords, embedded : BOOLEAN])
  BY <1>2 DEF MacroTypeOK, Known
<1>9. /\ \A k \in 1..Len(MRQ') : MRQ'[k].m \in Known
      /\ \A n \in Known : ~Done(n) => \E k \in 1..Len(MRQ') : MRQ'[k].m = n
  BY <1>2 DEF TableClosed, Queued
<1>10. QED
  BY <1>2, <1>6, <1>7, <1>8, <1>9, QuietKeeps

LEMMA FlushPopsKeeps == ASSUME MacroInv, FlushPops PROVE MacroInv'
<1> USE DEF MacroInv
<1> DEFINE R == [m : Names, loc : 1..MaxRecords, embedded : BOOLEAN]
<1>1. /\ 1 \in 1..Len(MRQ) /\ Len(MRQ) \in Nat /\ phase = "ast" /\ stack = <<>>
      /\ Done(MRQ[1].m) /\ walk.kind = "flush" /\ walk.at = 1
  BY RecordReached DEF FlushPops, Walking, WalkInPhase
<1>2. /\ UNCHANGED <<vars, MacroMap, PostQueue, stack, walk, clangMacroVars, mentions>>
      /\ MRQ' = Tail(MRQ)
  BY DEF FlushPops
<1>3. MRQ \in Seq(R) /\ MRQ # <<>>
  BY <1>1 DEF MacroTypeOK
<1> HIDE DEF R
<1>4. /\ MRQ' \in Seq(R) /\ Len(MRQ') = Len(MRQ) - 1
      /\ \A k \in 1..Len(MRQ') : MRQ'[k] = MRQ[k + 1]
  BY <1>2, <1>3, HeadTailProperties
<1>5. \A k \in 1..Len(MRQ') : k + 1 \in 1..Len(MRQ)
  BY <1>1, <1>4
<1>6. \A k \in 1..Len(MRQ') : MRQ'[k].m \in Known
  BY <1>4, <1>5 DEF TableClosed
<1>7. ASSUME NEW n \in Known, ~Done(n) PROVE \E k \in 1..Len(MRQ') : MRQ'[k].m = n
  <2>1. PICK k \in 1..Len(MRQ) : MRQ[k].m = n
    BY <1>7 DEF Queued
  <2>2. k # 1
    BY <1>1, <1>7, <2>1
  <2>3. k - 1 \in 1..Len(MRQ') /\ (k - 1) + 1 = k
    BY <1>1, <1>4, <2>2
  <2>4. MRQ'[k - 1] = MRQ[k]
    BY <1>4, <2>3
  <2>5. QED
    BY <2>1, <2>3, <2>4
<1>8. UNCHANGED Unbound /\ UNCHANGED <<references, phase, position, heap>>
  BY <1>2 DEF vars, storeVars, Unbound, clangVars, clangMacroVars
<1>9. WalkInPhase'
  BY <1>1, <1>2, <1>8 DEF WalkInPhase
<1>10. references \subseteq Address \X Address \X Kinds /\ PostQueue \in Seq(Known)
  BY DEF MacroTypeOK, TypeOK, Known
<1>11. QED
  BY <1>2, <1>4, <1>6, <1>7, <1>8, <1>9, <1>10, QuietKeeps DEF R

-----------------------------------------------------------------------------
(* PostProcessMacros()                                                     *)

(* The macro at the head of the queue has its component by now.            *)
LEMMA HeadDone ==
  ASSUME MacroInv, Processed, PostQueue # <<>>
  PROVE  /\ Head(PostQueue) = PostQueue[1] /\ PostQueue[1] \in Known /\ Done(PostQueue[1])
         /\ MacroMap[PostQueue[1]].component \in Address
         /\ PostQueue \in Seq(Known) /\ Tail(PostQueue) \in Seq(Known)
<1>1. PostQueue \in Seq(Known)
  BY DEF MacroInv, MacroTypeOK, Known
<1>2. Head(PostQueue) = PostQueue[1] /\ PostQueue[1] \in Known /\ Tail(PostQueue) \in Seq(Known)
  BY <1>1
<1>3. \A n \in Known : Done(n)
  BY DEF MacroInv, WalkInPhase, Queued, Processed
<1>4. QED
  BY <1>1, <1>2, <1>3 DEF MacroInv, Owned, Bound

LEMMA PostProcessKeeps == ASSUME MacroInv, PostProcess PROVE MacroInv'
<1> USE DEF MacroInv
<1> DEFINE n == PostQueue[1]
           o == MacroMap[n].component
<1>1. /\ Head(PostQueue) = n /\ o \in Address /\ Tail(PostQueue) \in Seq(Known)
  BY HeadDone DEF PostProcess
<1>2. PICK frepl \in PostLookup(CHOOSE i \in MacroMap[n].sub : TRUE) :
        references' = IF frepl # NULL THEN references \cup {<<o, frepl, REF_SUBSTITUTION>>}
                                      ELSE references
  BY <1>1 DEF PostProcess
<1>3. frepl # NULL => frepl \in Address
  BY FunctionFound DEF PostLookup, MacroTypeOK
<1>4. references \subseteq references' /\ references' \subseteq Address \X Address \X Kinds
  BY <1>1, <1>2, <1>3, MacroAssumption DEF MacroTypeOK, TypeOK
<1>5. /\ UNCHANGED Unbound /\ PostQueue' = Tail(PostQueue)
      /\ UNCHANGED <<MacroMap, MRQ, stack, walk, clangMacroVars, mentions>>
      /\ UNCHANGED <<phase, heap, position>>
  BY DEF PostProcess, Unbound, clangVars, clangMacroVars
<1>6. WalkInPhase'
  BY <1>5 DEF WalkInPhase, Address
<1>7. MRQ' \in Seq([m : Names, loc : 1..MaxRecords, embedded : BOOLEAN])
  BY <1>5 DEF MacroTypeOK
<1>8. /\ \A k \in 1..Len(MRQ') : MRQ'[k].m \in Known
      /\ \A x \in Known : ~Done(x) => \E k \in 1..Len(MRQ') : MRQ'[k].m = x
  BY <1>5 DEF TableClosed, Queued
<1>9. QED
  BY <1>1, <1>4, <1>5, <1>6, <1>7, <1>8, QuietKeeps

-----------------------------------------------------------------------------
(* Every step                                                              *)

LEMMA MacroStutters ==
  ASSUME MacroInv, UNCHANGED <<vars, macroVars>> PROVE MacroInv'
<1>1. UNCHANGED <<vars, MacroMap, MRQ, PostQueue, stack, clangMacroVars, mentions>>
  BY DEF macroVars, tableVars
<1>2. UNCHANGED <<walk, phase, heap, position, stack, MRQ>>
  BY DEF macroVars, tableVars, clangMacroVars, vars, storeVars, clangVars
<1>3. WalkInPhase'
  BY <1>2 DEF MacroInv, WalkInPhase, Address
<1>4. QED
  BY <1>1, <1>3, StrollKeeps

LEMMA PreprocessKeeps == ASSUME MacroInv, Preprocess PROVE MacroInv'
<1>1. CASE UnitStep
  BY <1>1, UnitKeeps
<1>2. CASE \E n \in Names : MacroDefinedAgain(n)
  BY <1>2, MacroDefinedAgainKeeps
<1>3. CASE \E n \in Names, d \in Definitions, p \in Paths : MacroDefined(n, d, p)
  BY <1>3, MacroDefinedKeeps
<1>4. CASE \E n \in Names : MacroUndefined(n)
  BY <1>4, MacroUsedKeeps
<1>5. CASE \E n \in Names, embedded \in BOOLEAN : MacroExpands(n, embedded)
  BY <1>5, MacroUsedKeeps
<1>6. QED
  BY <1>1, <1>2, <1>3, <1>4, <1>5 DEF Preprocess, UnitStep

LEMMA VisitStepKeeps == ASSUME MacroInv, Visit PROVE MacroInv'
<1>1. CASE \E i \in Declared, local, isdef \in BOOLEAN, p \in Paths, from \in 0..MaxRecords :
             \E to \in from..MaxRecords : VisitFunctionDecl(i, local, p, isdef, from, to)
  BY <1>1, VisitKeeps
<1>2. CASE FlushMacros
  BY <1>2, FlushMacrosKeeps
<1>3. CASE EndUnit
  BY <1>3, UnitKeeps DEF UnitStep
<1>4. QED
  BY <1>1, <1>2, <1>3 DEF Visit

LEMMA WalkKeeps == ASSUME MacroInv, Complete \/ Walk \/ PostProcess PROVE MacroInv'
<1>1. CASE Complete
  BY <1>1, PendingCompleteKeeps, PendingIncompleteKeeps, CompleteReturnsKeeps DEF Complete, Known
<1>2. CASE Walk
  BY <1>2, WalkCompletesKeeps, WalkErasesKeeps, WalkPassesKeeps, WalkEndsKeeps,
     FlushPopsKeeps, FlushEndsKeeps DEF Walk
<1>3. CASE PostProcess
  BY <1>3, PostProcessKeeps
<1>4. QED
  BY <1>1, <1>2, <1>3

LEMMA MacroNextKeeps == MacroInv /\ [MacroNext]_<<vars, macroVars>> => MacroInv'
<1> SUFFICES ASSUME MacroInv, [MacroNext]_<<vars, macroVars>> PROVE MacroInv'
  OBVIOUS
<1>1. CASE UNCHANGED <<vars, macroVars>>
  BY <1>1, MacroStutters
<1>2. CASE MacroNext
  BY <1>2, PreprocessKeeps, VisitStepKeeps, WalkKeeps DEF MacroNext
<1>3. QED
  BY <1>1, <1>2

(* In every state the table, the queues and the stack of running calls     *)
(* agree with each other and with the store.                               *)
THEOREM MacroInvariance == MacroSpec => []MacroInv
<1>1. MacroInit => MacroInv
  BY MacroInitInv
<1>2. MacroInv /\ [MacroNext]_<<vars, macroVars>> => MacroInv'
  BY MacroNextKeeps
<1>3. QED
  BY <1>1, <1>2, PTL DEF MacroSpec

(* CompleteDefinition never runs twice for a macro at the same time.       *)
THEOREM CompletedOnce == MacroSpec => []StackDistinct
<1>1. MacroInv => StackDistinct
  BY DEF MacroInv, Running
<1>2. QED
  BY <1>1, MacroInvariance, PTL

(* A macro that is complete is found by MapComponents(), under its name,   *)
(* and there is no second component of a macro of that name.               *)
THEOREM MacrosRegistered == MacroSpec => []MacrosBound
<1>1. ASSUME MacroInv, NEW n \in Known, ~MacroMap[n].incomplete
      PROVE  Registered(MacroMap[n].component) /\ heap[MacroMap[n].component].id = n
  BY <1>1 DEF MacroInv, Owned, Bound, Done
<1>2. ASSUME MacroInv, NEW b \in Address, NEW c \in Address,
             IsMacro(b), IsMacro(c), heap[b].id = heap[c].id
      PROVE  b = c
  <2>1. MacroMap[heap[b].id].component = b /\ MacroMap[heap[c].id].component = c
    BY <1>2 DEF MacroInv, Owned, IsMacro
  <2>2. QED
    BY <1>2, <2>1
<1>3. MacroInv => MacrosBound
  BY <1>1, <1>2 DEF MacrosBound, Known
<1>4. QED
  BY <1>3, MacroInvariance, PTL

(* No macro outlives its translation unit incomplete: the queue is empty   *)
(* when the unit ends, and no call is running.                             *)
THEOREM NoneIncomplete == MacroSpec => []CompleteAtEnd
<1>1. ASSUME MacroInv, phase = "idle", NEW n \in Known
      PROVE  ~MacroMap[n].incomplete /\ MacroMap[n].pendingrefs = {}
  <2>1. MRQ = <<>> /\ stack = <<>>
    BY <1>1 DEF MacroInv, WalkInPhase
  <2>2. Done(n)
    BY <1>1, <2>1 DEF MacroInv, Queued
  <2>3. ~OnStack(n)
    BY <2>1 DEF OnStack
  <2>4. QED
    BY <1>1, <2>2, <2>3 DEF MacroInv, Running, Done
<1>2. MacroInv => CompleteAtEnd
  BY <1>1 DEF CompleteAtEnd, Known
<1>3. QED
  BY <1>2, MacroInvariance, PTL

(* No reference between macros that MacroDefined() put off is lost,        *)
(* however the macros mention each other.                                  *)
THEOREM NoMentionLost == MacroSpec => []MentionsKept
<1>1. ASSUME MacroInv, stack = <<>>, NEW l \in mentions, ~MacroMap[l[1]].incomplete
      PROVE  <<MacroMap[l[1]].component, MacroMap[l[2]].component, REF_BODYENC>> \in references
  <2>1. ~ToDo(l[1], l[2])
    BY <1>1 DEF ToDo
  <2>2. Done(l[1])
    BY <1>1 DEF Done
  <2>3. Referred(l[1], l[2])
    BY <1>1, <2>1, <2>2 DEF MacroInv, Running
  <2>4. QED
    BY <2>3 DEF Referred
<1>2. MacroInv => MentionsKept
  BY <1>1 DEF MentionsKept
<1>3. QED
  BY <1>2, MacroInvariance, PTL

-----------------------------------------------------------------------------
(* The store under the macros                                              *)

(* CompleteDefinition running for macro n, which is incomplete.            *)
Completing(n) ==
  /\ ~Done(n) /\ phase = "ast"
  /\ \E data \in BOOLEAN, P \in SUBSET Known : Completes(n, data, P)
  /\ UNCHANGED <<TranslationUnits, context, clangVars>>

LEMMA CompletingMacro ==
  ASSUME MacroInv, NEW n \in Known, PendingIncomplete(n) \/ (WalkCompletes /\ n = MRQ[walk.at].m)
  PROVE  Completing(n)
<1>1. CompleteDefinition(n) /\ ~Done(n) /\ UNCHANGED <<TranslationUnits, context, clangVars>>
  BY DEF PendingIncomplete, WalkCompletes, Done
<1>2. walk.kind \in {"find", "flush"}
  BY DEF MacroInv, WalkInPhase, PendingIncomplete, WalkCompletes, Walking
<1>3. phase = "ast"
  BY <1>2 DEF MacroInv, WalkInPhase
<1>4. QED
  BY <1>1, <1>3, CompleteEffect DEF Completing

(* All that happens to the store: a step of its own, references that are   *)
(* made, or a macro's component.                                           *)
LEMMA StoreSteps ==
  ASSUME MacroInv, [MacroNext]_<<vars, macroVars>>
  PROVE  \/ UnitStep
         \/ \E i \in Ids, local \in BOOLEAN, p \in Paths :
              FUNCTION_REG \in Types /\ Declare(FUNCTION_REG, i, local, p)
         \/ UNCHANGED Unbound /\ references \subseteq references'
         \/ \E n \in Known : Completing(n)
<1> DEFINE Goal == \/ UnitStep
                   \/ \E i \in Ids, local \in BOOLEAN, p \in Paths :
                        FUNCTION_REG \in Types /\ Declare(FUNCTION_REG, i, local, p)
                   \/ UNCHANGED Unbound /\ references \subseteq references'
                   \/ \E n \in Known : Completing(n)
<1>1. CASE UNCHANGED vars
  BY <1>1 DEF vars, storeVars, Unbound
<1>2. CASE Preprocess
  <2>1. \/ UnitStep \/ UNCHANGED vars
    BY <1>2 DEF Preprocess, UnitStep, MacroDefinedAgain, MacroDefined, MacroUndefined, MacroExpands
  <2>2. QED
    BY <1>1, <2>1
<1>3. CASE Visit
  <2>1. ASSUME NEW i \in Declared, NEW local \in BOOLEAN, NEW isdef \in BOOLEAN, NEW p \in Paths,
               NEW from, NEW to, VisitFunctionDecl(i, local, p, isdef, from, to)
        PROVE  Goal
    <3>1. CASE Lookup(FUNCTION_REG, i, local) = NULL
      <4>1. Declare(FUNCTION_REG, i, local, p)
        BY <2>1, <3>1 DEF VisitFunctionDecl, Visiting, Declare
      <4>2. i \in Ids /\ FUNCTION_REG \in Types
        BY MacroAssumption
      <4>3. QED
        BY <4>1, <4>2
    <3>2. CASE Lookup(FUNCTION_REG, i, local) # NULL
      <4>1. UNCHANGED Unbound /\ references' = references
        BY <2>1, <3>2 DEF VisitFunctionDecl, Unbound
      <4>2. QED
        BY <4>1
    <3>3. QED
      BY <3>1, <3>2
  <2>2. CASE FlushMacros
    BY <1>1, <2>2 DEF FlushMacros
  <2>3. CASE EndUnit
    BY <2>3 DEF UnitStep
  <2> HIDE DEF Goal
  <2>4. Goal
    BY <1>3, <2>1, <2>2, <2>3 DEF Visit, Goal
  <2>5. QED
    BY <2>4 DEF Goal
<1>4. CASE Complete
  <2>1. CASE \E r \in Known : PendingComplete(r)
    <3>1. UNCHANGED Unbound /\ references \subseteq references'
      BY <2>1 DEF PendingComplete, ReferTo
    <3>2. QED
      BY <3>1
  <2>2. CASE \E r \in Known : PendingIncomplete(r)
    BY <2>2, CompletingMacro
  <2>3. CASE CompleteReturns
    BY <1>1, <2>3 DEF CompleteReturns
  <2>4. QED
    BY <1>4, <2>1, <2>2, <2>3 DEF Complete, Known
<1>5. CASE Walk
  <2>1. CASE WalkCompletes
    BY <2>1, RecordAhead, CompletingMacro
  <2>2. CASE WalkPasses
    <3>1. UNCHANGED Unbound /\ references \subseteq references'
      BY <2>2 DEF WalkPasses
    <3>2. QED
      BY <3>1
  <2>3. CASE WalkErases \/ WalkEnds \/ FlushPops \/ FlushEnds
    BY <1>1, <2>3 DEF WalkErases, WalkEnds, FlushPops, FlushEnds
  <2>4. QED
    BY <1>5, <2>1, <2>2, <2>3 DEF Walk
<1>6. CASE PostProcess
  <2>1. UNCHANGED Unbound /\ references \subseteq references'
    BY <1>6 DEF PostProcess
  <2>2. QED
    BY <2>1
<1>7. QED
  BY <1>1, <1>2, <1>3, <1>4, <1>5, <1>6 DEF MacroNext

(* The component of a macro is new to the cache: no other one has its kind *)
(* and name, and its file is one of those the unit has entered.            *)
LEMMA CompletingStep ==
  ASSUME MacroInv, IInv, SeparateSources, TypeOK', NEW n \in Known, Completing(n)
  PROVE  IInv'
<1> USE DEF MacroInv, MacroTypeOK
<1>1. PICK data \in BOOLEAN, P \in SUBSET Known : Completes(n, data, P)
  BY DEF Completing
<1> DEFINE t == IF data THEN DATA_MACRO ELSE FUNCTION_MACRO
           p == MacroMap[n].file
<1>2. BindLocal(t, n, p)
  BY <1>1 DEF Completes
<1>3. ~Done(n) /\ phase = "ast" /\ UNCHANGED <<TranslationUnits, phase, entered>>
  BY DEF Completing, clangVars
<1>4. p \in entered
  BY <1>3 DEF Queued, SeparateSources
<1>5. t \in Types /\ n \in Ids /\ t \in {DATA_MACRO, FUNCTION_MACRO}
  BY MacroAssumption DEF Known
<1>6. ~HasKey(allComponents, t, n)
  <2> SUFFICES ASSUME NEW c \in allComponents, heap[c].type = t, heap[c].id = n PROVE FALSE
    BY DEF HasKey, Matches
  <2>1. c \in Address
    BY DEF TypeOK
  <2>2. MacroMap[n].component = c
    BY <1>5, <2>1 DEF Owned
  <2>3. QED
    BY <1>3, <2>1, <2>2 DEF Owned, Address, NULL
<1> HIDE DEF t, p
<1>7. phase # "idle"
  BY <1>3
<1>8. QED
  BY <1>2, <1>3, <1>4, <1>5, <1>6, <1>7, BindLocalStep

LEMMA MacroStoreStep ==
  ASSUME MacroInv, IInv, SeparateSources, [MacroNext]_<<vars, macroVars>> PROVE IInv'
<1>1. TypeOK'
  BY MacroNextKeeps DEF MacroInv, MacroTypeOK
<1>2. CASE UnitStep
  <2>1. Next
    BY <1>2 DEF UnitStep, BeginUnit, EnterFile, Parsed, EndUnit, Next, Frontend
  <2>2. QED
    BY <2>1, NextStep
<1>3. CASE \E i \in Ids, local \in BOOLEAN, p \in Paths :
             FUNCTION_REG \in Types /\ Declare(FUNCTION_REG, i, local, p)
  <2>1. Next
    BY <1>3 DEF Next, Handlers
  <2>2. QED
    BY <2>1, NextStep
<1>4. CASE UNCHANGED Unbound
  <2>1. UNCHANGED <<heap, AllFiles, components, Components, TranslationUnits,
                    allComponents, phase, entered>>
    BY <1>4 DEF Unbound, clangVars
  <2>2. QED
    BY <1>1, <2>1, LinksKeep
<1>5. CASE \E n \in Known : Completing(n)
  BY <1>1, <1>5, CompletingStep
<1>6. QED
  BY <1>2, <1>3, <1>4, <1>5, StoreSteps

(* With separate sources the store is as sound under the macros, which are *)
(* bound without a lookup, as it is under the declarations.                *)
THEOREM MacrosKeepStore == ASSUME SeparateSources PROVE MacroSpec => []IInv
<1>1. MacroInit => MacroInv /\ IInv
  BY MacroInitInv, InitIInv DEF MacroInit
<1>2. MacroInv /\ IInv /\ [MacroNext]_<<vars, macroVars>> => (MacroInv /\ IInv)'
  BY MacroNextKeeps, MacroStoreStep
<1>3. QED
  BY <1>1, <1>2, PTL DEF MacroSpec

(* In particular the cache holds the macros of the files that were entered *)
(* and hides none of what they declare.                                    *)
THEOREM MacrosInCache == ASSUME SeparateSources PROVE MacroSpec => []CacheComplete
<1>1. IInv => CacheComplete
  BY DEF IInv
<1>2. QED
  BY <1>1, MacrosKeepStore, PTL

-----------------------------------------------------------------------------
(* Substitutions                                                           *)

(* What Deferred says of macro n and an identifier it may substitute.      *)
InQueue(n) == \E k \in 1..Len(PostQueue) : PostQueue[k] = n

Outcome(n, i) == \/ Substitutes(n, i)
                 \/ InQueue(n)
                 \/ Processed /\ ~HasKey(Components, FUNCTION_REG, i)

(* The store only grows, and rests after the last unit.                    *)
StoreGrows ==
  /\ Address \subseteq Address' /\ \A c \in Address : heap'[c] = heap[c]
  /\ references \subseteq references'
  /\ Processed => Processed' /\ UNCHANGED <<heap, Components>>

LEMMA StoreOnlyGrows ==
  ASSUME MacroInv, [MacroNext]_<<vars, macroVars>> PROVE StoreGrows
<1> USE DEF MacroInv, MacroTypeOK
<1>1. CASE UnitStep
  <2>1. /\ UNCHANGED <<heap, references, Components>> /\ Address' = Address
    BY <1>1 DEF UnitStep, BeginUnit, EnterFile, Parsed, EndUnit, CreateASTConsumer, Include,
       HandleTranslationUnit, EndSourceFile, storeVars, Address
  <2>2. ~Processed
    <3>1. CASE BeginUnit
      <4>1. TU < Len(Mains) /\ Len(Mains) \in Nat /\ TU \in Nat
        BY <3>1, StoreAssumption DEF BeginUnit, CreateASTConsumer, TypeOK, TU
      <4>2. QED
        BY <4>1 DEF Processed
    <3>2. CASE ~BeginUnit
      BY <1>1, <3>2 DEF UnitStep, EnterFile, Parsed, EndUnit, Include, HandleTranslationUnit,
         EndSourceFile, Processed
    <3>3. QED
      BY <3>1, <3>2
  <2>3. QED
    BY <2>1, <2>2 DEF StoreGrows
<1>2. CASE \E i \in Ids, local \in BOOLEAN, p \in Paths :
             FUNCTION_REG \in Types /\ Declare(FUNCTION_REG, i, local, p)
  <2>1. PICK i \in Ids, local \in BOOLEAN, p \in Paths :
          FUNCTION_REG \in Types /\ Declare(FUNCTION_REG, i, local, p)
    BY <1>2
  <2>2. Bind(FUNCTION_REG, i, local, p) /\ UNCHANGED references /\ ~Processed
    BY <2>1 DEF Declare, Processed
  <2>3. Address \subseteq Address' /\ \A c \in Address : heap'[c] = heap[c]
    BY <2>1, <2>2, BindGrows
  <2>4. QED
    BY <2>2, <2>3 DEF StoreGrows
<1>3. CASE UNCHANGED Unbound /\ references \subseteq references'
  BY <1>3 DEF Unbound, clangVars, StoreGrows, Address, Processed, TU
<1>4. CASE \E n \in Known : Completing(n)
  <2>1. PICK n \in Known : Completing(n)
    BY <1>4
  <2>2. PICK data \in BOOLEAN, P \in SUBSET Known : Completes(n, data, P)
    BY <2>1 DEF Completing
  <2> DEFINE t == IF data THEN DATA_MACRO ELSE FUNCTION_MACRO
  <2>3. /\ BindLocal(t, n, MacroMap[n].file)
        /\ \/ references' = references
           \/ \E c \in Address : references' = references \cup {<<Len(heap) + 1, c, REF_SUBSTITUTION>>}
    BY <2>2 DEF Completes
  <2>4. t \in Types /\ n \in Ids /\ MacroMap[n].file \in Paths /\ TypeOK
    BY MacroAssumption DEF TableClosed, Known
  <2> HIDE DEF t
  <2>5. Address \subseteq Address' /\ \A c \in Address : heap'[c] = heap[c]
    <3>1. /\ Address' = Address \cup {Len(heap) + 1} /\ \A c \in Address : heap'[c] = heap[c]
      BY <2>3, <2>4, BindLocalEffect
    <3>2. QED
      BY <3>1
  <2>6. references \subseteq references' /\ ~Processed
    BY <2>1, <2>3 DEF Completing, Processed
  <2>7. QED
    BY <2>5, <2>6 DEF StoreGrows
<1>5. QED
  BY <1>1, <1>2, <1>3, <1>4, StoreSteps

(* A macro that has its component stays what it is.                        *)
DoneKept ==
  /\ Known \subseteq Known'
  /\ \A x \in Known : Done(x) =>
       /\ ~MacroMap'[x].incomplete
       /\ MacroMap'[x].component = MacroMap[x].component
       /\ MacroMap'[x].function = MacroMap[x].function
       /\ MacroMap'[x].sub = MacroMap[x].sub

NoneCompleted == \A x \in Known' : ~MacroMap'[x].incomplete => x \in Known /\ Done(x)

(* A callback may assign to a macro that is not in the table, or complete. *)
LEMMA AssignTable ==
  ASSUME MacroInv, NEW n, NEW m, Known' = Known \cup {n}, MacroMap'[n] = m,
         \A x \in Known : x # n => MacroMap'[x] = MacroMap[x],
         \/ m.incomplete /\ (n \in Known => ~Done(n))
         \/ /\ n \in Known /\ m.incomplete = MacroMap[n].incomplete
            /\ m.component = MacroMap[n].component /\ m.function = MacroMap[n].function
            /\ m.sub = MacroMap[n].sub
  PROVE  DoneKept /\ NoneCompleted
<1>1. ASSUME NEW x \in Known, Done(x)
      PROVE  /\ ~MacroMap'[x].incomplete
             /\ MacroMap'[x].component = MacroMap[x].component
             /\ MacroMap'[x].function = MacroMap[x].function
             /\ MacroMap'[x].sub = MacroMap[x].sub
  <2>1. CASE x = n
    BY <1>1, <2>1 DEF Done
  <2>2. CASE x # n
    BY <1>1, <2>2 DEF Done
  <2>3. QED
    BY <2>1, <2>2
<1>2. ASSUME NEW x \in Known', ~MacroMap'[x].incomplete PROVE x \in Known /\ Done(x)
  <2>1. CASE x = n
    BY <1>2, <2>1 DEF Done
  <2>2. CASE x # n
    BY <1>2, <2>2 DEF Done
  <2>3. QED
    BY <2>1, <2>2
<1>3. QED
  BY <1>1, <1>2 DEF DoneKept, NoneCompleted

LEMMA TableSame == ASSUME UNCHANGED MacroMap PROVE DoneKept /\ NoneCompleted
BY DEF DoneKept, NoneCompleted, Done, Known

(* All that happens to the table and the queue of deferred substitutions.  *)
LEMMA TableSteps ==
  ASSUME MacroInv, [MacroNext]_<<vars, macroVars>>
  PROVE  \/ DoneKept /\ NoneCompleted /\ PostQueue' = PostQueue
         \/ \E n \in Known : Completing(n)
         \/ PostProcess
<1> DEFINE Quiet == DoneKept /\ NoneCompleted /\ PostQueue' = PostQueue
<1>1. CASE UNCHANGED <<MacroMap, PostQueue>>
  BY <1>1, TableSame
<1>2. ASSUME NEW n \in Names, NEW d \in Definitions, NEW p \in Paths, MacroDefined(n, d, p)
      PROVE  Quiet
  <2> DEFINE old == mlookup(n)
             known == DOMAIN MacroMap \cup {n}
             m == [old EXCEPT !.file = p, !.objlike = d.objlike, !.MIlive = TRUE,
                              !.sub = Sub(@, d, known), !.subrepl = Subrepl(@, d, known),
                              !.pendingrefs = @ \cup Mentioned(d, known)]
  <2>1. SetMacro(n, m) /\ old.component = NULL /\ PostQueue' = PostQueue
    BY <1>2 DEF MacroDefined
  <2>2. old \in Macro /\ old.incomplete /\ (n \in Known => old = MacroMap[n])
    BY <2>1, LookupMacro
  <2>3. m.incomplete = old.incomplete
    BY <2>2 DEF Macro
  <2> HIDE DEF m, old
  <2>4. m.incomplete /\ (n \in Known => ~Done(n))
    BY <2>2, <2>3 DEF Done
  <2>5. Known' = Known \cup {n} /\ MacroMap'[n] = m /\ \A x \in Known : x # n => MacroMap'[x] = MacroMap[x]
    BY <2>1, SetMacroEffect
  <2>6. DoneKept /\ NoneCompleted
    BY <2>4, <2>5, AssignTable
  <2>7. QED
    BY <2>1, <2>6
<1>3. ASSUME NEW n \in Names, MacroUndefined(n) PROVE Quiet
  <2> DEFINE m == [MacroMap[n] EXCEPT !.MIlive = FALSE]
  <2>1. n \in Known /\ mlookup(n) = MacroMap[n]
    BY <1>3, LookupMacro DEF MacroUndefined, MacroInv, TableClosed
  <2>2. SetMacro(n, m) /\ PostQueue' = PostQueue
    BY <1>3, <2>1 DEF MacroUndefined
  <2>3. MacroMap[n] \in Macro
    BY <2>1 DEF MacroInv, MacroTypeOK, Known
  <2>4. /\ m.incomplete = MacroMap[n].incomplete /\ m.component = MacroMap[n].component
        /\ m.function = MacroMap[n].function /\ m.sub = MacroMap[n].sub
    BY <2>3 DEF Macro
  <2> HIDE DEF m
  <2>5. Known' = Known \cup {n} /\ MacroMap'[n] = m /\ \A x \in Known : x # n => MacroMap'[x] = MacroMap[x]
    BY <2>2, SetMacroEffect
  <2>6. DoneKept /\ NoneCompleted
    BY <2>1, <2>4, <2>5, AssignTable
  <2>7. QED
    BY <2>2, <2>6
<1>4. ASSUME CompleteReturns PROVE Quiet
  <2> DEFINE n == stack[1].m
             m == [MacroMap[n] EXCEPT !.pendingrefs = {}]
  <2>1. /\ n \in Known /\ Head(stack) = stack[1]
    BY <1>4, TopOfStack DEF CompleteReturns
  <2>2. MacroMap' = [MacroMap EXCEPT ![n] = m] /\ PostQueue' = PostQueue
    BY <1>4, <2>1 DEF CompleteReturns
  <2>3. MacroMap[n] \in Macro
    BY <2>1 DEF MacroInv, MacroTypeOK, Known
  <2>4. /\ m.incomplete = MacroMap[n].incomplete /\ m.component = MacroMap[n].component
        /\ m.function = MacroMap[n].function /\ m.sub = MacroMap[n].sub
    BY <2>3 DEF Macro
  <2> HIDE DEF m, n
  <2>5. Known' = Known \cup {n} /\ MacroMap'[n] = m /\ \A x \in Known : x # n => MacroMap'[x] = MacroMap[x]
    BY <2>1, <2>2 DEF Known
  <2>6. DoneKept /\ NoneCompleted
    BY <2>1, <2>4, <2>5, AssignTable
  <2>7. QED
    BY <2>2, <2>6
<1>5. CASE UNCHANGED <<vars, macroVars>>
  BY <1>1, <1>5 DEF macroVars, tableVars
<1>6. CASE Preprocess
  <2>1. \/ UNCHANGED <<MacroMap, PostQueue>>
        \/ \E n \in Names, d \in Definitions, p \in Paths : MacroDefined(n, d, p)
        \/ \E n \in Names : MacroUndefined(n)
    BY <1>6 DEF Preprocess, BeginUnit, EnterFile, Parsed, MacroDefinedAgain, MacroExpands,
       macroVars, tableVars
  <2>2. QED
    BY <1>1, <1>2, <1>3, <2>1
<1>7. CASE Visit
  <2>1. UNCHANGED <<MacroMap, PostQueue>>
    BY <1>7 DEF Visit, VisitFunctionDecl, FlushMacros, EndUnit, tableVars
  <2>2. QED
    BY <1>1, <2>1
<1>8. CASE \E n \in Known : Completing(n)
  BY <1>8
<1>9. CASE Complete
  <2>1. CASE \E r \in Known : PendingComplete(r)
    <3>1. UNCHANGED <<MacroMap, PostQueue>>
      BY <2>1 DEF PendingComplete
    <3>2. QED
      BY <1>1, <3>1
  <2>2. CASE \E r \in Known : PendingIncomplete(r)
    BY <2>2, CompletingMacro
  <2>3. QED
    BY <1>4, <1>9, <2>1, <2>2 DEF Complete, Known
<1>10. CASE Walk
  <2>1. CASE WalkCompletes
    BY <2>1, RecordAhead, CompletingMacro
  <2>2. CASE ~WalkCompletes
    <3>1. UNCHANGED <<MacroMap, PostQueue>>
      BY <1>10, <2>2 DEF Walk, WalkErases, WalkPasses, WalkEnds, FlushPops, FlushEnds
    <3>2. QED
      BY <1>1, <3>1
  <2>3. QED
    BY <2>1, <2>2
<1>11. QED
  BY <1>5, <1>6, <1>7, <1>9, <1>10 DEF MacroNext

(* The last unit's cache stays, as EndSourceFileAction() is not called.    *)
LEMMA ContextKept ==
  ASSUME ~EndSourceFileDispatched, context # "left", [MacroNext]_<<vars, macroVars>>, MacroInv
  PROVE  context' # "left"
<1>1. CASE UnitStep
  BY <1>1 DEF UnitStep, BeginUnit, EnterFile, Parsed, EndUnit, CreateASTConsumer, Include,
     HandleTranslationUnit, EndSourceFile, storeVars
<1>2. CASE UNCHANGED context
  BY <1>2
<1>3. UnitStep \/ UNCHANGED context
  BY StoreSteps DEF Declare, Unbound, Completing
<1>4. QED
  BY <1>1, <1>2, <1>3

(* What is settled for a macro that has its component stays settled,       *)
(* unless it leaves the queue.                                             *)
LEMMA OutcomeKept ==
  ASSUME MacroInv, StoreGrows, DoneKept, NEW n \in Known, Done(n), NEW i, Outcome(n, i),
         InQueue(n) => InQueue(n)'
  PROVE  Outcome(n, i)'
<1>1. MacroMap'[n].component = MacroMap[n].component
  BY DEF DoneKept
<1>2. CASE Substitutes(n, i)
  <2>1. Substitutes(n, i)'
    BY <1>1, <1>2 DEF Substitutes, StoreGrows
  <2>2. QED
    BY <2>1 DEF Outcome
<1>3. CASE InQueue(n)
  BY <1>3 DEF Outcome
<1>4. CASE Processed /\ ~HasKey(Components, FUNCTION_REG, i)
  <2>1. (Processed /\ ~HasKey(Components, FUNCTION_REG, i))'
    BY <1>4 DEF StoreGrows, HasKey, Matches
  <2>2. QED
    BY <2>1 DEF Outcome
<1>5. QED
  BY <1>2, <1>3, <1>4 DEF Outcome

(* Deferred once more, in terms of Outcome.                                *)
Settled == \A n \in Known : Done(n) /\ MacroMap[n].function =>
             \A i \in MacroMap[n].sub : Outcome(n, i)

QueueDone == \A k \in 1..Len(PostQueue) : Done(PostQueue[k]) /\ MacroMap[PostQueue[k]].sub # {}

LEMMA DeferredParts == Deferred <=> context # "left" /\ QueueDone /\ Settled
BY DEF Deferred, QueueDone, Settled, Outcome, InQueue

(* No macro is completed, and none leaves the queue.                       *)
LEMMA QuietSettled ==
  ASSUME MacroInv, StoreGrows, DoneKept, NoneCompleted, PostQueue' = PostQueue, QueueDone, Settled
  PROVE  QueueDone' /\ Settled'
<1>1. QueueDone'
  <2>1. \A k \in 1..Len(PostQueue) : PostQueue[k] \in Known
    BY ElementOfSeq DEF MacroInv, MacroTypeOK, Known
  <2>2. QED
    BY <2>1 DEF QueueDone, DoneKept, Done
<1>2. ASSUME NEW n \in Known', ~MacroMap'[n].incomplete, MacroMap'[n].function,
             NEW i \in MacroMap'[n].sub
      PROVE  Outcome(n, i)'
  <2>1. n \in Known /\ Done(n)
    BY <1>2 DEF NoneCompleted
  <2>2. MacroMap[n].function /\ i \in MacroMap[n].sub
    BY <1>2, <2>1 DEF DoneKept
  <2>3. Outcome(n, i)
    BY <2>1, <2>2 DEF Settled
  <2>4. InQueue(n) => InQueue(n)'
    BY DEF InQueue
  <2>5. QED
    BY <2>1, <2>3, <2>4, OutcomeKept
<1>3. QED
  BY <1>1, <1>2 DEF Settled, Done

(* A macro is completed: its substitution is resolved, or queued.          *)
LEMMA CompletingSettled ==
  ASSUME MacroInv, StoreGrows, NEW n \in Known, Completing(n), QueueDone, Settled
  PROVE  QueueDone' /\ Settled'
<1> DEFINE o == Len(heap) + 1
<1>1. PICK data \in BOOLEAN, P \in SUBSET Known : Completes(n, data, P)
  BY DEF Completing
<1>2. /\ Known' = Known /\ \A x \in Known : x # n => MacroMap'[x] = MacroMap[x]
      /\ MacroMap'[n].component = o /\ ~MacroMap'[n].incomplete
      /\ MacroMap'[n].function = ~data /\ MacroMap'[n].sub = MacroMap[n].sub
      /\ \/ PostQueue' = PostQueue
         \/ PostQueue' = Append(PostQueue, n) /\ MacroMap[n].sub # {}
      /\ \/ data \/ MacroMap[n].sub = {}
         \/ PostQueue' = Append(PostQueue, n) \/ Resolved(o, MacroMap[n].sub)
  BY <1>1 DEF Completes
<1>3. ~Done(n)
  BY DEF Completing
<1>4. DoneKept
  BY <1>2, <1>3 DEF DoneKept, Done
<1>5. PostQueue \in Seq(Known) /\ Len(PostQueue) \in Nat
  BY DEF MacroInv, MacroTypeOK, Known
<1>6. /\ \A k \in 1..Len(PostQueue) : k \in 1..Len(PostQueue') /\ PostQueue'[k] = PostQueue[k]
      /\ \A k \in 1..Len(PostQueue') : \/ k \in 1..Len(PostQueue)
                                       \/ PostQueue'[k] = n /\ MacroMap[n].sub # {}
      /\ PostQueue' = Append(PostQueue, n) => InQueue(n)'
  <2>1. CASE PostQueue' = PostQueue
    <3>1. Append(PostQueue, n) # PostQueue
      <4>1. Len(Append(PostQueue, n)) = Len(PostQueue) + 1
        BY <1>5
      <4>2. QED
        BY <1>5, <4>1
    <3>2. QED
      BY <2>1, <3>1
  <2>2. CASE PostQueue' = Append(PostQueue, n) /\ MacroMap[n].sub # {}
    <3>1. /\ Len(PostQueue') = Len(PostQueue) + 1 /\ PostQueue'[Len(PostQueue) + 1] = n
          /\ \A k \in 1..Len(PostQueue) : PostQueue'[k] = PostQueue[k]
      BY <1>5, <2>2
    <3>2. \A k \in 1..Len(PostQueue) : k \in 1..Len(PostQueue')
      BY <1>5, <3>1
    <3>3. \A k \in 1..Len(PostQueue') : k \in 1..Len(PostQueue) \/ k = Len(PostQueue) + 1
      BY <1>5, <3>1
    <3>4. InQueue(n)'
      <4>1. Len(PostQueue) + 1 \in 1..Len(PostQueue')
        BY <1>5, <3>1
      <4>2. QED
        BY <3>1, <4>1 DEF InQueue
    <3>5. QED
      BY <2>2, <3>1, <3>2, <3>3, <3>4
  <2>3. QED
    BY <1>2, <2>1, <2>2
<1>7. QueueDone'
  <2> SUFFICES ASSUME NEW k \in 1..Len(PostQueue')
               PROVE  ~MacroMap'[PostQueue'[k]].incomplete /\ MacroMap'[PostQueue'[k]].sub # {}
    BY DEF QueueDone, Done
  <2>1. CASE k \in 1..Len(PostQueue)
    <3>1. PostQueue'[k] = PostQueue[k] /\ PostQueue[k] \in Known
      BY <1>5, <1>6, <2>1, ElementOfSeq
    <3>2. QED
      BY <1>4, <2>1, <3>1 DEF QueueDone, DoneKept
  <2>2. CASE PostQueue'[k] = n /\ MacroMap[n].sub # {}
    BY <1>2, <2>2
  <2>3. QED
    BY <1>6, <2>1, <2>2
<1>8. ASSUME NEW x \in Known, ~MacroMap'[x].incomplete, MacroMap'[x].function,
             NEW i \in MacroMap'[x].sub
      PROVE  Outcome(x, i)'
  <2>1. CASE x # n
    <3>1. MacroMap'[x] = MacroMap[x]
      BY <1>2, <2>1
    <3>2. Done(x) /\ Outcome(x, i)
      BY <1>8, <3>1 DEF Settled, Done
    <3>3. InQueue(x) => InQueue(x)'
      BY <1>6 DEF InQueue
    <3>4. QED
      BY <1>4, <3>2, <3>3, OutcomeKept
  <2>2. CASE x = n
    <3>1. i \in MacroMap[n].sub /\ ~data
      BY <1>2, <1>8, <2>2
    <3>2. CASE PostQueue' = Append(PostQueue, n)
      BY <1>6, <2>2, <3>2 DEF Outcome
    <3>3. CASE Resolved(o, MacroMap[n].sub)
      <4>1. PICK c \in Address : /\ heap[c].type \in {FUNCTION_REG, FUNCTION_MACRO}
                                 /\ heap[c].id \in MacroMap[n].sub
                                 /\ <<o, c, REF_SUBSTITUTION>> \in references'
        BY <3>3 DEF Resolved
      <4>2. heap[c].id = i
        BY <3>1, <4>1 DEF MacroInv, TableClosed
      <4>3. c \in Address' /\ heap'[c] = heap[c]
        BY DEF StoreGrows
      <4>4. MacroMap'[n].component = o
        BY <1>2
      <4> HIDE DEF o
      <4>5. Substitutes(n, i)'
        BY <4>1, <4>2, <4>3, <4>4 DEF Substitutes
      <4>6. QED
        BY <2>2, <4>5 DEF Outcome
    <3>4. QED
      BY <1>2, <3>1, <3>2, <3>3
  <2>3. QED
    BY <2>1, <2>2
<1>9. QED
  BY <1>2, <1>7, <1>8 DEF Settled, Done

(* A lookup that finds no function means that none is global.              *)
LEMMA NoFunction ==
  ASSUME TypeOK, NEW i, LookupFunction(i) = NULL PROVE ~HasKey(Components, FUNCTION_REG, i)
<1>1. LookupFull(FUNCTION_REG, i) = NULL
  BY DEF LookupFunction
<1>2. Lookup(FUNCTION_REG, i, FALSE) = NULL
  BY <1>1 DEF Lookup
<1>3. QED
  BY <1>2, LookupMiss

(* A substitution is taken from the queue: its function is found, or there *)
(* is none.                                                                *)
LEMMA PostProcessSettled ==
  ASSUME MacroInv, StoreGrows, PostProcess, context # "left", QueueDone, Settled
  PROVE  QueueDone' /\ Settled'
<1>0. PICK n : n = PostQueue[1]
  OBVIOUS
<1> DEFINE o == MacroMap[n].component
           s == CHOOSE i \in MacroMap[n].sub : TRUE
<1>1. /\ Head(PostQueue) = n /\ n \in Known /\ Done(n) /\ o \in Address
      /\ PostQueue \in Seq(Known) /\ PostQueue # <<>> /\ Processed
  BY <1>0, HeadDone DEF PostProcess
<1>2. PICK frepl \in PostLookup(s) :
        references' = IF frepl # NULL THEN references \cup {<<o, frepl, REF_SUBSTITUTION>>}
                                      ELSE references
  BY <1>1 DEF PostProcess
<1>3. frepl = LookupFunction(s)
  BY DEF PostLookup
<1>4. UNCHANGED MacroMap /\ PostQueue' = Tail(PostQueue) /\ DoneKept
  BY TableSame DEF PostProcess
<1>5. /\ Len(PostQueue') = Len(PostQueue) - 1 /\ Len(PostQueue) \in Nat
      /\ \A k \in 1..Len(PostQueue') : PostQueue'[k] = PostQueue[k + 1]
  BY <1>1, <1>4, HeadTailProperties
<1>6. \A k \in 1..Len(PostQueue') : k + 1 \in 1..Len(PostQueue)
  BY <1>5
<1>7. QueueDone'
  BY <1>4, <1>5, <1>6 DEF QueueDone, Done
<1>8. ASSUME NEW x \in Known, x # n, InQueue(x) PROVE InQueue(x)'
  <2>1. PICK k \in 1..Len(PostQueue) : PostQueue[k] = x
    BY <1>8 DEF InQueue
  <2>2. k # 1
    BY <1>0, <1>8, <2>1
  <2>3. k - 1 \in 1..Len(PostQueue') /\ (k - 1) + 1 = k
    BY <1>5, <2>2
  <2>4. PostQueue'[k - 1] = PostQueue[k]
    BY <1>5, <2>3
  <2>5. QED
    BY <2>1, <2>3, <2>4 DEF InQueue
<1>9. ASSUME NEW i \in MacroMap[n].sub PROVE Outcome(n, i)'
  <2>1. i = s
    BY <1>1 DEF MacroInv, TableClosed
  <2>2. CASE frepl # NULL
    <3>1. /\ frepl \in Address /\ heap[frepl].id = i
          /\ heap[frepl].type \in {FUNCTION_REG, FUNCTION_MACRO}
      BY <1>3, <2>1, <2>2, FunctionFound DEF MacroInv, MacroTypeOK
    <3>2. frepl \in Address' /\ heap'[frepl] = heap[frepl]
      BY <3>1 DEF StoreGrows
    <3>3. <<MacroMap'[n].component, frepl, REF_SUBSTITUTION>> \in references'
      BY <1>2, <1>4, <2>2
    <3>4. Substitutes(n, i)'
      BY <3>1, <3>2, <3>3 DEF Substitutes
    <3>5. QED
      BY <3>4 DEF Outcome
  <2>3. CASE frepl = NULL
    <3>1. ~HasKey(Components, FUNCTION_REG, i)
      BY <1>3, <2>1, <2>3, NoFunction DEF MacroInv, MacroTypeOK
    <3>2. Processed' /\ ~HasKey(Components, FUNCTION_REG, i)'
      BY <1>1, <3>1 DEF StoreGrows, HasKey, Matches
    <3>3. QED
      BY <3>2 DEF Outcome
  <2>4. QED
    BY <2>2, <2>3
<1>10. ASSUME NEW x \in Known, Done(x), MacroMap[x].function, NEW i \in MacroMap[x].sub
       PROVE  Outcome(x, i)'
  <2>1. CASE x = n
    BY <1>9, <2>1
  <2>2. CASE x # n
    <3>1. Outcome(x, i)
      BY <1>10 DEF Settled
    <3>2. QED
      BY <1>4, <1>8, <1>10, <2>2, <3>1, OutcomeKept
  <2>3. QED
    BY <2>1, <2>2
<1>11. QED
  BY <1>4, <1>7, <1>10 DEF Settled, Known, Done

LEMMA DeferredStep ==
  ASSUME ~EndSourceFileDispatched, MacroInv, Deferred, [MacroNext]_<<vars, macroVars>>
  PROVE  Deferred'
<1>1. context # "left" /\ QueueDone /\ Settled
  BY DeferredParts
<1>2. StoreGrows /\ context' # "left"
  BY <1>1, StoreOnlyGrows, ContextKept
<1>3. QueueDone' /\ Settled'
  BY <1>1, <1>2, TableSteps, QuietSettled, CompletingSettled, PostProcessSettled
<1>4. (context # "left" /\ QueueDone /\ Settled)'
  BY <1>2, <1>3
<1>5. QED
  BY <1>4 DEF Deferred, QueueDone, Settled, Outcome, InQueue

(* A macro that substitutes a function refers to it once the deferred      *)
(* substitutions are done: at completion, or from the queue, a function of *)
(* that name is found if there is a global one.  Clang must not call       *)
(* EndSourceFileAction(), or PostProcessMacros() looks in freed memory.    *)
THEOREM SubstitutionsResolved ==
  ASSUME ~EndSourceFileDispatched PROVE MacroSpec => []SubstitutionResolved
<1>1. MacroInit => MacroInv /\ Deferred
  <2>1. MacroInit => MacroInv
    BY MacroInitInv
  <2>2. MacroInit => Deferred
    BY DEF MacroInit, Init, Deferred, Known
  <2>3. QED
    BY <2>1, <2>2
<1>2. MacroInv /\ Deferred /\ [MacroNext]_<<vars, macroVars>> => (MacroInv /\ Deferred)'
  BY MacroNextKeeps, DeferredStep
<1>3. MacroInv /\ Deferred => SubstitutionResolved
  <2> SUFFICES ASSUME MacroInv, Deferred, Processed, PostQueue = <<>>,
                      NEW n \in Known, NEW i \in MacroMap[n].sub,
                      heap[MacroMap[n].component].type = FUNCTION_MACRO,
                      HasKey(Components, FUNCTION_REG, i)
               PROVE  Substitutes(n, i)
    BY DEF SubstitutionResolved, Known
  <2>1. Done(n)
    BY DEF MacroInv, WalkInPhase, Queued, Processed
  <2>2. MacroMap[n].function
    BY <2>1 DEF MacroInv, Owned, Bound, FUNCTION_MACRO, DATA_MACRO
  <2>3. ~InQueue(n)
    BY DEF InQueue
  <2>4. Outcome(n, i)
    BY <2>1, <2>2, DeferredParts DEF Settled
  <2>5. QED
    BY <2>3, <2>4 DEF Outcome
<1>4. QED
  BY <1>1, <1>2, <1>3, PTL DEF MacroSpec
=============================================================================
