----------------------------- MODULE MacroTable -----------------------------
(***************************************************************************)
(* The macros of inquiry (cc/MacroCallbacks): the global MacroMap with a   *)
(* Macro for every name ever defined, the queue MRQ of the macro records   *)
(* of the active translation unit, and the recursive CompleteDefinition    *)
(* that turns a Macro into a component of the store.                       *)
(*                                                                         *)
(* The preprocessor callbacks run first and fill MRQ; the AST visitor then *)
(* walks MRQ (FindRelatedMacros, HandleTranslationUnit), which completes   *)
(* macros in between the declarations it adds to the store; macros that    *)
(* substitute an identifier nobody had declared by then are looked up      *)
(* again by PostProcessMacros, after the last translation unit.            *)
(*                                                                         *)
(* One call of a handler is several steps here where it recurses or loops; *)
(* as there is one thread, no other handler runs in between.  Macros of    *)
(* clang's <built-in> buffer are not seen by any callback.                 *)
(***************************************************************************)
EXTENDS ComponentStore, Functions

CONSTANTS
  Names,        \* identifiers that may be #defined
  Definitions,  \* what may follow them: [objlike, args, body]
  Declared,     \* identifiers that functions are declared with
  MaxRecords,   \* bound: macro records of one translation unit
  MaxVisits,    \* bound: function declarations of one translation unit
  FreedNodesIntact
    \* Does a list node keep its links when it is freed?  The loops over MRQ
    \* erase the node of their iterator and increment the iterator afterwards.

FUNCTION_REG == "function"
FUNCTION_MACRO == "macrofunction"
DATA_MACRO == "macro"
REF_BODYENC == "bodyenc"
REF_SUBSTITUTION == "macrosubstitution"

ASSUME MacroAssumption ==
  /\ Names \subseteq Ids /\ Declared \subseteq Ids
  /\ {FUNCTION_REG, FUNCTION_MACRO, DATA_MACRO} \subseteq Types
  /\ {REF_BODYENC, REF_SUBSTITUTION} \subseteq Kinds
  /\ \A d \in Definitions : d.objlike \in BOOLEAN
  /\ MaxRecords \in Nat /\ MaxVisits \in Nat /\ FreedNodesIntact \in BOOLEAN

VARIABLES
  MacroMap,     \* the Macro of each name: a function that grows
  MRQ,          \* MacroQueue MRQ: records [m, loc, embedded]
  PostQueue,    \* MacroPostProcessQueue
  stack,        \* calls of CompleteDefinition: [m, todo], innermost first
  walk,         \* the visitor's loop over MRQ: [kind, at, from, to, C, isdef]
  defined,      \* clang: the names #defined at this point of the unit
  position,     \* clang: the place of the last record of this unit
  visits,       \* clang: the function declarations of this unit visited so far
  mentions      \* history: <<m, r>> if reference(r) was called for m by MacroDefined

tableVars == <<MacroMap, MRQ, PostQueue, stack, walk>>
clangMacroVars == <<defined, position, visits>>
macroVars == <<tableVars, clangMacroVars, mentions>>

-----------------------------------------------------------------------------
(* What MacroDefined() reads off the tokens of a definition d              *)

(* An identifier that is no argument and is not pasted to what precedes it *)
Free(d, k) == /\ d.body[k] \in Ids \ Range(d.args)
              /\ k > 1 => d.body[k - 1] # "##"

FreeTokens(d) == {k \in DOMAIN d.body : Free(d, k)}

(* A semicolon, or a first parenthesis that does not follow the first      *)
(* token: the macro substitutes no function.                               *)
NotSubstitution(d) ==
  \E k \in DOMAIN d.body :
    \/ d.body[k] = ";"
    \/ d.body[k] = "(" /\ k # 2 /\ \A j \in 1..k-1 : d.body[j] # "("

(* The identifier a macro may substitute, {} if none; `old' is what an     *)
(* earlier definition left.  known: the names with a Macro.                *)
Sub(old, d, known) ==
  IF NotSubstitution(d) THEN {}
  ELSE IF 1 \in FreeTokens(d) /\ d.body[1] \notin known THEN {d.body[1]}
  ELSE old

Mentioned(d, known) == {d.body[k] : k \in FreeTokens(d)} \cap known

(* subrepl: the macro that a definition of one token stands for.           *)
Subrepl(old, d, known) == IF Len(d.body) = 1 THEN Mentioned(d, known) ELSE old

-----------------------------------------------------------------------------
NewMacro == [component |-> NULL, incomplete |-> TRUE, function |-> FALSE,
             sub |-> {}, subrepl |-> {}, pendingrefs |-> {},
             file |-> NoFile, objlike |-> TRUE, MIlive |-> FALSE]

(* Slip: a macro that has its component is taken for another one.          *)
mlookup_Anew(n) == IF n \in DOMAIN MacroMap /\ MacroMap[n].component = NULL
                   THEN MacroMap[n] ELSE NewMacro

(* mlookup(name): MacroMap is not reset between translation units.         *)
mlookup(n) == IF n \in DOMAIN MacroMap THEN MacroMap[n] ELSE NewMacro

SetMacro(n, m) == MacroMap' = [x \in DOMAIN MacroMap \cup {n} |->
                                 IF x = n THEN m ELSE MacroMap[x]]

NoWalk == [kind |-> "none", at |-> 0, from |-> 0, to |-> 0, C |-> NULL, isdef |-> FALSE]

(* Slip: the location of a record is that of the one before.               *)
PushRecord_Behind(n, embedded) ==
  /\ position < MaxRecords /\ position' = position + 1
  /\ MRQ' = Append(MRQ, [m |-> n, loc |-> position, embedded |-> embedded])

PushRecord(n, embedded) ==
  /\ position < MaxRecords /\ position' = position + 1
  /\ MRQ' = Append(MRQ, [m |-> n, loc |-> position + 1, embedded |-> embedded])

MacroInit ==
  /\ Init
  /\ MacroMap = [n \in {} |-> NewMacro] /\ MRQ = <<>> /\ PostQueue = <<>>
  /\ stack = <<>> /\ walk = NoWalk
  /\ defined = {} /\ position = 0 /\ visits = 0
  /\ mentions = {}

(* MacroDefined(Identifier, MI): a macro that has its component - from an  *)
(* earlier translation unit - is left as it is.                            *)
MacroDefinedAgain(n) ==
  /\ phase = "preprocess" /\ mlookup(n).component # NULL
  /\ defined' = defined \cup {n}
  /\ UNCHANGED <<vars, tableVars, position, visits, mentions>>

(* A macro that was redefined keeps what its former definition collected.  *)
MacroDefined(n, d, p) ==
  /\ phase = "preprocess" /\ p \in entered \cup Remapped
  /\ mlookup(n).component = NULL
  /\ LET m == mlookup(n)
         known == DOMAIN MacroMap \cup {n}
         rs == Mentioned(d, known)
     IN  /\ SetMacro(n, [m EXCEPT !.file = p, !.objlike = d.objlike, !.MIlive = TRUE,
                           !.sub = Sub(@, d, known),
                           !.subrepl = Subrepl(@, d, known),
                           !.pendingrefs = @ \cup rs])
         /\ mentions' = mentions \cup {<<n, r>> : r \in rs}
  /\ PushRecord(n, FALSE)
  /\ defined' = defined \cup {n}
  /\ UNCHANGED <<vars, PostQueue, stack, walk, visits>>

(* clang frees the definition after MacroUndefined(); the Macro keeps its  *)
(* pointer MI.                                                             *)
MacroUndefined(n) ==
  /\ phase = "preprocess" /\ n \in defined
  /\ PushRecord(n, FALSE)
  /\ SetMacro(n, [mlookup(n) EXCEPT !.MIlive = FALSE])
  /\ defined' = defined \ {n}
  /\ UNCHANGED <<vars, PostQueue, stack, walk, mentions, visits>>

(* embedded: expanded within the expansion of another macro (isMacroID)    *)
MacroExpands(n, embedded) ==
  /\ phase = "preprocess" /\ n \in defined
  /\ PushRecord(n, embedded)
  /\ UNCHANGED <<vars, MacroMap, PostQueue, stack, walk, defined, mentions, visits>>

-----------------------------------------------------------------------------
(* CompleteDefinition                                                      *)

(* lookup<Function> of the two kinds of function there are                 *)
LookupFunction(i) == IF LookupFull(FUNCTION_REG, i) # NULL
                     THEN LookupFull(FUNCTION_REG, i)
                     ELSE LookupFull(FUNCTION_MACRO, i)

(* isObjectLike() of a definition clang has freed may answer anything.     *)
ObjectLike(m) == IF m.MIlive THEN {m.objlike} ELSE BOOLEAN

(* The call for macro n up to the loop over its pending references.  The   *)
(* reference to subrepl is made while n is still incomplete and so becomes *)
(* a pending one.                                                          *)
CompleteDefinition(n) ==
  LET m == MacroMap[n]
      o == Len(heap) + 1
      frepl == IF m.sub = {} THEN NULL ELSE LookupFunction(CHOOSE i \in m.sub : TRUE)
      isfunc == IF m.sub # {} THEN frepl # NULL
                ELSE m.function \/ \E r \in m.subrepl : MacroMap[r].function
      pend(data) == m.pendingrefs \cup IF data THEN {} ELSE m.subrepl
  IN  \E objlike \in ObjectLike(m) :
        LET data == ~isfunc /\ objlike
        IN  /\ BindLocal(IF data THEN DATA_MACRO ELSE FUNCTION_MACRO, n, m.file)
            /\ references' = IF ~data /\ frepl # NULL
                             THEN references \cup {<<o, frepl, REF_SUBSTITUTION>>}
                             ELSE references
            /\ PostQueue' = IF ~data /\ frepl = NULL /\ m.sub # {}
                            THEN Append(PostQueue, n) ELSE PostQueue
            /\ MacroMap' = [MacroMap EXCEPT ![n] =
                 [@ EXCEPT !.component = o, !.incomplete = FALSE, !.function = ~data,
                           !.pendingrefs = pend(data)]]
            /\ stack' = <<[m |-> n, todo |-> pend(data)]>> \o stack

(* Slip: the reference is made in the wrong direction.                     *)
ReferTo_Swapped(n, r) ==
  references' = references \cup {<<MacroMap[r].component, MacroMap[n].component, REF_BODYENC>>}

(* Macro::reference, both macros complete                                  *)
ReferTo(n, r) ==
  references' = references \cup {<<MacroMap[n].component, MacroMap[r].component, REF_BODYENC>>}

Unbound == <<heap, parent, AllFiles, components, Components, TranslationUnits,
             allComponents, context, lastfile, clangVars>>

(* The loop: a pending reference to a macro that is complete is made,      *)
PendingComplete(r) ==
  /\ stack # <<>> /\ r \in Head(stack).todo
  /\ ~MacroMap[r].incomplete
  /\ ReferTo(Head(stack).m, r)
  /\ stack' = [stack EXCEPT ![1] = [m |-> @.m, todo |-> @.todo \ {r}]]
  /\ UNCHANGED <<Unbound, MacroMap, MRQ, PostQueue, walk, clangMacroVars, mentions>>

(* Slip: a macro is completed whether or not it is incomplete.             *)
PendingIncomplete_Always(r) ==
  /\ stack # <<>> /\ r \in Head(stack).todo
  /\ CompleteDefinition(r)
  /\ UNCHANGED <<TranslationUnits, context, clangVars, MRQ, walk, clangMacroVars,
                 mentions>>

(* any other macro is completed first.                                     *)
PendingIncomplete(r) ==
  /\ stack # <<>> /\ r \in Head(stack).todo
  /\ MacroMap[r].incomplete
  /\ CompleteDefinition(r)
  /\ UNCHANGED <<TranslationUnits, context, clangVars, MRQ, walk, clangMacroVars,
                 mentions>>

(* The call returns with no reference pending.  Its caller, if it is the   *)
(* loop, finds the macro complete and refers to it.                        *)
CompleteReturns ==
  /\ stack # <<>> /\ Head(stack).todo = {}
  /\ stack' = Tail(stack)
  /\ MacroMap' = [MacroMap EXCEPT ![Head(stack).m] = [@ EXCEPT !.pendingrefs = {}]]
  /\ UNCHANGED <<vars, MRQ, PostQueue, walk, clangMacroVars, mentions>>

-----------------------------------------------------------------------------
(* The visitor and MRQ                                                     *)

Visiting == phase = "ast" /\ stack = <<>> /\ walk.kind = "none"

(* VisitFunctionDecl of a declaration or definition that spans from..to:   *)
(* the function is looked up, bound on a miss, and FindRelatedMacros walks *)
(* the queue for it.  (Its references to structures need none of this.)    *)
VisitFunctionDecl(i, local, p, isdef, from, to) ==
  LET hit == Lookup(FUNCTION_REG, i, local)
  IN  /\ Visiting /\ visits < MaxVisits /\ visits' = visits + 1
      /\ p \in entered \cup Remapped
      /\ IF hit = NULL
         THEN Bind(FUNCTION_REG, i, local, p)
         ELSE UNCHANGED <<heap, parent, AllFiles, components, Components, allComponents, lastfile>>
      /\ walk' = [kind |-> "find", at |-> 1, from |-> from, to |-> to,
                  C |-> IF hit = NULL THEN Len(heap) + 1 ELSE hit, isdef |-> isdef]
      /\ UNCHANGED <<references, TranslationUnits, context, clangVars, MacroMap, MRQ,
                     PostQueue, stack, defined, position, mentions>>

(* VisitDeclContext has returned; HandleTranslationUnit takes what is left.*)
FlushMacros ==
  /\ Visiting
  /\ walk' = [NoWalk EXCEPT !.kind = "flush", !.at = 1]
  /\ UNCHANGED <<vars, MacroMap, MRQ, PostQueue, stack, clangMacroVars, mentions>>

Walking(kind) == stack = <<>> /\ walk.kind = kind

(* Both loops complete the macro of a record before they look at it.       *)
WalkCompletes ==
  /\ Walking("find") \/ Walking("flush")
  /\ walk.at <= Len(MRQ)
  /\ MacroMap[MRQ[walk.at].m].incomplete
  /\ CompleteDefinition(MRQ[walk.at].m)
  /\ UNCHANGED <<TranslationUnits, context, clangVars, MRQ, walk, clangMacroVars,
                 mentions>>

(* Slip: the loops look at a record without completing its macro.          *)
Reached_Incomplete == walk.at <= Len(MRQ)

Reached == /\ walk.at <= Len(MRQ)
           /\ ~MacroMap[MRQ[walk.at].m].incomplete

(* A use of a data macro within another macro, or a record of an earlier   *)
(* declaration, is dropped; one behind the declaration ends the loop.      *)
DataUse(r)    == ~MacroMap[r.m].function /\ r.embedded
Behind(r)     == r.loc # walk.from /\ walk.to < r.loc
Before(r)     == r.loc # walk.from /\ r.loc < walk.from

Erase == MRQ' = [k \in 1..Len(MRQ) - 1 |-> IF k < walk.at THEN MRQ[k] ELSE MRQ[k + 1]]

WalkErases ==
  /\ Walking("find") /\ Reached
  /\ LET r == MRQ[walk.at] IN DataUse(r) \/ (~Behind(r) /\ Before(r))
  /\ Erase
  /\ \/ UNCHANGED walk
     \/ ~FreedNodesIntact /\ walk' = [NoWalk EXCEPT !.kind = "astray"]
  /\ UNCHANGED <<vars, MacroMap, PostQueue, stack, clangMacroVars, mentions>>

(* Slip: `continue' in a loop that does not advance.                       *)
WalkPasses_Stuck ==
  /\ Walking("find") /\ Reached
  /\ LET r == MRQ[walk.at] IN ~DataUse(r) /\ ~Behind(r) /\ ~Before(r)
  /\ MRQ' = MRQ
  /\ UNCHANGED <<vars, MacroMap, PostQueue, stack, walk, clangMacroVars, mentions>>

(* FunctionMacroHandler::Found: a macro whose expansion holds the name of  *)
(* a function it is declared by (idmatch) refers to the function; a        *)
(* function refers to another macro its definition uses.                   *)
Found(C, macro, isdef, idmatch) ==
  IF idmatch = isdef THEN {}
  ELSE IF isdef THEN {<<C, macro, REF_BODYENC>>} ELSE {<<macro, C, REF_BODYENC>>}

(* The identifiers that MacroExpanded() collects are not modelled: idmatch *)
(* is chosen, so that any record may be found or passed by.                *)
WalkPasses ==
  /\ Walking("find") /\ Reached
  /\ LET r == MRQ[walk.at]
     IN  /\ ~DataUse(r) /\ ~Behind(r) /\ ~Before(r)
         /\ \E idmatch \in BOOLEAN :
              references' = references \cup
                Found(walk.C, MacroMap[r.m].component, walk.isdef, idmatch)
  /\ walk' = [walk EXCEPT !.at = @ + 1]
  /\ UNCHANGED <<Unbound, MacroMap, MRQ, PostQueue, stack, clangMacroVars, mentions>>

WalkEnds ==
  /\ Walking("find")
  /\ \/ walk.at > Len(MRQ)
     \/ Reached /\ ~DataUse(MRQ[walk.at]) /\ Behind(MRQ[walk.at])
  /\ walk' = NoWalk
  /\ UNCHANGED <<vars, MacroMap, MRQ, PostQueue, stack, clangMacroVars, mentions>>

FlushPops ==
  /\ Walking("flush") /\ Reached
  /\ MRQ' = Tail(MRQ)
  /\ UNCHANGED <<vars, MacroMap, PostQueue, stack, walk, clangMacroVars, mentions>>

FlushEnds ==
  /\ Walking("flush") /\ MRQ = <<>>
  /\ walk' = [NoWalk EXCEPT !.kind = "done"]
  /\ UNCHANGED <<vars, MacroMap, MRQ, PostQueue, stack, clangMacroVars, mentions>>

-----------------------------------------------------------------------------
(* PostProcessMacros, after the last translation unit: the lookups use the *)
(* cache of whatever unit was the last - or, once leaveContext() deleted   *)
(* it, whatever that memory holds.                                         *)
Processed == phase = "idle" /\ TU = Len(Mains)

(* Slip: the lookup made in LOOKUP_LOCAL mode.                             *)
PostLookup_Local(i) == {LookupLocal(FUNCTION_REG, i)}

PostLookup(i) == IF context = "left" THEN {LookupFunction(i), NULL} ELSE {LookupFunction(i)}

PostProcess ==
  /\ Processed /\ PostQueue # <<>>
  /\ LET m == MacroMap[Head(PostQueue)]
     IN  \E frepl \in PostLookup(CHOOSE i \in m.sub : TRUE) :
           references' = IF frepl # NULL
                         THEN references \cup {<<m.component, frepl, REF_SUBSTITUTION>>}
                         ELSE references
  /\ PostQueue' = Tail(PostQueue)
  /\ UNCHANGED <<Unbound, MacroMap, MRQ, stack, walk, clangMacroVars, mentions>>

-----------------------------------------------------------------------------
(* The translation unit around it: the actions of the store.               *)
BeginUnit ==
  /\ CreateASTConsumer
  /\ defined' = {} /\ position' = 0 /\ visits' = 0 /\ walk' = NoWalk
  /\ UNCHANGED <<MacroMap, MRQ, PostQueue, stack, mentions>>

EnterFile(p) == Include(p) /\ UNCHANGED macroVars

Parsed == HandleTranslationUnit /\ UNCHANGED macroVars

EndUnit ==
  /\ walk.kind = "done"
  /\ EndSourceFile
  /\ UNCHANGED <<tableVars, clangMacroVars, mentions>>

Preprocess ==
  \/ BeginUnit
  \/ \E p \in Paths : EnterFile(p)
  \/ \E n \in Names : MacroDefinedAgain(n)
  \/ \E n \in Names, d \in Definitions, p \in Paths : MacroDefined(n, d, p)
  \/ \E n \in Names : MacroUndefined(n)
  \/ \E n \in Names, embedded \in BOOLEAN : MacroExpands(n, embedded)
  \/ Parsed

Visit ==
  \/ \E i \in Declared, local, isdef \in BOOLEAN, p \in Paths, from \in 0..MaxRecords :
       \E to \in from..MaxRecords : VisitFunctionDecl(i, local, p, isdef, from, to)
  \/ FlushMacros
  \/ EndUnit

Complete ==
  \/ \E r \in DOMAIN MacroMap : PendingComplete(r)
  \/ \E r \in DOMAIN MacroMap : PendingIncomplete(r)
  \/ CompleteReturns

Walk == WalkCompletes \/ WalkErases \/ WalkPasses \/ WalkEnds \/ FlushPops \/ FlushEnds

MacroNext == Preprocess \/ Visit \/ Complete \/ Walk \/ PostProcess

MacroSpec == MacroInit /\ [][MacroNext]_<<vars, macroVars>>

(* One thread runs each loop and each call to its end.                     *)
FairMacroSpec == MacroSpec /\ WF_<<vars, macroVars>>(Complete \/ Walk \/ PostProcess)

-----------------------------------------------------------------------------
Macro == [component : Nat, incomplete : BOOLEAN, function : BOOLEAN,
          sub : SUBSET Ids, subrepl : SUBSET Names, pendingrefs : SUBSET Names,
          file : Paths \cup {NoFile}, objlike : BOOLEAN, MIlive : BOOLEAN]

MacroTypeOK ==
  /\ TypeOK
  /\ DOMAIN MacroMap \subseteq Names
  /\ \A n \in DOMAIN MacroMap : /\ MacroMap[n] \in Macro
                                /\ MacroMap[n].component <= Len(heap)
  /\ MRQ \in Seq([m : Names, loc : 1..MaxRecords, embedded : BOOLEAN])
  /\ PostQueue \in Seq(DOMAIN MacroMap)
  /\ stack \in Seq([m : DOMAIN MacroMap, todo : SUBSET DOMAIN MacroMap])

(* No macro outlives its translation unit incomplete: the definition that  *)
(* CompleteDefinition would read is gone with the preprocessor.            *)
CompleteAtEnd == phase = "idle" =>
  \A n \in DOMAIN MacroMap : ~MacroMap[n].incomplete /\ MacroMap[n].pendingrefs = {}

(* A reference that MacroDefined() could not make yet is not lost: once    *)
(* the macro is complete its component refers to that of the macro it      *)
(* mentions - however the two, and others, mention each other.             *)
MentionsKept == stack = <<>> =>
  \A l \in mentions : ~MacroMap[l[1]].incomplete =>
    <<MacroMap[l[1]].component, MacroMap[l[2]].component, REF_BODYENC>> \in references

(* CompleteDefinition binds a component without looking its name up; yet   *)
(* in whichever units and files a macro is defined, as MacroMap outlives   *)
(* them no two components are macros of one name, be it of one kind or of  *)
(* both, and MapComponents() finds that of each complete macro.            *)
IsMacro(c) == heap[c].type \in {FUNCTION_MACRO, DATA_MACRO}

MacrosBound ==
  /\ \A n \in DOMAIN MacroMap : ~MacroMap[n].incomplete =>
       Registered(MacroMap[n].component) /\ heap[MacroMap[n].component].id = n
  /\ \A b, c \in Address : IsMacro(b) /\ IsMacro(c) /\ heap[b].id = heap[c].id => b = c

(* CompleteDefinition never runs twice for a macro at the same time, so    *)
(* its recursion is no deeper than there are macros.                       *)
StackDistinct == \A j, k \in 1..Len(stack) : stack[j].m = stack[k].m => j = k

(* What a macro that is exported as a function substitutes: if some        *)
(* function of that name is global, the macro refers to a function of that *)
(* name once PostProcessMacros() is done.                                  *)
Substitutes(n, i) ==
  \E c \in Address : /\ heap[c].type \in {FUNCTION_REG, FUNCTION_MACRO} /\ heap[c].id = i
                     /\ <<MacroMap[n].component, c, REF_SUBSTITUTION>> \in references

SubstitutionResolved == Processed /\ PostQueue = <<>> =>
  \A n \in DOMAIN MacroMap : \A i \in MacroMap[n].sub :
    /\ heap[MacroMap[n].component].type = FUNCTION_MACRO
    /\ HasKey(Components, FUNCTION_REG, i)
    => Substitutes(n, i)

(* The same of every macro that may substitute an identifier, as the       *)
(* comment on deferred resolution in MacroDefined() has it.                *)
SubstitutionDeferred == Processed /\ PostQueue = <<>> =>
  \A n \in DOMAIN MacroMap : \A i \in MacroMap[n].sub :
    HasKey(Components, FUNCTION_REG, i) => Substitutes(n, i)

(* Every walk over MRQ ends, whatever recursion it sets off.               *)
WalksEnd == walk.kind \in {"find", "flush"} ~> walk.kind \in {"none", "done", "astray"}

-----------------------------------------------------------------------------
(* The inductive invariant, which needs nothing of the sources.            *)

Known == DOMAIN MacroMap

Done(n) == ~MacroMap[n].incomplete

(* What the table, the queues and the stack name is in the table.          *)
TableClosed ==
  /\ defined \subseteq Known
  /\ mentions \subseteq Known \X Known
  /\ \A k \in 1..Len(MRQ) : MRQ[k].m \in Known
  /\ \A n \in Known : /\ MacroMap[n].subrepl \cup MacroMap[n].pendingrefs \subseteq Known
                      /\ MacroMap[n].file \in Paths
                      /\ \A i, j \in MacroMap[n].sub : i = j

(* A macro is complete once it has a component; no other component is of   *)
(* its name and kind, and MapComponents() finds this one.                  *)
Bound(n) ==
  LET c == MacroMap[n].component
  IN  /\ c \in Address /\ Registered(c)
      /\ heap[c].local /\ heap[c].id = n
      /\ heap[c].type = IF MacroMap[n].function THEN FUNCTION_MACRO ELSE DATA_MACRO

Owned ==
  /\ \A n \in Known : IF Done(n) THEN Bound(n) ELSE MacroMap[n].component = NULL
  /\ \A c \in Address : heap[c].type \in {FUNCTION_MACRO, DATA_MACRO} =>
       heap[c].id \in Known /\ MacroMap[heap[c].id].component = c

(* Where the walk over MRQ is while clang does what.                       *)
WalkState == [kind : {"none", "find", "flush", "done", "astray"}, at : Nat,
              from : 0..MaxRecords, to : 0..MaxRecords, C : Nat, isdef : BOOLEAN]

WalkInPhase ==
  /\ walk \in WalkState /\ position \in 0..MaxRecords
  /\ phase = "preprocess" => walk.kind = "none"
  /\ walk.kind \in {"find", "flush", "astray"} => phase = "ast"
  /\ walk.kind \in {"find", "flush"} => walk.at >= 1
  /\ walk.kind = "find" => walk.C \in Address
  /\ walk.kind = "flush" => walk.at = 1
  /\ walk.kind = "done" \/ phase = "idle" => MRQ = <<>>
  /\ stack # <<>> => walk.kind \in {"find", "flush"}

(* An incomplete macro has a record ahead, which will have it completed    *)
(* while its file is in scope.                                             *)
Queued == \A n \in Known : ~Done(n) =>
  /\ \E k \in 1..Len(MRQ) : MRQ[k].m = n
  /\ phase # "idle" => MacroMap[n].file \in entered \cup Remapped

(* A reference that is still to be made is in a loop that will make it.    *)
OnStack(n) == \E k \in 1..Len(stack) : stack[k].m = n
ToDo(n, r) == \E k \in 1..Len(stack) : stack[k].m = n /\ r \in stack[k].todo

Referred(n, r) ==
  Done(r) /\ <<MacroMap[n].component, MacroMap[r].component, REF_BODYENC>> \in references

Running ==
  /\ StackDistinct
  /\ \A k \in 1..Len(stack) : Done(stack[k].m)
  /\ \A n \in Known : Done(n) => MacroMap[n].pendingrefs = {} \/ OnStack(n)
  /\ \A l \in mentions : IF Done(l[1]) THEN Referred(l[1], l[2]) \/ ToDo(l[1], l[2])
                                       ELSE l[2] \in MacroMap[l[1]].pendingrefs

MacroInv ==
  MacroTypeOK /\ TableClosed /\ Owned /\ WalkInPhase /\ Queued /\ Running

(* A substitution that is not resolved yet will be by PostProcessMacros(), *)
(* which finds the cache as the last unit left it.                         *)
Deferred ==
  /\ context # "left"
  /\ \A k \in 1..Len(PostQueue) : Done(PostQueue[k]) /\ MacroMap[PostQueue[k]].sub # {}
  /\ \A n \in Known : Done(n) /\ MacroMap[n].function =>
       \A i \in MacroMap[n].sub :
         \/ Substitutes(n, i)
         \/ \E k \in 1..Len(PostQueue) : PostQueue[k] = n
         \/ Processed /\ ~HasKey(Components, FUNCTION_REG, i)
=============================================================================
