------------------------------- MODULE Visitor -------------------------------
(***************************************************************************)
(* The AST visitor of inquiry (cc/ReferenceBuilder), as far as it builds   *)
(* structures: records, enums, typedefs and the types of variables.  (What *)
(* functions and initializers add to that is in Statements.)  A            *)
(* visitor calls another one where a type needs it - an anonymous one is   *)
(* renamed after its owner and visited, one that is not in the store yet   *)
(* is visited on the way - and all of them share _currentStructure and the *)
(* queue of macro records.  The calls in progress are an explicit stack;   *)
(* one step is what a call does between two calls of others.               *)
(*                                                                         *)
(* What clang has parsed is a program, one of a set: declarations with     *)
(* their source ranges, in the order of each main file, and the places of  *)
(* macro expansions.  A type is the declaration it leads to when pointers, *)
(* arrays and sugar are stripped (of a record, the definition if there is  *)
(* one), 0 if to none.  Macros are complete (MacroTable), and a list node  *)
(* that is erased still leads to the next.                                 *)
(***************************************************************************)
EXTENDS ComponentStore, SequencesExt

CONSTANT Programs
  \* [decls: declarations by number, units: of each main file the numbers of
  \*  its top-level declarations, expansions: of each main file the names that
  \*  the macro expanded at a place mentions (`identifiers'), by place]
  \* A declaration is [kind, name, def, static, type, fields, enumerators,
  \* params, automatic, body, init, from, to].  type is that of a variable, what
  \* a function returns or a typedef stands for; params are [name, type];
  \* automatic says that a variable is local to a function and not static;
  \* body and init are described in Statements.  A field is [name, type, as,
  \* from, to], where as says whether it is a "value" of its type, a "pointer"
  \* to one, or spelled as a "typedef" of it.

Anonymous == <<>>

IsSeq(s) == Len(s) \in Nat /\ s = [k \in 1..Len(s) |-> s[k]]

(* What t leads to, and the nodes of a body or an expression               *)
IsType(P, t) ==
  t # 0 => t \in DOMAIN P.decls /\ P.decls[t].kind \in {"record", "enum", "typedef"}
IsBody(P, nodes) ==
  IsSeq(nodes) /\ nodes # <<>> /\ \A j \in 1..Len(nodes) : IsType(P, nodes[j].type)

(* A declared name is a single word; only records and enums may have none. *)
(* Fields have the canonical types, which typedefs are not.                *)
ASSUME VisitorAssumption ==
  \A P \in Programs :
    /\ Len(P.units) = Len(Mains) /\ Len(P.expansions) = Len(Mains)
    /\ IsSeq(P.units) /\ \A u \in 1..Len(P.units) :
         IsSeq(P.units[u]) /\ Range(P.units[u]) \subseteq DOMAIN P.decls
    /\ 0 \notin DOMAIN P.decls
    /\ \A d \in DOMAIN P.decls : LET D == P.decls[d] IN
         /\ IsSeq(D.fields) /\ D.static \in BOOLEAN
         /\ D.name \in Seq(STRING) /\ Len(D.name) <= 1
         /\ D.name = Anonymous => D.kind \in {"record", "enum"}
         /\ \A f \in Range(D.fields) : f.type # 0 =>
              f.type \in DOMAIN P.decls /\ P.decls[f.type].kind \in {"record", "enum"}
         /\ IsType(P, D.type)
         /\ IsSeq(D.params) /\ \A i \in 1..Len(D.params) : IsType(P, D.params[i].type)
         /\ D.kind = "function" /\ D.def => IsBody(P, D.body)
         /\ IsSeq(D.init) /\ \A i \in 1..Len(D.init) : LET subs == D.init[i].subs IN
              IsSeq(subs) /\ subs # <<>> /\ \A k \in 1..Len(subs) : IsBody(P, subs[k])

VARIABLES
  program,          \* the sources
  visited,          \* declarations of the unit VisitDeclContext has come to
  stack,            \* visitors in progress, innermost first
  names,            \* getName() of each declaration; RenameType changes it
  _currentStructure,
  fields,           \* names of the fields of the structures that have any
  bodycomplete,     \* structures of enums visited to the end
  MRQ,              \* places of the macro records left
  uses,             \* <<c, l, ref>>: c refers to the macro expanded at place l, or,
                    \* if ref is <<"named", r>>, that macro to c by r
  aborted           \* an assertion failed, or a NULL was read

visitVars == <<visited, stack, names, _currentStructure, fields, bodycomplete, MRQ, uses, aborted>>
Bound == <<heap, parent, AllFiles, components, Components, allComponents, lastfile>>
Unit == <<TranslationUnits, context, clangVars, program>>

Decl(d) == program.decls[d]

(* What anonymous types are renamed to ends in ::anon, ::anon1, ...; the   *)
(* one of a typedef in ::typedef.                                          *)
Anon(n) == <<"::anon", n>>
OfTypedef == <<"::typedef", 0>>

ModelType(d) == CASE Decl(d).kind = "record"  -> "struct"
                  [] Decl(d).kind = "enum"    -> "enum"
                  [] Decl(d).kind = "typedef" -> "typedef"
                  [] Decl(d).kind = "var"     -> "global"
                  [] Decl(d).kind = "function" -> "function"

Declared(d) == d \in DOMAIN program.decls

IsTag(d) == Declared(d) /\ Decl(d).kind \in {"record", "enum"}

Structure(d) == IF d = 0 THEN NULL ELSE LookupFull(ModelType(d), names[d])

FieldsOf(c) == IF c \in DOMAIN fields THEN fields[c] ELSE <<>>

Size(c) == Len(FieldsOf(c))

-----------------------------------------------------------------------------
(* Macro records                                                           *)

Expanded == DOMAIN program.expansions[TU]

(* FindRelatedMacros: records before the declaration are erased, those in  *)
(* it handed to the handler, those behind it left alone.  MRQ is in the    *)
(* order of the places.                                                    *)
Walked(d)  == {l \in MRQ : l >= Decl(d).from}

(* Slip: a macro at the very end of a declaration is taken for one behind. *)
Related_Open(d) == {l \in MRQ : Decl(d).from <= l /\ l < Decl(d).to}

Related(d) == {l \in MRQ : Decl(d).from <= l /\ l <= Decl(d).to}

(* Slip: the name of the component is not looked for.                      *)
Matched_None(d) == {}

Mentions(l, d) == Decl(d).name \in program.expansions[TU][l]

(* Those of which the macro mentions the component of d by name (idmatch)  *)
Matched(d) == {l \in Related(d) : Mentions(l, d)}

(* Slip: TestMacroRecord does not compare with the ends of the range.      *)
InRange_Open(l, f) == f.from < l /\ l < f.to

(* TestMacroRecord = 0                                                     *)
InRange(l, f) == f.from <= l /\ l <= f.to

-----------------------------------------------------------------------------
(* Calls                                                                   *)

Frame(proc, d, c) == [proc |-> proc, D |-> d, C |-> c, at |-> "start", i |-> 1,
                      anons |-> 0, top |-> FALSE, related |-> {}]

At(label) == [stack EXCEPT ![1].at = label]

BindNew(t, n, static) == Bind(t, n, static, Mains[TU])

(* A visitor's component: looked up, or the one it allocates and binds.    *)
Own(hit) == IF hit = NULL THEN Len(heap) + 1 ELSE hit

(* Slip: a structure that has its fields is traversed again.               *)
Traverses_Again(d, c) == Decl(d).def

Traverses(d, c) == Decl(d).def /\ Size(c) = 0

(* VisitRecordDecl(d, mq) up to TraverseFields; top: mq is NULL.  below    *)
(* are the frames to return to.                                            *)
EnterRecord(d, top, below) ==
  LET hit == LookupFull("struct", names[d])
      c == Own(hit)
  IN  IF names[d] = Anonymous
      THEN stack' = below /\ UNCHANGED <<Bound, _currentStructure, MRQ>>
      ELSE /\ IF hit = NULL THEN BindNew("struct", names[d], FALSE) ELSE UNCHANGED Bound
           /\ _currentStructure' = c
           /\ IF Traverses(d, c)
              THEN /\ stack' = <<[Frame("record", d, c) EXCEPT !.top = top,
                                    !.related = IF top THEN Related(d) ELSE {}]>> \o below
                   /\ MRQ' = IF top THEN Walked(d) ELSE MRQ
              ELSE stack' = below /\ UNCHANGED MRQ

(* VisitEnumDecl up to the enumerators                                     *)
EnterEnum(d, below) ==
  LET hit == LookupFull("enum", names[d])
      c == IF names[d] = Anonymous THEN NULL ELSE Own(hit)
  IN  /\ IF c # NULL /\ hit = NULL THEN BindNew("enum", names[d], FALSE) ELSE UNCHANGED Bound
      /\ _currentStructure' = c
      /\ stack' = IF c \in bodycomplete THEN below ELSE <<Frame("enum", d, c)>> \o below
      /\ UNCHANGED MRQ

(* Slip: only records are visited.                                         *)
EnterTag_Record(d, top, below) == EnterRecord(d, top, below)

EnterTag(d, top, below) == IF Decl(d).kind = "record" THEN EnterRecord(d, top, below)
                                                      ELSE EnterEnum(d, below)

(* VisitVarDecl: a variable that is found is done with.                    *)
EnterVar(d, below) ==
  LET hit == Lookup("global", Decl(d).name, Decl(d).static)
  IN  IF hit # NULL
      THEN stack' = below /\ UNCHANGED <<Bound, _currentStructure, MRQ>>
      ELSE /\ BindNew("global", Decl(d).name, Decl(d).static)
           /\ stack' = <<Frame("var", d, Own(hit))>> \o below
           /\ UNCHANGED <<_currentStructure, MRQ>>

(* VisitFunctionDecl: what a function returns is only looked at when it is *)
(* bound.                                                                  *)
EnterFunction(d, below) ==
  LET hit == Lookup("function", Decl(d).name, Decl(d).static)
  IN  /\ IF hit = NULL THEN BindNew("function", Decl(d).name, Decl(d).static) ELSE UNCHANGED Bound
      /\ stack' = <<[Frame("function", d, Own(hit)) EXCEPT
                       !.at = IF hit = NULL THEN "type" ELSE "body"]>> \o below
      /\ UNCHANGED <<_currentStructure, MRQ>>

EnterTypedef(d, below) ==
  /\ stack' = <<Frame("typedef", d, NULL)>> \o below
  /\ UNCHANGED <<Bound, _currentStructure, MRQ>>

(* Visit(D): the visitor of the kind of declaration D is.                 *)
Enter(d, below) ==
  /\ Declared(d)
  /\ \/ IsTag(d) /\ EnterTag(d, TRUE, below)
     \/ Decl(d).kind = "var" /\ EnterVar(d, below)
     \/ Decl(d).kind = "function" /\ EnterFunction(d, below)
     \/ Decl(d).kind = "typedef" /\ EnterTypedef(d, below)

Rename(d, n) == names' = [names EXCEPT ![d] = n]

Abort == aborted' = TRUE /\ stack' = <<>>

Running(proc, label) == stack # <<>> /\ Head(stack).proc = proc /\ Head(stack).at = label

-----------------------------------------------------------------------------
(* DiscoverTypeReferences, of the type t of the head frame's declaration,  *)
(* with the reference ref.  A type that is not in the store is visited;    *)
(* `retry' looks it up again, where Fails says what a failure means.       *)

(* Slip: a structure without fields is taken for one not visited yet.      *)
Undiscovered_Empty(t) == t # 0 /\ (Structure(t) = NULL \/ (IsTag(t) /\ Size(Structure(t)) = 0))

Undiscovered(t) == t # 0 /\ Structure(t) = NULL

Discovered(t, ref) ==
  references' = IF t = 0 THEN references
                ELSE references \cup {<<Head(stack).C, Structure(t), ref>>}

DiscoverVisits(t) ==
  /\ Head(stack).at = "type" /\ Undiscovered(t)
  /\ Enter(t, At("retry"))
  /\ UNCHANGED <<references, names, fields, bodycomplete, uses, aborted, visited>>

DiscoverRefers(t, ref, rest) ==
  /\ ~(Head(stack).at = "type" /\ Undiscovered(t))
  /\ ~(Head(stack).at = "retry" /\ Structure(t) = NULL)
  /\ Discovered(t, ref)
  /\ stack' = rest
  /\ UNCHANGED <<Bound, names, _currentStructure, MRQ, fields, bodycomplete, uses, aborted, visited>>

DiscoverFails(t, Fails) ==
  /\ Head(stack).at = "retry" /\ Structure(t) = NULL
  /\ Fails
  /\ UNCHANGED <<Bound, references, names, _currentStructure, MRQ, fields, bodycomplete, uses, visited>>

-----------------------------------------------------------------------------
(* TraverseFields                                                          *)

Field == Decl(Head(stack).D).fields[Head(stack).i]

InField(label) == /\ Running("record", label)
                  /\ Head(stack).i <= Len(Decl(Head(stack).D).fields)

NeedsName(t) == IsTag(t) /\ names[t] = Anonymous

FieldAnonymous ==
  /\ InField("start") /\ NeedsName(Field.type)
  /\ LET t == Field.type
         n == Append(heap[Head(stack).C].id, Anon(Head(stack).anons))
     IN  /\ Rename(t, n)
         /\ stack' = <<Frame("rename", t, NULL)>> \o At("adopt")
  /\ UNCHANGED <<Bound, references, _currentStructure, MRQ, fields, bodycomplete, uses, aborted, visited>>

(* ... and visited, with the queue of the record it is in.                 *)
Renamed ==
  /\ Running("rename", "start")
  /\ EnterTag(Head(stack).D, Head(stack).top, Tail(stack))
  /\ UNCHANGED <<references, names, fields, bodycomplete, uses, aborted, visited>>

(* Slip: the structure visited last is adopted, as VisitVarDecl does.      *)
Adopted_Current(t) == _currentStructure

Adopted(t) == Structure(t)

FieldAdopt ==
  /\ InField("adopt")
  /\ LET anon == Adopted(Field.type)
     IN  IF anon = NULL
         THEN Abort /\ UNCHANGED parent
         ELSE /\ parent' = [parent EXCEPT ![anon] = Head(stack).C]
              /\ stack' = [stack EXCEPT ![1].at = "field", ![1].anons = @ + 1]
              /\ UNCHANGED aborted
  /\ UNCHANGED <<heap, AllFiles, components, Components, allComponents, lastfile, references,
                 names, _currentStructure, MRQ, fields, bodycomplete, uses, visited>>

(* The visitor that found the related macros of the head frame             *)
Owner == CHOOSE k \in 1..Len(stack) :
  stack[k].top /\ \A j \in 1..k-1 : ~stack[j].top

(* fields.push_back and LookupMacroExpansions: a macro in the field is     *)
(* referred to and dropped, one before it dropped.                         *)
FieldPush ==
  /\ InField("field") \/ (InField("start") /\ ~NeedsName(Field.type))
  /\ LET c == Head(stack).C
         mq == stack[Owner].related
     IN  /\ fields' = [x \in DOMAIN fields \cup {c} |->
                         IF x = c THEN Append(FieldsOf(c), Field.name) ELSE fields[x]]
         /\ uses' = uses \cup {<<c, l, <<"macro", Head(stack).i>>>> :
                               l \in {k \in mq : InRange(k, Field)}}
         /\ stack' = [At("type") EXCEPT ![Owner].related = {l \in mq : l > Field.to}]
  /\ UNCHANGED <<Bound, references, names, _currentStructure, MRQ, bodycomplete, aborted, visited>>

(* Slip: a plain field is passed by `continue', before the increment.      *)
NextField_Stuck == IF Field.type = 0 THEN At("type")
                   ELSE [At("start") EXCEPT ![1].i = @ + 1]

NextField == [At("start") EXCEPT ![1].i = @ + 1]

(* assert(DiscoverTypeReferences(...))                                     *)
FieldType ==
  /\ InField("type") \/ InField("retry")
  /\ \/ DiscoverVisits(Field.type)
     \/ DiscoverRefers(Field.type, <<"field", Head(stack).i>>, NextField)
     \/ DiscoverFails(Field.type, Abort)

(* The macros left make _currentStructure refer to them.                   *)
RecordEnds ==
  /\ Running("record", "start") /\ Head(stack).i > Len(Decl(Head(stack).D).fields)
  /\ LET left == IF Head(stack).top THEN Head(stack).related ELSE {}
     IN  IF left # {} /\ _currentStructure = NULL
         THEN Abort /\ UNCHANGED uses
         ELSE /\ uses' = uses \cup {<<_currentStructure, l, <<"bodyenc", -1>>>> : l \in left}
              /\ stack' = Tail(stack)
              /\ UNCHANGED aborted
  /\ UNCHANGED <<Bound, references, names, _currentStructure, MRQ, fields, bodycomplete, visited>>

-----------------------------------------------------------------------------
(* VisitEnumDecl                                                           *)

EnumNext ==
  /\ Running("enum", "start") /\ Head(stack).i <= Len(Decl(Head(stack).D).enumerators)
  /\ LET e == Decl(Head(stack).D).enumerators[Head(stack).i]
         hit == LookupFull("enumval", e)
     IN  /\ IF hit = NULL THEN BindNew("enumval", e, FALSE) ELSE UNCHANGED Bound
         /\ references' = IF _currentStructure = NULL THEN references
                          ELSE references \cup {<<_currentStructure, Own(hit), <<"enumval", -1>>>>}
  /\ stack' = [stack EXCEPT ![1].i = @ + 1]
  /\ UNCHANGED <<names, _currentStructure, MRQ, fields, bodycomplete, uses, aborted, visited>>

EnumEnds ==
  /\ Running("enum", "start") /\ Head(stack).i > Len(Decl(Head(stack).D).enumerators)
  /\ bodycomplete' = bodycomplete \cup ({_currentStructure} \ {NULL})
  /\ stack' = Tail(stack)
  /\ UNCHANGED <<Bound, references, names, _currentStructure, MRQ, fields, uses, aborted, visited>>

-----------------------------------------------------------------------------
(* VisitVarDecl, once the variable is bound                                *)

VarAnonymous ==
  /\ Running("var", "start") /\ NeedsName(Decl(Head(stack).D).type)
  /\ LET t == Decl(Head(stack).D).type
     IN  /\ Rename(t, Append(heap[Head(stack).C].id, Anon(0)))
         /\ stack' = <<[Frame("rename", t, NULL) EXCEPT !.top = TRUE]>> \o At("adopt")
  /\ UNCHANGED <<Bound, references, _currentStructure, MRQ, fields, bodycomplete, uses, aborted, visited>>

VarAdopt ==
  /\ Running("var", "adopt")
  /\ LET anon == _currentStructure
     IN  IF anon = NULL
         THEN Abort /\ UNCHANGED <<parent, references>>
         ELSE /\ parent' = [parent EXCEPT ![anon] = Head(stack).C]
              /\ references' = references \cup {<<Head(stack).C, anon, <<"type", -1>>>>}
              /\ stack' = At("macros")
              /\ UNCHANGED aborted
  /\ UNCHANGED <<heap, AllFiles, components, Components, allComponents, lastfile,
                 names, _currentStructure, MRQ, fields, bodycomplete, uses, visited>>

VarNamed ==
  /\ Running("var", "start") /\ ~NeedsName(Decl(Head(stack).D).type)
  /\ stack' = At("type")
  /\ UNCHANGED <<Bound, references, names, _currentStructure, MRQ, fields, bodycomplete,
                 uses, aborted, visited>>

(* The result of DiscoverTypeReferences is not looked at.                  *)
VarType ==
  /\ Running("var", "type") \/ Running("var", "retry")
  /\ LET t == Decl(Head(stack).D).type
     IN  \/ DiscoverVisits(t)
         \/ DiscoverRefers(t, <<"type", -1>>, At("macros"))
         \/ DiscoverFails(t, stack' = At("macros") /\ UNCHANGED aborted)

(* TraverseInitializer, before it has looked at any record                 *)
NoRecord == [s |-> NULL, record |-> 0, findex |-> 0, dli |-> 1]

Initializer(d, c) == [proc |-> "init", D |-> d, C |-> c, at |-> "start", i |-> 1, k |-> 1,
                      last |-> NoRecord, top |-> TRUE, related |-> Related(d) \ Matched(d)]

(* FindRelatedMacros: a macro that mentions the variable refers to it; the *)
(* others are matched with the initializer, if that is a list and this     *)
(* declaration the definition.                                             *)
VarEnds ==
  /\ Running("var", "macros")
  /\ MRQ' = Walked(Head(stack).D)
  /\ LET d == Head(stack).D
     IN  /\ stack' = IF Decl(d).def /\ Decl(d).init # <<>>
                     THEN <<Initializer(d, Head(stack).C)>> \o Tail(stack)
                     ELSE Tail(stack)
         /\ uses' = uses \cup {<<Head(stack).C, l, <<"named", "macrodecl">>>> : l \in Matched(d)}
  /\ UNCHANGED <<Bound, references, names, _currentStructure, fields, bodycomplete, aborted, visited>>

-----------------------------------------------------------------------------
(* VisitTypedefDecl                                                        *)

Underlying == LET t == Decl(Head(stack).D).type IN IF t = 0 THEN NULL ELSE Structure(t)

TypedefAnonymous ==
  /\ Running("typedef", "start") /\ NeedsName(Decl(Head(stack).D).type)
  /\ LET t == Decl(Head(stack).D).type
     IN  /\ Rename(t, Append(Decl(Head(stack).D).name, OfTypedef))
         /\ stack' = <<[Frame("rename", t, NULL) EXCEPT !.top = TRUE]>> \o At("bind")
  /\ UNCHANGED <<Bound, references, _currentStructure, MRQ, fields, bodycomplete, uses, aborted, visited>>

TypedefVisits ==
  /\ Running("typedef", "start")
  /\ LET t == Decl(Head(stack).D).type
     IN  /\ IsTag(t) /\ ~NeedsName(t) /\ Structure(t) = NULL
         /\ EnterTag(t, TRUE, At("check"))
  /\ UNCHANGED <<references, names, fields, bodycomplete, uses, aborted, visited>>

(* assert(underlying != NULL), then the typedef is looked up and bound.    *)
TypedefBinds ==
  /\ \/ Running("typedef", "check") \/ Running("typedef", "bind")
     \/ /\ Running("typedef", "start")
        /\ IsTag(Decl(Head(stack).D).type) =>
             ~NeedsName(Decl(Head(stack).D).type) /\ Underlying # NULL
  /\ LET n == Decl(Head(stack).D).name
     IN  IF Head(stack).at = "check" /\ Underlying = NULL
         THEN Abort /\ UNCHANGED Bound
         ELSE /\ UNCHANGED aborted
              /\ IF LookupFull("typedef", n) # NULL
                 THEN stack' = Tail(stack) /\ UNCHANGED Bound
                 ELSE /\ BindNew("typedef", n, FALSE)
                      /\ stack' = [At("link") EXCEPT ![1].C = Len(heap) + 1]
  /\ UNCHANGED <<references, names, _currentStructure, MRQ, fields, bodycomplete, uses, visited>>

TypedefLinks ==
  /\ Running("typedef", "link")
  /\ IF Underlying = NULL
     THEN UNCHANGED <<references, parent>>
     ELSE /\ references' = references \cup {<<Head(stack).C, Underlying, <<"underlayer", -1>>>>}
          /\ parent' = [parent EXCEPT ![Underlying] = Head(stack).C]
  /\ stack' = Tail(stack)
  /\ UNCHANGED <<heap, AllFiles, components, Components, allComponents, lastfile,
                 names, _currentStructure, MRQ, fields, bodycomplete, uses, aborted, visited>>

-----------------------------------------------------------------------------
(* VisitDeclContext and the translation unit around it                     *)

TopLevel == program.units[TU]

Names(P) == [d \in DOMAIN P.decls |-> P.decls[d].name]

VisitorInit ==
  /\ Init
  /\ program \in Programs
  /\ visited = 0 /\ stack = <<>> /\ names = Names(program) /\ _currentStructure = NULL
  /\ fields = [c \in {} |-> <<>>] /\ bodycomplete = {} /\ MRQ = {} /\ uses = {}
  /\ aborted = FALSE

(* Each unit has an AST and a ReferenceBuilder of its own.                 *)
BeginUnit ==
  /\ CreateASTConsumer /\ ~aborted
  /\ visited' = 0 /\ names' = Names(program) /\ _currentStructure' = NULL
  /\ UNCHANGED <<program, stack, fields, bodycomplete, MRQ, uses, aborted>>

Parsed ==
  /\ HandleTranslationUnit
  /\ MRQ' = Expanded
  /\ UNCHANGED <<program, visited, stack, names, _currentStructure, fields, bodycomplete, uses, aborted>>

VisitTop ==
  /\ phase = "ast" /\ stack = <<>> /\ ~aborted /\ visited < Len(TopLevel)
  /\ visited' = visited + 1
  /\ Enter(TopLevel[visited + 1], <<>>)
  /\ UNCHANGED <<references, names, fields, bodycomplete, uses, aborted>>

EndUnit ==
  /\ phase = "ast" /\ stack = <<>> /\ ~aborted /\ visited = Len(TopLevel)
  /\ EndSourceFile
  /\ MRQ' = {}
  /\ UNCHANGED <<program, visited, stack, names, _currentStructure, fields, bodycomplete, uses, aborted>>

VisitStep ==
  \/ VisitTop
  \/ FieldAnonymous \/ Renamed \/ FieldAdopt \/ FieldPush \/ FieldType \/ RecordEnds
  \/ EnumNext \/ EnumEnds
  \/ VarAnonymous \/ VarAdopt \/ VarNamed \/ VarType \/ VarEnds
  \/ TypedefAnonymous \/ TypedefVisits \/ TypedefBinds \/ TypedefLinks

VisitorNext == BeginUnit \/ Parsed \/ (VisitStep /\ UNCHANGED Unit) \/ EndUnit

-----------------------------------------------------------------------------
Nests(f) == IsTag(f.type) /\ Decl(f.type).name = Anonymous

(* No variable of an anonymous type has the name of a record: its type and *)
(* one in the record may both be named A::anon (section 4 of the README).  *)
NamesApart == \A d, e \in DOMAIN program.decls :
  Decl(d).kind = "var" /\ Nests(Decl(d)) /\ Decl(e).kind = "record" => Decl(d).name # Decl(e).name

(* No assertion of the visitors fails and no structure they take for       *)
(* granted is missing, in whatever order types are declared and used -     *)
(* unless TraverseInitializer reads past the designators of an element, or *)
(* looks for an anonymous structure that is not named, for the fields of   *)
(* the one around it are those of a former unit or of a homonym.           *)
PastDesignators(e) == e.designators # <<>> /\ Len(e.subs) > Len(e.designators)
NotNamed(e) == /\ TU > 1 \/ ~NamesApart
               /\ \E x \in Range(e.designators) : x.decl # 0 /\ Decl(x.decl).name = Anonymous
AssertionsHold ==
  (\A d \in DOMAIN program.decls : \A e \in Range(Decl(d).init) :
     ~PastDesignators(e) /\ ~NotNamed(e)) => ~aborted

(* No structure is traversed while it is being traversed, though types may *)
(* lead back to it: the visitors bind it before they look at its fields,   *)
(* and the names of what they rename say where it is.                      *)
NoReentry == NamesApart => \A j, k \in 1..Len(stack) :
  stack[j].proc = "record" /\ stack[k].proc = "record" /\ stack[j].C = stack[k].C => j = k

(* Nor do two definitions of a record, or the anonymous types of two       *)
(* variables or typedefs, have one name.                                   *)
Unambiguous == NamesApart /\ \A d, e \in DOMAIN program.decls :
  Decl(d).kind = Decl(e).kind /\ Decl(d).name = Decl(e).name =>
    /\ Decl(d).kind = "record" /\ Decl(d).name # Anonymous /\ Decl(d).def /\ Decl(e).def => d = e
    /\ Decl(d).kind \in {"var", "typedef"} /\ Nests(Decl(d)) /\ Nests(Decl(e)) =>
         Decl(d).type = Decl(e).type

(* Visits the unit has come to; a record that may still have no more than  *)
(* the empty structure of a declaration without its fields                 *)
Visited == IF phase = "idle" THEN {} ELSE {TopLevel[k] : k \in 1..visited}
Unbuilt(d) == /\ d \notin Visited /\ Decl(d).name # Anonymous
              /\ \E e \in DOMAIN program.decls :
                   Decl(e).kind = "record" /\ ~Decl(e).def /\ Decl(e).name = Decl(d).name

(* Between two declarations of the translation unit, every record with a   *)
(* structure has been built, however long before its turn that was - or it *)
(* was declared without its fields and is yet to be visited.               *)
Done == phase = "ast" /\ stack = <<>> /\ ~aborted
Records == {d \in DOMAIN program.decls :
  /\ Decl(d).kind = "record" /\ Decl(d).def /\ names[d] # Anonymous /\ Structure(d) # NULL
  /\ ~Unbuilt(d)}

(* A record that is built has each of its fields once, in whichever units  *)
(* it is visited, each with a reference to the structure of its type - of  *)
(* an anonymous one, as long as it has the name of the first unit.         *)
FieldsKept == Unambiguous /\ Done => \A d \in Records :
  /\ Size(Structure(d)) = Len(Decl(d).fields)
  /\ \A i \in 1..Len(Decl(d).fields) : LET t == Decl(d).fields[i].type IN
       t # 0 /\ names[t] # Anonymous /\ (TU = 1 \/ Decl(t).name # Anonymous) =>
         <<Structure(d), Structure(t), <<"field", i>>>> \in references

(* A macro expanded in a field, one that does not nest others, is referred *)
(* to by the record with the number of that field ("processing             *)
(* declarations is linear, so it's safe to remove early macros").          *)
FieldMacrosUsed == Done /\ TU = 1 => \A d \in Records : \A i \in 1..Len(Decl(d).fields) :
  LET f == Decl(d).fields[i] IN
  ~Nests(f) => \A l \in Expanded :
                 f.from <= l /\ l <= f.to => <<Structure(d), l, <<"macro", i>>>> \in uses

(* It is, if the declarations really are linear: none uses a type that     *)
(* begins behind it, nor a cast in it one that begins in it.               *)
Nodes(d) == Range(Decl(d).body) \cup
            UNION {UNION {Range(x) : x \in Range(e.subs)} : e \in Range(Decl(d).init)}
Early == UNION {
  {f.type : f \in {g \in Range(Decl(d).fields) \cup {Decl(d)} :
                     g.type # 0 /\ g.to < Decl(g.type).from}}
  \cup {t \in {n.type : n \in Range(Decl(d).params) \cup Nodes(d)} :
          t # 0 /\ Decl(d).from < Decl(t).from} : d \in DOMAIN program.decls}
Linear == Early = {}
FieldMacrosUsedIfLinear == Linear /\ NamesApart => FieldMacrosUsed

(* The anonymous types of the fields of a record are its children, but for *)
(* those of a typedef, which takes them, and those that VisitVarDecl takes *)
(* for the anonymous type of its variable (section 4 of the README).       *)
Takes(c) == \E d \in DOMAIN program.decls :
  Decl(d).kind = "var" /\ Nests(Decl(d)) /\ <<heap[c].type, heap[c].id>> = <<"global", Decl(d).name>>
OfNoTypedef(t) == \A d \in DOMAIN program.decls : Decl(d).kind = "typedef" => Decl(d).type # t
FieldsAdopted == Done =>
  \A d \in Records : \A f \in Range(Decl(d).fields) :
    Nests(f) /\ OfNoTypedef(f.type) /\ names[f.type] # Anonymous =>
      LET c == parent[Structure(f.type)] IN c = Structure(d) \/ (c # NULL /\ Takes(c))

(* "walk any left macros and make sr reference them": a macro expanded     *)
(* behind the last field is referred to by the record - or by a structure  *)
(* within it, if one was visited on behalf of a field (section 4 of the    *)
(* README) - and by no other structure.                                    *)
Spans(d, t) == Decl(d).from < Decl(t).from /\ Decl(t).to <= Decl(d).to
LeftTo(d) == IF \E f \in Range(Decl(d).fields) : f.type # 0 /\ Spans(d, f.type)
             THEN {Structure(t) : t \in {k \in DOMAIN program.decls : IsTag(k) /\ (k = d \/ Spans(d, k))}}
             ELSE {Structure(d)}
ReferringTo(l) == {u[1] : u \in {v \in uses : /\ v[2] = l /\ v[3] = <<"bodyenc", -1>>
                                              /\ heap[v[1]].type # "function"}}
LeftMacrosUsedIfLinear == Linear /\ NamesApart /\ Done /\ TU = 1 =>
  \A d \in Records : \A l \in Expanded :
    /\ Decl(d).name # Anonymous
    /\ Decl(d).from <= l /\ l <= Decl(d).to
    /\ \A f \in Range(Decl(d).fields) : f.to < l
    => ReferringTo(l) # {} /\ ReferringTo(l) \subseteq LeftTo(d)

(* The visit of a translation unit ends, if the program does not stop      *)
(* where AssertionsHold allows it.                                         *)
VisitEnds == phase = "ast" ~> phase = "idle" \/ aborted
=============================================================================
