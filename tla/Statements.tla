----------------------------- MODULE Statements -----------------------------
(***************************************************************************)
(* What the AST visitor does below declarations: the return type, body,    *)
(* arguments and macros of a function, the initializer of a variable, and  *)
(* the statements and expressions in them.  These make the components of a *)
(* function or a variable refer to what the code names, to the fields it   *)
(* accesses and to the macros it expands; a cast may visit a type on the   *)
(* way, so that the traversals nest in the visitors and the visitors in    *)
(* them: they share the stack of Visitor.                                  *)
(*                                                                         *)
(* A body or an expression is the sequence of its nodes in the order in    *)
(* which TraverseStmtChildren leaves them: children before their parent,   *)
(* the root last.  A node is [kind, decl, index, type, subject, from, to]: *)
(*   "var", "function", "enumval"  names decl (enumerator index of it)     *)
(*   "member"  field index of the record decl                              *)
(*   "cast"    to type; subject [type, as] is what is cast, of type 0 if   *)
(*             that is not a name                                          *)
(*   "other"   anything else.                                              *)
(* An initializer list is a sequence of elements [designators, subs]: subs *)
(* are an expression and the index expressions of the array designators; a *)
(* designator is [decl, index], a field, or an array designator if decl is *)
(* 0.  A list without elements stands for an initializer that is no list.  *)
(* Fields are counted from 1.                                              *)
(***************************************************************************)
EXTENDS Visitor

VARIABLES
  arguments,        \* [name, type] of the arguments of the functions that have any
  argscomplete      \* functions whose arguments are those of a definition

functionVars == <<arguments, argscomplete>>
allVars == <<vars, program, visitVars, functionVars>>

This == Head(stack).D
cm == Head(stack).C

-----------------------------------------------------------------------------
(* TraverseStmtChildren(nodes, c, mq, ref).  queued: mq is the queue of    *)
(* the innermost visitor that has one, else NULL.                          *)
Traversal(d, c, nodes, ref, queued) ==
  [proc |-> "stmt", D |-> d, C |-> c, at |-> "leave", nodes |-> nodes, n |-> 1,
   ref |-> ref, queued |-> queued, top |-> FALSE]

Node == Head(stack).nodes[Head(stack).n]

NextNode == [stack EXCEPT ![1].at = "leave", ![1].n = @ + 1]

(* The call for a node ends with LookupMacroExpansions: macros in it are   *)
(* referred to and dropped, those before it kept for the nodes around it.  *)
(* Then its parent looks at it; nobody looks at the root.                  *)
LeaveNode ==
  /\ Running("stmt", "leave")
  /\ LET mq == IF Head(stack).queued THEN stack[Owner].related ELSE {}
         found == {l \in mq : InRange(l, Node)}
         left == IF found = {} THEN stack ELSE [stack EXCEPT ![Owner].related = @ \ found]
     IN  /\ uses' = uses \cup {<<cm, l, Head(stack).ref>> : l \in found}
         /\ stack' = IF Head(stack).n = Len(Head(stack).nodes) THEN Tail(left)
                     ELSE [left EXCEPT ![1].at = IF Node.kind = "cast" THEN "type" ELSE "look"]
  /\ UNCHANGED <<Bound, references, names, _currentStructure, MRQ, fields, bodycomplete,
                 aborted, visited, functionVars>>

(* Only what has global storage or is static is looked up, by its name.    *)
Global(d) == Decl(d).kind # "var" \/ ~Decl(d).automatic

(* Slip: the lookup made in LOOKUP_LOCAL mode.                             *)
Mentioned_Local(node) ==
  CASE node.kind = "enumval" -> LookupLocal("enumval", Decl(node.decl).enumerators[node.index])
    [] OTHER -> LookupLocal(ModelType(node.decl), Decl(node.decl).name)

Mentioned(node) ==
  CASE node.kind = "enumval" -> LookupFull("enumval", Decl(node.decl).enumerators[node.index])
    [] OTHER -> IF Global(node.decl) THEN LookupFull(ModelType(node.decl), Decl(node.decl).name)
                ELSE NULL

(* The references that the parent of a node makes for it.                  *)
LookAtName == IF Mentioned(Node) = NULL THEN {} ELSE {<<cm, Mentioned(Node), Head(stack).ref>>}

(* Slip: the search ends before the last field.                            *)
IndexOf_Short(fs, name) == {k \in 1..Len(fs) - 1 : fs[k] = name /\ \A j \in 1..k-1 : fs[j] # name}

(* The linear search for a field's name                                    *)
IndexOf(fs, name) == {k \in DOMAIN fs : fs[k] = name /\ \A j \in 1..k-1 : fs[j] # name}

LookAtMember ==
  LET s == Structure(Node.decl)
      name == Decl(Node.decl).fields[Node.index].name
  IN  IF s = NULL THEN {}
      ELSE {<<cm, s, <<"fieldaccess", k>>>> : k \in IndexOf(FieldsOf(s), name)}

LookAtNode ==
  /\ Running("stmt", "look")
  /\ references' = references \cup
       CASE Node.kind \in {"var", "function", "enumval"} -> LookAtName
         [] Node.kind = "member" -> LookAtMember
         [] OTHER -> {}
  /\ stack' = NextNode
  /\ UNCHANGED <<Bound, names, _currentStructure, MRQ, fields, bodycomplete, uses, aborted,
                 visited, functionVars>>

(* Of a cast the type is discovered first, whatever comes of it.           *)
CastType ==
  /\ Running("stmt", "type") \/ Running("stmt", "retry")
  /\ \/ DiscoverVisits(Node.type)
     \/ DiscoverRefers(Node.type, Head(stack).ref, At("cast"))
     \/ DiscoverFails(Node.type, stack' = At("cast") /\ UNCHANGED aborted)
  /\ UNCHANGED functionVars

(* Slip: any record is taken for one that begins with the subject.         *)
BeginsWith_Any(t, subject) == Decl(t).kind = "record"

(* The types of the first field and of the subject are compared without    *)
(* pointers, but as they are spelled.                                      *)
BeginsWith(t, subject) ==
  /\ Decl(t).kind = "record" /\ Decl(t).fields # <<>>
  /\ LET f1 == Decl(t).fields[1]
     IN  f1.type = subject.type /\ (f1.as = "typedef") = (subject.as = "typedef")

HandleCastExpr ==
  /\ Running("stmt", "cast")
  /\ LET t == Node.type
         s == Node.subject.type
     IN  references' = references \cup
           IF /\ t # 0 /\ s # 0 /\ BeginsWith(t, Node.subject)
              /\ Structure(t) # NULL /\ Structure(s) # NULL
           THEN {<<Structure(t), Structure(s), <<"inheritance", -1>>>>} ELSE {}
  /\ stack' = NextNode
  /\ UNCHANGED <<Bound, names, _currentStructure, MRQ, fields, bodycomplete, uses, aborted,
                 visited, functionVars>>

-----------------------------------------------------------------------------
(* VisitFunctionDecl, once the function is bound                           *)

FunctionReturns ==
  /\ Running("function", "type") \/ Running("function", "retry")
  /\ \/ DiscoverVisits(Decl(This).type)
     \/ DiscoverRefers(Decl(This).type, <<"return", -1>>, At("body"))
     \/ DiscoverFails(Decl(This).type, stack' = At("body") /\ UNCHANGED aborted)
  /\ UNCHANGED functionVars

(* The queue of macros is NULL: they are not told apart by statement.      *)
FunctionBody ==
  /\ Running("function", "body")
  /\ stack' = IF Decl(This).def
              THEN <<Traversal(This, cm, Decl(This).body, <<"bodyenc", -1>>, FALSE)>> \o At("args")
              ELSE At("args")
  /\ UNCHANGED <<Bound, references, names, _currentStructure, MRQ, fields, bodycomplete, uses,
                 aborted, visited, functionVars>>

Arguments(c) == IF c \in DOMAIN arguments THEN arguments[c] ELSE <<>>

(* Slip: the arguments of a prototype are not replaced.                    *)
Refills_Empty(d, c) == Arguments(c) = <<>>

Refills(d, c) == Arguments(c) = <<>> \/ (c \notin argscomplete /\ Decl(d).def)

FunctionArguments ==
  /\ Running("function", "args")
  /\ IF Refills(This, cm)
     THEN /\ arguments' = [x \in DOMAIN arguments \cup {cm} |-> IF x = cm THEN <<>> ELSE arguments[x]]
          /\ stack' = <<[Frame("params", This, cm) EXCEPT !.at = "type"]>> \o At("macros")
     ELSE stack' = At("macros") /\ UNCHANGED arguments
  /\ UNCHANGED <<Bound, references, names, _currentStructure, MRQ, fields, bodycomplete, uses,
                 aborted, visited, argscomplete>>

Param == Decl(This).params[Head(stack).i]
NextParam == [At("type") EXCEPT ![1].i = @ + 1]

(* One argument: its type is discovered, whatever comes of it, and pushed. *)
FunctionArgument ==
  /\ Running("params", "type") \/ Running("params", "retry")
  /\ Head(stack).i <= Len(Decl(This).params)
  /\ \/ DiscoverVisits(Param.type) /\ UNCHANGED arguments
     \/ /\ \/ DiscoverRefers(Param.type, <<"argument", Head(stack).i>>, NextParam)
           \/ DiscoverFails(Param.type, stack' = NextParam /\ UNCHANGED aborted)
        /\ arguments' = [arguments EXCEPT ![cm] = Append(@, Param)]
  /\ UNCHANGED argscomplete

ArgumentsEnd ==
  /\ Running("params", "type") /\ Head(stack).i > Len(Decl(This).params)
  /\ argscomplete' = IF Decl(This).def THEN argscomplete \cup {cm} ELSE argscomplete
  /\ stack' = Tail(stack)
  /\ UNCHANGED <<Bound, references, names, _currentStructure, MRQ, fields, bodycomplete, uses,
                 aborted, visited, arguments>>

(* FindRelatedMacros: a definition refers to the macros found that do not  *)
(* mention it; those that do refer to what another declaration declares.   *)
FunctionMacros ==
  /\ Running("function", "macros")
  /\ MRQ' = Walked(This)
  /\ uses' = uses \cup
       IF Decl(This).def
       THEN {<<cm, l, <<"bodyenc", -1>>>> : l \in Related(This) \ Matched(This)}
       ELSE {<<cm, l, <<"named", "bodyenc">>>> : l \in Matched(This)}
  /\ stack' = Tail(stack)
  /\ UNCHANGED <<Bound, references, names, _currentStructure, fields, bodycomplete, aborted,
                 visited, functionVars>>

-----------------------------------------------------------------------------
(* TraverseInitializer, of element i of the list and its sub-expression k  *)

Element == Decl(This).init[Head(stack).i]

InElement == /\ Running("init", "start")
             /\ Head(stack).i <= Len(Decl(This).init)

(* The queue is that of the frame itself.                                  *)
Traverse(nodes, index, rest) ==
  stack' = <<Traversal(This, cm, nodes, <<"initializer", index>>, TRUE)>> \o rest

NextElement == [stack EXCEPT ![1].i = @ + 1, ![1].k = 1]
NextSub == [stack EXCEPT ![1].k = @ + 1]

Initializing == UNCHANGED <<Bound, references, names, _currentStructure, MRQ, fields, bodycomplete,
                            uses, visited, functionVars>>

InitRegular ==
  /\ InElement /\ Element.designators = <<>>
  /\ Traverse(Element.subs[1], Head(stack).i, NextElement)
  /\ Initializing /\ UNCHANGED aborted

InDesignator == /\ InElement /\ Element.designators # <<>>
                /\ Head(stack).k <= Len(Element.subs)

Designator == Element.designators[Head(stack).k]

InitArray ==
  /\ InDesignator /\ Head(stack).k <= Len(Element.designators) /\ Designator.decl = 0
  /\ stack' = NextSub
  /\ Initializing /\ UNCHANGED aborted

(* k counts sub-expressions, of which there may be more than designators:  *)
(* what is read behind these is no field designator or leads nowhere.      *)
InitBeyond ==
  /\ InDesignator /\ Head(stack).k > Len(Element.designators)
  /\ \/ stack' = NextSub /\ UNCHANGED aborted
     \/ Abort
  /\ Initializing

(* The local variables lastcom, lastrecord, lastfindex and lastdli after   *)
(* field name of record r, from what they were; findex is their lastfindex *)
(* unless there is no such field.                                          *)
Located(last, r) == IF r = last.record THEN last
                    ELSE [last EXCEPT !.s = Structure(r), !.record = r, !.dli = 1]

(* Slip: the slow path does not set lastfindex.                            *)
MapField_Stale(last, name) ==
  LET fs == FieldsOf(last.s)
  IN  IF last.dli <= Len(fs) /\ fs[last.dli] = name
      THEN [last EXCEPT !.findex = @ + 1]
      ELSE IF IndexOf(fs, name) = {} THEN last
      ELSE [last EXCEPT !.dli = Max(IndexOf(fs, name)) + 1]

MapField(last, name) ==
  LET fs == FieldsOf(last.s)
  IN  IF last.dli <= Len(fs) /\ fs[last.dli] = name
      THEN [last EXCEPT !.findex = @ + 1]
      ELSE IF IndexOf(fs, name) = {} THEN last
      ELSE [last EXCEPT !.findex = Max(IndexOf(fs, name)), !.dli = Max(IndexOf(fs, name)) + 1]

InitField ==
  /\ InDesignator /\ Head(stack).k <= Len(Element.designators) /\ Designator.decl # 0
  /\ LET r == Designator.decl
         name == Decl(r).fields[Designator.index].name
         last == Located(Head(stack).last, r)
         now == MapField(last, name)
     IN  IF last.s = NULL THEN Abort
         ELSE /\ Traverse(Element.subs[Head(stack).k],
                          IF IndexOf(FieldsOf(last.s), name) = {} THEN Size(last.s) + 1 ELSE now.findex,
                          [NextSub EXCEPT ![1].last = now])
              /\ UNCHANGED aborted
  /\ Initializing

InitNext ==
  /\ InElement /\ Element.designators # <<>> /\ Head(stack).k > Len(Element.subs)
  /\ stack' = NextElement
  /\ Initializing /\ UNCHANGED aborted

InitEnds ==
  /\ Running("init", "start") /\ Head(stack).i > Len(Decl(This).init)
  /\ stack' = Tail(stack)
  /\ Initializing /\ UNCHANGED aborted

-----------------------------------------------------------------------------
StatementInit == VisitorInit /\ arguments = [c \in {} |-> <<>>] /\ argscomplete = {}

StatementStep ==
  \/ LeaveNode \/ LookAtNode \/ CastType \/ HandleCastExpr
  \/ FunctionReturns \/ FunctionBody \/ FunctionArguments \/ FunctionArgument \/ ArgumentsEnd
  \/ FunctionMacros
  \/ InitRegular \/ InitArray \/ InitBeyond \/ InitField \/ InitNext \/ InitEnds

StatementNext == \/ VisitorNext /\ UNCHANGED functionVars
                 \/ StatementStep /\ UNCHANGED Unit

(* One thread visits until it is done.                                     *)
VisitorSpec == StatementInit /\ [][StatementNext]_allVars /\ WF_allVars(StatementNext)

(* Of programs of any form, only TraverseInitializer takes a structure for *)
(* granted that is missing, in an element with designators.                *)
OnlyDesignatorsStray == [][aborted' /\ ~aborted => InElement /\ Element.designators # <<>>]_allVars

-----------------------------------------------------------------------------
(* At the end of a translation unit                                        *)
Finished == Done /\ visited = Len(TopLevel)

Key(c) == <<heap[c].type, heap[c].id>>
DeclKey(d) == <<ModelType(d), names[d]>>

AtTop(d) == d \in Range(TopLevel)
Definitions(kind) == {d \in Range(TopLevel) : Decl(d).kind = kind /\ Decl(d).def}

ComponentsOf(d) == {c \in DOMAIN heap : Key(c) = DeclKey(d)}

(* What nodes name: top-level variables and functions, enumerators, and    *)
(* the types of casts.                                                     *)
Named(nodes) ==
     {DeclKey(n.decl) : n \in {m \in nodes : m.kind \in {"var", "function"} /\ AtTop(m.decl)}}
  \cup {<<"enumval", Decl(n.decl).enumerators[n.index]>> : n \in {m \in nodes : m.kind = "enumval"}}
  \cup {DeclKey(n.type) : n \in {m \in nodes : m.kind = "cast" /\ m.type # 0}}

Shadows(d) == /\ Decl(d).kind = "var" /\ ~AtTop(d) /\ Global(d)
              /\ \E g \in Range(TopLevel) : Decl(g).kind = "var" /\ Decl(g).name = Decl(d).name
Unshadowed(nodes) == \A n \in nodes : n.kind = "var" => ~Shadows(n.decl)

(* A function that is defined refers to what its body names and to nothing *)
(* else - unless a static variable of the body hides a global one, which   *)
(* is then referred to.                                                    *)
BodyReferred == Finished => \A d \in Definitions("function") : Unshadowed(Nodes(d)) =>
  \A c \in ComponentsOf(d) :
    {Key(l[2]) : l \in {k \in references : k[1] = c /\ k[3][1] = "bodyenc"}} = Named(Nodes(d))

(* It refers to the fields it accesses, each by its number.  The types of  *)
(* fields have their names in the unit that built the record only, and     *)
(* fields without a name are not told apart.                               *)
Accesses(d) == {n \in Nodes(d) : n.kind = "member"}
Distinct(r) == IsInjective([i \in DOMAIN Decl(r).fields |-> Decl(r).fields[i].name])
MembersReferred == Finished => \A d \in Definitions("function") :
  (\A n \in Accesses(d) : Distinct(n.decl) /\ names[n.decl] # Anonymous) =>
    \A c \in ComponentsOf(d) :
      {<<Key(l[2]), l[3][2]>> : l \in {k \in references : k[1] = c /\ k[3][1] = "fieldaccess"}}
        = {<<DeclKey(n.decl), n.index>> : n \in Accesses(d)}

(* A cast makes its target refer to its subject if "the cast target is a   *)
(* structure which has subject as its beginning", where the types are      *)
(* spelled alike and the first field is no pointer.                        *)
Casts == {n \in UNION {Nodes(d) : d \in UNION {Range(program.units[u]) : u \in 1..TU}} :
            n.kind = "cast" /\ n.type # 0 /\ n.subject.type # 0 /\ Decl(n.type).fields # <<>>}
Begins(n) == LET f1 == Decl(n.type).fields[1] IN f1.type = n.subject.type /\ f1.as # "pointer"
Alike(n) == LET f1 == Decl(n.type).fields[1] IN
  f1.type = n.subject.type => f1.as # "pointer" /\ (f1.as = "typedef") = (n.subject.as = "typedef")
InheritanceFound == Finished /\ (\A n \in Casts : Alike(n)) =>
  {<<Key(l[1]), Key(l[2])>> : l \in {k \in references : k[3][1] = "inheritance"}}
    = {<<DeclKey(n.type), DeclKey(n.subject.type)>> : n \in {m \in Casts : Begins(m)}}

(* The declarations of one function agree, as the language demands, and    *)
(* spell the type it returns alike; of a static function those of one unit *)
(* do.  A prototype names no arguments if the definition has none.         *)
Functions == {d \in DOMAIN program.decls : Decl(d).kind = "function"}
Together(d, e) == \E u \in DOMAIN program.units : {d, e} \subseteq Range(program.units[u])
Prototyped == \A d, e \in Functions : Decl(d).name = Decl(e).name =>
  /\ Together(d, e) => Decl(d).static = Decl(e).static
  /\ Decl(d).static = Decl(e).static /\ (Decl(d).static => Together(d, e)) =>
       /\ Decl(d).type = Decl(e).type
       /\ Decl(d).def => /\ Decl(e).def => d = e
                         /\ Decl(d).params = <<>> => Decl(e).params = <<>>

(* Whatever declarations come before or after it, in whichever units, a    *)
(* function that is defined has the arguments of the definition, and       *)
(* refers to their types and to the one it returns, if they have names.    *)
FunctionOf(d) == Lookup("function", Decl(d).name, Decl(d).static)
NamedType(t) == t # 0 /\ Decl(t).name # Anonymous
ArgumentsOfDefinition == Prototyped /\ Finished =>
  \A d \in Definitions("function") : LET c == FunctionOf(d) IN
    /\ c # NULL /\ arguments[c] = Decl(d).params
    /\ \A i \in 1..Len(Decl(d).params) : LET t == Decl(d).params[i].type IN
         NamedType(t) => <<c, Structure(t), <<"argument", i>>>> \in references
    /\ NamedType(Decl(d).type) => <<c, Structure(Decl(d).type), <<"return", -1>>>> \in references

(* A walk for a type declared behind place l may come before that for d.   *)
Overtaken(d, l) == \E t \in DOMAIN program.decls :
  l < Decl(t).from /\ (t \in Early \/ (IsTag(t) /\ Spans(d, t)))

(* The macros at l that make a reference for d, and which it is            *)
UsedIn(d) == {l \in Expanded : InRange(l, Decl(d)) /\ (Decl(d).def = ~Mentions(l, d))}
UseBy(d) == IF Decl(d).def THEN <<"bodyenc", -1>> ELSE <<"named", "bodyenc">>

(* A definition of a function refers to the macros expanded in it, but for *)
(* those that mention it; they refer to it if they are expanded in another *)
(* declaration of it.  So it is whatever declarations there are and what   *)
(* types they use, where no walk for a type behind has come first; and in  *)
(* one unit no other macro is referred to or refers to it.                 *)
DeclarationsOf(c) == {d \in Range(TopLevel) : DeclKey(d) = Key(c)}
FunctionMacrosUsed == Finished =>
  /\ \A d \in {e \in Range(TopLevel) : Decl(e).kind = "function"} : \A l \in UsedIn(d) :
       ~Overtaken(d, l) => <<FunctionOf(d), l, UseBy(d)>> \in uses
  /\ TU = 1 => \A u \in uses : heap[u[1]].type = "function" =>
       \E d \in DeclarationsOf(u[1]) : u[2] \in UsedIn(d) /\ u[3] = UseBy(d)

(* Of an initializer: its elements are regular or designate a field of the *)
(* variable, perhaps elements of that field.                               *)
ByField(e) == \/ e.designators = <<>>
              \/ /\ e.designators[1].decl # 0
                 /\ \A k \in 2..Len(e.subs) : k <= Len(e.designators) /\ e.designators[k].decl = 0

(* The field that element i initializes: the one designated, or the one    *)
(* behind that of the element before it (no inner braces are left out).    *)
IndexOfElement(init, i) ==
  LET ds == {j \in 1..i : init[j].designators # <<>>}
  IN  IF ds = {} THEN i ELSE init[Max(ds)].designators[1].index + (i - Max(ds))

(* That is the place in the list of each regular element, by which it is   *)
(* indexed: it is not behind a designator that leads elsewhere.            *)
InPlace(init) == \A i \in DOMAIN init : init[i].designators = <<>> =>
  IndexOfElement(init, i) = i /\ (i > 1 => Len(init[i - 1].designators) <= 1)

(* No field is designated twice in a row.                                  *)
Apart(init) ==
  LET ds == SelectSeq(init, LAMBDA e : e.designators # <<>>)
  IN  \A j \in 1..Len(ds) - 1 : ds[j].designators[1].index # ds[j + 1].designators[1].index

Expression(e) == e.subs[1]
Below(nodes) == {nodes[n] : n \in 1..Len(nodes) - 1}

(* Only the first declaration of a variable is looked at.                  *)
First(d) == \A u \in 1..TU : \A j \in DOMAIN program.units[u] : LET b == program.units[u][j] IN
  DeclKey(b) = DeclKey(d) => Decl(b).def

(* "Map the field name to the field index for referencing": a variable     *)
(* refers to what an element names, below its root, and to the macros it   *)
(* expands, by the index of the field it initializes - but for those that  *)
(* mention the variable: they refer to it.                                 *)
Indexed(d) == \A c \in ComponentsOf(d) :
  LET init == Decl(d).init
  IN  /\ {<<Key(l[2]), l[3][2]>> : l \in {k \in references : k[1] = c /\ k[3][1] = "initializer"}}
           = UNION {{<<k, IndexOfElement(init, i)>> : k \in Named(Below(Expression(init[i])))} :
                      i \in DOMAIN init}
      /\ {<<u[2], u[3][2]>> : u \in {k \in uses : k[1] = c /\ k[3][1] = "initializer" /\ ~Overtaken(d, k[2])}}
           = UNION {{<<l, IndexOfElement(init, i)>> :
                       l \in {k \in Expanded : /\ InRange(k, Last(Expression(init[i])))
                                                /\ ~Mentions(k, d) /\ ~Overtaken(d, k)}} :
                      i \in DOMAIN init}
      /\ \A l \in Expanded : InRange(l, Decl(d)) /\ Mentions(l, d) /\ ~Overtaken(d, l) =>
           <<c, l, <<"named", "macrodecl">>>> \in uses

Initialized == {d \in Definitions("var") :
  First(d) /\ InPlace(Decl(d).init) /\ \A e \in Range(Decl(d).init) : ByField(e)}

InitializersIndexed == Finished /\ TU = 1 => \A d \in Initialized : Indexed(d)

(* They do, if no field is designated twice in a row.                      *)
InitializersIndexedIfApart == Finished /\ TU = 1 =>
  \A d \in Initialized : Apart(Decl(d).init) => Indexed(d)
=============================================================================
