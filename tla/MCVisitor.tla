----------------------------- MODULE MCVisitor -----------------------------
(* Small programs for the visitors.  For the structures: two top-level     *)
(* declarations of any kind, which may use each other and nest anonymous   *)
(* ones.  For statements: records, an enum, variables and functions, of    *)
(* which one has any small body or initializer.                            *)
EXTENDS VisitorInvariants

MCTypes == {"struct", "enum", "typedef", "global", "enumval", "function"}
MCPaths == {"a.c", "b.c"}
MCRealPath == [p \in MCPaths |-> p]
OneUnit == <<"a.c">>
TwoUnits == <<"a.c", "b.c">>

(* Declaration k spans ten places and its j-th field three of them.  The   *)
(* anonymous declaration 10 + k is nested in it, 20 + k in that one.       *)
From(k, j) == 10 * k + 3 * j - 2
FieldNames == <<"x", "y", "z">>
FieldAt(k, j, t) == [name |-> FieldNames[j], type |-> t, as |-> "pointer",
                     from |-> From(k, j), to |-> From(k, j) + 2]

Declaration(kind, name, type, fs, from, to) ==
  [kind |-> kind, name |-> name, def |-> TRUE, static |-> FALSE, type |-> type,
   fields |-> fs, enumerators |-> <<>>, params |-> <<>>, automatic |-> FALSE,
   body |-> <<>>, init |-> <<>>, from |-> from, to |-> to]

Name(k) == IF k = 1 THEN <<"A">> ELSE <<"B">>
Top(k, kind, type, fs) == Declaration(kind, Name(k), type, fs, 10 * k, 10 * k + 9)
Undefined(k) == [Top(k, "record", 0, <<>>) EXCEPT !.def = FALSE]
Enum(k) == [Top(k, "enum", 0, <<>>) EXCEPT !.enumerators = <<<<"E">>, <<"F">>>>]

FieldSeqs(k, T) == {<<FieldAt(k, 1, s)>> : s \in T}
             \cup {<<FieldAt(k, 1, s), FieldAt(k, 2, t)>> : s \in T, t \in T \ {10 + k}}
RecordShapes(k, T) == {Top(k, "record", 0, fs) : fs \in FieldSeqs(k, T)}
Users(k, T) == {Top(k, kind, t, <<>>) : kind \in {"var", "typedef"}, t \in T}

(* The nested declarations of k, in its first field: of one field.         *)
Nested(k, t) == Declaration("record", Anonymous, 0,
  <<[FieldAt(k, 1, t) EXCEPT !.from = 10 * k + 2, !.to = 10 * k + 2]>>, 10 * k + 1, 10 * k + 2)
NestedEnum(k) == [Nested(k, 0) EXCEPT !.kind = "enum", !.fields = <<>>,
                                      !.enumerators = <<<<"E">>>>]
Innermost(k) == Declaration("record", Anonymous, 0,
  <<[FieldAt(k, 1, 0) EXCEPT !.from = 10 * k + 2, !.to = 10 * k + 2]>>, 10 * k + 2, 10 * k + 2)

Program(a, b, m, n) ==
  [k \in {1, 2, 11, 12, 21, 22} |-> CASE k = 1 -> a [] k = 2 -> b [] k = 11 -> m [] k = 12 -> n
                                      [] OTHER -> Innermost(k - 20)]

Uses(d, t) == d.type = t \/ \E f \in Range(d.fields) : f.type = t

(* A type that is not a record is declared before it is used, and neither  *)
(* a variable nor - the types of fields being canonical - a typedef is the *)
(* type of a field.                                                        *)
Legal(D) ==
  /\ Uses(D[1], 2) => D[2].kind = "record"
  /\ Uses(D[11], 2) => D[2].kind = "record"
  /\ \A k \in {1, 2} : \A j \in {1, 2, 11, 12} : Uses(D[j], k) =>
       D[k].kind \in {"record", "enum"} \/ (D[k].kind = "typedef" /\ D[k].type = 0 /\ D[j].type = k)
  /\ \A k \in {1, 2} : D[k].type # k
  /\ \A k \in {1, 2} : ~Uses(D[k], 10 + k) => D[10 + k] = Nested(k, 0)

(* A variable or a typedef does not contain the declaration it uses: it    *)
(* precedes it.                                                            *)
Order(D, k) == IF D[k].type = 10 + k THEN <<10 + k, k>> ELSE <<k>>

Places == {10, 11, 12, 14, 18, 19, 20, 21, 22, 24, 28, 29}
Sources(D, n) == [decls |-> D, units |-> [u \in 1..n |-> Order(D, 1) \o Order(D, 2)],
                  expansions |-> [u \in 1..n |-> [l \in Places |-> {Name(1), Name(2)}]]]

Shapes(k) == RecordShapes(k, {0, 1, 2, 10 + k}) \cup Users(k, {0, 1, 2, 10 + k})
            \cup {Undefined(k), Enum(k)}
NestedShapes(k) == {Nested(k, t) : t \in {0, 1, 2, 20 + k}} \cup {NestedEnum(k)}

(* In a header of two main files.                                         *)
AnyPrograms == {Sources(D, 2) : D \in {E \in {Program(a, b, m, n) :
  a \in Shapes(1), b \in Shapes(2), m \in NestedShapes(1), n \in NestedShapes(2)} : Legal(E)}}

(* A record and a variable or a typedef, both named A.                     *)
Homonyms == {[P EXCEPT !.decls[2].name = Name(1)] : P \in {Q \in AnyPrograms :
  {Q.decls[1].kind, Q.decls[2].kind} \in {{"record", "var"}, {"record", "typedef"}}}}

(* struct { struct { struct A *a; } x; } A; struct A { struct { .. } y; }; *)
HomonymInside ==
  LET P == Sources(Program([Top(1, "var", 11, <<>>) EXCEPT !.name = Name(2)],
                           Top(2, "record", 0, <<FieldAt(2, 1, 12)>>), Nested(1, 21), Nested(2, 0)), 2)
  IN  {[P EXCEPT !.decls[21].fields[1].type = 2]}

(* struct B; struct A { ... struct B ... }; struct B { ... };              *)
Predeclared == {[P EXCEPT !.decls = @ @@ (3 :> [Undefined(2) EXCEPT !.from = 0, !.to = 0]),
                          !.units = [u \in DOMAIN @ |-> <<3>> \o @[u]]] :
  P \in {Q \in AnyPrograms : Q.decls[2].kind = "record" /\ Q.decls[2].def
                              /\ \E d \in {1, 11, 12} : Uses(Q.decls[d], 2)}}

(* typedef struct { ... } A; struct B { A x; ... };                        *)
OfTypedefs == {[P EXCEPT !.decls[2].fields[1].type = 11] :
  P \in {Q \in AnyPrograms : Q.decls[1].kind = "typedef" /\ Q.decls[1].type = 11
                              /\ Q.decls[2].kind = "record" /\ Q.decls[2].def}}

(* struct A { struct C *c; }; struct B { ... }; struct C { ... };          *)
ForwardProgram ==
  LET C == Declaration("record", <<"C">>, 0, <<FieldAt(3, 1, 0)>>, 30, 39)
      P == Sources(Program(Top(1, "record", 0, <<FieldAt(1, 1, 3)>>),
                           Top(2, "record", 0, <<FieldAt(2, 1, 0)>>), Nested(1, 0), Nested(2, 0)), 1)
  IN  {[P EXCEPT !.decls = @ @@ (3 :> C), !.units = <<<<1, 2, 3>>>>]}

-----------------------------------------------------------------------------
(* Programs with statements: struct A, struct B that begins with A, an     *)
(* enum, variables V and W, functions G and F, with F in one of many forms.      *)
Called(n) == CASE n = 1 -> <<"A">> [] n = 2 -> <<"B">> [] n = 3 -> <<"N">> [] n = 4 -> <<"G">>
             [] n = 5 -> <<"V">> [] n = 6 -> <<"F">> [] n = 7 -> <<"V">> [] n = 8 -> <<"L">>
             [] n = 9 -> <<"W">>
Whole(k, kind, type, fs) == Declaration(kind, Called(k), type, fs, 10 * k, 10 * k + 9)

RecordA(second) == Whole(1, "record", 0, <<FieldAt(1, 1, 0), [FieldAt(1, 2, 0) EXCEPT !.name = second]>>)
RecordB(as) == Whole(2, "record", 0, <<[FieldAt(2, 1, 1) EXCEPT !.as = as], FieldAt(2, 2, 0),
                                       FieldAt(2, 3, 0)>>)
EnumN == [Whole(3, "enum", 0, <<>>) EXCEPT !.enumerators = <<<<"E">>>>, !.to = 38]
Variable(k, t) == Whole(k, "var", t, <<>>)
Function(k, t, params) == [Whole(k, "function", t, <<>>) EXCEPT !.params = params]
Params(ns, ts) == [i \in DOMAIN ts |-> [name |-> ns[i], type |-> ts[i]]]
Prototype(k, t, params) == [Function(k, t, params) EXCEPT !.def = FALSE]

(* A node, at place j of declaration k                                     *)
NodeOf(kind, d, index) == [kind |-> kind, decl |-> d, index |-> index, type |-> 0,
                        subject |-> [type |-> 0, as |-> "value"], from |-> 0, to |-> 0]
CastTo(t, s, as) == [NodeOf("cast", 0, 0) EXCEPT !.type = t, !.subject = [type |-> s, as |-> as]]
Placed(n, k, j) == [n EXCEPT !.from = From(k, j), !.to = From(k, j)]
Root(k) == [NodeOf("other", 0, 0) EXCEPT !.from = 10 * k, !.to = 10 * k + 9]

(* Names, accesses and casts: of a global, a static and an automatic       *)
(* variable, where 7 is a static one of the name of the global.            *)
SomeNodes == {NodeOf("var", 5, 0), NodeOf("var", 7, 0), NodeOf("var", 9, 0), NodeOf("function", 4, 0),
              NodeOf("enumval", 3, 1), NodeOf("member", 1, 1), NodeOf("member", 1, 2), NodeOf("member", 2, 3),
              CastTo(2, 1, "pointer"), CastTo(2, 1, "typedef"), CastTo(1, 2, "pointer"),
              CastTo(8, 0, "value")}
Bodies == {<<Root(6)>>} \cup {<<Placed(m, 6, 1), Root(6)>> : m \in SomeNodes}
          \cup {<<Placed(m, 6, 1), Placed(n, 6, 2), Root(6)>> : m, n \in SomeNodes}

LocalL == [Whole(8, "record", 0, <<FieldAt(8, 1, 1)>>) EXCEPT !.from = 65, !.to = 66]

(* Some of the macros expanded mention what is declared there or elsewhere. *)
StatementPlaces == {10, 14, 28, 40, 44, 50, 51, 53, 56, 60, 61, 64, 65, 69}
Mentioned_At(l) == CASE l = 40 -> {Called(4)} [] l = 50 -> {Called(5)} [] l = 53 -> {Called(4), Called(5)}
                     [] l = 61 -> {Called(5)} [] l = 64 -> {Called(4), Called(6)} [] OTHER -> {}
Declarations(a, b, g, v, f) == <<a, b, EnumN, g, v, f, Variable(7, 0), LocalL,
                           [Variable(9, 0) EXCEPT !.automatic = TRUE]>>
Compiled(D, units) == [decls |-> D, units |-> units,
                    expansions |-> [u \in DOMAIN units |-> [l \in StatementPlaces |-> Mentioned_At(l)]]]

(* A header with everything in it, of two main files; F is static or not.  *)
BodyPrograms == {Compiled(Declarations(RecordA("y"), RecordB("value"), Prototype(4, 1, <<>>), Variable(5, 2),
                               [Function(6, 0, <<>>) EXCEPT !.body = body, !.static = static]),
                       <<<<1, 2, 3, 4, 5, 6>>, <<1, 2, 3, 4, 5, 6>>>>) :
                   body \in Bodies, static \in BOOLEAN}

(* Structures of other shapes: a first field that is a pointer or spelled  *)
(* as a typedef, fields without a name.                                    *)
ShapePrograms == {Compiled(Declarations(RecordA(second), RecordB(as), Prototype(4, 1, <<>>), Variable(5, 2),
                                [Function(6, 0, <<>>) EXCEPT !.body = body]),
                        <<<<1, 2, 3, 4, 5, 6>>, <<>>>>) :
                    second \in {"x", "y"}, as \in {"value", "typedef", "pointer"},
                    body \in {b \in Bodies : Len(b) = 2}}

(* Function 4 is a prototype or a definition and function 6 another        *)
(* declaration of it, in one file or in two.  Prototypes name no arguments.*)
Unnamed == Params(<<"", "">>, <<1, 0>>)
Given == Params(<<"a", "n">>, <<1, 0>>)
Redeclared(d) == [d EXCEPT !.name = Called(4)]
FunctionPrograms == {P \in {Compiled(Declarations(RecordA("y"), RecordB("value"), g,
                                                 Variable(5, 2), Redeclared(f)), units) :
    g \in {Prototype(4, t, ps) : t \in {0, 8}, ps \in {<<>>, Unnamed}}
          \cup {[Function(4, t, Given) EXCEPT !.body = <<Root(4)>>] : t \in {0, 8}},
    f \in {Prototype(6, t, ps) : t \in {0, 8}, ps \in {<<>>, Unnamed}}
          \cup {[Function(6, t, Given) EXCEPT !.body = <<Root(6)>>] : t \in {0, 8}},
    units \in {<<<<1, 4, 6>>, <<>>>>, <<<<1, 4>>, <<1, 6>>>>, <<<<1, 6>>, <<1, 4, 6>>>>}} :
  P.decls[4].type = P.decls[6].type /\ ~(P.decls[4].def /\ P.decls[6].def)}

(* They are static, in one unit or in both, or return a typedef of struct A. *)
Static(P, S) == [P EXCEPT !.decls[4].static = 4 \in S, !.decls[6].static = 6 \in S]
StaticPrograms == {Static(P, {4, 6}) : P \in FunctionPrograms}
  \cup {[Static(P, {6}) EXCEPT !.decls[6].type = 1 - P.decls[4].type \div 8] :
         P \in {Q \in FunctionPrograms : Q.units = <<<<1, 4>>, <<1, 6>>>>}}
TypedefPrograms == {[P EXCEPT !.decls[8] = [Whole(8, "typedef", 1, <<>>) EXCEPT !.from = 5, !.to = 6]] :
                      P \in {Q \in FunctionPrograms : Q.decls[4].type = 8}}

-----------------------------------------------------------------------------
(* Initializers of V, a struct B: its element i is at place i of V.        *)
FieldD(r, i) == [decl |-> r, index |-> i]
ArrayD == FieldD(0, 0)
Elements == {<<>>, <<FieldD(2, 1)>>, <<FieldD(2, 2)>>, <<FieldD(2, 3)>>,
             <<FieldD(2, 1), FieldD(1, 1)>>, <<FieldD(2, 1), FieldD(1, 2)>>,
             <<ArrayD>>, <<ArrayD, FieldD(2, 2)>>, <<FieldD(2, 3), ArrayD>>,
             <<FieldD(2, 1), ArrayD, FieldD(1, 2), ArrayD>>}

Leaf(i) == [NodeOf("other", 0, 0) EXCEPT !.from = From(5, i), !.to = From(5, i) + 2]
Expr(n, i) == <<Placed(n, 5, i), Leaf(i)>>
Arrays(ds) == Len(SelectSeq(ds, LAMBDA d : d.decl = 0))
ElementAt(ds, n, i) == [designators |-> ds,
  subs |-> <<Expr(n, i)>> \o [j \in 1..Arrays(ds) |-> <<Leaf(i)>>]]

Values == <<NodeOf("function", 4, 0), NodeOf("enumval", 3, 1), CastTo(1, 0, "value")>>
Inits(n) == {[i \in 1..n |-> ElementAt(dss[i], Values[i], i)] : dss \in [1..n -> Elements]}

WithInit(init, units) ==
  Compiled(Declarations(RecordA("y"), RecordB("value"), Prototype(4, 0, <<>>),
               [Variable(5, 2) EXCEPT !.init = init], Prototype(6, 0, <<>>)), units)

(* V is declared before or only defined.                                   *)
Extern(P) == [P EXCEPT !.decls[6] = [Variable(5, 2) EXCEPT !.def = FALSE, !.from = 39, !.to = 39],
                       !.units = <<<<1, 2, 3, 6, 4, 5>>, <<>>>>]

(* static struct B V = { .x.x[0] = G };, where x of B has an anonymous type *)
Unnameable(P) == [P EXCEPT
  !.decls[1].name = Anonymous, !.decls[1].from = 21, !.decls[1].to = 23,
  !.decls[1].fields = [j \in 1..2 |-> [P.decls[1].fields[j] EXCEPT !.from = 21 + j, !.to = 21 + j]],
  !.decls[2].fields[1].type = 1, !.decls[5].static = TRUE]
Nameless == {Unnameable(WithInit(<<ElementAt(<<FieldD(2, 1), FieldD(1, 1), ArrayD>>, Values[1], 1)>>,
                                <<<<2, 3, 4, 5>>, <<2, 3, 4, 5>>>>))}

InitPrograms == {WithInit(init, <<<<1, 2, 3, 4, 5>>, <<>>>>) : init \in Inits(1) \cup Inits(2) \cup Inits(3)}
                \cup {Extern(WithInit(init, <<<<>>, <<>>>>)) : init \in Inits(1)}
                \cup Nameless

MCPrograms == AnyPrograms \cup Predeclared \cup OfTypedefs \cup Homonyms \cup HomonymInside \cup BodyPrograms \cup ShapePrograms \cup FunctionPrograms \cup StaticPrograms \cup TypedefPrograms \cup InitPrograms

(* struct A { int x, y; } ; struct B { struct A x; ... } v = { .x.x = .., .x.y = .. };  *)
TwicePrograms == {WithInit(<<ElementAt(<<FieldD(2, 1), FieldD(1, 1)>>, Values[1], 1),
                             ElementAt(<<FieldD(2, 1), FieldD(1, 2)>>, Values[2], 2)>>,
                           <<<<1, 2, 3, 4, 5>>, <<>>>>)}
=============================================================================
