--------------------------- MODULE FunctionProofs ---------------------------
(* Proofs about the visitor of functions: whatever declarations of a       *)
(* function come before or after its definition, and whatever types are    *)
(* visited while it is, in the end the function has the arguments of the   *)
(* definition and refers to their types.                                   *)
EXTENDS VisitorProofs

-----------------------------------------------------------------------------
(* The calls in progress that are about functions                          *)

Functional == {"function", "params"}
View(s, k) == [proc |-> s[k].proc, D |-> s[k].D, C |-> s[k].C, at |-> s[k].at, i |-> s[k].i,
               depth |-> Len(s) - k]

LEMMA MakingOf ==
  ASSUME NEW s, NEW m
  PROVE  m \in Making(s) <=> \E k \in 1..Len(s) : s[k].proc \in Functional /\ m = View(s, k)
  BY DEF Making, View, Functional

LEMMA MakingNone == Making(<<>>) = {} /\ \A d : ~Defining(<<>>, d)
<1>1. Len(<<>>) = 0
  BY EmptyIsSeq
<1>2. \A m : m \notin Making(<<>>)
  BY <1>1, MakingOf
<1>3. QED
  BY <1>1, <1>2 DEF Defining

(* Frames that tell the same of functions, of typedefs and of nodes        *)
Reader(f) == /\ Reads(f)
             /\ f.proc \in {"function", "params"} => {"C", "at", "i"} \subseteq DOMAIN f
Like(f, g) ==
  /\ g.proc = f.proc /\ g.D = f.D
  /\ f.proc \in Functional => g.C = f.C /\ g.at = f.at /\ g.i = f.i
  /\ f.proc = "typedef" /\ g.at = "link" => f.at = "link"
  /\ Reader(f) => Reader(g)

LEMMA LikeStack ==
  ASSUME NEW s, NEW t, Len(t) = Len(s), \A k \in 1..Len(s) : Like(s[k], t[k])
  PROVE  /\ Making(t) = Making(s)
         /\ \A d : Defining(s, d) => Defining(t, d)
         /\ Reading(s) => Reading(t)
<1>1. \A m : m \in Making(t) <=> m \in Making(s)
  <2>1. ASSUME NEW k \in 1..Len(s), s[k].proc \in Functional \/ t[k].proc \in Functional
        PROVE  s[k].proc \in Functional /\ t[k].proc \in Functional /\ View(t, k) = View(s, k)
    BY <2>1 DEF Like, View
  <2>2. QED
    BY <2>1, MakingOf
<1>2. ASSUME NEW d, Defining(s, d) PROVE Defining(t, d)
  BY <1>2 DEF Defining, Like
<1>3. Reading(s) => Reading(t)
  BY DEF Reading, Like, Reader
<1>4. QED
  BY <1>1, <1>2, <1>3

LEMMA PushedMaking ==
  ASSUME NEW s, IsSeq(s), NEW f, NEW u, u = <<f>> \o s
  PROVE  /\ \A m : m \in Making(u) <=>
              m \in Making(s) \/ (f.proc \in Functional /\ m = View(u, 1))
         /\ \A d : Defining(s, d) => Defining(u, d)
         /\ f.proc = "typedef" /\ f.at # "link" => Defining(u, f.D)
         /\ Reading(s) /\ Reader(f) => Reading(u)
         /\ IsSeq(u) /\ Len(u) = Len(s) + 1 /\ u[1] = f /\ Len(s) \in Nat
<1>1. /\ IsSeq(u) /\ Len(u) = Len(s) + 1 /\ u[1] = f /\ Len(s) \in Nat
      /\ \A k \in 1..Len(s) : u[k + 1] = s[k]
  BY Pushed DEF IsSeq
<1>2. \A k \in 1..Len(s) : k + 1 \in 1..Len(u) /\ (s[k].proc \in Functional => View(u, k + 1) = View(s, k))
  <2>1. ASSUME NEW k \in 1..Len(s) PROVE k + 1 \in 1..Len(u) /\ Len(u) - (k + 1) = Len(s) - k
    BY <1>1
  <2>2. QED
    BY <1>1, <2>1 DEF View
<1>3. \A k \in 1..Len(u) : k = 1 \/ (k - 1 \in 1..Len(s) /\ k = (k - 1) + 1)
  BY <1>1
<1>4. 1 \in 1..Len(u)
  BY <1>1
<1>5. ASSUME NEW m
      PROVE  m \in Making(u) <=> m \in Making(s) \/ (f.proc \in Functional /\ m = View(u, 1))
  <2>1. ASSUME m \in Making(s) PROVE m \in Making(u)
    <3>1. PICK k \in 1..Len(s) : s[k].proc \in Functional /\ m = View(s, k)
      BY <2>1, MakingOf
    <3>2. k + 1 \in 1..Len(u) /\ u[k + 1].proc \in Functional /\ m = View(u, k + 1)
      BY <1>1, <1>2, <3>1
    <3>3. QED
      BY <3>2, MakingOf
  <2>2. ASSUME f.proc \in Functional, m = View(u, 1) PROVE m \in Making(u)
    BY <1>1, <1>4, <2>2, MakingOf
  <2>3. ASSUME m \in Making(u) PROVE m \in Making(s) \/ (f.proc \in Functional /\ m = View(u, 1))
    <3>1. PICK k \in 1..Len(u) : u[k].proc \in Functional /\ m = View(u, k)
      BY <2>3, MakingOf
    <3>2. CASE k = 1
      BY <1>1, <3>1, <3>2
    <3>3. CASE k # 1
      <4>1. PICK j : j \in 1..Len(s) /\ k = j + 1
        BY <1>3, <3>3
      <4>2. s[j].proc \in Functional /\ m = View(s, j)
        BY <1>1, <1>2, <3>1, <4>1
      <4>3. QED
        BY <4>1, <4>2, MakingOf
    <3>4. QED
      BY <3>2, <3>3
  <2>4. QED
    BY <2>1, <2>2, <2>3
<1>6. ASSUME NEW d, Defining(s, d) PROVE Defining(u, d)
  BY <1>1, <1>2, <1>6 DEF Defining
<1>7. f.proc = "typedef" /\ f.at # "link" => Defining(u, f.D)
  BY <1>1, <1>4 DEF Defining
<1>8. ASSUME Reading(s), Reader(f) PROVE Reading(u)
  <2>1. ASSUME NEW k \in 1..Len(u) PROVE Reader(u[k])
    BY <1>1, <1>3, <1>8 DEF Reading, Reader
  <2>2. QED
    BY <2>1 DEF Reading, Reader
<1>9. QED
  BY <1>1, <1>5, <1>6, <1>7, <1>8

LEMMA PoppedMaking ==
  ASSUME NEW s, IsSeq(s), s # <<>>, NEW t, t = Tail(s)
  PROVE  /\ \A m : m \in Making(s) <=>
              m \in Making(t) \/ (s[1].proc \in Functional /\ m = View(s, 1))
         /\ \A d : Defining(s, d) => Defining(t, d) \/ (s[1].proc = "typedef" /\ s[1].D = d /\ s[1].at # "link")
         /\ Reading(s) => Reading(t) /\ Reader(s[1])
         /\ IsSeq(t) /\ Len(s) = Len(t) + 1 /\ Len(t) \in Nat
<1>0. IsSeq(t) /\ Len(s) = Len(t) + 1 /\ 1 \in 1..Len(s) /\ \A k \in 1..Len(t) : t[k] = s[k + 1]
  BY Popped
<1>1. /\ IsSeq(t) /\ Len(s) = Len(t) + 1 /\ 1 \in 1..Len(s) /\ Len(t) \in Nat
      /\ \A k \in 1..Len(t) : t[k] = s[k + 1]
  BY <1>0 DEF IsSeq
<1>2. ASSUME NEW k \in 1..Len(t)
      PROVE  k + 1 \in 1..Len(s) /\ (t[k].proc \in Functional => View(s, k + 1) = View(t, k))
  <2>1. k + 1 \in 1..Len(s) /\ Len(s) - (k + 1) = Len(t) - k
    BY <1>1
  <2>2. QED
    BY <1>1, <2>1 DEF View
<1>3. \A k \in 1..Len(s) : k = 1 \/ (k - 1 \in 1..Len(t) /\ k = (k - 1) + 1)
  BY <1>1
<1>4. ASSUME NEW m
      PROVE  m \in Making(s) <=> m \in Making(t) \/ (s[1].proc \in Functional /\ m = View(s, 1))
  <2>1. ASSUME m \in Making(t) PROVE m \in Making(s)
    <3>1. PICK k \in 1..Len(t) : t[k].proc \in Functional /\ m = View(t, k)
      BY <2>1, MakingOf
    <3>2. k + 1 \in 1..Len(s) /\ s[k + 1].proc \in Functional /\ m = View(s, k + 1)
      BY <1>1, <1>2, <3>1
    <3>3. QED
      BY <3>2, MakingOf
  <2>2. ASSUME s[1].proc \in Functional, m = View(s, 1) PROVE m \in Making(s)
    BY <1>1, <2>2, MakingOf
  <2>3. ASSUME m \in Making(s) PROVE m \in Making(t) \/ (s[1].proc \in Functional /\ m = View(s, 1))
    <3>1. PICK k \in 1..Len(s) : s[k].proc \in Functional /\ m = View(s, k)
      BY <2>3, MakingOf
    <3>2. CASE k # 1
      <4>1. PICK j : j \in 1..Len(t) /\ k = j + 1
        BY <1>3, <3>2
      <4>2. t[j].proc \in Functional /\ m = View(t, j)
        BY <1>1, <1>2, <3>1, <4>1
      <4>3. QED
        BY <4>1, <4>2, MakingOf
    <3>3. QED
      BY <3>1, <3>2
  <2>4. QED
    BY <2>1, <2>2, <2>3
<1>5. ASSUME NEW d, Defining(s, d)
      PROVE  Defining(t, d) \/ (s[1].proc = "typedef" /\ s[1].D = d /\ s[1].at # "link")
  <2>1. PICK k \in 1..Len(s) : s[k].proc = "typedef" /\ s[k].D = d /\ s[k].at # "link"
    BY <1>5 DEF Defining
  <2>2. CASE k # 1
    <3>1. PICK j : j \in 1..Len(t) /\ k = j + 1
      BY <1>3, <2>2
    <3>2. QED
      BY <1>1, <2>1, <3>1 DEF Defining
  <2>3. QED
    BY <2>1, <2>2
<1>6. ASSUME Reading(s) PROVE Reading(t) /\ Reader(s[1])
  BY <1>1, <1>2, <1>6 DEF Reading, Reader
<1>7. QED
  BY <1>1, <1>4, <1>5, <1>6

-----------------------------------------------------------------------------
(* The sources                                                             *)

LEMMA ProgramForms ==
  ASSUME program \in Programs
  PROVE  /\ IsSeq(program.units) /\ Len(program.units) = Len(Mains)
         /\ \A u \in 1..Len(Mains) : IsSeq(program.units[u]) /\ \A d \in Range(program.units[u]) : Declared(d)
         /\ \A d \in DOMAIN program.decls : LET D == Decl(d) IN
              /\ D.static \in BOOLEAN
              /\ IsType(program, D.type)
              /\ IsSeq(D.params) /\ \A i \in 1..Len(D.params) : IsType(program, D.params[i].type)
              /\ D.kind = "function" /\ D.def => IsBody(program, D.body)
              /\ IsSeq(D.init) /\ \A i \in 1..Len(D.init) : LET subs == D.init[i].subs IN
                   IsSeq(subs) /\ subs # <<>> /\ \A k \in 1..Len(subs) : IsBody(program, subs[k])
<1>1. /\ IsSeq(program.units) /\ Len(program.units) = Len(Mains)
      /\ \A u \in 1..Len(program.units) :
           IsSeq(program.units[u]) /\ Range(program.units[u]) \subseteq DOMAIN program.decls
  BY VisitorAssumption
<1>2. \A d \in DOMAIN program.decls : LET D == program.decls[d] IN
        /\ D.static \in BOOLEAN
        /\ IsType(program, D.type)
        /\ IsSeq(D.params) /\ \A i \in 1..Len(D.params) : IsType(program, D.params[i].type)
        /\ D.kind = "function" /\ D.def => IsBody(program, D.body)
        /\ IsSeq(D.init) /\ \A i \in 1..Len(D.init) : LET subs == D.init[i].subs IN
             IsSeq(subs) /\ subs # <<>> /\ \A k \in 1..Len(subs) : IsBody(program, subs[k])
  BY VisitorAssumption
<1>3. QED
  BY <1>1, <1>2 DEF Decl, Declared

LEMMA SourcesKept ==
  ASSUME program' = program
  PROVE  /\ Functions' = Functions
         /\ \A d : Decl(d)' = Decl(d) /\ (Declared(d)' <=> Declared(d)) /\ (NamedType(d)' <=> NamedType(d))
                   /\ ModelType(d)' = ModelType(d) /\ (IsTag(d)' <=> IsTag(d))
         /\ Prototyped' <=> Prototyped
         /\ \A f : Reader(f)' <=> Reader(f)
         /\ \A s : Reading(s)' <=> Reading(s)
<1>1. Functions' = Functions /\ \A d : Decl(d)' = Decl(d)
  BY DEF Functions, Decl
<1>2. \A d : /\ Declared(d)' <=> Declared(d)
             /\ NamedType(d)' <=> NamedType(d)
             /\ ModelType(d)' = ModelType(d)
             /\ IsTag(d)' <=> IsTag(d)
  BY <1>1 DEF Declared, NamedType, ModelType, IsTag
<1>3. Prototyped' <=> Prototyped
  BY <1>1 DEF Prototyped, Together
<1>4. \A f : Reads(f)' <=> Reads(f)
  BY DEF Reads, Declared
<1>5. \A f : Reader(f)' <=> Reader(f)
  BY <1>4 DEF Reader
<1>6. \A s : Reading(s)' <=> Reading(s)
  BY <1>4 DEF Reading
<1>7. QED
  BY <1>1, <1>2, <1>3, <1>5, <1>6

(* Declarations of one unit are together.                                  *)
LEMMA OneUnit ==
  ASSUME program \in Programs, TU \in 1..Len(Mains), NEW d \in Range(TopLevel), NEW e \in Range(TopLevel)
  PROVE  Together(d, e)
<1>1. TU \in DOMAIN program.units
  BY ProgramForms DEF IsSeq
<1>2. QED
  BY <1>1 DEF Together, TopLevel

-----------------------------------------------------------------------------
(* The store                                                               *)

LEMMA FindIn ==
  ASSUME StoreFits, NEW S, S \subseteq 1..Len(heap), NEW ty, NEW n
  PROVE  /\ Find(S, ty, n) # NULL <=> HasKey(S, ty, n)
         /\ HasKey(S, ty, n) => Find(S, ty, n) \in S /\ Matches(Find(S, ty, n), ty, n)
<1>1. HasKey(S, ty, n) => Find(S, ty, n) \in S /\ Matches(Find(S, ty, n), ty, n)
  <2>1. ASSUME HasKey(S, ty, n) PROVE Find(S, ty, n) \in S /\ Matches(Find(S, ty, n), ty, n)
    <3>1. \E c \in S : Matches(c, ty, n)
      BY <2>1 DEF HasKey
    <3>2. Find(S, ty, n) = CHOOSE c \in S : Matches(c, ty, n)
      BY <2>1 DEF Find
    <3>3. QED
      BY <3>1, <3>2
  <2>2. QED
    BY <2>1
<1>2. \A c \in S : c # NULL
  BY DEF NULL, StoreFits, IsSeq
<1>3. QED
  BY <1>1, <1>2 DEF Find

(* What is neither TULocal nor of a type that may be is looked up in       *)
(* Model::Components.                                                      *)
LEMMA FoundByKey ==
  ASSUME StoreFits, FunctionStore, NEW ty, NEW n, ~HasKey(allComponents, ty, n)
  PROVE  /\ LookupFull(ty, n) = NULL <=> ~HasKey(Components, ty, n)
         /\ \A s \in Components : Matches(s, ty, n) => LookupFull(ty, n) = s
         /\ LookupFull(ty, n) # NULL => LookupFull(ty, n) \in Components /\ Matches(LookupFull(ty, n), ty, n)
<1>1. Components \subseteq 1..Len(heap)
  BY DEF StoreFits
<1>2. LookupFull(ty, n) = Find(Components, ty, n)
  BY DEF LookupFull
<1>3. /\ Find(Components, ty, n) # NULL <=> HasKey(Components, ty, n)
      /\ HasKey(Components, ty, n) =>
           Find(Components, ty, n) \in Components /\ Matches(Find(Components, ty, n), ty, n)
  BY <1>1, FindIn
<1>4. ASSUME NEW s \in Components, Matches(s, ty, n) PROVE LookupFull(ty, n) = s
  <2>1. HasKey(Components, ty, n)
    BY <1>4 DEF HasKey
  <2>2. PICK e : e = Find(Components, ty, n)
    OBVIOUS
  <2>3. e \in Components /\ Matches(e, heap[s].type, heap[s].id)
    BY <1>3, <1>4, <2>1, <2>2 DEF Matches
  <2>4. QED
    BY <1>2, <2>2, <2>3 DEF FunctionStore
<1>5. QED
  BY <1>2, <1>3, <1>4

LEMMA NotCached ==
  ASSUME FunctionStore, NEW ty, ty \notin {"global", "function"}, NEW n PROVE ~HasKey(allComponents, ty, n)
  BY DEF FunctionStore, HasKey, Matches

(* The store of functions after a step that leaves it alone                *)
LEMMA StoreStays ==
  ASSUME FunctionStore, UNCHANGED <<heap, allComponents, Components, program, TranslationUnits>>,
         argscomplete' \subseteq 1..Len(heap)
  PROVE  FunctionStore'
<1>1. Functions' = Functions /\ \A d : Decl(d)' = Decl(d)
  BY SourcesKept
<1>2. \A d, c : Declares(d, c)' <=> Declares(d, c)
  BY <1>1 DEF Declares, Matches, TopLevel, TU
<1>3. QED
  BY <1>1, <1>2 DEF FunctionStore, Matches

(* ... or binds a component that is not found                              *)
LEMMA BoundComponent ==
  ASSUME StoreFits, NEW ty, NEW n, NEW static, BindNew(ty, n, static), Lookup(ty, n, static) = NULL,
         NEW o, o = Len(heap) + 1
  PROVE  /\ StoreKept /\ o \notin 1..Len(heap) /\ o \in 1..Len(heap')
         /\ heap'[o].type = ty /\ heap'[o].id = n
         /\ IF static THEN heap'[o].local /\ allComponents' = allComponents \cup {o} /\ Components' = Components
                      ELSE ~heap'[o].local /\ allComponents' = allComponents /\ Components' = Components \cup {o}
         /\ IF static THEN ~HasKey(allComponents, ty, n) ELSE ~HasKey(Stored, ty, n)
<1>1. Bind(ty, n, static, Mains[TU])
  BY DEF BindNew
<1>2. IF static THEN ~HasKey(allComponents, ty, n) ELSE ~HasKey(Stored, ty, n)
  <2>1. CASE static
    <3>1. allComponents \subseteq 1..Len(heap)
      BY DEF StoreFits
    <3>2. Find(allComponents, ty, n) = NULL
      BY <2>1 DEF Lookup, LookupLocal
    <3>3. QED
      BY <2>1, <3>1, <3>2, FindIn
  <2>2. CASE ~static
    BY <2>2, Found DEF Lookup
  <2>3. QED
    BY <2>1, <2>2
<1>3. StoreKept /\ o \in 1..Len(heap') /\ heap'[o].type = ty /\ heap'[o].id = n
  BY <1>1, BindKeeps
<1>4. Len(heap) \in Nat /\ o \notin 1..Len(heap)
  BY DEF StoreFits, IsSeq
<1>5. IF static THEN allComponents' = allComponents \cup {o} /\ Components' = Components
                ELSE allComponents' = allComponents /\ Components' = Components \cup {o}
  <2>1. CASE static
    BY <1>1, <1>2, <2>1 DEF Bind, BindLocal, Insert
  <2>2. CASE ~static
    <3>1. ~HasKey(Components, ty, n)
      BY <1>2, <2>2 DEF HasKey, Stored
    <3>2. QED
      BY <1>1, <2>2, <3>1 DEF Bind, BindGlobal, Insert
  <2>3. QED
    BY <2>1, <2>2
<1>6. heap'[o].local <=> static
  <2>1. PICK r : heap' = Append(heap, r) /\ (r.local <=> static)
    BY <1>1 DEF Bind, BindLocal, BindGlobal, Record
  <2>2. heap'[o] = r
    <3> DEFINE S == Elements(heap) \cup {r}
    <3>1. heap \in Seq(S)
      BY SeqOfElements, SeqMonotonic DEF StoreFits
    <3>2. r \in S
      OBVIOUS
    <3> HIDE DEF S
    <3>3. QED
      BY <2>1, <3>1, <3>2
  <2>3. QED
    BY <2>1, <2>2
<1>7. QED
  BY <1>2, <1>3, <1>4, <1>5, <1>6

LEMMA StoreGrows ==
  ASSUME StoreFits, FunctionStore, UNCHANGED <<program, TranslationUnits, argscomplete>>,
         NEW ty, NEW n, NEW static, BindNew(ty, n, static), Lookup(ty, n, static) = NULL,
         static => ty \in {"global", "function"},
         static /\ ty = "function" =>
           \E d \in Functions : Decl(d).static = TRUE /\ Decl(d).name = n /\ d \in Range(TopLevel)
  PROVE  FunctionStore'
<1>1. PICK o : o = Len(heap) + 1
  OBVIOUS
<1>2. /\ StoreKept /\ o \notin 1..Len(heap) /\ o \in 1..Len(heap')
      /\ heap'[o].type = ty /\ heap'[o].id = n
      /\ IF static THEN heap'[o].local /\ allComponents' = allComponents \cup {o} /\ Components' = Components
                   ELSE ~heap'[o].local /\ allComponents' = allComponents /\ Components' = Components \cup {o}
      /\ IF static THEN ~HasKey(allComponents, ty, n) ELSE ~HasKey(Stored, ty, n)
  BY <1>1, BoundComponent
<1>3. /\ allComponents \subseteq 1..Len(heap) /\ Components \subseteq 1..Len(heap)
      /\ \A c \in 1..Len(heap) : heap'[c] = heap[c] /\ c # o
      /\ 1..Len(heap) \subseteq 1..Len(heap')
  BY <1>2 DEF StoreFits, StoreKept
<1>4. Functions' = Functions /\ (\A d : Decl(d)' = Decl(d)) /\ TopLevel' = TopLevel
  BY SourcesKept DEF TopLevel, TU
<1>5. \A c \in allComponents' : heap'[c].local /\ heap'[c].type \in {"global", "function"}
  BY <1>2, <1>3 DEF FunctionStore
<1>6. \A c \in Components' : ~heap'[c].local
  BY <1>2, <1>3 DEF FunctionStore
<1>7. \A c, e \in Components' : heap'[c].type = heap'[e].type /\ heap'[c].id = heap'[e].id => c = e
  <2>1. \A c, e \in Components : heap[c].type = heap[e].type /\ heap[c].id = heap[e].id => c = e
    BY DEF FunctionStore, Matches
  <2>2. CASE static
    <3>1. Components' = Components /\ \A c \in Components : heap'[c] = heap[c]
      BY <1>2, <1>3, <2>2
    <3>2. QED
      BY <2>1, <3>1
  <2>3. CASE ~static
    <3>1. \A c \in Components : ~(heap[c].type = ty /\ heap[c].id = n)
      BY <1>2, <2>3 DEF HasKey, Stored, Matches
    <3>2. Components' = Components \cup {o}
      BY <1>2, <2>3
    <3>3. SUFFICES ASSUME NEW c \in Components', NEW e \in Components',
                          heap'[c].type = heap'[e].type, heap'[c].id = heap'[e].id
                   PROVE  c = e
      OBVIOUS
    <3>4. CASE c = o /\ e # o
      BY <1>2, <1>3, <3>1, <3>2, <3>3, <3>4
    <3>5. CASE c # o /\ e = o
      BY <1>2, <1>3, <3>1, <3>2, <3>3, <3>5
    <3>6. CASE c # o /\ e # o
      BY <1>3, <2>1, <3>2, <3>3, <3>6
    <3>7. QED
      BY <3>4, <3>5, <3>6
  <2>4. QED
    BY <2>2, <2>3
<1>8. \A c, e \in allComponents' : heap'[c].type = heap'[e].type /\ heap'[c].id = heap'[e].id => c = e
  <2>1. \A c, e \in allComponents : heap[c].type = heap[e].type /\ heap[c].id = heap[e].id => c = e
    BY DEF FunctionStore, Matches
  <2>2. CASE ~static
    <3>1. allComponents' = allComponents /\ \A c \in allComponents : heap'[c] = heap[c]
      BY <1>2, <1>3, <2>2
    <3>2. QED
      BY <2>1, <3>1
  <2>3. CASE static
    <3>1. \A c \in allComponents : ~(heap[c].type = ty /\ heap[c].id = n)
      BY <1>2, <2>3 DEF HasKey, Matches
    <3>2. allComponents' = allComponents \cup {o}
      BY <1>2, <2>3
    <3>3. SUFFICES ASSUME NEW c \in allComponents', NEW e \in allComponents',
                          heap'[c].type = heap'[e].type, heap'[c].id = heap'[e].id
                   PROVE  c = e
      OBVIOUS
    <3>4. CASE c = o /\ e # o
      BY <1>2, <1>3, <3>1, <3>2, <3>3, <3>4
    <3>5. CASE c # o /\ e = o
      BY <1>2, <1>3, <3>1, <3>2, <3>3, <3>5
    <3>6. CASE c # o /\ e # o
      BY <1>3, <2>1, <3>2, <3>3, <3>6
    <3>7. QED
      BY <3>4, <3>5, <3>6
  <2>4. QED
    BY <2>2, <2>3
<1>9. ASSUME NEW c \in allComponents', heap'[c].type = "function" PROVE \E d \in Functions' : Declares(d, c)'
  <2>1. CASE c \in allComponents
    <3>1. heap[c].type = "function"
      BY <1>3, <1>9, <2>1
    <3>2. PICK d \in Functions : Declares(d, c)
      BY <2>1, <3>1 DEF FunctionStore
    <3>3. Declares(d, c)'
      BY <1>3, <1>4, <2>1, <3>2 DEF Declares, Matches
    <3>4. QED
      BY <1>4, <3>3
  <2>2. CASE c \notin allComponents
    <3>1. static /\ c = o /\ ty = "function"
      BY <1>2, <1>9, <2>2
    <3>2. PICK d \in Functions : Decl(d).static = TRUE /\ Decl(d).name = n /\ d \in Range(TopLevel)
      BY <3>1
    <3>3. heap'[c].local = TRUE
      BY <1>2, <3>1
    <3>4. Declares(d, c)'
      BY <1>2, <1>4, <3>1, <3>2, <3>3 DEF Declares, Matches
    <3>5. QED
      BY <1>4, <3>4
  <2>3. QED
    BY <2>1, <2>2
<1>10. argscomplete' \subseteq 1..Len(heap')
  BY <1>3 DEF FunctionStore
<1>11. QED
  BY <1>5, <1>6, <1>7, <1>8, <1>9, <1>10 DEF FunctionStore, Matches

-----------------------------------------------------------------------------
(* Steps                                                                   *)

FSound == Inv /\ Prototyped /\ FunctionInv

(* The store and the references only grow while a unit is visited.         *)
Advances == /\ StoreKept /\ FunctionStore' /\ UNCHANGED Unit
            /\ Components \subseteq Components' /\ references \subseteq references'

LEMMA FSoundFits ==
  ASSUME FSound
  PROVE  /\ program \in Programs /\ NestingInv /\ StoreFits /\ Calls(stack) /\ IsSeq(stack)
         /\ FunctionStore /\ UnitFits /\ Held \subseteq 1..Len(heap) /\ Held = Stored
  BY DEF FSound, Inv, FunctionInv, NestingInv, Calls, StoreFits, Held, Stored

LEMMA Advanced ==
  ASSUME FSound, Advances
  PROVE  /\ program' = program /\ TopLevel' = TopLevel /\ Functions' = Functions
         /\ Held \subseteq Held' /\ (\A c \in Held : heap'[c] = heap[c])
         /\ \A d : Decl(d)' = Decl(d) /\ (NamedType(d)' <=> NamedType(d)) /\ ModelType(d)' = ModelType(d)
<1>1. program' = program /\ TU' = TU /\ TopLevel' = TopLevel
  BY DEF Advances, Unit, TU, TopLevel
<1>2. Held \subseteq Held' /\ \A c \in Held : heap'[c] = heap[c]
  BY FSoundFits DEF Advances, StoreKept, Stored, Held
<1>3. QED
  BY <1>1, <1>2, SourcesKept

LEMMA DeclaresKept ==
  ASSUME FSound, Advances, NEW d, NEW c \in Held PROVE Declares(d, c)' <=> Declares(d, c)
<1>1. TopLevel' = TopLevel /\ Decl(d)' = Decl(d) /\ heap'[c] = heap[c]
  BY Advanced
<1>2. QED
  BY <1>1 DEF Declares, Matches

LEMMA RefersKept ==
  ASSUME FSound, Advances, NEW c, NEW t, NEW ref, Refers(c, t, ref) PROVE Refers(c, t, ref)'
<1>1. Components \subseteq Held
  BY DEF Held
<1>2. Decl(t)' = Decl(t) /\ (NamedType(t)' <=> NamedType(t)) /\ ModelType(t)' = ModelType(t)
  BY Advanced
<1>3. ASSUME NamedType(t)
      PROVE  (\E s \in Components : <<c, s, ref>> \in references /\ Matches(s, ModelType(t), Decl(t).name))'
  <2>1. PICK s \in Components : <<c, s, ref>> \in references /\ Matches(s, ModelType(t), Decl(t).name)
    BY <1>3 DEF Refers
  <2>2. heap'[s] = heap[s]
    BY <1>1, Advanced
  <2>3. s \in Components' /\ <<c, s, ref>> \in references'
    BY <2>1 DEF Advances
  <2>4. QED
    BY <1>2, <2>1, <2>2, <2>3 DEF Matches
<1>4. QED
  BY <1>2, <1>3 DEF Refers

LEMMA ArguedKept ==
  ASSUME FSound, Advances, NEW c, c \in DOMAIN arguments => c \in DOMAIN arguments' /\ arguments'[c] = arguments[c],
         NEW d, NEW n, Argued(c, d, n)
  PROVE  Argued(c, d, n)'
<1>1. Decl(d)' = Decl(d)
  BY Advanced
<1>2. ASSUME NEW i \in 1..n PROVE Refers(c, Decl(d).params[i].type, <<"argument", i>>)'
  <2>1. PICK u, ref : u = Decl(d).params[i].type /\ ref = <<"argument", i>>
    OBVIOUS
  <2>2. Refers(c, Decl(d).params[i].type, <<"argument", i>>)
    BY DEF Argued
  <2>3. Refers(c, u, ref)
    BY <2>1, <2>2
  <2>4. Refers(c, u, ref)'
    BY <2>3, RefersKept
  <2>5. QED
    BY <1>1, <2>1, <2>4
<1>3. QED
  BY <1>1, <1>2 DEF Argued

(* What a step has to keep of the functions                                *)
LEMMA FunctionMoves ==
  ASSUME FSound, Advances, UnitFits', Reading(stack)',
         \A m \in Making(stack)' : Makes(m)',
         \A d \in Visited' \cap Functions : d \in Visited \/ \E c \in Held' :
           Declares(d, c)' /\ (Decl(d).def => Completed(d, c)'),
         \A d \in Functions : \A c \in Held' : Declares(d, c)' =>
           c \in Held \/ (ReturnReferred(d, c)' /\ c \notin argscomplete'),
         \A d \in Functions : \A c \in Held : Declares(d, c) =>
           /\ Decl(d).def /\ Completed(d, c) => Completed(d, c)'
           /\ ReturnReferred(d, c) => ReturnReferred(d, c)'
           /\ c \in argscomplete' /\ Decl(d).def => Argued(c, d, Len(Decl(d).params))'
  PROVE  FunctionInv'
<1>1. Functions' = Functions /\ (\A d : Decl(d)' = Decl(d)) /\ Held \subseteq Held'
  BY Advanced
<1>2. ASSUME NEW d \in Visited' \cap Functions
      PROVE  \E c \in Held' : Declares(d, c)' /\ (Decl(d).def => Completed(d, c)')
  <2>1. CASE d \in Visited
    <3>1. PICK c \in Held : Declares(d, c) /\ (Decl(d).def => Completed(d, c))
      BY <2>1 DEF FSound, FunctionInv
    <3>2. Declares(d, c)' /\ (Decl(d).def => Completed(d, c)')
      BY <3>1, DeclaresKept
    <3>3. QED
      BY <1>1, <3>2
  <2>2. QED
    BY <1>2, <2>1
<1>3. ASSUME NEW d \in Functions, NEW c \in Held', Declares(d, c)'
      PROVE  /\ ReturnReferred(d, c)'
             /\ c \in argscomplete' /\ Decl(d).def => Argued(c, d, Len(Decl(d).params))'
  <2>1. CASE c \in Held
    <3>1. Declares(d, c)
      BY <1>3, <2>1, DeclaresKept
    <3>2. ReturnReferred(d, c)
      BY <2>1, <3>1 DEF FSound, FunctionInv
    <3>3. QED
      BY <2>1, <3>1, <3>2
  <2>2. QED
    BY <1>3, <2>1
<1>4. FunctionStore'
  BY DEF Advances
<1>5. QED
  BY <1>1, <1>2, <1>3, <1>4 DEF FunctionInv

(* The calls in progress go on, as far as functions are concerned.         *)
Continues(t) ==
  /\ IsSeq(t) /\ Making(t) = Making(stack) /\ (Reading(stack) => Reading(t))
  /\ \A d : Defining(stack, d) => Defining(t, d) \/ HasKey(Held, ModelType(d), Decl(d).name)'

LEMMA ComesKept ==
  ASSUME FSound, Advances, NEW t, stack' = t, Continues(t), NEW d, Comes(d) PROVE Comes(d)'
<1>1. Decl(d)' = Decl(d) /\ (NamedType(d)' <=> NamedType(d)) /\ ModelType(d)' = ModelType(d)
  BY Advanced
<1>2. ASSUME HasKey(Held, ModelType(d), Decl(d).name) PROVE HasKey(Held, ModelType(d), Decl(d).name)'
  <2>1. PICK c \in Held : Matches(c, ModelType(d), Decl(d).name)
    BY <1>2 DEF HasKey
  <2>2. c \in Held' /\ heap'[c] = heap[c]
    BY Advanced
  <2>3. QED
    BY <1>1, <2>1, <2>2 DEF HasKey, Matches
<1>3. QED
  BY <1>1, <1>2 DEF Comes, Continues

LEMMA MakesKept ==
  ASSUME FSound, Advances, UNCHANGED functionVars, Visited \subseteq Visited',
         NEW t, stack' = t, Continues(t), NEW m \in Making(stack)
  PROVE  Makes(m)'
<1>1. /\ Functions' = Functions /\ Held \subseteq Held' /\ Decl(m.D)' = Decl(m.D)
      /\ arguments' = arguments /\ argscomplete' = argscomplete
  BY Advanced DEF functionVars
<1>2. Makes(m)
  BY DEF FSound, FunctionInv
<1>3. m.D \in Visited' /\ m.D \in Functions /\ m.C \in Held /\ Declares(m.D, m.C) /\ Declares(m.D, m.C)'
  <2>1. m.D \in Visited /\ m.D \in Functions /\ m.C \in Held /\ Declares(m.D, m.C)
    BY <1>2 DEF Makes
  <2>2. QED
    BY <2>1, DeclaresKept
<1>4. m.proc = "function" => m.depth = 0 /\ (m.at = "retry" => Comes(Decl(m.D).type)')
  <2>1. PICK u : u = Decl(m.D).type
    OBVIOUS
  <2>2. m.proc = "function" => m.depth = 0 /\ (m.at = "retry" => Comes(u))
    BY <1>2, <2>1 DEF Makes
  <2>3. Comes(u) => Comes(u)'
    BY ComesKept
  <2>4. QED
    BY <1>1, <2>1, <2>2, <2>3
<1>5. ASSUME m.proc = "params"
      PROVE  /\ m.depth = 1
             /\ (\E f \in Making(stack) : f.proc = "function" /\ f.D = m.D /\ f.C = m.C /\ f.at = "macros")'
             /\ (m.i \in 1..Len(Decl(m.D).params) + 1 /\ Argued(m.C, m.D, m.i - 1))'
             /\ (m.at = "retry" => Comes(Decl(m.D).params[m.i].type))'
             /\ (m.C \in argscomplete => \A d \in Functions :
                  Decl(d).def /\ Declares(d, m.C) => Decl(m.D).params = <<>>)'
  <2>1. PICK ps, u, n, c : ps = Decl(m.D).params /\ u = ps[m.i].type /\ n = m.i - 1 /\ c = m.C
    OBVIOUS
  <2>2. /\ m.depth = 1
        /\ \E f \in Making(stack) : f.proc = "function" /\ f.D = m.D /\ f.C = m.C /\ f.at = "macros"
        /\ m.i \in 1..Len(ps) + 1 /\ Argued(c, m.D, n)
        /\ m.at = "retry" => Comes(u)
        /\ c \in argscomplete => \A d \in Functions : Decl(d).def /\ Declares(d, c) => ps = <<>>
    BY <1>2, <1>5, <2>1 DEF Makes
  <2>3. Argued(c, m.D, n)'
    BY <1>1, <2>2, ArguedKept
  <2>4. Comes(u) => Comes(u)'
    BY ComesKept
  <2>5. Making(stack)' = Making(stack)
    BY DEF Continues
  <2>6. (c \in argscomplete => \A d \in Functions : Decl(d).def /\ Declares(d, c) => ps = <<>>)'
    <3>1. \A d : Decl(d)' = Decl(d) /\ (Declares(d, c)' <=> Declares(d, c))
      BY <1>3, <2>1, Advanced, DeclaresKept
    <3>2. QED
      BY <1>1, <2>2, <3>1
  <2>7. QED
    BY <1>1, <2>1, <2>2, <2>3, <2>4, <2>5, <2>6
<1>6. QED
  BY <1>1, <1>3, <1>4, <1>5 DEF Makes

(* A step that is about no function                                        *)
LEMMA PlainFunction ==
  ASSUME FSound, Advances, UNCHANGED <<visited, functionVars>>, NEW t, stack' = t, Continues(t),
         \A c \in Held' : heap'[c].type = "function" => c \in Held
  PROVE  FunctionInv'
<1>1. Making(stack)' = Making(stack) /\ Visited' = Visited
  BY DEF Continues, Advances, Unit, clangVars, Visited, TopLevel, TU
<1>2. arguments' = arguments /\ argscomplete' = argscomplete /\ Functions' = Functions
  BY Advanced DEF functionVars
<1>3. UnitFits'
  BY DEF FSound, FunctionInv, UnitFits, Advances, Unit, clangVars, Visited, TopLevel, TU
<1>4. Reading(stack)'
  <2>1. program' = program
    BY Advanced
  <2>2. Reading(t)' <=> Reading(t)
    BY <2>1, SourcesKept
  <2>3. Reading(t)
    BY DEF FSound, FunctionInv, Continues
  <2>4. QED
    BY <2>2, <2>3 DEF Reading
<1>5. \A m \in Making(stack)' : Makes(m)'
  BY <1>1, MakesKept
<1>6. ASSUME NEW d \in Functions, NEW c \in Held', Declares(d, c)' PROVE c \in Held
  BY <1>6 DEF Declares, Matches
<1>7. ASSUME NEW d \in Functions, NEW c \in Held, Declares(d, c)
      PROVE  /\ Decl(d).def /\ Completed(d, c) => Completed(d, c)'
             /\ ReturnReferred(d, c) => ReturnReferred(d, c)'
             /\ c \in argscomplete' /\ Decl(d).def => Argued(c, d, Len(Decl(d).params))'
  <2>1. Completed(d, c) => Completed(d, c)'
    BY <1>1, <1>2 DEF Completed
  <2>2. ReturnReferred(d, c) => ReturnReferred(d, c)'
    <3>1. PICK u : u = Decl(d).type
      OBVIOUS
    <3>2. Decl(d)' = Decl(d)
      BY Advanced
    <3>3. Refers(c, u, <<"return", -1>>) => Refers(c, u, <<"return", -1>>)'
      BY RefersKept
    <3>4. QED
      BY <1>1, <3>1, <3>2, <3>3 DEF ReturnReferred
  <2>3. ASSUME c \in argscomplete', Decl(d).def PROVE Argued(c, d, Len(Decl(d).params))'
    <3>1. PICK n : n = Len(Decl(d).params)
      OBVIOUS
    <3>2. Argued(c, d, n)
      BY <1>2, <1>7, <2>3, <3>1 DEF FSound, FunctionInv
    <3>3. Argued(c, d, n)'
      BY <1>2, <3>2, ArguedKept
    <3>4. Decl(d)' = Decl(d)
      BY Advanced
    <3>5. QED
      BY <3>1, <3>3, <3>4
  <2>4. QED
    BY <2>1, <2>2, <2>3
<1>8. QED
  BY <1>1, <1>3, <1>4, <1>5, <1>6, <1>7, FunctionMoves

-----------------------------------------------------------------------------
(* Calls that go on                                                        *)

Likewise(s) == IsSeq(s) /\ Len(s) = Len(stack) /\ \A k \in 1..Len(stack) : Like(stack[k], s[k])
Harmless(f) == f.proc \notin Functional /\ Reads(f)

LEMMA LikeItself == ASSUME NEW f PROVE Like(f, f)
  BY DEF Like

LEMMA LikeTwice == ASSUME NEW f, NEW g, NEW h, Like(f, g), Like(g, h) PROVE Like(f, h)
  BY DEF Like

LEMMA LikewiseSelf == ASSUME FSound PROVE Likewise(stack)
  BY FSoundFits, LikeItself DEF Likewise

LEMMA LikewisePut ==
  ASSUME NEW s, Likewise(s), NEW n, NEW g, n \in 1..Len(s) => Like(s[n], g), NEW t, t = Put(s, n, g)
  PROVE  Likewise(t)
<1>1. IsSeq(t) /\ Len(t) = Len(s) /\ \A k \in 1..Len(s) : t[k] = IF k = n THEN g ELSE s[k]
  BY ExceptAny DEF Likewise
<1>2. ASSUME NEW k \in 1..Len(stack) PROVE Like(stack[k], t[k])
  <2>1. Like(stack[k], s[k]) /\ k \in 1..Len(s)
    BY DEF Likewise
  <2>2. CASE k = n
    <3>1. t[k] = g /\ Like(s[k], g)
      BY <1>1, <2>1, <2>2
    <3>2. QED
      BY <2>1, <3>1, LikeTwice
  <2>3. CASE k # n
    BY <1>1, <2>1, <2>3
  <2>4. QED
    BY <2>2, <2>3
<1>3. QED
  BY <1>1, <1>2 DEF Likewise

LEMMA LikewiseContinues == ASSUME NEW s, Likewise(s) PROVE Continues(s)
<1>1. /\ Making(s) = Making(stack)
      /\ \A d : Defining(stack, d) => Defining(s, d)
      /\ Reading(stack) => Reading(s)
  BY LikeStack DEF Likewise
<1>2. QED
  BY <1>1 DEF Continues, Likewise

LEMMA HarmlessOnTop ==
  ASSUME NEW s, Continues(s), NEW f, Harmless(f), NEW t, t = <<f>> \o s PROVE Continues(t)
<1>1. /\ \A m : m \in Making(t) <=> m \in Making(s) \/ (f.proc \in Functional /\ m = View(t, 1))
      /\ \A d : Defining(s, d) => Defining(t, d)
      /\ Reading(s) /\ Reader(f) => Reading(t)
      /\ IsSeq(t)
  BY PushedMaking DEF Continues
<1>2. f.proc \notin Functional /\ Reader(f)
  BY DEF Harmless, Reader, Functional
<1>3. Making(t) = Making(s)
  BY <1>1, <1>2 DEF Making
<1>4. QED
  BY <1>1, <1>2, <1>3 DEF Continues

(* The innermost call returns: one about no function, nor about a typedef  *)
(* that is not there.                                                      *)
LEMMA ContinuesWithout ==
  ASSUME NEW s, Continues(s), s # <<>>, s[1].proc \notin Functional,
         s[1].proc = "typedef" /\ s[1].at # "link" => HasKey(Held, ModelType(s[1].D), Decl(s[1].D).name)',
         NEW t, t = Tail(s)
  PROVE  Continues(t)
<1>1. /\ \A m : m \in Making(s) <=> m \in Making(t) \/ (s[1].proc \in Functional /\ m = View(s, 1))
      /\ \A d : Defining(s, d) => Defining(t, d) \/ (s[1].proc = "typedef" /\ s[1].D = d /\ s[1].at # "link")
      /\ Reading(s) => Reading(t)
      /\ IsSeq(t)
  BY PoppedMaking DEF Continues
<1>2. Making(t) = Making(s)
  BY <1>1 DEF Making
<1>3. QED
  BY <1>1, <1>2 DEF Continues

LEMMA LikewiseTail ==
  ASSUME NEW s, Likewise(s), stack # <<>>, FSound
  PROVE  s # <<>> /\ Like(stack[1], s[1]) /\ 1 \in 1..Len(s) /\ Head(stack) = stack[1]
<1>1. 1 \in 1..Len(stack) /\ Head(stack) = stack[1]
  BY FSoundFits, Popped
<1>2. QED
  BY <1>1, EmptyIsSeq DEF Likewise

-----------------------------------------------------------------------------
(* Entering a declaration                                                  *)

(* Nothing is bound, or something that is no function.                     *)
BindsPlain == \/ UNCHANGED <<heap, allComponents, Components>>
              \/ \E ty, n, static :
                   /\ BindNew(ty, n, static) /\ Lookup(ty, n, static) = NULL
                   /\ ty # "function" /\ (static => ty = "global")

LEMMA PlainAdvances ==
  ASSUME FSound, UNCHANGED Unit, UNCHANGED functionVars, references \subseteq references', BindsPlain
  PROVE  Advances /\ \A c \in Held' : heap'[c].type = "function" => c \in Held
<1>1. program' = program /\ TranslationUnits' = TranslationUnits /\ argscomplete' = argscomplete
  BY DEF Unit, functionVars
<1>2. CASE UNCHANGED <<heap, allComponents, Components>>
  <2>1. StoreKept
    BY <1>2, FSoundFits, QuietStore
  <2>2. argscomplete' \subseteq 1..Len(heap)
    BY <1>1, FSoundFits DEF FunctionStore
  <2>3. FunctionStore'
    BY <1>1, <1>2, <2>2, FSoundFits, StoreStays
  <2>4. QED
    BY <1>2, <2>1, <2>3 DEF Advances, Held
<1>3. ASSUME NEW ty, NEW n, NEW static, BindNew(ty, n, static), Lookup(ty, n, static) = NULL,
             ty # "function", static => ty = "global"
      PROVE  Advances /\ \A c \in Held' : heap'[c].type = "function" => c \in Held
  <2>1. PICK o : o = Len(heap) + 1
    OBVIOUS
  <2>2. /\ StoreKept /\ heap'[o].type = ty
        /\ IF static THEN allComponents' = allComponents \cup {o} /\ Components' = Components
                     ELSE allComponents' = allComponents /\ Components' = Components \cup {o}
    BY <1>3, <2>1, FSoundFits, BoundComponent
  <2>3. FunctionStore'
    BY <1>1, <1>3, FSoundFits, StoreGrows
  <2>4. Components \subseteq Components' /\ \A c \in Held' : c = o \/ c \in Held
    BY <2>2 DEF Held
  <2>5. QED
    BY <1>3, <2>2, <2>3, <2>4 DEF Advances
<1>4. QED
  BY <1>2, <1>3 DEF BindsPlain

LEMMA HarmlessFrame ==
  ASSUME NEW p, p \notin {"function", "params", "stmt", "init"}, NEW d, NEW c, NEW f, f.proc = p
  PROVE  Harmless(f)
  BY DEF Harmless, Functional, Reads

(* A declaration that is no function                                       *)
LEMMA EnterPlain ==
  ASSUME FSound, NEW d, NEW t,
         \/ \E top : IsTag(d) /\ EnterTag(d, top, t)
         \/ Declared(d) /\ Decl(d).kind = "var" /\ EnterVar(d, t)
         \/ EnterTypedef(d, t)
  PROVE  /\ BindsPlain
         /\ stack' = t \/ \E f : Harmless(f) /\ stack' = <<f>> \o t
<1>1. ASSUME NEW top, IsTag(d), EnterRecord(d, top, t)
      PROVE  /\ BindsPlain
             /\ stack' = t \/ \E f : Harmless(f) /\ stack' = <<f>> \o t
  <2>1. BindsPlain
    BY <1>1 DEF EnterRecord, BindsPlain, Bound, Lookup
  <2>0. PICK c : c = Own(LookupFull("struct", names[d]))
    OBVIOUS
  <2>2. PICK f : f = [Frame("record", d, c) EXCEPT !.top = top,
                        !.related = IF top THEN Related(d) ELSE {}]
    OBVIOUS
  <2>3. f.proc = "record"
    BY <2>2 DEF Frame
  <2>4. stack' = t \/ stack' = <<f>> \o t
    BY <1>1, <2>0, <2>2 DEF EnterRecord
  <2>5. QED
    BY <2>1, <2>3, <2>4, HarmlessFrame
<1>2. ASSUME IsTag(d), EnterEnum(d, t)
      PROVE  /\ BindsPlain
             /\ stack' = t \/ \E f : Harmless(f) /\ stack' = <<f>> \o t
  <2>1. BindsPlain
    BY <1>2 DEF EnterEnum, BindsPlain, Bound, Lookup
  <2>2. PICK f, c : f = Frame("enum", d, c) /\ (stack' = t \/ stack' = <<f>> \o t)
    BY <1>2 DEF EnterEnum
  <2>3. f.proc = "enum"
    BY <2>2 DEF Frame
  <2>4. QED
    BY <2>1, <2>2, <2>3, HarmlessFrame
<1>3. ASSUME Declared(d), Decl(d).kind = "var", EnterVar(d, t)
      PROVE  /\ BindsPlain
             /\ stack' = t \/ \E f : Harmless(f) /\ stack' = <<f>> \o t
  <2>1. BindsPlain
    BY <1>3 DEF EnterVar, BindsPlain, Bound
  <2>2. PICK f, c : f = Frame("var", d, c) /\ (stack' = t \/ stack' = <<f>> \o t)
    BY <1>3 DEF EnterVar
  <2>3. f.proc = "var"
    BY <2>2 DEF Frame
  <2>4. QED
    BY <2>1, <2>2, <2>3, HarmlessFrame
<1>4. ASSUME EnterTypedef(d, t)
      PROVE  /\ BindsPlain
             /\ stack' = t \/ \E f : Harmless(f) /\ stack' = <<f>> \o t
  <2>1. PICK f : f = Frame("typedef", d, NULL) /\ stack' = <<f>> \o t
    BY <1>4 DEF EnterTypedef
  <2>2. f.proc = "typedef"
    BY <2>1 DEF Frame
  <2>3. QED
    BY <1>4, <2>1, <2>2, HarmlessFrame DEF EnterTypedef, BindsPlain, Bound
<1>5. QED
  BY <1>1, <1>2, <1>3, <1>4 DEF EnterTag

-----------------------------------------------------------------------------
(* How the innermost call goes on                                          *)

(* Only where it is changes.                                               *)
LEMMA LikeAt ==
  ASSUME NEW f, f.proc \notin Functional, NEW l, f.proc = "typedef" => l # "link",
         f.proc = "stmt" => f.at # "leave" \/ l = "leave" \/ (Reader(f) => f.n < Len(f.nodes)),
         NEW g, g = [f EXCEPT !.at = l]
  PROVE  Like(f, g)
<1>1. g.proc = f.proc /\ g.D = f.D
  OBVIOUS
<1>2. f.proc = "typedef" /\ g.at = "link" => f.at = "link"
  OBVIOUS
<1>3. ASSUME Reader(f), f.proc = "stmt" PROVE Reader(g)
  <2>1. /\ {"n", "at", "nodes"} \subseteq DOMAIN f /\ IsBody(program, f.nodes)
        /\ f.n \in 1..Len(f.nodes) /\ (f.at # "leave" => f.n < Len(f.nodes))
    BY <1>3 DEF Reader, Reads
  <2>2. {"n", "at", "nodes"} \subseteq DOMAIN g /\ g.n = f.n /\ g.nodes = f.nodes /\ g.at = l
    BY <2>1
  <2>3. l # "leave" => f.n < Len(f.nodes)
    BY <1>3, <2>1
  <2>4. QED
    BY <1>1, <1>3, <2>1, <2>2, <2>3 DEF Reader, Reads
<1>4. ASSUME Reader(f), f.proc # "stmt" PROVE Reader(g)
  <2>1. f.proc = "init" => g.i = f.i /\ g.k = f.k /\ {"i", "k"} \subseteq DOMAIN f /\ DOMAIN g = DOMAIN f
    BY <1>4 DEF Reader, Reads
  <2>2. QED
    BY <1>1, <1>4, <2>1 DEF Reader, Reads, Functional
<1>5. QED
  BY <1>1, <1>2, <1>3, <1>4 DEF Like

LEMMA LikeRelated ==
  ASSUME NEW f, NEW v, NEW g, g = [f EXCEPT !.related = v] PROVE Like(f, g)
<1>1. g.proc = f.proc /\ g.D = f.D /\ g.C = f.C /\ g.at = f.at /\ g.i = f.i /\ g.k = f.k /\ g.n = f.n
      /\ g.nodes = f.nodes /\ DOMAIN g = DOMAIN f
  OBVIOUS
<1>2. QED
  BY <1>1 DEF Like, Reader, Reads

(* Something that tells nothing of functions does.                         *)
LEMMA LikeOthers ==
  ASSUME NEW f, f.proc \notin Functional \cup {"stmt", "init", "typedef"}, NEW g, g.proc = f.proc, g.D = f.D
  PROVE  Like(f, g)
  BY DEF Like, Reader, Reads, Functional

LEMMA LikewiseAt ==
  ASSUME FSound, stack # <<>>, NEW l, stack[1].proc \notin Functional, stack[1].proc = "typedef" => l # "link",
         stack[1].proc = "stmt" => stack[1].at # "leave" \/ l = "leave",
         NEW t, t = At(l)
  PROVE  Likewise(t) /\ t # <<>> /\ t[1].proc = stack[1].proc /\ t[1].D = stack[1].D
<1>1. PICK g : g = [stack[1] EXCEPT !.at = l]
  OBVIOUS
<1>2. t = Put(stack, 1, g)
  BY <1>1 DEF At, Put
<1>3. Like(stack[1], g)
  BY <1>1, LikeAt
<1>4. Likewise(t)
  BY <1>2, <1>3, LikewiseSelf, LikewisePut
<1>5. t # <<>> /\ Like(stack[1], t[1])
  BY <1>4, LikewiseTail
<1>6. QED
  BY <1>4, <1>5 DEF Like

(* A call of a record, an enum or a variable goes on.                      *)
LEMMA LikewiseOther ==
  ASSUME FSound, stack # <<>>, stack[1].proc \notin Functional \cup {"stmt", "init", "typedef"},
         NEW s, Likewise(s), NEW g, g.proc = s[1].proc, g.D = s[1].D, NEW t, t = Put(s, 1, g)
  PROVE  Likewise(t)
<1>1. Like(stack[1], s[1])
  BY LikewiseTail
<1>2. s[1].proc \notin Functional \cup {"stmt", "init", "typedef"}
  BY <1>1 DEF Like
<1>3. Like(s[1], g)
  BY <1>2, LikeOthers
<1>4. QED
  BY <1>3, LikewisePut

LEMMA LikewiseRelated ==
  ASSUME NEW s, Likewise(s), NEW n, NEW v, NEW t, t = PutRelated(s, n, v) PROVE Likewise(t)
<1>1. PICK g : g = [s[n] EXCEPT !.related = v]
  OBVIOUS
<1>2. t = Put(s, n, g) /\ Like(s[n], g)
  BY <1>1, LikeRelated DEF Put, PutRelated
<1>3. QED
  BY <1>2, LikewisePut

(* The next field, enumerator, node or element                             *)
LEMMA LikewiseNext ==
  ASSUME FSound, stack # <<>>, NEW t,
         \/ stack[1].proc = "record" /\ t = NextField
         \/ stack[1].proc = "enum" /\ t = [stack EXCEPT ![1].i = @ + 1]
         \/ stack[1].proc = "stmt" /\ stack[1].at # "leave" /\ t = NextNode
         \/ stack[1].proc = "init" /\ t \in {NextElement, NextSub}
         \/ stack[1].proc = "init" /\ \E v : t = [NextSub EXCEPT ![1].last = v]
  PROVE  Likewise(t)
<1>0. Reader(stack[1])
  BY LikewiseSelf, LikewiseTail DEF FSound, FunctionInv, Reading, Reader
<1>1. CASE stack[1].proc = "record" /\ t = NextField
  <2>1. PICK s : s = At("start")
    OBVIOUS
  <2>2. Likewise(s) /\ s[1].proc = "record"
    BY <1>1, <2>1, LikewiseAt DEF Functional
  <2>3. PICK g : g = [s[1] EXCEPT !.i = @ + 1]
    OBVIOUS
  <2>4. t = Put(s, 1, g) /\ g.proc = s[1].proc /\ g.D = s[1].D
    BY <1>1, <2>1, <2>3 DEF NextField, Put
  <2>5. QED
    BY <1>1, <2>2, <2>4, LikewiseOther DEF Functional
<1>2. CASE stack[1].proc = "enum" /\ t = [stack EXCEPT ![1].i = @ + 1]
  <2>1. PICK g : g = [stack[1] EXCEPT !.i = @ + 1]
    OBVIOUS
  <2>2. t = Put(stack, 1, g) /\ g.proc = stack[1].proc /\ g.D = stack[1].D
    BY <1>2, <2>1 DEF Put
  <2>3. QED
    BY <1>2, <2>2, LikewiseSelf, LikewiseOther DEF Functional
<1>3. CASE stack[1].proc = "stmt" /\ stack[1].at # "leave" /\ t = NextNode
  <2>1. PICK f : f = stack[1]
    OBVIOUS
  <2>2. /\ {"n", "at", "nodes"} \subseteq DOMAIN f /\ IsBody(program, f.nodes)
        /\ f.n \in 1..Len(f.nodes) /\ f.n < Len(f.nodes) /\ f.proc = "stmt"
    BY <1>0, <1>3, <2>1 DEF Reader, Reads
  <2>3. PICK g : g = [f EXCEPT !.at = "leave", !.n = @ + 1]
    OBVIOUS
  <2>4. t = Put(stack, 1, g)
    BY <1>3, <2>1, <2>3 DEF NextNode, Put
  <2>5. /\ {"n", "at", "nodes"} \subseteq DOMAIN g /\ g.nodes = f.nodes /\ g.n = f.n + 1 /\ g.at = "leave"
        /\ g.proc = "stmt" /\ g.D = f.D
    BY <2>2, <2>3
  <2>6. g.n \in 1..Len(g.nodes)
    BY <2>2, <2>5 DEF IsBody, IsSeq
  <2>7. Like(f, g)
    BY <2>2, <2>5, <2>6 DEF Like, Reader, Reads, Functional
  <2>8. QED
    BY <2>1, <2>4, <2>7, LikewiseSelf, LikewisePut
<1>4. ASSUME stack[1].proc = "init" PROVE Likewise(NextElement) /\ Likewise(NextSub)
  <2>1. PICK f : f = stack[1]
    OBVIOUS
  <2>2. {"i", "k"} \subseteq DOMAIN f /\ Declared(f.D) /\ f.i \in Nat \ {0} /\ f.k \in Nat \ {0} /\ f.proc = "init"
    BY <1>0, <1>4, <2>1 DEF Reader, Reads
  <2>3. PICK g : g = [f EXCEPT !.i = @ + 1, !.k = 1]
    OBVIOUS
  <2>4. PICK h : h = [f EXCEPT !.k = @ + 1]
    OBVIOUS
  <2>5. NextElement = Put(stack, 1, g) /\ NextSub = Put(stack, 1, h)
    BY <2>1, <2>3, <2>4 DEF NextElement, NextSub, Put
  <2>6. Like(f, g)
    <3>1. g.proc = "init" /\ g.D = f.D /\ DOMAIN g = DOMAIN f /\ g.i = f.i + 1 /\ g.k = 1
      BY <2>2, <2>3
    <3>2. QED
      BY <2>2, <3>1 DEF Like, Reader, Reads, Functional
  <2>7. Like(f, h)
    <3>1. h.proc = "init" /\ h.D = f.D /\ DOMAIN h = DOMAIN f /\ h.i = f.i /\ h.k = f.k + 1
      BY <2>2, <2>4
    <3>2. QED
      BY <2>2, <3>1 DEF Like, Reader, Reads, Functional
  <2>8. QED
    BY <2>1, <2>5, <2>6, <2>7, LikewiseSelf, LikewisePut
<1>5. ASSUME stack[1].proc = "init", NEW v, t = [NextSub EXCEPT ![1].last = v] PROVE Likewise(t)
  <2>1. PICK s : s = NextSub
    OBVIOUS
  <2>2. PICK g : g = [s[1] EXCEPT !.last = v]
    OBVIOUS
  <2>3. t = Put(s, 1, g)
    BY <1>5, <2>1, <2>2 DEF Put
  <2>4. g.proc = s[1].proc /\ g.D = s[1].D /\ g.C = s[1].C /\ g.at = s[1].at /\ g.i = s[1].i /\ g.k = s[1].k
        /\ g.n = s[1].n /\ g.nodes = s[1].nodes /\ DOMAIN g = DOMAIN s[1]
    BY <2>2
  <2>5. Like(s[1], g)
    BY <2>4 DEF Like, Reader, Reads
  <2>6. QED
    BY <1>4, <1>5, <2>1, <2>3, <2>5, LikewisePut
<1>6. QED
  BY <1>1, <1>2, <1>3, <1>4, <1>5

-----------------------------------------------------------------------------
(* Types                                                                   *)

LEMMA TypeNamed ==
  ASSUME FSound, NEW t, IsType(program, t), t # 0
  PROVE  /\ Declared(t) /\ ModelType(t) \in {"struct", "enum", "typedef"}
         /\ IsTag(t) \/ (~IsTag(t) /\ Decl(t).kind = "typedef")
         /\ NamedType(t) => names[t] = Decl(t).name /\ Structure(t) = LookupFull(ModelType(t), Decl(t).name)
         /\ (Structure(t) # NULL /\ NamedType(t)) => /\ Structure(t) \in Components
                                                    /\ Matches(Structure(t), ModelType(t), Decl(t).name)
         /\ (NamedType(t) /\ HasKey(Held, ModelType(t), Decl(t).name)) => Structure(t) # NULL
<1>1. Declared(t) /\ Decl(t).kind \in {"record", "enum", "typedef"}
  BY DEF IsType, Declared, Decl
<1>2. ModelType(t) \in {"struct", "enum", "typedef"} /\ (IsTag(t) \/ (~IsTag(t) /\ Decl(t).kind = "typedef"))
  BY <1>1 DEF ModelType, IsTag
<1>3. ASSUME NamedType(t) PROVE names[t] = Decl(t).name
  <2>1. t \in DOMAIN names
    BY <1>1, FSoundFits DEF NestingInv, Declared
  <2>2. WellNamed(t)
    BY <2>1, FSoundFits DEF NestingInv
  <2>3. QED
    BY <1>3, <2>2 DEF WellNamed, NamedType
<1>4. NamedType(t) => Structure(t) = LookupFull(ModelType(t), Decl(t).name)
  BY <1>3 DEF Structure
<1>5. PICK ty, n : ty = ModelType(t) /\ n = Decl(t).name
  OBVIOUS
<1>6. /\ LookupFull(ty, n) = NULL <=> ~HasKey(Components, ty, n)
      /\ LookupFull(ty, n) # NULL => LookupFull(ty, n) \in Components /\ Matches(LookupFull(ty, n), ty, n)
  <2>1. ~HasKey(allComponents, ty, n)
    BY <1>2, <1>5, FSoundFits, NotCached
  <2>2. QED
    BY <2>1, FSoundFits, FoundByKey
<1>7. HasKey(Held, ty, n) => LookupFull(ty, n) # NULL
  BY FSoundFits, Found
<1>8. QED
  BY <1>1, <1>2, <1>3, <1>4, <1>5, <1>6, <1>7

(* A type is visited: it comes.                                            *)
LEMMA TypeEntered ==
  ASSUME FSound, SameNames, NEW t, IsType(program, t), t # 0, NEW s, IsSeq(s), Enter(t, s)
  PROVE  /\ BindsPlain
         /\ stack' = s \/ \E f : Harmless(f) /\ stack' = <<f>> \o s
         /\ NamedType(t) => HasKey(Held, ModelType(t), Decl(t).name)' \/ Defining(stack', t)
<1>1. Declared(t) /\ (IsTag(t) \/ (~IsTag(t) /\ Decl(t).kind = "typedef"))
  BY TypeNamed
<1>2. (\E top : IsTag(t) /\ EnterTag(t, top, s)) \/ (~IsTag(t) /\ Decl(t).kind = "typedef" /\ EnterTypedef(t, s))
  BY <1>1 DEF Enter, IsTag
<1>3. BindsPlain /\ (stack' = s \/ \E f : Harmless(f) /\ stack' = <<f>> \o s)
  BY <1>2, EnterPlain
<1>4. ASSUME NamedType(t), IsTag(t) PROVE HasKey(Held, ModelType(t), Decl(t).name)'
  <2>1. names[t] = Decl(t).name /\ names[t] # Anonymous
    BY <1>4, TypeNamed DEF NamedType
  <2>2. PICK top : EnterTag(t, top, s)
    BY <1>2, <1>4
  <2>3. Present(t)'
    BY <1>4, <2>1, <2>2, TagShape DEF FSound
  <2>4. names' = names /\ Decl(t)' = Decl(t)
    BY SourcesKept DEF SameNames
  <2>5. QED
    BY <2>1, <2>3, <2>4 DEF Present, Held
<1>5. ASSUME ~IsTag(t) PROVE Defining(stack', t)
  <2>1. PICK f : f = Frame("typedef", t, NULL) /\ stack' = <<f>> \o s
    BY <1>2, <1>5 DEF EnterTypedef
  <2>2. f.proc = "typedef" /\ f.at = "start" /\ f.D = t
    BY <2>1 DEF Frame
  <2>3. PICK u : u = <<f>> \o s
    OBVIOUS
  <2>4. Defining(u, f.D)
    BY <2>2, <2>3, PushedMaking
  <2>5. QED
    BY <2>1, <2>2, <2>3, <2>4
<1>6. QED
  BY <1>3, <1>4, <1>5

(* A step that is about no function: the calls go on as they are, or under *)
(* one more.                                                               *)
LEMMA PlainStep ==
  ASSUME FSound, UNCHANGED Unit, UNCHANGED <<visited, functionVars>>, references \subseteq references', BindsPlain,
         NEW s, Continues(s), stack' = s \/ \E f : Harmless(f) /\ stack' = <<f>> \o s
  PROVE  FunctionInv'
<1>1. Advances /\ \A c \in Held' : heap'[c].type = "function" => c \in Held
  BY PlainAdvances
<1>2. CASE stack' = s
  BY <1>1, <1>2, PlainFunction
<1>3. ASSUME NEW f, Harmless(f), stack' = <<f>> \o s PROVE FunctionInv'
  <2>1. PICK t : t = <<f>> \o s
    OBVIOUS
  <2>2. Continues(t)
    BY <1>3, <2>1, HarmlessOnTop
  <2>3. stack' = t
    BY <1>3, <2>1
  <2>4. QED
    BY <1>1, <2>2, <2>3, PlainFunction
<1>4. QED
  BY <1>2, <1>3

(* ... or without the innermost one.                                       *)
LEMMA ReturnStep ==
  ASSUME FSound, UNCHANGED Unit, UNCHANGED <<visited, functionVars>>, references \subseteq references', BindsPlain,
         stack # <<>>, stack[1].proc \notin Functional,
         NEW s, Likewise(s), s[1].proc = "typedef" /\ s[1].at # "link" => HasKey(Held, ModelType(s[1].D), Decl(s[1].D).name)',
         NEW u, u = Tail(s), stack' = u \/ \E f : Harmless(f) /\ stack' = <<f>> \o u
  PROVE  FunctionInv'
<1>1. s # <<>> /\ Like(stack[1], s[1])
  BY LikewiseTail
<1>2. Continues(s)
  BY LikewiseContinues
<1>3. s[1].proc \notin Functional
  BY <1>1 DEF Like
<1>4. Continues(u)
  BY <1>1, <1>2, <1>3, ContinuesWithout
<1>5. QED
  BY <1>4, PlainStep

(* DiscoverTypeReferences of a call that is about no function              *)
LEMMA DiscoverFunction ==
  ASSUME FSound, UNCHANGED Unit, UNCHANGED functionVars, stack # <<>>,
         stack[1].proc \notin Functional \cup {"typedef"}, stack[1].proc = "stmt" => stack[1].at # "leave",
         NEW t, IsType(program, t), NEW r, NEW s, Likewise(s),
         \/ DiscoverVisits(t)
         \/ DiscoverRefers(t, r, s)
         \/ DiscoverFails(t, stack' = s /\ UNCHANGED aborted)
  PROVE  FunctionInv'
<1>1. CASE DiscoverVisits(t)
  <2>1. PICK u : u = At("retry")
    OBVIOUS
  <2>2. Continues(u)
    BY <2>1, LikewiseAt, LikewiseContinues
  <2>3. /\ Enter(t, u) /\ t # 0 /\ UNCHANGED visited /\ SameNames /\ references' = references
    BY <1>1, <2>1 DEF DiscoverVisits, Undiscovered, SameNames, Unit
  <2>4. BindsPlain /\ (stack' = u \/ \E f : Harmless(f) /\ stack' = <<f>> \o u)
    BY <2>2, <2>3, TypeEntered DEF Continues
  <2>5. QED
    BY <2>2, <2>3, <2>4, PlainStep
<1>2. CASE DiscoverRefers(t, r, s) \/ DiscoverFails(t, stack' = s /\ UNCHANGED aborted)
  <2>1. UNCHANGED Bound /\ UNCHANGED visited /\ references \subseteq references' /\ stack' = s
    BY <1>2 DEF DiscoverRefers, DiscoverFails, Discovered
  <2>2. BindsPlain
    BY <2>1 DEF BindsPlain, Bound
  <2>3. QED
    BY <2>1, <2>2, LikewiseContinues, PlainStep
<1>3. QED
  BY <1>1, <1>2

-----------------------------------------------------------------------------
(* The visitors of records, enums, variables and typedefs                  *)

LEMMA InnermostFits ==
  ASSUME FSound, stack # <<>>
  PROVE  Head(stack) = stack[1] /\ Fits(stack[1]) /\ Reader(stack[1]) /\ 1 \in 1..Len(stack)
<1>1. Head(stack) = stack[1] /\ Fits(stack[1]) /\ 1 \in 1..Len(stack)
  BY FSoundFits, NonEmpty
<1>2. QED
  BY <1>1 DEF FSound, FunctionInv, Reading, Reader

LEMMA RenamesFunction ==
  ASSUME FSound, FieldAnonymous \/ VarAnonymous \/ TypedefAnonymous, UNCHANGED Unit, UNCHANGED functionVars
  PROVE  FunctionInv'
<1>1. /\ stack # <<>> /\ Head(stack).proc \in {"record", "var", "typedef"}
      /\ UNCHANGED Bound /\ references' = references /\ visited' = visited
  BY DEF FieldAnonymous, InField, VarAnonymous, TypedefAnonymous, Running
<1>2. PICK f, l : f.proc = "rename" /\ l # "link" /\ stack' = <<f>> \o At(l)
  <2>1. CASE FieldAnonymous
    <3>1. PICK t, l : l = "adopt" /\ stack' = <<Frame("rename", t, NULL)>> \o At(l)
      BY <2>1 DEF FieldAnonymous
    <3>2. Frame("rename", t, NULL).proc = "rename"
      BY DEF Frame
    <3>3. QED
      BY <3>1, <3>2
  <2>2. CASE VarAnonymous \/ TypedefAnonymous
    <3>1. PICK t, l : l \in {"adopt", "bind"} /\ stack' = <<[Frame("rename", t, NULL) EXCEPT !.top = TRUE]>> \o At(l)
      BY <2>2 DEF VarAnonymous, TypedefAnonymous
    <3>2. [Frame("rename", t, NULL) EXCEPT !.top = TRUE].proc = "rename"
      BY DEF Frame
    <3>3. QED
      BY <3>1, <3>2
  <2>3. QED
    BY <2>1, <2>2
<1>3. PICK s : s = At(l)
  OBVIOUS
<1>4. stack[1].proc \in {"record", "var", "typedef"}
  BY <1>1, InnermostFits
<1>5. Continues(s)
  BY <1>1, <1>2, <1>3, <1>4, LikewiseAt, LikewiseContinues DEF Functional
<1>6. Harmless(f) /\ BindsPlain
  BY <1>1, <1>2, HarmlessFrame DEF BindsPlain, Bound
<1>7. QED
  BY <1>1, <1>2, <1>3, <1>5, <1>6, PlainStep

LEMMA VisitsTagFunction ==
  ASSUME FSound, Renamed \/ TypedefVisits, UNCHANGED Unit, UNCHANGED functionVars PROVE FunctionInv'
<1>1. stack # <<>> /\ references' = references /\ visited' = visited
  BY DEF Renamed, TypedefVisits, Running
<1>2. CASE Renamed
  <2>1. stack[1].proc = "rename"
    BY <1>1, <1>2, InnermostFits DEF Renamed, Running
  <2>2. PICK d, top, u : d = Head(stack).D /\ u = Tail(stack) /\ EnterTag(d, top, u)
    BY <1>2 DEF Renamed
  <2>3. IsTag(d)
    BY <1>1, <2>1, <2>2, InnermostFits DEF Fits, Traversing
  <2>4. BindsPlain /\ (stack' = u \/ \E f : Harmless(f) /\ stack' = <<f>> \o u)
    BY <2>2, <2>3, EnterPlain
  <2>5. QED
    BY <1>1, <2>1, <2>2, <2>4, LikewiseSelf, ReturnStep DEF Functional
<1>3. CASE TypedefVisits
  <2>1. stack[1].proc = "typedef"
    BY <1>1, <1>3, InnermostFits DEF TypedefVisits, Running
  <2>2. PICK t, s : s = At("check") /\ IsTag(t) /\ EnterTag(t, TRUE, s)
    BY <1>3 DEF TypedefVisits
  <2>3. Continues(s)
    BY <1>1, <2>1, <2>2, LikewiseAt, LikewiseContinues DEF Functional
  <2>4. BindsPlain /\ (stack' = s \/ \E f : Harmless(f) /\ stack' = <<f>> \o s)
    BY <2>2, EnterPlain
  <2>5. QED
    BY <1>1, <2>3, <2>4, PlainStep
<1>4. QED
  BY <1>2, <1>3

(* Calls that return                                                       *)
LEMMA EndsFunction ==
  ASSUME FSound, RecordEnds \/ EnumEnds \/ TypedefLinks \/ InitEnds, UNCHANGED Unit, UNCHANGED functionVars, ~aborted'
  PROVE  FunctionInv'
<1>1. /\ stack # <<>> /\ Head(stack).proc \in {"record", "enum", "typedef", "init"}
      /\ Head(stack).proc = "typedef" => Head(stack).at = "link"
      /\ UNCHANGED <<heap, allComponents, Components>> /\ references \subseteq references' /\ visited' = visited
      /\ stack' = Tail(stack)
  BY DEF RecordEnds, EnumEnds, TypedefLinks, InitEnds, Initializing, Running, Abort, Bound
<1>2. BindsPlain
  BY <1>1 DEF BindsPlain
<1>3. PICK u : u = Tail(stack)
  OBVIOUS
<1>4. stack[1].proc \notin Functional /\ (stack[1].proc = "typedef" => stack[1].at = "link")
  BY <1>1, InnermostFits DEF Functional
<1>5. QED
  BY <1>1, <1>2, <1>3, <1>4, LikewiseSelf, ReturnStep

(* Records and variables that adopt a structure                            *)
LEMMA AdoptsFunction ==
  ASSUME FSound, FieldAdopt \/ VarAdopt, UNCHANGED Unit, UNCHANGED functionVars, ~aborted' PROVE FunctionInv'
<1>1. /\ stack # <<>> /\ Head(stack).proc \in {"record", "var"}
      /\ UNCHANGED <<heap, allComponents, Components>> /\ references \subseteq references' /\ visited' = visited
  BY DEF FieldAdopt, VarAdopt, InField, Running
<1>2. stack[1].proc \in {"record", "var"}
  BY <1>1, InnermostFits
<1>3. PICK s : Likewise(s) /\ stack' = s
  <2>1. CASE FieldAdopt
    <3>1. PICK s : s = At("field")
      OBVIOUS
    <3>2. Likewise(s)
      BY <1>1, <1>2, <3>1, LikewiseAt DEF Functional
    <3>3. PICK g : g = [s[1] EXCEPT !.anons = @ + 1]
      OBVIOUS
    <3>4. PICK t : t = [stack EXCEPT ![1].at = "field", ![1].anons = @ + 1] /\ stack' = t
      BY <2>1 DEF FieldAdopt, Abort
    <3>5. t = Put(s, 1, g) /\ g.proc = s[1].proc /\ g.D = s[1].D
      BY <3>1, <3>3, <3>4 DEF At, Put
    <3>6. Likewise(t)
      BY <1>1, <1>2, <3>2, <3>5, LikewiseOther DEF Functional
    <3>7. QED
      BY <3>4, <3>6
  <2>2. CASE VarAdopt
    <3>1. PICK s : s = At("macros")
      OBVIOUS
    <3>2. Likewise(s)
      BY <1>1, <1>2, <3>1, LikewiseAt DEF Functional
    <3>3. stack' = s
      BY <2>2, <3>1 DEF VarAdopt, Abort
    <3>4. QED
      BY <3>2, <3>3
  <2>3. QED
    BY <2>1, <2>2
<1>4. BindsPlain
  BY <1>1 DEF BindsPlain
<1>5. QED
  BY <1>1, <1>3, <1>4, LikewiseContinues, PlainStep

LEMMA FieldPushFunction ==
  ASSUME FSound, FieldPush, UNCHANGED Unit, UNCHANGED functionVars PROVE FunctionInv'
<1>1. /\ stack # <<>> /\ Head(stack).proc = "record" /\ BindsPlain
      /\ references' = references /\ visited' = visited
  BY DEF FieldPush, InField, Running, BindsPlain, Bound
<1>2. PICK s, n : s = At("type") /\ n = Owner
  OBVIOUS
<1>3. PICK v : stack' = [s EXCEPT ![n].related = v]
  BY <1>2 DEF FieldPush
<1>4. PICK t : t = PutRelated(s, n, v)
  OBVIOUS
<1>5. stack[1].proc = "record"
  BY <1>1, InnermostFits
<1>6. Likewise(s)
  BY <1>1, <1>2, <1>5, LikewiseAt DEF Functional
<1>7. Likewise(t) /\ stack' = t
  BY <1>3, <1>4, <1>6, LikewiseRelated DEF PutRelated
<1>8. QED
  BY <1>1, <1>7, LikewiseContinues, PlainStep

LEMMA FieldTypeFunction ==
  ASSUME FSound, FieldType, UNCHANGED Unit, UNCHANGED functionVars, ~aborted' PROVE FunctionInv'
<1>1. stack # <<>> /\ Head(stack).proc = "record" /\ Head(stack).i <= Len(Decl(Head(stack).D).fields)
  BY DEF FieldType, InField, Running
<1>2. stack[1].proc = "record" /\ Head(stack) = stack[1] /\ IsTag(stack[1].D) /\ stack[1].i \in Nat \ {0}
  BY <1>1, InnermostFits DEF Fits, Traversing
<1>3. PICK t, r, s : t = Field.type /\ r = <<"field", Head(stack).i>> /\ s = NextField
  OBVIOUS
<1>4. t # 0 => IsTag(t)
  <2>1. WellFormed
    BY FSoundFits, ProgramFits
  <2>2. PICK d, fs, i : d = stack[1].D /\ fs = Decl(d).fields /\ i = stack[1].i
    OBVIOUS
  <2>3. Declared(d) /\ i \in 1..Len(fs) /\ IsSeq(fs)
    BY <1>1, <1>2, <2>1, <2>2 DEF WellFormed, IsTag, Declared, IsSeq
  <2>4. fs = [k \in 1..Len(fs) |-> fs[k]]
    BY <2>3 DEF IsSeq
  <2>5. fs[i] \in Range(fs)
    BY <2>3, <2>4 DEF Range
  <2>6. t = fs[i].type
    BY <1>2, <1>3, <2>2 DEF Field
  <2>7. \A f \in Range(Decl(d).fields) : f.type # 0 => IsTag(f.type)
    BY <2>1, <2>3 DEF WellFormed, Declared
  <2>8. QED
    BY <2>2, <2>5, <2>6, <2>7
<1>5. IsType(program, t)
  BY <1>4 DEF IsType, IsTag, Declared, Decl
<1>6. Likewise(s)
  BY <1>1, <1>2, <1>3, LikewiseNext
<1>7. \/ DiscoverVisits(t)
      \/ DiscoverRefers(t, r, s)
      \/ DiscoverFails(t, stack' = s /\ UNCHANGED aborted)
  BY <1>3 DEF FieldType, DiscoverFails, Abort
<1>8. QED
  BY <1>1, <1>2, <1>5, <1>6, <1>7, DiscoverFunction DEF Functional

LEMMA EnumNextFunction ==
  ASSUME FSound, EnumNext, UNCHANGED Unit, UNCHANGED functionVars PROVE FunctionInv'
<1>1. /\ stack # <<>> /\ Head(stack).proc = "enum" /\ references \subseteq references' /\ visited' = visited
      /\ stack' = [stack EXCEPT ![1].i = @ + 1]
  BY DEF EnumNext, Running
<1>2. BindsPlain
  BY DEF EnumNext, BindsPlain, Bound, Lookup
<1>3. PICK s : s = [stack EXCEPT ![1].i = @ + 1]
  OBVIOUS
<1>4. Likewise(s)
  BY <1>1, <1>3, InnermostFits, LikewiseNext
<1>5. QED
  BY <1>1, <1>2, <1>3, <1>4, LikewiseContinues, PlainStep

(* The type of a declaration                                               *)
LEMMA TypeOfDeclaration == ASSUME FSound, NEW d, Declared(d) PROVE IsType(program, Decl(d).type)
  BY FSoundFits, ProgramForms DEF Declared

LEMMA VarTypeFunction ==
  ASSUME FSound, VarType, UNCHANGED Unit, UNCHANGED functionVars PROVE FunctionInv'
<1>1. stack # <<>> /\ Head(stack).proc = "var"
  BY DEF VarType, Running
<1>2. stack[1].proc = "var" /\ Head(stack) = stack[1] /\ Declared(stack[1].D)
  BY <1>1, InnermostFits DEF Fits
<1>3. PICK t, r, s : t = Decl(Head(stack).D).type /\ r = <<"type", -1>> /\ s = At("macros")
  OBVIOUS
<1>4. IsType(program, t)
  BY <1>2, <1>3, TypeOfDeclaration
<1>5. Likewise(s)
  BY <1>1, <1>2, <1>3, LikewiseAt DEF Functional
<1>6. \/ DiscoverVisits(t)
      \/ DiscoverRefers(t, r, s)
      \/ DiscoverFails(t, stack' = s /\ UNCHANGED aborted)
  BY <1>3 DEF VarType
<1>7. QED
  BY <1>1, <1>2, <1>4, <1>5, <1>6, DiscoverFunction DEF Functional

LEMMA VarGoesFunction ==
  ASSUME FSound, VarNamed \/ VarEnds, UNCHANGED Unit, UNCHANGED functionVars PROVE FunctionInv'
<1>1. /\ stack # <<>> /\ Head(stack).proc = "var" /\ BindsPlain
      /\ references' = references /\ visited' = visited
  BY DEF VarNamed, VarEnds, Running, BindsPlain, Bound
<1>2. stack[1].proc = "var" /\ Head(stack) = stack[1] /\ Declared(stack[1].D)
  BY <1>1, InnermostFits DEF Fits
<1>3. CASE VarNamed
  <2>1. PICK s : s = At("type")
    OBVIOUS
  <2>2. Likewise(s) /\ stack' = s
    BY <1>1, <1>2, <1>3, <2>1, LikewiseAt DEF Functional, VarNamed
  <2>3. QED
    BY <1>1, <2>2, LikewiseContinues, PlainStep
<1>4. CASE VarEnds
  <2>1. PICK u, f : u = Tail(stack) /\ f = Initializer(Head(stack).D, Head(stack).C)
    OBVIOUS
  <2>2. stack' = u \/ stack' = <<f>> \o u
    BY <1>4, <2>1 DEF VarEnds
  <2>3. Harmless(f)
    BY <1>2, <2>1 DEF Harmless, Reads, Initializer, Functional
  <2>4. QED
    BY <1>1, <1>2, <2>1, <2>2, <2>3, LikewiseSelf, ReturnStep DEF Functional
<1>5. QED
  BY <1>3, <1>4

LEMMA TypedefBindsFunction ==
  ASSUME FSound, TypedefBinds, UNCHANGED Unit, UNCHANGED functionVars, ~aborted' PROVE FunctionInv'
<1>1. stack # <<>> /\ Head(stack).proc = "typedef" /\ references' = references /\ visited' = visited
  BY DEF TypedefBinds, Running
<1>2. stack[1].proc = "typedef" /\ Head(stack) = stack[1] /\ Declared(stack[1].D) /\ ModelType(stack[1].D) = "typedef"
  BY <1>1, InnermostFits DEF Fits, ModelType
<1>3. PICK d, n : d = stack[1].D /\ n = Decl(d).name
  OBVIOUS
<1>4. CASE LookupFull("typedef", n) # NULL
  <2>1. stack' = Tail(stack) /\ UNCHANGED Bound
    BY <1>2, <1>3, <1>4 DEF TypedefBinds, Abort
  <2>2. HasKey(Held, "typedef", n)
    BY <1>4, FSoundFits, Found
  <2>3. UNCHANGED <<heap, allComponents, Components>> /\ BindsPlain
    BY <2>1 DEF BindsPlain, Bound
  <2>4. HasKey(Held, "typedef", n)'
    BY <2>2, <2>3 DEF HasKey, Held, Matches
  <2>5. ModelType(d)' = ModelType(d) /\ Decl(d)' = Decl(d)
    BY SourcesKept DEF Unit
  <2>6. PICK s, u : s = stack /\ u = Tail(s)
    OBVIOUS
  <2>7. HasKey(Held, ModelType(s[1].D), Decl(s[1].D).name)'
    <3>1. s[1].D = d
      BY <1>3, <2>6
    <3>2. PICK c \in Held' : heap'[c].type = "typedef" /\ heap'[c].id = n
      BY <2>4 DEF HasKey, Matches
    <3>3. QED
      BY <1>2, <1>3, <2>5, <3>1, <3>2 DEF HasKey, Matches
  <2>8. QED
    BY <1>1, <1>2, <2>1, <2>3, <2>6, <2>7, LikewiseSelf, ReturnStep DEF Functional
<1>5. CASE LookupFull("typedef", n) = NULL
  <2>1. BindNew("typedef", n, FALSE) /\ stack' = [At("link") EXCEPT ![1].C = Len(heap) + 1]
    BY <1>2, <1>3, <1>5 DEF TypedefBinds, Abort
  <2>2. Lookup("typedef", n, FALSE) = NULL
    BY <1>5 DEF Lookup
  <2>3. BindsPlain
    BY <2>1, <2>2 DEF BindsPlain
  <2>4. Advances /\ \A c \in Held' : heap'[c].type = "function" => c \in Held
    BY <1>1, <2>3, PlainAdvances
  <2>5. PICK s, t, o : s = At("link") /\ t = [s EXCEPT ![1].C = o] /\ stack' = t /\ o = Len(heap) + 1
    BY <2>1
  <2>6. PICK f, g : f = [stack[1] EXCEPT !.at = "link"] /\ g = [f EXCEPT !.C = o]
    OBVIOUS
  <2>7. /\ s = Put(stack, 1, f) /\ t = Put(s, 1, g) /\ g.proc = "typedef" /\ g.D = d
        /\ IsSeq(s) /\ Len(s) = Len(stack) /\ \A k \in 1..Len(stack) : s[k] = IF k = 1 THEN f ELSE stack[k]
    <3>1. s = Put(stack, 1, f) /\ f.proc = "typedef" /\ f.D = d
      BY <1>2, <1>3, <2>5, <2>6 DEF At, Put
    <3>2. IsSeq(s) /\ Len(s) = Len(stack) /\ \A k \in 1..Len(stack) : s[k] = IF k = 1 THEN f ELSE stack[k]
      BY <3>1, FSoundFits, ExceptAny
    <3>3. s[1] = f
      BY <1>1, <3>2, InnermostFits
    <3>4. t = Put(s, 1, g)
      BY <2>5, <2>6, <3>3 DEF Put
    <3>5. QED
      BY <2>6, <3>1, <3>2, <3>4
  <2>8. /\ IsSeq(t) /\ Len(t) = Len(stack)
        /\ \A k \in 1..Len(stack) : t[k] = IF k = 1 THEN g ELSE stack[k]
    <3>1. IsSeq(t) /\ Len(t) = Len(s) /\ \A k \in 1..Len(s) : t[k] = IF k = 1 THEN g ELSE s[k]
      BY <2>7, ExceptAny
    <3>2. QED
      BY <2>7, <3>1
  <2>9. \A k \in 1..Len(stack) : stack[k].proc \in Functional => t[k] = stack[k]
    BY <1>2, <2>8 DEF Functional
  <2>10. Reader(g)
    BY <2>7 DEF Reader, Reads
  <2>11. Making(t) = Making(stack)
    <3>1. \A k \in 1..Len(stack) : t[k].proc = stack[k].proc
      BY <1>2, <2>7, <2>8
    <3>2. \A k \in 1..Len(stack) : stack[k].proc \in Functional => View(t, k) = View(stack, k)
      BY <2>9, <2>8 DEF View
    <3>3. \A m : m \in Making(t) <=> m \in Making(stack)
      <4>1. ASSUME NEW m PROVE m \in Making(t) <=> m \in Making(stack)
        <5>1. m \in Making(t) <=> \E k \in 1..Len(t) : t[k].proc \in Functional /\ m = View(t, k)
          BY MakingOf
        <5>2. m \in Making(stack) <=> \E k \in 1..Len(stack) : stack[k].proc \in Functional /\ m = View(stack, k)
          BY MakingOf
        <5>3. QED
          BY <2>8, <3>1, <3>2, <5>1, <5>2
      <4>2. QED
        BY <4>1
    <3>4. QED
      BY <3>3 DEF Making
  <2>12. Reading(stack) => Reading(t)
    BY <2>8, <2>10 DEF Reading, Reader
  <2>13. ASSUME NEW e, Defining(stack, e)
         PROVE  Defining(t, e) \/ HasKey(Held, ModelType(e), Decl(e).name)'
    <3>1. PICK k \in 1..Len(stack) : stack[k].proc = "typedef" /\ stack[k].D = e /\ stack[k].at # "link"
      BY <2>13 DEF Defining
    <3>2. CASE k # 1
      BY <2>8, <3>1, <3>2 DEF Defining
    <3>3. CASE k = 1
      <4>1. e = d
        BY <1>3, <3>1, <3>3
      <4>2. HasKey(Held, "typedef", n)'
        <5>1. PICK static : static = FALSE
          OBVIOUS
        <5>2. BindNew("typedef", n, static) /\ Lookup("typedef", n, static) = NULL
          BY <2>1, <2>2, <5>1
        <5>3. /\ heap'[o].type = "typedef" /\ heap'[o].id = n
              /\ IF static THEN heap'[o].local /\ allComponents' = allComponents \cup {o} /\ Components' = Components
                           ELSE ~heap'[o].local /\ allComponents' = allComponents /\ Components' = Components \cup {o}
          BY <2>5, <5>2, FSoundFits, BoundComponent
        <5>4. QED
          BY <5>1, <5>3 DEF HasKey, Held, Matches
      <4>3. ModelType(d)' = "typedef" /\ Decl(d)' = Decl(d)
        BY <1>2, <1>3, SourcesKept DEF Unit
      <4>4. PICK c \in Held' : heap'[c].type = "typedef" /\ heap'[c].id = n
        BY <4>2 DEF HasKey, Matches
      <4>5. QED
        BY <1>3, <4>1, <4>3, <4>4 DEF HasKey, Matches
    <3>4. QED
      BY <3>2, <3>3
  <2>14. Continues(t)
    BY <2>8, <2>11, <2>12, <2>13 DEF Continues
  <2>15. QED
    BY <1>1, <2>4, <2>5, <2>14, PlainFunction
<1>6. QED
  BY <1>4, <1>5

-----------------------------------------------------------------------------
(* The traversals of statements and initializers                           *)

LEMMA InTraversal ==
  ASSUME FSound, stack # <<>>, Head(stack).proc = "stmt"
  PROVE  /\ Head(stack) = stack[1] /\ stack[1].proc = "stmt" /\ IsType(program, Node.type)
         /\ stack[1].n \in 1..Len(stack[1].nodes) /\ Len(stack[1].nodes) \in Nat
<1>1. Head(stack) = stack[1] /\ Reader(stack[1])
  BY InnermostFits
<1>2. PICK f : f = stack[1]
  OBVIOUS
<1>3. IsBody(program, f.nodes) /\ f.n \in 1..Len(f.nodes) /\ f.proc = "stmt"
  BY <1>1, <1>2 DEF Reader, Reads
<1>4. IsType(program, f.nodes[f.n].type) /\ Len(f.nodes) \in Nat
  BY <1>3 DEF IsBody, IsSeq
<1>5. QED
  BY <1>1, <1>2, <1>3, <1>4 DEF Node

LEMMA LeaveNodeFunction ==
  ASSUME FSound, LeaveNode, UNCHANGED Unit PROVE FunctionInv'
<1>1. /\ stack # <<>> /\ Head(stack).proc = "stmt" /\ references' = references /\ visited' = visited
      /\ BindsPlain /\ UNCHANGED functionVars
  BY DEF LeaveNode, Running, BindsPlain, Bound
<1>2. PICK found, l, left :
        /\ left = IF found = {} THEN stack ELSE [stack EXCEPT ![Owner].related = @ \ found]
        /\ \/ stack' = Tail(left)
           \/ Head(stack).n # Len(Head(stack).nodes) /\ stack' = [left EXCEPT ![1].at = l]
  BY DEF LeaveNode
<1>3. Likewise(left)
  <2>1. PICK n, v : n = Owner /\ v = stack[n].related \ found
    OBVIOUS
  <2>2. left = stack \/ left = PutRelated(stack, n, v)
    BY <1>2, <2>1 DEF PutRelated
  <2>3. QED
    BY <2>2, LikewiseSelf, LikewiseRelated
<1>4. left[1].proc = "stmt" /\ left[1].n = stack[1].n /\ left[1].nodes = stack[1].nodes
  <2>1. PICK n, v : n = Owner /\ v = stack[n].related \ found
    OBVIOUS
  <2>2. PICK g : g = [stack[n] EXCEPT !.related = v]
    OBVIOUS
  <2>3. left = stack \/ left = Put(stack, n, g)
    BY <1>2, <2>1, <2>2 DEF Put
  <2>4. 1 \in 1..Len(stack) /\ IsSeq(stack) /\ stack[1].proc = "stmt"
    BY <1>1, InnermostFits, FSoundFits
  <2>5. left[1] = stack[1] \/ (n = 1 /\ left[1] = g)
    BY <2>3, <2>4, ExceptAny
  <2>6. g.proc = stack[n].proc /\ g.n = stack[n].n /\ g.nodes = stack[n].nodes
    BY <2>2
  <2>7. QED
    BY <2>4, <2>5, <2>6
<1>5. CASE stack' = Tail(left)
  <2>1. PICK u : u = Tail(left)
    OBVIOUS
  <2>2. stack[1].proc \notin Functional
    BY <1>1, InTraversal DEF Functional
  <2>3. left[1].proc # "typedef"
    BY <1>4
  <2>4. stack' = u
    BY <1>5, <2>1
  <2>5. QED
    BY <1>1, <1>3, <2>1, <2>2, <2>3, <2>4, ReturnStep
<1>6. CASE Head(stack).n # Len(Head(stack).nodes) /\ stack' = [left EXCEPT ![1].at = l]
  <2>1. PICK g, u : g = [left[1] EXCEPT !.at = l] /\ u = Put(left, 1, g)
    OBVIOUS
  <2>2. left[1].n < Len(left[1].nodes)
    <3>1. /\ stack[1].n \in 1..Len(stack[1].nodes) /\ Len(stack[1].nodes) \in Nat
          /\ stack[1].n # Len(stack[1].nodes)
      BY <1>1, <1>6, InTraversal
    <3>2. stack[1].n < Len(stack[1].nodes)
      BY <3>1
    <3>3. QED
      BY <1>4, <3>2
  <2>3. Like(left[1], g)
    BY <1>4, <2>1, <2>2, LikeAt DEF Functional
  <2>4. Likewise(u)
    BY <1>3, <2>1, <2>3, LikewisePut
  <2>5. stack' = u
    BY <1>6, <2>1 DEF Put
  <2>6. QED
    BY <1>1, <2>4, <2>5, LikewiseContinues, PlainStep
<1>7. QED
  BY <1>2, <1>5, <1>6

LEMMA LookAtNodeFunction ==
  ASSUME FSound, LookAtNode \/ HandleCastExpr, UNCHANGED Unit PROVE FunctionInv'
<1>1. /\ stack # <<>> /\ Head(stack).proc = "stmt" /\ Head(stack).at # "leave"
      /\ references \subseteq references' /\ visited' = visited
      /\ BindsPlain /\ UNCHANGED functionVars /\ stack' = NextNode
  BY DEF LookAtNode, HandleCastExpr, Running, BindsPlain, Bound
<1>2. PICK s : s = NextNode
  OBVIOUS
<1>3. Likewise(s) /\ stack' = s
  BY <1>1, <1>2, InTraversal, LikewiseNext
<1>4. QED
  BY <1>1, <1>3, LikewiseContinues, PlainStep

LEMMA CastTypeFunction ==
  ASSUME FSound, CastType, UNCHANGED Unit PROVE FunctionInv'
<1>1. /\ stack # <<>> /\ Head(stack).proc = "stmt" /\ Head(stack).at # "leave" /\ UNCHANGED functionVars
  BY DEF CastType, Running
<1>2. PICK t, r, s : t = Node.type /\ r = Head(stack).ref /\ s = At("cast")
  OBVIOUS
<1>3. IsType(program, t) /\ stack[1].proc = "stmt" /\ stack[1].at # "leave"
  BY <1>1, <1>2, InTraversal
<1>4. Likewise(s)
  BY <1>1, <1>2, <1>3, LikewiseAt DEF Functional
<1>5. \/ DiscoverVisits(t)
      \/ DiscoverRefers(t, r, s)
      \/ DiscoverFails(t, stack' = s /\ UNCHANGED aborted)
  BY <1>2 DEF CastType
<1>6. QED
  BY <1>1, <1>3, <1>4, <1>5, DiscoverFunction DEF Functional

LEMMA TraversalHarmless ==
  ASSUME NEW nodes, IsBody(program, nodes), NEW d, NEW c, NEW ref, NEW q, NEW f,
         f = Traversal(d, c, nodes, ref, q)
  PROVE  Harmless(f)
<1>1. Len(nodes) \in Nat /\ Len(nodes) # 0
  <2>1. IsSeq(nodes) /\ nodes # <<>>
    BY DEF IsBody
  <2>2. 1 \in 1..Len(nodes)
    BY <2>1, Popped
  <2>3. QED
    BY <2>1, <2>2 DEF IsSeq
<1>2. /\ f.proc = "stmt" /\ f.nodes = nodes /\ f.n = 1 /\ f.at = "leave"
      /\ {"n", "at", "nodes"} \subseteq DOMAIN f
  BY DEF Traversal
<1>3. QED
  BY <1>1, <1>2 DEF Harmless, Reads, Functional

(* The expressions of an initializer                                       *)
LEMMA ElementBodies ==
  ASSUME FSound, InElement
  PROVE  /\ stack # <<>> /\ Head(stack) = stack[1] /\ stack[1].proc = "init" /\ stack[1].k \in Nat \ {0}
         /\ Len(Element.subs) \in Nat /\ IsBody(program, Element.subs[1])
         /\ stack[1].k <= Len(Element.subs) => IsBody(program, Element.subs[stack[1].k])
<1>1. stack # <<>> /\ Head(stack) = stack[1] /\ stack[1].proc = "init" /\ Reader(stack[1])
      /\ stack[1].i <= Len(Decl(stack[1].D).init)
  BY InnermostFits DEF InElement, Running, This
<1>2. PICK d, i, k, init : d = stack[1].D /\ i = stack[1].i /\ k = stack[1].k /\ init = Decl(d).init
  OBVIOUS
<1>3. Declared(d) /\ i \in Nat \ {0} /\ k \in Nat \ {0}
  BY <1>1, <1>2 DEF Reader, Reads
<1>4. IsSeq(init) /\ \A j \in 1..Len(init) : LET subs == init[j].subs IN
        IsSeq(subs) /\ subs # <<>> /\ \A l \in 1..Len(subs) : IsBody(program, subs[l])
  BY <1>2, <1>3, FSoundFits, ProgramForms DEF Declared
<1>5. i \in 1..Len(init)
  BY <1>1, <1>2, <1>3, <1>4 DEF IsSeq
<1>6. PICK subs : subs = init[i].subs
  OBVIOUS
<1>7. IsSeq(subs) /\ subs # <<>> /\ \A l \in 1..Len(subs) : IsBody(program, subs[l])
  BY <1>4, <1>5, <1>6
<1>8. 1 \in 1..Len(subs) /\ Len(subs) \in Nat
  BY <1>7, Popped DEF IsSeq
<1>9. subs = Element.subs
  BY <1>1, <1>2, <1>6 DEF Element, This
<1>10. k <= Len(subs) => k \in 1..Len(subs)
  BY <1>3, <1>8
<1>11. QED
  BY <1>1, <1>2, <1>3, <1>7, <1>8, <1>9, <1>10

LEMMA InitElementFunction ==
  ASSUME FSound, InitRegular \/ InitArray \/ InitBeyond \/ InitNext \/ InitField, UNCHANGED Unit, ~aborted'
  PROVE  FunctionInv'
<1>1. InElement /\ references' = references /\ visited' = visited /\ BindsPlain /\ UNCHANGED functionVars
  BY DEF InitRegular, InitArray, InitBeyond, InitNext, InitField, InDesignator, Initializing, BindsPlain, Bound
<1>2. /\ stack # <<>> /\ Head(stack) = stack[1] /\ stack[1].proc = "init" /\ stack[1].k \in Nat \ {0}
      /\ IsBody(program, Element.subs[1])
      /\ stack[1].k <= Len(Element.subs) => IsBody(program, Element.subs[stack[1].k])
  BY <1>1, ElementBodies
<1>3. Likewise(NextElement) /\ Likewise(NextSub)
  BY <1>2, LikewiseNext
<1>4. ASSUME NEW s, Likewise(s),
             stack' = s \/ \E nodes, index : IsBody(program, nodes) /\ Traverse(nodes, index, s)
      PROVE  FunctionInv'
  <2>1. CASE stack' = s
    BY <1>1, <1>4, <2>1, LikewiseContinues, PlainStep
  <2>2. ASSUME NEW nodes, NEW index, IsBody(program, nodes), Traverse(nodes, index, s) PROVE FunctionInv'
    <3>1. PICK f : f = Traversal(This, cm, nodes, <<"initializer", index>>, TRUE)
      OBVIOUS
    <3>2. Harmless(f)
      BY <2>2, <3>1, TraversalHarmless
    <3>3. stack' = <<f>> \o s
      BY <2>2, <3>1 DEF Traverse
    <3>4. QED
      BY <1>1, <1>4, <3>2, <3>3, LikewiseContinues, PlainStep
  <2>3. QED
    BY <1>4, <2>1, <2>2
<1>5. CASE InitRegular
  <2>1. Traverse(Element.subs[1], Head(stack).i, NextElement)
    BY <1>5 DEF InitRegular
  <2>2. QED
    BY <1>2, <1>3, <1>4, <2>1
<1>6. CASE InitArray \/ InitBeyond
  <2>1. stack' = NextSub
    BY <1>6 DEF InitArray, InitBeyond, Abort
  <2>2. QED
    BY <1>3, <1>4, <2>1
<1>7. CASE InitNext
  <2>1. stack' = NextElement
    BY <1>7 DEF InitNext
  <2>2. QED
    BY <1>3, <1>4, <2>1
<1>8. CASE InitField
  <2>1. PICK index, now : Traverse(Element.subs[Head(stack).k], index, [NextSub EXCEPT ![1].last = now])
    BY <1>8 DEF InitField, Abort
  <2>2. PICK s, nodes : s = [NextSub EXCEPT ![1].last = now] /\ nodes = Element.subs[stack[1].k]
    OBVIOUS
  <2>3. Likewise(s)
    BY <1>2, <2>2, LikewiseNext
  <2>4. IsBody(program, nodes)
    BY <1>2, <1>8, <2>2 DEF InitField, InDesignator
  <2>5. Traverse(nodes, index, s)
    BY <1>2, <2>1, <2>2
  <2>6. QED
    BY <1>4, <2>3, <2>4, <2>5
<1>9. QED
  BY <1>5, <1>6, <1>7, <1>8

-----------------------------------------------------------------------------
(* The visitor of functions                                                *)

(* Declarations that are bound to one component are of one function.       *)
LEMMA OneFunction ==
  ASSUME FSound, stack # <<>>, NEW d \in Functions, NEW e \in Functions, NEW c, Declares(d, c), Declares(e, c)
  PROVE  /\ Decl(d).type = Decl(e).type
         /\ Decl(d).def /\ Decl(e).def => d = e
         /\ Decl(d).def /\ Decl(d).params = <<>> => Decl(e).params = <<>>
<1>1. TU \in 1..Len(Mains) /\ program \in Programs /\ Prototyped
  BY FSoundFits DEF NestingInv, UnitFits, FSound
<1>2. Decl(d).name = Decl(e).name /\ Decl(d).static = Decl(e).static
  <2>1. Decl(d).static \in BOOLEAN /\ Decl(e).static \in BOOLEAN
    BY <1>1, ProgramForms DEF Functions
  <2>2. Decl(d).name = Decl(e).name /\ (Decl(d).static <=> Decl(e).static)
    BY DEF Declares, Matches
  <2>3. QED
    BY <2>1, <2>2
<1>3. Decl(d).static => Together(d, e)
  BY <1>1, <1>2, OneUnit DEF Declares
<1>4. QED
  BY <1>1, <1>2, <1>3 DEF Prototyped

LEMMA InMaking ==
  ASSUME FSound, stack # <<>>, stack[1].proc \in Functional, NEW m, m = View(stack, 1)
  PROVE  /\ m \in Making(stack) /\ Makes(m) /\ IsSeq(stack) /\ Len(stack) \in Nat /\ 1 \in 1..Len(stack)
         /\ m.proc = stack[1].proc /\ m.D = stack[1].D /\ m.C = stack[1].C /\ m.at = stack[1].at
         /\ m.i = stack[1].i /\ m.depth = Len(stack) - 1
         /\ {"C", "at", "i"} \subseteq DOMAIN stack[1] /\ Head(stack) = stack[1]
<1>1. IsSeq(stack) /\ Len(stack) \in Nat /\ 1 \in 1..Len(stack) /\ Reader(stack[1]) /\ Head(stack) = stack[1]
  BY FSoundFits, InnermostFits DEF IsSeq
<1>2. m \in Making(stack)
  BY <1>1, MakingOf
<1>3. Makes(m)
  BY <1>2 DEF FSound, FunctionInv
<1>4. /\ m.proc = stack[1].proc /\ m.D = stack[1].D /\ m.C = stack[1].C /\ m.at = stack[1].at
      /\ m.i = stack[1].i /\ m.depth = Len(stack) - 1
  BY DEF View
<1>5. QED
  BY <1>1, <1>2, <1>3, <1>4 DEF Reader, Functional

(* It is the only call in progress where it goes on.                       *)
LEMMA OnlyFunction ==
  ASSUME FSound, stack # <<>>, stack[1].proc = "function"
  PROVE  /\ Len(stack) = 1 /\ IsSeq(stack) /\ Head(stack) = stack[1]
         /\ \A m : m \in Making(stack) <=> m = View(stack, 1)
         /\ \A d : ~Defining(stack, d)
         /\ stack[1].D \in Functions /\ Declared(stack[1].D)
         /\ stack[1].C \in Held /\ Declares(stack[1].D, stack[1].C)
         /\ {"C", "at", "i"} \subseteq DOMAIN stack[1]
         /\ stack[1].at = "retry" => Comes(Decl(stack[1].D).type)
         /\ stack[1].D \in Visited
<1>1. PICK m : m = View(stack, 1)
  OBVIOUS
<1>2. /\ m \in Making(stack) /\ Makes(m) /\ IsSeq(stack) /\ Len(stack) \in Nat /\ 1 \in 1..Len(stack)
      /\ m.proc = "function" /\ m.D = stack[1].D /\ m.C = stack[1].C /\ m.at = stack[1].at
      /\ m.depth = Len(stack) - 1
      /\ {"C", "at", "i"} \subseteq DOMAIN stack[1] /\ Head(stack) = stack[1]
  BY <1>1, InMaking DEF Functional
<1>3. /\ m.D \in Visited /\ m.D \in Functions /\ m.C \in Held /\ Declares(m.D, m.C) /\ m.depth = 0
      /\ m.at = "retry" => Comes(Decl(m.D).type)
  BY <1>2 DEF Makes
<1>4. Len(stack) = 1
  <2>1. PICK n \in Nat : n = Len(stack)
    BY <1>2
  <2>2. n - 1 = 0
    BY <1>2, <1>3, <2>1
  <2>3. n = 1
    BY <2>2
  <2>4. QED
    BY <2>1, <2>3
<1>5. \A n : n \in Making(stack) <=> n = View(stack, 1)
  <2>1. \A k \in 1..Len(stack) : k = 1
    BY <1>4
  <2>2. QED
    BY <1>1, <1>2, <2>1, MakingOf
<1>6. \A d : ~Defining(stack, d)
  BY <1>4 DEF Defining
<1>7. Declared(stack[1].D)
  BY <1>2, <1>3 DEF Functions, Declared
<1>8. QED
  BY <1>2, <1>3, <1>4, <1>5, <1>6, <1>7

LEMMA FunctionAt ==
  ASSUME FSound, stack # <<>>, stack[1].proc = "function", NEW l, NEW s, s = At(l)
  PROVE  /\ IsSeq(s) /\ Len(s) = 1 /\ (Reading(stack) => Reading(s))
         /\ s[1].proc = "function" /\ s[1].D = stack[1].D /\ s[1].C = stack[1].C /\ s[1].at = l
         /\ \A m : m \in Making(s) <=> m = View(s, 1)
         /\ \A d : ~Defining(s, d)
<1>1. Len(stack) = 1 /\ IsSeq(stack) /\ {"C", "at", "i"} \subseteq DOMAIN stack[1]
  BY OnlyFunction
<1>2. PICK g : g = [stack[1] EXCEPT !.at = l]
  OBVIOUS
<1>3. s = Put(stack, 1, g)
  BY <1>2 DEF At, Put
<1>4. IsSeq(s) /\ Len(s) = 1 /\ s[1] = g
  BY <1>1, <1>3, ExceptAny
<1>5. /\ g.proc = "function" /\ g.D = stack[1].D /\ g.C = stack[1].C /\ g.at = l
      /\ {"C", "at", "i"} \subseteq DOMAIN g
  BY <1>1, <1>2
<1>6. Reading(s)
  BY <1>4, <1>5 DEF Reading, Reads
<1>7. \A d : ~Defining(s, d)
  BY <1>4, <1>5 DEF Defining
<1>8. \A m : m \in Making(s) <=> m = View(s, 1)
  <2>1. \A k \in 1..Len(s) : k = 1
    BY <1>4
  <2>2. 1 \in 1..Len(s) /\ s[1].proc \in Functional
    BY <1>4, <1>5 DEF Functional
  <2>3. QED
    BY <2>1, <2>2, MakingOf
<1>9. QED
  BY <1>4, <1>5, <1>6, <1>7, <1>8

(* The visitor of a function goes on, or has something visited.            *)
LEMMA FunctionGoesOn ==
  ASSUME FSound, UNCHANGED Unit, UNCHANGED <<visited, functionVars>>, references \subseteq references', BindsPlain,
         stack # <<>>, stack[1].proc = "function", NEW d, NEW c, d = stack[1].D, c = stack[1].C,
         NEW l, NEW s, s = At(l),
         stack' = s \/ \E f : Harmless(f) /\ stack' = <<f>> \o s,
         NEW u, u = Decl(d).type,
         l \in {"body", "args", "macros"} \/ Comes(u)',
         l # "retry" => stack[1].at \notin {"type", "retry"} \/ Refers(c, u, <<"return", -1>>)',
         l = "macros" => c \in argscomplete \/ ~Decl(d).def
  PROVE  FunctionInv'
<1>1. Advances /\ \A e \in Held' : heap'[e].type = "function" => e \in Held
  BY PlainAdvances
<1>2. PICK t : t = stack'
  OBVIOUS
<1>3. /\ IsSeq(s) /\ Len(s) = 1 /\ Reading(s)
      /\ s[1].proc = "function" /\ s[1].D = d /\ s[1].C = c /\ s[1].at = l
      /\ \A m : m \in Making(s) <=> m = View(s, 1)
  BY FunctionAt DEF FSound, FunctionInv
<1>4. (\A m : m \in Making(t) <=> m \in Making(s)) /\ Reading(t)
  <2>1. ASSUME NEW f, Harmless(f), t = <<f>> \o s
        PROVE  (\A m : m \in Making(t) <=> m \in Making(s)) /\ Reading(t)
    BY <1>3, <2>1, PushedMaking DEF Harmless, Reader, Functional
  <2>2. QED
    BY <1>2, <1>3, <2>1
<1>5. PICK n : n = View(s, 1)
  OBVIOUS
<1>6. /\ \A m : m \in Making(stack)' <=> m = n
      /\ n.proc = "function" /\ n.D = d /\ n.C = c /\ n.at = l /\ n.depth = 0
  <2>1. n.proc = "function" /\ n.D = d /\ n.C = c /\ n.at = l /\ n.depth = 0
    BY <1>3, <1>5 DEF View
  <2>2. Making(stack)' = Making(t)
    BY <1>2 DEF Making
  <2>3. QED
    BY <1>3, <1>4, <1>5, <2>1, <2>2
<1>7. /\ d \in Functions /\ c \in Held /\ Declares(d, c) /\ d \in Visited
      /\ \A m : m \in Making(stack) <=> m = View(stack, 1)
  BY OnlyFunction
<1>8. PICK k : k = View(stack, 1)
  OBVIOUS
<1>9. k.proc = "function" /\ k.D = d /\ k.C = c /\ k.at = stack[1].at
  BY <1>8 DEF View
<1>10. /\ Visited' = Visited /\ Functions' = Functions /\ Held \subseteq Held'
       /\ arguments' = arguments /\ argscomplete' = argscomplete
       /\ \A e : Decl(e)' = Decl(e)
  BY <1>1, Advanced DEF Unit, clangVars, Visited, TopLevel, TU, functionVars
<1>11. UnitFits'
  BY DEF FSound, FunctionInv, UnitFits, Unit, clangVars, Visited, TopLevel, TU
<1>12. Reading(stack)'
  <2>1. Reading(t)' <=> Reading(t)
    BY <1>1, Advanced, SourcesKept
  <2>2. QED
    BY <1>2, <1>4, <2>1 DEF Reading
<1>13. ASSUME NEW m \in Making(stack)' PROVE Makes(m)'
  <2>1. m = n
    BY <1>6
  <2>2. Declares(d, c)'
    BY <1>1, <1>7, DeclaresKept
  <2>3. QED
    BY <1>6, <1>7, <1>10, <2>1, <2>2 DEF Makes
<1>14. ASSUME NEW e \in Functions, NEW b \in Held', Declares(e, b)' PROVE b \in Held
  BY <1>1, <1>14 DEF Declares, Matches
<1>15. ASSUME NEW e \in Functions, NEW b \in Held, Declares(e, b)
       PROVE  /\ Decl(e).def /\ Completed(e, b) => Completed(e, b)'
              /\ ReturnReferred(e, b) => ReturnReferred(e, b)'
              /\ b \in argscomplete' /\ Decl(e).def => Argued(b, e, Len(Decl(e).params))'
  <2>1. ASSUME Decl(e).def, Completed(e, b) PROVE Completed(e, b)'
    <3>1. CASE b \in argscomplete
      BY <1>10, <3>1 DEF Completed
    <3>2. CASE b \notin argscomplete
      <4>1. e = d /\ b = c
        BY <1>7, <1>8, <1>9, <2>1, <3>2 DEF Completed
      <4>2. l # "macros"
        BY <2>1, <3>2, <4>1
      <4>3. QED
        BY <1>6, <4>1, <4>2 DEF Completed
    <3>3. QED
      BY <3>1, <3>2
  <2>2. ASSUME ReturnReferred(e, b) PROVE ReturnReferred(e, b)'
    <3>1. PICK v : v = Decl(e).type /\ Decl(e)' = Decl(e)
      BY <1>10
    <3>2. CASE Refers(b, v, <<"return", -1>>)
      <4>1. Refers(b, v, <<"return", -1>>)'
        BY <1>1, <3>2, RefersKept
      <4>2. QED
        BY <3>1, <4>1 DEF ReturnReferred
    <3>3. CASE ~Refers(b, v, <<"return", -1>>)
      <4>1. b = c /\ stack[1].at \in {"type", "retry"}
        BY <1>7, <1>8, <1>9, <2>2, <3>1, <3>3 DEF ReturnReferred
      <4>2. v = u
        BY <1>7, <1>15, <3>1, <4>1, OneFunction
      <4>3. CASE l = "retry"
        BY <1>6, <4>1, <4>3 DEF ReturnReferred
      <4>4. CASE l # "retry"
        <5>1. Refers(b, v, <<"return", -1>>)'
          BY <4>1, <4>2, <4>4
        <5>2. QED
          BY <3>1, <5>1 DEF ReturnReferred
      <4>5. QED
        BY <4>3, <4>4
    <3>4. QED
      BY <3>2, <3>3
  <2>3. ASSUME b \in argscomplete', Decl(e).def PROVE Argued(b, e, Len(Decl(e).params))'
    <3>1. PICK j : j = Len(Decl(e).params)
      OBVIOUS
    <3>2. Argued(b, e, j)
      BY <1>10, <1>15, <2>3, <3>1 DEF FSound, FunctionInv
    <3>3. Argued(b, e, j)'
      BY <1>1, <1>10, <3>2, ArguedKept
    <3>4. QED
      BY <1>10, <3>1, <3>3
  <2>4. QED
    BY <2>1, <2>2, <2>3
<1>16. QED
  BY <1>1, <1>10, <1>11, <1>12, <1>13, <1>14, <1>15, FunctionMoves

(* DiscoverTypeReferences of a function: the type is visited, ...          *)
LEMMA TypeVisited ==
  ASSUME FSound, UNCHANGED Unit, NEW t, IsType(program, t), NEW s, s = At("retry"), IsSeq(s), DiscoverVisits(t)
  PROVE  /\ BindsPlain /\ visited' = visited /\ references' = references
         /\ stack' = s \/ \E f : Harmless(f) /\ stack' = <<f>> \o s
         /\ Comes(t)'
<1>1. /\ Enter(t, s) /\ t # 0 /\ UNCHANGED visited /\ SameNames /\ references' = references
  BY DEF DiscoverVisits, Undiscovered, SameNames, Unit
<1>2. /\ BindsPlain
      /\ stack' = s \/ \E f : Harmless(f) /\ stack' = <<f>> \o s
      /\ NamedType(t) => HasKey(Held, ModelType(t), Decl(t).name)' \/ Defining(stack', t)
  BY <1>1, TypeEntered
<1>3. NamedType(t)' <=> NamedType(t)
  BY SourcesKept DEF Unit
<1>4. Defining(stack', t) => Defining(stack, t)'
  BY DEF Defining
<1>5. QED
  BY <1>1, <1>2, <1>3, <1>4 DEF Comes

(* ... referred to, or left alone because it has no name.                  *)
LEMMA TypeReferred ==
  ASSUME FSound, UNCHANGED Unit, Head(stack).at \in {"type", "retry"},
         NEW t, IsType(program, t), NEW c, c = Head(stack).C, NEW r, NEW s,
         Head(stack).at = "retry" => Comes(t), \A d : ~Defining(stack, d),
         \/ DiscoverRefers(t, r, s)
         \/ DiscoverFails(t, stack' = s /\ UNCHANGED aborted)
  PROVE  /\ UNCHANGED Bound /\ visited' = visited /\ references \subseteq references' /\ stack' = s
         /\ Refers(c, t, r)'
<1>1. UNCHANGED Bound /\ UNCHANGED visited /\ references \subseteq references' /\ stack' = s
  BY DEF DiscoverRefers, DiscoverFails, Discovered
<1>2. /\ (NamedType(t)' <=> NamedType(t)) /\ ModelType(t)' = ModelType(t) /\ Decl(t)' = Decl(t)
  BY SourcesKept DEF Unit
<1>3. ASSUME NamedType(t) PROVE Refers(c, t, r)'
  <2>1. t # 0
    BY <1>3 DEF NamedType
  <2>2. Structure(t) # NULL
    <3>1. CASE DiscoverRefers(t, r, s)
      BY <2>1, <3>1 DEF DiscoverRefers, Undiscovered
    <3>2. CASE DiscoverFails(t, stack' = s /\ UNCHANGED aborted)
      <4>1. Head(stack).at = "retry"
        BY <3>2 DEF DiscoverFails
      <4>2. HasKey(Held, ModelType(t), Decl(t).name)
        BY <1>3, <4>1 DEF Comes
      <4>3. QED
        BY <1>3, <2>1, <4>2, TypeNamed
    <3>3. QED
      BY <3>1, <3>2
  <2>3. PICK e : e = Structure(t)
    OBVIOUS
  <2>4. e \in Components /\ Matches(e, ModelType(t), Decl(t).name)
    BY <1>3, <2>1, <2>2, <2>3, TypeNamed
  <2>5. <<c, e, r>> \in references'
    BY <2>1, <2>2, <2>3 DEF DiscoverRefers, DiscoverFails, Discovered
  <2>6. Components' = Components /\ heap' = heap
    BY <1>1 DEF Bound
  <2>7. Matches(e, ModelType(t), Decl(t).name)'
    BY <1>2, <2>4, <2>6 DEF Matches
  <2>8. QED
    BY <2>4, <2>5, <2>6, <2>7 DEF Refers
<1>4. QED
  BY <1>1, <1>2, <1>3 DEF Refers

LEMMA FunctionReturnsFunction ==
  ASSUME FSound, FunctionReturns, UNCHANGED Unit PROVE FunctionInv'
<1>1. /\ stack # <<>> /\ Head(stack).proc = "function" /\ Head(stack).at \in {"type", "retry"}
      /\ UNCHANGED functionVars
  BY DEF FunctionReturns, Running
<1>2. stack[1].proc = "function" /\ Head(stack) = stack[1]
  BY <1>1, InnermostFits
<1>3. PICK d, c, u : d = stack[1].D /\ c = stack[1].C /\ u = Decl(d).type
  OBVIOUS
<1>4. Declared(d) /\ (\A e : ~Defining(stack, e)) /\ (stack[1].at = "retry" => Comes(u))
  BY <1>1, <1>2, <1>3, OnlyFunction
<1>5. IsType(program, u)
  BY <1>3, <1>4, TypeOfDeclaration
<1>6. CASE DiscoverVisits(u)
  <2>1. PICK s : s = At("retry")
    OBVIOUS
  <2>2. IsSeq(s)
    BY <1>1, <1>2, <2>1, FunctionAt
  <2>3. /\ BindsPlain /\ visited' = visited /\ references' = references
        /\ stack' = s \/ \E f : Harmless(f) /\ stack' = <<f>> \o s
        /\ Comes(u)'
    BY <1>5, <1>6, <2>1, <2>2, TypeVisited
  <2>4. UNCHANGED <<visited, functionVars>> /\ references \subseteq references'
    BY <1>1, <2>3
  <2>5. PICK l : l = "retry"
    OBVIOUS
  <2>6. /\ s = At(l) /\ Comes(u)'
        /\ l # "retry" => stack[1].at \notin {"type", "retry"} \/ Refers(c, u, <<"return", -1>>)'
        /\ l = "macros" => c \in argscomplete \/ ~Decl(d).def
    BY <2>1, <2>3, <2>5
  <2>7. /\ UNCHANGED <<visited, functionVars>> /\ references \subseteq references' /\ BindsPlain
        /\ stack # <<>> /\ stack[1].proc = "function"
        /\ stack' = s \/ \E f : Harmless(f) /\ stack' = <<f>> \o s
    BY <1>1, <1>2, <2>3, <2>4
  <2>8. QED
    BY <1>3, <2>6, <2>7, FunctionGoesOn
<1>7. CASE ~DiscoverVisits(u)
  <2>1. PICK s : s = At("body")
    OBVIOUS
  <2>2. DiscoverRefers(u, <<"return", -1>>, s) \/ DiscoverFails(u, stack' = s /\ UNCHANGED aborted)
    BY <1>2, <1>3, <1>7, <2>1 DEF FunctionReturns, This
  <2>3. /\ UNCHANGED Bound /\ visited' = visited /\ references \subseteq references' /\ stack' = s
        /\ Refers(c, u, <<"return", -1>>)'
    BY <1>1, <1>2, <1>3, <1>4, <1>5, <2>2, TypeReferred
  <2>4. UNCHANGED <<visited, functionVars>> /\ BindsPlain
    BY <1>1, <2>3 DEF BindsPlain, Bound
  <2>5. QED
    BY <1>1, <1>2, <1>3, <2>1, <2>3, <2>4, FunctionGoesOn
<1>8. QED
  BY <1>6, <1>7

LEMMA FunctionBodyFunction ==
  ASSUME FSound, FunctionBody, UNCHANGED Unit PROVE FunctionInv'
<1>1. /\ stack # <<>> /\ Head(stack).proc = "function" /\ Head(stack).at = "body"
      /\ UNCHANGED <<visited, functionVars>> /\ references \subseteq references' /\ BindsPlain
  BY DEF FunctionBody, Running, BindsPlain, Bound
<1>2. stack[1].proc = "function" /\ Head(stack) = stack[1]
  BY <1>1, InnermostFits
<1>3. PICK d, c, u, s : d = stack[1].D /\ c = stack[1].C /\ u = Decl(d).type /\ s = At("args")
  OBVIOUS
<1>4. stack' = s \/ \E f : Harmless(f) /\ stack' = <<f>> \o s
  <2>1. CASE Decl(d).def
    <3>1. PICK nodes, f : nodes = Decl(d).body /\ f = Traversal(d, cm, nodes, <<"bodyenc", -1>>, FALSE)
      OBVIOUS
    <3>2. d \in DOMAIN program.decls /\ Decl(d).kind = "function"
      BY <1>1, <1>2, <1>3, OnlyFunction DEF Functions
    <3>3. IsBody(program, nodes)
      BY <2>1, <3>1, <3>2, ProgramForms, FSoundFits
    <3>4. Harmless(f)
      BY <3>1, <3>3, TraversalHarmless
    <3>5. stack' = <<f>> \o s
      BY <1>2, <1>3, <2>1, <3>1 DEF FunctionBody, This
    <3>6. QED
      BY <3>4, <3>5
  <2>2. CASE ~Decl(d).def
    BY <1>2, <1>3, <2>2 DEF FunctionBody, This
  <2>3. QED
    BY <2>1, <2>2
<1>5. PICK l : l = "args"
  OBVIOUS
<1>6. /\ s = At(l) /\ l \in {"body", "args", "macros"} /\ l # "macros"
      /\ stack[1].at \notin {"type", "retry"}
  BY <1>1, <1>2, <1>3, <1>5
<1>7. QED
  BY <1>1, <1>2, <1>3, <1>4, <1>6, FunctionGoesOn

(* Nothing is visited nor bound that is a function.                        *)
LEMMA FunctionStays ==
  ASSUME FSound, Advances, visited' = visited,
         \A c \in Held' : heap'[c].type = "function" => c \in Held,
         Reading(stack)', \A m \in Making(stack)' : Makes(m)',
         \A d \in Functions : \A c \in Held : Declares(d, c) =>
           /\ Decl(d).def /\ Completed(d, c) => Completed(d, c)'
           /\ ReturnReferred(d, c) => ReturnReferred(d, c)'
           /\ c \in argscomplete' /\ Decl(d).def => Argued(c, d, Len(Decl(d).params))'
  PROVE  FunctionInv'
<1>1. Visited' = Visited
  BY DEF Advances, Unit, clangVars, Visited, TopLevel, TU
<1>2. UnitFits'
  BY <1>1 DEF FSound, FunctionInv, UnitFits, Advances, Unit, clangVars, TopLevel, TU
<1>3. ASSUME NEW e \in Functions, NEW b \in Held', Declares(e, b)' PROVE b \in Held
  BY <1>3 DEF Declares, Matches
<1>4. QED
  BY <1>1, <1>2, <1>3, FunctionMoves

LEMMA QuietAdvances ==
  ASSUME FSound, UNCHANGED Unit, UNCHANGED <<heap, allComponents, Components>>, references \subseteq references',
         argscomplete' \subseteq 1..Len(heap)
  PROVE  Advances /\ Held' = Held
<1>1. StoreKept
  BY FSoundFits, QuietStore
<1>2. FunctionStore'
  BY FSoundFits, StoreStays DEF Unit
<1>3. QED
  BY <1>1, <1>2 DEF Advances, Held

(* A loop over arguments goes on, or ends.                                 *)
LEMMA InParams ==
  ASSUME FSound, stack # <<>>, stack[1].proc = "params", NEW d, NEW c, d = stack[1].D, c = stack[1].C
  PROVE  /\ Len(stack) = 2 /\ IsSeq(stack) /\ Head(stack) = stack[1]
         /\ stack[2].proc = "function" /\ stack[2].D = d /\ stack[2].C = c /\ stack[2].at = "macros"
         /\ {"C", "at", "i"} \subseteq DOMAIN stack[1]
         /\ \A m : m \in Making(stack) <=> m = View(stack, 1) \/ m = View(stack, 2)
         /\ \A e : ~Defining(stack, e)
         /\ d \in Visited /\ d \in Functions /\ c \in Held /\ Declares(d, c)
         /\ stack[1].i \in 1..Len(Decl(d).params) + 1 /\ Argued(c, d, stack[1].i - 1)
         /\ stack[1].at = "retry" => Comes(Decl(d).params[stack[1].i].type)
         /\ c \in argscomplete => \A e \in Functions :
              Decl(e).def /\ Declares(e, c) => Decl(d).params = <<>>
<1>1. PICK m : m = View(stack, 1)
  OBVIOUS
<1>2. /\ m \in Making(stack) /\ Makes(m) /\ IsSeq(stack) /\ Len(stack) \in Nat
      /\ m.proc = "params" /\ m.D = d /\ m.C = c /\ m.at = stack[1].at /\ m.i = stack[1].i
      /\ m.depth = Len(stack) - 1
      /\ {"C", "at", "i"} \subseteq DOMAIN stack[1] /\ Head(stack) = stack[1]
  BY <1>1, InMaking DEF Functional
<1>3. /\ d \in Visited /\ d \in Functions /\ c \in Held /\ Declares(d, c) /\ m.depth = 1
      /\ \E f \in Making(stack) : f.proc = "function" /\ f.D = d /\ f.C = c /\ f.at = "macros"
      /\ m.i \in 1..Len(Decl(d).params) + 1 /\ Argued(c, d, m.i - 1)
      /\ m.at = "retry" => Comes(Decl(d).params[m.i].type)
      /\ c \in argscomplete => \A e \in Functions :
              Decl(e).def /\ Declares(e, c) => Decl(d).params = <<>>
  BY <1>2 DEF Makes
<1>4. Len(stack) = 2
  <2>1. PICK n \in Nat : n = Len(stack)
    BY <1>2
  <2>2. n - 1 = 1
    BY <1>2, <1>3, <2>1
  <2>3. n = 2
    BY <2>2
  <2>4. QED
    BY <2>1, <2>3
<1>5. \A k \in 1..Len(stack) : k = 1 \/ k = 2
  BY <1>4
<1>6. stack[2].proc = "function" /\ stack[2].D = d /\ stack[2].C = c /\ stack[2].at = "macros"
  <2>1. PICK f \in Making(stack) : f.proc = "function" /\ f.D = d /\ f.C = c /\ f.at = "macros"
    BY <1>3
  <2>2. PICK k \in 1..Len(stack) : f = View(stack, k)
    BY MakingOf
  <2>3. f.proc = stack[k].proc /\ f.D = stack[k].D /\ f.C = stack[k].C /\ f.at = stack[k].at
    BY <2>2 DEF View
  <2>4. k = 2
    BY <1>5, <2>1, <2>3
  <2>5. QED
    BY <2>1, <2>3, <2>4
<1>7. ASSUME NEW n PROVE n \in Making(stack) <=> n = View(stack, 1) \/ n = View(stack, 2)
  <2>1. 1 \in 1..Len(stack) /\ 2 \in 1..Len(stack)
    BY <1>4
  <2>2. QED
    BY <1>5, <1>6, <2>1, MakingOf DEF Functional
<1>8. \A e : ~Defining(stack, e)
  BY <1>5, <1>6 DEF Defining
<1>9. QED
  BY <1>2, <1>3, <1>4, <1>6, <1>7, <1>8

(* The loop over the arguments begins, with none.                          *)
LEMMA FunctionRefills ==
  ASSUME FSound, FunctionArguments, UNCHANGED Unit, Refills(This, cm) PROVE FunctionInv'
<1>1. /\ stack # <<>> /\ Head(stack).proc = "function" /\ Head(stack).at = "args"
      /\ UNCHANGED <<visited, argscomplete>> /\ references' = references
      /\ UNCHANGED <<heap, allComponents, Components>>
  BY DEF FunctionArguments, Running, Bound
<1>2. stack[1].proc = "function" /\ Head(stack) = stack[1] /\ stack[1].at = "args"
  BY <1>1, InnermostFits
<1>3. PICK d, c, ps, s : d = stack[1].D /\ c = stack[1].C /\ ps = Decl(d).params /\ s = At("macros")
  OBVIOUS
<1>4. PICK p, t : p = [Frame("params", d, c) EXCEPT !.at = "type"] /\ t = <<p>> \o s
  OBVIOUS
<1>5. /\ stack' = t /\ Refills(d, c)
      /\ arguments' = [x \in DOMAIN arguments \cup {c} |-> IF x = c THEN <<>> ELSE arguments[x]]
  BY <1>2, <1>3, <1>4 DEF FunctionArguments, This, cm
<1>6. /\ d \in Functions /\ d \in Visited /\ c \in Held /\ Declares(d, c)
      /\ \A m : m \in Making(stack) <=> m = View(stack, 1)
  BY <1>1, <1>2, <1>3, OnlyFunction
<1>7. argscomplete \subseteq 1..Len(heap)
  BY FSoundFits DEF FunctionStore
<1>8. Advances /\ Held' = Held
  BY <1>1, <1>7, QuietAdvances
<1>9. /\ program' = program /\ Functions' = Functions /\ (\A e : Decl(e)' = Decl(e)) /\ Visited' = Visited
  BY <1>1, <1>8, Advanced DEF Advances, Unit, clangVars, Visited, TopLevel, TU
<1>10. /\ IsSeq(s) /\ Len(s) = 1 /\ Reading(s)
       /\ s[1].proc = "function" /\ s[1].D = d /\ s[1].C = c /\ s[1].at = "macros"
       /\ \A m : m \in Making(s) <=> m = View(s, 1)
  BY <1>1, <1>2, <1>3, FunctionAt DEF FSound, FunctionInv
<1>11. p.proc = "params" /\ p.D = d /\ p.C = c /\ p.at = "type" /\ p.i = 1 /\ {"C", "at", "i"} \subseteq DOMAIN p
  BY <1>4 DEF Frame
<1>12. Reader(p) /\ p.proc \in Functional
  BY <1>11 DEF Reader, Reads, Functional
<1>13. PICK f, n : f = View(s, 1) /\ n = View(t, 1)
  OBVIOUS
<1>14. /\ \A m : m \in Making(t) <=> m = f \/ m = n
       /\ Reading(t) /\ t[1] = p /\ Len(t) = 2
  <2>1. IsSeq(s) /\ t = <<p>> \o s
    BY <1>4, <1>10
  <2>2. ASSUME NEW m PROVE m \in Making(t) <=> m \in Making(s) \/ (p.proc \in Functional /\ m = View(t, 1))
    BY <2>1, PushedMaking
  <2>3. (Reading(s) /\ Reader(p) => Reading(t)) /\ t[1] = p /\ Len(t) = Len(s) + 1
    BY <2>1, PushedMaking
  <2>4. QED
    BY <1>10, <1>12, <1>13, <2>2, <2>3
<1>15. /\ f.proc = "function" /\ f.D = d /\ f.C = c /\ f.at = "macros" /\ f.depth = 0
       /\ n.proc = "params" /\ n.D = d /\ n.C = c /\ n.at = "type" /\ n.i = 1 /\ n.depth = 1
  BY <1>10, <1>11, <1>13, <1>14 DEF View
<1>16. \A m : m \in Making(stack)' <=> m = f \/ m = n
  BY <1>5, <1>14 DEF Making
<1>17. Reading(stack)'
  <2>1. Reading(t)' <=> Reading(t)
    BY <1>9, SourcesKept
  <2>2. QED
    BY <1>5, <1>14, <2>1 DEF Reading
<1>18. IsSeq(ps) /\ Len(ps) \in Nat
  BY <1>3, <1>6, ProgramForms, FSoundFits DEF Functions, IsSeq
(* If the arguments are complete there are none.                           *)
<1>19. ASSUME c \in argscomplete, NEW e \in Functions, Decl(e).def, Declares(e, c)
       PROVE  arguments[c] = <<>> /\ ps = <<>>
  <2>1. PICK k, qs : qs = Decl(e).params /\ k = Len(qs)
    OBVIOUS
  <2>2. Argued(c, e, k)
    BY <1>6, <1>19, <2>1 DEF FSound, FunctionInv
  <2>3. c \in DOMAIN arguments /\ arguments[c] = [i \in 1..k |-> qs[i]]
    BY <2>1, <2>2 DEF Argued
  <2>4. arguments[c] = <<>>
    BY <1>5, <1>19, <2>3 DEF Refills, Arguments
  <2>5. IsSeq(qs)
    BY <1>19, <2>1, ProgramForms, FSoundFits DEF Functions
  <2>6. qs = [i \in 1..k |-> qs[i]]
    BY <2>1, <2>5 DEF IsSeq
  <2>7. qs = <<>>
    BY <2>3, <2>4, <2>6
  <2>8. QED
    BY <1>1, <1>3, <1>6, <1>19, <2>1, <2>4, <2>7, OneFunction
<1>20. c \in argscomplete' => \A e \in Functions : Decl(e).def /\ Declares(e, c) => ps = <<>>
  BY <1>1, <1>19
<1>21. Declares(d, c)' /\ \A e : Declares(e, c)' <=> Declares(e, c)
  BY <1>6, <1>8, DeclaresKept
<1>22. Argued(c, d, 0)'
  <2>1. c \in DOMAIN arguments' /\ arguments'[c] = <<>>
    BY <1>5
  <2>2. \A x : [i \in 1..0 |-> x[i]] = <<>>
    OBVIOUS
  <2>3. [i \in 1..0 |-> ps[i]] = <<>> /\ 1..0 = {}
    BY <2>2
  <2>4. Decl(d)'.params = ps
    BY <1>3, <1>9
  <2>5. QED
    BY <2>1, <2>3, <2>4 DEF Argued
<1>23. ASSUME NEW m \in Making(stack)' PROVE Makes(m)'
  <2>1. CASE m = f
    BY <1>6, <1>8, <1>9, <1>15, <1>21, <2>1 DEF Makes
  <2>2. CASE m = n
    <3>1. n.i \in 1..Len(ps) + 1 /\ n.i - 1 = 0
      BY <1>15, <1>18
    <3>2. \E g \in Making(stack)' : g.proc = "function" /\ g.D = d /\ g.C = c /\ g.at = "macros"
      BY <1>15, <1>16
    <3>3. (c \in argscomplete => \A e \in Functions : Decl(e).def /\ Declares(e, c) => Decl(d).params = <<>>)'
      BY <1>3, <1>9, <1>20, <1>21
    <3>4. (n.i \in 1..Len(Decl(d).params) + 1 /\ Argued(c, d, n.i - 1))'
      BY <1>3, <1>9, <1>22, <3>1
    <3>5. QED
      BY <1>6, <1>8, <1>9, <1>15, <1>21, <2>2, <3>2, <3>3, <3>4 DEF Makes
  <2>3. QED
    BY <1>16, <2>1, <2>2
<1>24. ASSUME NEW e \in Functions, NEW b \in Held, Declares(e, b)
       PROVE  /\ Decl(e).def /\ Completed(e, b) => Completed(e, b)'
              /\ ReturnReferred(e, b) => ReturnReferred(e, b)'
              /\ b \in argscomplete' /\ Decl(e).def => Argued(b, e, Len(Decl(e).params))'
  <2>1. PICK k : k = View(stack, 1)
    OBVIOUS
  <2>2. k.proc = "function" /\ k.D = d /\ k.C = c /\ k.at = "args"
    BY <1>2, <1>3, <2>1 DEF View
  <2>3. ASSUME Completed(e, b) PROVE Completed(e, b)'
    BY <1>1, <1>6, <1>15, <1>16, <2>1, <2>2, <2>3 DEF Completed
  <2>4. ASSUME ReturnReferred(e, b) PROVE ReturnReferred(e, b)'
    <3>1. PICK v : v = Decl(e).type /\ Decl(e)' = Decl(e)
      BY <1>9
    <3>2. Refers(b, v, <<"return", -1>>)
      BY <1>6, <2>1, <2>2, <2>4, <3>1 DEF ReturnReferred
    <3>3. Refers(b, v, <<"return", -1>>)'
      BY <1>8, <3>2, RefersKept
    <3>4. QED
      BY <3>1, <3>3 DEF ReturnReferred
  <2>5. ASSUME b \in argscomplete', Decl(e).def PROVE Argued(b, e, Len(Decl(e).params))'
    <3>1. PICK j : j = Len(Decl(e).params)
      OBVIOUS
    <3>2. Argued(b, e, j)
      BY <1>1, <1>24, <2>5, <3>1 DEF FSound, FunctionInv
    <3>3. b \in DOMAIN arguments => b \in DOMAIN arguments' /\ arguments'[b] = arguments[b]
      BY <1>1, <1>5, <1>19, <1>24, <2>5
    <3>4. Argued(b, e, j)'
      BY <1>8, <3>2, <3>3, ArguedKept
    <3>5. QED
      BY <1>9, <3>1, <3>4
  <2>6. QED
    BY <2>3, <2>4, <2>5
<1>25. \A e \in Held' : heap'[e].type = "function" => e \in Held
  BY <1>8
<1>26. QED
  BY <1>1, <1>8, <1>17, <1>23, <1>24, <1>25, FunctionStays

LEMMA FunctionArgumentsFunction ==
  ASSUME FSound, FunctionArguments, UNCHANGED Unit PROVE FunctionInv'
<1>1. CASE Refills(This, cm)
  BY <1>1, FunctionRefills
<1>2. CASE ~Refills(This, cm)
  <2>1. /\ stack # <<>> /\ Head(stack).proc = "function" /\ Head(stack).at = "args"
        /\ UNCHANGED <<visited, functionVars>> /\ references \subseteq references' /\ BindsPlain
    BY <1>2 DEF FunctionArguments, Running, BindsPlain, Bound, functionVars
  <2>2. stack[1].proc = "function" /\ Head(stack) = stack[1]
    BY <2>1, InnermostFits
  <2>3. PICK d, c, u, l, s : d = stack[1].D /\ c = stack[1].C /\ u = Decl(d).type /\ l = "macros" /\ s = At(l)
    OBVIOUS
  <2>4. stack' = s
    BY <1>2, <2>3 DEF FunctionArguments
  <2>5. /\ l \in {"body", "args", "macros"} /\ stack[1].at \notin {"type", "retry"}
        /\ c \in argscomplete \/ ~Decl(d).def
    BY <1>2, <2>1, <2>2, <2>3 DEF Refills, This, cm
  <2>6. QED
    BY <2>1, <2>2, <2>3, <2>4, <2>5, FunctionGoesOn
<1>3. QED
  BY <1>1, <1>2

LEMMA OneOrTwo == \A k \in 1..2 : k = 1 \/ k = 2
  OBVIOUS

(* ... above or not                                                        *)
LEMMA HarmlessAbove ==
  ASSUME NEW s, IsSeq(s), Reading(s), NEW t, t = s \/ \E f : Harmless(f) /\ t = <<f>> \o s
  PROVE  (\A m : m \in Making(t) <=> m \in Making(s)) /\ Reading(t)
<1>1. ASSUME NEW f, Harmless(f), t = <<f>> \o s
      PROVE  (\A m : m \in Making(t) <=> m \in Making(s)) /\ Reading(t)
  <2>1. f.proc \notin Functional /\ Reader(f)
    BY <1>1 DEF Harmless, Reader, Functional
  <2>2. ASSUME NEW m PROVE m \in Making(t) <=> m \in Making(s) \/ (f.proc \in Functional /\ m = View(t, 1))
    BY <1>1, PushedMaking
  <2>3. Reading(t)
    BY <1>1, <2>1, PushedMaking
  <2>4. QED
    BY <2>1, <2>2, <2>3
<1>2. QED
  BY <1>1

LEMMA ParamsGoOn ==
  ASSUME FSound, Advances, visited' = visited, argscomplete' = argscomplete,
         \A e \in Held' : heap'[e].type = "function" => e \in Held,
         stack # <<>>, stack[1].proc = "params", NEW d, NEW c, d = stack[1].D, c = stack[1].C,
         stack[1].i <= Len(Decl(d).params),
         NEW s, IsSeq(s), Len(s) = Len(stack), s[2] = stack[2],
         s[1].proc = "params", s[1].D = d, s[1].C = c, {"C", "at", "i"} \subseteq DOMAIN s[1],
         stack' = s \/ \E f : Harmless(f) /\ stack' = <<f>> \o s,
         NEW n, n = s[1].i - 1, s[1].i \in 1..Len(Decl(d).params) + 1, Argued(c, d, n)',
         NEW u, u = Decl(d).params[s[1].i].type, s[1].at = "type" \/ Comes(u)',
         \A b : b # c /\ b \in DOMAIN arguments => b \in DOMAIN arguments' /\ arguments'[b] = arguments[b]
  PROVE  FunctionInv'
<1>0. PICK ps, g : ps = Decl(d).params /\ g = s[1]
  OBVIOUS
<1>1. /\ Len(stack) = 2 /\ IsSeq(stack)
      /\ stack[2].proc = "function" /\ stack[2].D = d /\ stack[2].C = c /\ stack[2].at = "macros"
      /\ \A m : m \in Making(stack) <=> m = View(stack, 1) \/ m = View(stack, 2)
      /\ d \in Visited /\ d \in Functions /\ c \in Held /\ Declares(d, c)
      /\ stack[1].i \in 1..Len(Decl(d).params) + 1
      /\ c \in argscomplete => \A e \in Functions : Decl(e).def /\ Declares(e, c) => Decl(d).params = <<>>
  BY InParams
<1>2. IsSeq(s) /\ Len(s) = 2 /\ s[1] = g /\ s[2] = stack[2]
  BY <1>0, <1>1
<1>3. Reader(g) /\ g.proc \in Functional
  BY <1>0 DEF Reader, Reads, Functional
<1>4. Reading(s)
  <2>1. \A k \in 1..Len(s) : s[k] = g \/ (k \in 1..Len(stack) /\ s[k] = stack[k])
    BY <1>1, <1>2, OneOrTwo
  <2>2. QED
    BY <1>3, <2>1 DEF FSound, FunctionInv, Reading, Reader
<1>5. PICK v, w : v = View(s, 1) /\ w = View(s, 2)
  OBVIOUS
<1>6. /\ v.proc = "params" /\ v.D = d /\ v.C = c /\ v.at = g.at /\ v.i = g.i /\ v.depth = 1
      /\ w.proc = "function" /\ w.D = d /\ w.C = c /\ w.at = "macros" /\ w.depth = 0
  BY <1>0, <1>1, <1>2, <1>5 DEF View
<1>7. ASSUME NEW m PROVE m \in Making(s) <=> m = v \/ m = w
  <2>0. Len(s) = 2
    BY <1>2
  <2>1. \A k \in 1..Len(s) : k = 1 \/ k = 2
    BY <2>0, OneOrTwo
  <2>2. 1 \in 1..Len(s) /\ 2 \in 1..Len(s) /\ s[1].proc \in Functional /\ s[2].proc \in Functional
    BY <1>1, <1>2, <1>3 DEF Functional
  <2>3. QED
    BY <1>5, <2>1, <2>2, MakingOf
<1>8. PICK t : t = stack'
  OBVIOUS
<1>9. (\A m : m \in Making(t) <=> m \in Making(s)) /\ Reading(t)
  BY <1>2, <1>4, <1>8, HarmlessAbove
<1>10. \A m : m \in Making(stack)' <=> m = v \/ m = w
  <2>1. Making(stack)' = Making(t)
    BY <1>8 DEF Making
  <2>2. QED
    BY <1>7, <1>9, <2>1
<1>11. /\ program' = program /\ Functions' = Functions /\ (\A e : Decl(e)' = Decl(e)) /\ Held \subseteq Held'
       /\ Visited' = Visited
  BY Advanced DEF Advances, Unit, clangVars, Visited, TopLevel, TU
<1>12. Reading(stack)'
  <2>1. Reading(t)' <=> Reading(t)
    BY <1>11, SourcesKept
  <2>2. QED
    BY <1>8, <1>9, <2>1 DEF Reading
<1>13. Declares(d, c)' /\ \A e : Declares(e, c)' <=> Declares(e, c)
  BY <1>1, DeclaresKept
<1>14. ASSUME NEW e \in Functions, Decl(e).def, Declares(e, c) PROVE c \notin argscomplete
  <2>1. ASSUME c \in argscomplete PROVE FALSE
    <3>1. ps = <<>>
      BY <1>0, <1>1, <1>14, <2>1
    <3>2. Len(ps) = 0
      BY <3>1
    <3>3. stack[1].i \in 1..1 /\ stack[1].i <= 0
      BY <1>0, <1>1, <3>2
    <3>4. QED
      BY <3>3
  <2>2. QED
    BY <2>1
<1>15. ASSUME NEW m \in Making(stack)' PROVE Makes(m)'
  <2>1. CASE m = w
    BY <1>1, <1>6, <1>11, <1>13, <2>1 DEF Makes
  <2>2. CASE m = v
    <3>1. \E f \in Making(stack)' : f.proc = "function" /\ f.D = d /\ f.C = c /\ f.at = "macros"
      BY <1>6, <1>10
    <3>2. (c \in argscomplete => \A e \in Functions : Decl(e).def /\ Declares(e, c) => Decl(d).params = <<>>)'
      BY <1>11, <1>13, <1>14
    <3>3. (v.i \in 1..Len(Decl(d).params) + 1 /\ Argued(c, d, v.i - 1))'
      BY <1>0, <1>6, <1>11
    <3>4. (v.at = "retry" => Comes(Decl(d).params[v.i].type))'
      BY <1>0, <1>6, <1>11
    <3>5. QED
      BY <1>1, <1>6, <1>11, <1>13, <2>2, <3>1, <3>2, <3>3, <3>4 DEF Makes
  <2>3. QED
    BY <1>10, <2>1, <2>2
<1>16. ASSUME NEW e \in Functions, NEW b \in Held, Declares(e, b)
       PROVE  /\ Decl(e).def /\ Completed(e, b) => Completed(e, b)'
              /\ ReturnReferred(e, b) => ReturnReferred(e, b)'
              /\ b \in argscomplete' /\ Decl(e).def => Argued(b, e, Len(Decl(e).params))'
  <2>1. PICK k, j : k = View(stack, 1) /\ j = View(stack, 2)
    OBVIOUS
  <2>2. /\ k.proc = "params" /\ k.D = d /\ k.C = c
        /\ j.proc = "function" /\ j.D = d /\ j.C = c /\ j.at = "macros"
    BY <1>1, <2>1 DEF View
  <2>3. ASSUME Completed(e, b) PROVE Completed(e, b)'
    BY <1>1, <1>6, <1>10, <2>1, <2>2, <2>3 DEF Completed
  <2>4. ASSUME ReturnReferred(e, b) PROVE ReturnReferred(e, b)'
    <3>1. PICK x : x = Decl(e).type /\ Decl(e)' = Decl(e)
      BY <1>11
    <3>2. Refers(b, x, <<"return", -1>>)
      BY <1>1, <2>1, <2>2, <2>4, <3>1 DEF ReturnReferred
    <3>3. Refers(b, x, <<"return", -1>>)'
      BY <3>2, RefersKept
    <3>4. QED
      BY <3>1, <3>3 DEF ReturnReferred
  <2>5. ASSUME b \in argscomplete', Decl(e).def PROVE Argued(b, e, Len(Decl(e).params))'
    <3>1. PICK x : x = Len(Decl(e).params)
      OBVIOUS
    <3>2. Argued(b, e, x)
      BY <1>16, <2>5, <3>1 DEF FSound, FunctionInv
    <3>3. b # c
      BY <1>14, <1>16, <2>5
    <3>4. Argued(b, e, x)'
      BY <3>2, <3>3, ArguedKept
    <3>5. QED
      BY <1>11, <3>1, <3>4
  <2>6. QED
    BY <2>3, <2>4, <2>5
<1>17. QED
  BY <1>12, <1>15, <1>16, FunctionStays

(* The first arguments and one more                                        *)
LEMMA OneMore ==
  ASSUME NEW ps, NEW j \in Nat, j >= 1, NEW n, n = j - 1, NEW x, x = [i \in 1..n |-> ps[i]]
  PROVE  Append(x, ps[j]) = [i \in 1..j |-> ps[i]]
<1> DEFINE S == {ps[i] : i \in 1..j}
<1>1. n \in Nat /\ j = n + 1
  OBVIOUS
<1>2. x \in Seq(S) /\ Len(x) = n /\ ps[j] \in S
  <2>1. \A i \in 1..n : ps[i] \in S
    BY <1>1
  <2>2. ps[j] \in S
    BY <1>1
  <2> HIDE DEF S
  <2>3. QED
    BY <1>1, <2>1, <2>2
<1>3. [i \in 1..j |-> ps[i]] \in Seq(S)
  OBVIOUS
<1> HIDE DEF S
<1>4. Append(x, ps[j]) \in Seq(S) /\ Len(Append(x, ps[j])) = j
  BY <1>1, <1>2
<1>5. \A i \in 1..j : Append(x, ps[j])[i] = ps[i]
  BY <1>1, <1>2
<1>6. Append(x, ps[j]) = [i \in 1..Len(Append(x, ps[j])) |-> Append(x, ps[j])[i]]
  BY <1>4
<1>7. QED
  BY <1>4, <1>5, <1>6

LEMMA AtParam ==
  ASSUME IsSeq(stack), Len(stack) = 2, {"at", "i"} \subseteq DOMAIN stack[1], NEW l, NEW s, s = At(l)
  PROVE  /\ IsSeq(s) /\ Len(s) = Len(stack) /\ s[2] = stack[2]
         /\ s[1].proc = stack[1].proc /\ s[1].D = stack[1].D /\ s[1].C = stack[1].C
         /\ s[1].at = l /\ s[1].i = stack[1].i /\ DOMAIN s[1] = DOMAIN stack[1]
<1>1. PICK g : g = [stack[1] EXCEPT !.at = l]
  OBVIOUS
<1>2. s = Put(stack, 1, g)
  BY <1>1 DEF At, Put
<1>3. IsSeq(s) /\ Len(s) = 2 /\ s[1] = g /\ s[2] = stack[2]
  BY <1>2, ExceptAny
<1>4. /\ g.proc = stack[1].proc /\ g.D = stack[1].D /\ g.C = stack[1].C
      /\ g.at = l /\ g.i = stack[1].i /\ DOMAIN g = DOMAIN stack[1]
  BY <1>1
<1>5. QED
  BY <1>3, <1>4

LEMMA NextParamIs ==
  ASSUME IsSeq(stack), Len(stack) = 2, {"at", "i"} \subseteq DOMAIN stack[1], NEW s, s = NextParam
  PROVE  /\ IsSeq(s) /\ Len(s) = Len(stack) /\ s[2] = stack[2]
         /\ s[1].proc = stack[1].proc /\ s[1].D = stack[1].D /\ s[1].C = stack[1].C
         /\ s[1].at = "type" /\ s[1].i = stack[1].i + 1 /\ DOMAIN s[1] = DOMAIN stack[1]
<1>1. PICK l, t : l = "type" /\ t = At(l)
  OBVIOUS
<1>2. /\ IsSeq(t) /\ Len(t) = 2 /\ t[2] = stack[2]
      /\ t[1].proc = stack[1].proc /\ t[1].D = stack[1].D /\ t[1].C = stack[1].C
      /\ t[1].at = l /\ t[1].i = stack[1].i /\ DOMAIN t[1] = DOMAIN stack[1]
  BY <1>1, AtParam
<1>3. PICK g, h : g = t[1] /\ h = [g EXCEPT !.i = @ + 1]
  OBVIOUS
<1>4. s = Put(t, 1, h)
  BY <1>1, <1>3 DEF NextParam, Put
<1>5. IsSeq(s) /\ Len(s) = 2 /\ s[1] = h /\ s[2] = stack[2]
  BY <1>2, <1>4, ExceptAny
<1>6. /\ h.proc = g.proc /\ h.D = g.D /\ h.C = g.C
      /\ h.at = g.at /\ h.i = g.i + 1 /\ DOMAIN h = DOMAIN g
  BY <1>2, <1>3
<1>7. QED
  BY <1>1, <1>2, <1>3, <1>5, <1>6

LEMMA FunctionArgumentFunction ==
  ASSUME FSound, FunctionArgument, UNCHANGED Unit PROVE FunctionInv'
<1>1. /\ stack # <<>> /\ Head(stack).proc = "params" /\ Head(stack).at \in {"type", "retry"}
      /\ argscomplete' = argscomplete
  BY DEF FunctionArgument, Running
<1>2. stack[1].proc = "params" /\ Head(stack) = stack[1]
  BY <1>1, InnermostFits
<1>3. PICK d, c, ps, j : d = stack[1].D /\ c = stack[1].C /\ ps = Decl(d).params /\ j = stack[1].i
  OBVIOUS
<1>4. PICK q, u : q = ps[j] /\ u = q.type
  OBVIOUS
<1>5. /\ Len(stack) = 2 /\ IsSeq(stack) /\ {"C", "at", "i"} \subseteq DOMAIN stack[1]
      /\ \A e : ~Defining(stack, e)
      /\ d \in Functions /\ c \in Held
      /\ j \in 1..Len(Decl(d).params) + 1 /\ Argued(c, d, j - 1)
      /\ stack[1].at = "retry" => Comes(u)
  BY <1>1, <1>2, <1>3, <1>4, InParams
<1>6. j <= Len(ps) /\ q = Param
  BY <1>2, <1>3, <1>4 DEF FunctionArgument, This, Param
<1>7. IsSeq(ps) /\ Len(ps) \in Nat /\ \A i \in 1..Len(ps) : IsType(program, ps[i].type)
  BY <1>3, <1>5, ProgramForms, FSoundFits DEF Functions, IsSeq
<1>8. j \in Nat /\ j >= 1 /\ j \in 1..Len(ps)
  BY <1>3, <1>5, <1>6, <1>7
<1>9. IsType(program, u)
  BY <1>4, <1>7, <1>8
<1>10. PICK n : n = j - 1
  OBVIOUS
<1>11. Argued(c, d, n)
  BY <1>5, <1>10
<1>12. CASE DiscoverVisits(u) /\ UNCHANGED arguments
  <2>0. PICK l : l = "retry"
    OBVIOUS
  <2>1. PICK s : s = At(l)
    OBVIOUS
  <2>2. /\ IsSeq(s) /\ Len(s) = Len(stack) /\ s[2] = stack[2]
        /\ s[1].proc = "params" /\ s[1].D = d /\ s[1].C = c
        /\ {"C", "at", "i"} \subseteq DOMAIN s[1] /\ s[1].i = j
    <3>1. {"at", "i"} \subseteq DOMAIN stack[1] /\ s = At(l)
      BY <1>5, <2>1
    <3>2. /\ IsSeq(s) /\ Len(s) = Len(stack) /\ s[2] = stack[2]
          /\ s[1].proc = stack[1].proc /\ s[1].D = stack[1].D /\ s[1].C = stack[1].C
          /\ s[1].i = stack[1].i /\ DOMAIN s[1] = DOMAIN stack[1]
      BY <1>5, <3>1, AtParam
    <3>3. QED
      BY <1>2, <1>3, <1>5, <3>2
  <2>3. /\ BindsPlain /\ visited' = visited /\ references' = references
        /\ stack' = s \/ \E f : Harmless(f) /\ stack' = <<f>> \o s
        /\ Comes(u)'
    BY <1>9, <1>12, <2>0, <2>1, <2>2, TypeVisited
  <2>4. UNCHANGED functionVars /\ references \subseteq references'
    BY <1>1, <1>12, <2>3 DEF functionVars
  <2>5. Advances /\ \A e \in Held' : heap'[e].type = "function" => e \in Held
    BY <2>3, <2>4, PlainAdvances
  <2>6. Argued(c, d, n)'
    BY <1>11, <1>12, <2>5, ArguedKept
  <2>7. n = s[1].i - 1 /\ s[1].i \in 1..Len(Decl(d).params) + 1 /\ u = Decl(d).params[s[1].i].type
    BY <1>3, <1>4, <1>5, <1>10, <2>2
  <2>8. \A b : b # c /\ b \in DOMAIN arguments => b \in DOMAIN arguments' /\ arguments'[b] = arguments[b]
    BY <1>12
  <2>9. visited' = visited /\ stack[1].i <= Len(Decl(d).params) /\ (s[1].at = "type" \/ Comes(u)')
    BY <1>3, <1>6, <2>3
  <2>10. stack' = s \/ \E f : Harmless(f) /\ stack' = <<f>> \o s
    BY <2>3
  <2>11. QED
    BY <1>1, <1>2, <1>3, <2>2, <2>5, <2>6, <2>7, <2>8, <2>9, <2>10, ParamsGoOn
<1>13. CASE ~(DiscoverVisits(u) /\ UNCHANGED arguments)
  <2>1. PICK s, r : s = NextParam /\ r = <<"argument", j>>
    OBVIOUS
  <2>2. /\ DiscoverRefers(u, r, s) \/ DiscoverFails(u, stack' = s /\ UNCHANGED aborted)
        /\ arguments' = [arguments EXCEPT ![c] = Append(@, q)]
    BY <1>2, <1>3, <1>4, <1>6, <1>13, <2>1 DEF FunctionArgument, cm
  <2>3. /\ UNCHANGED Bound /\ visited' = visited /\ references \subseteq references' /\ stack' = s
        /\ Refers(c, u, r)'
    BY <1>1, <1>2, <1>3, <1>5, <1>9, <2>2, TypeReferred
  <2>4. /\ IsSeq(s) /\ Len(s) = Len(stack) /\ s[2] = stack[2]
        /\ s[1].proc = "params" /\ s[1].D = d /\ s[1].C = c /\ s[1].at = "type"
        /\ {"C", "at", "i"} \subseteq DOMAIN s[1] /\ s[1].i = j + 1
    BY <1>2, <1>3, <1>5, <2>1, NextParamIs
  <2>5. argscomplete' \subseteq 1..Len(heap) /\ UNCHANGED <<heap, allComponents, Components>>
    BY <1>1, <2>3, FSoundFits DEF FunctionStore, Bound
  <2>6. Advances /\ Held' = Held
    BY <2>3, <2>5, QuietAdvances
  <2>7. Argued(c, d, j)'
    <3>1. PICK x : x = arguments[c]
      OBVIOUS
    <3>2. /\ c \in DOMAIN arguments /\ x = [i \in 1..n |-> ps[i]]
          /\ \A i \in 1..n : Refers(c, ps[i].type, <<"argument", i>>)
      BY <1>3, <1>11, <3>1 DEF Argued
    <3>3. Append(x, q) = [i \in 1..j |-> ps[i]]
      BY <1>4, <1>8, <1>10, <3>2, OneMore
    <3>4. c \in DOMAIN arguments' /\ arguments'[c] = [i \in 1..j |-> ps[i]]
      BY <2>2, <3>1, <3>2, <3>3
    <3>5. Decl(d)' = Decl(d)
      BY <2>6, Advanced
    <3>6. ASSUME NEW i \in 1..j PROVE Refers(c, ps[i].type, <<"argument", i>>)'
      <4>1. i \in 1..n \/ i = j
        BY <1>8, <1>10, <3>6
      <4>2. PICK v, w : v = ps[i].type /\ w = <<"argument", i>>
        OBVIOUS
      <4>3. CASE i \in 1..n
        <5>1. Refers(c, v, w)
          BY <3>2, <4>2, <4>3
        <5>2. Refers(c, v, w)'
          BY <2>6, <5>1, RefersKept
        <5>3. QED
          BY <4>2, <5>2
      <4>4. CASE i = j
        BY <1>4, <2>1, <2>3, <4>4
      <4>5. QED
        BY <4>1, <4>3, <4>4
    <3>7. QED
      BY <1>3, <3>4, <3>5, <3>6 DEF Argued
  <2>8. j = s[1].i - 1 /\ s[1].i \in 1..Len(Decl(d).params) + 1
    <3>1. PICK k, m : k = s[1].i /\ m = Len(ps)
      OBVIOUS
    <3>2. k = j + 1 /\ m \in Nat /\ j \in 1..m
      BY <1>7, <1>8, <2>4, <3>1
    <3>3. j = k - 1 /\ k \in 1..m + 1
      BY <3>2
    <3>4. QED
      BY <1>3, <3>1, <3>3
  <2>9. \A b : b # c /\ b \in DOMAIN arguments => b \in DOMAIN arguments' /\ arguments'[b] = arguments[b]
    BY <2>2
  <2>10. visited' = visited /\ stack[1].i <= Len(Decl(d).params)
    BY <1>3, <1>6, <2>3
  <2>11. PICK v, m : v = Decl(d).params[s[1].i].type /\ m = s[1].i - 1
    OBVIOUS
  <2>12. Argued(c, d, m)'
    <3>1. m = j
      BY <2>8, <2>11
    <3>2. QED
      BY <2>7, <3>1
  <2>13. m = s[1].i - 1 /\ s[1].i \in 1..Len(Decl(d).params) + 1 /\ v = Decl(d).params[s[1].i].type
    BY <2>8, <2>11
  <2>14. /\ IsSeq(s) /\ Len(s) = Len(stack) /\ s[2] = stack[2]
         /\ s[1].proc = "params" /\ s[1].D = d /\ s[1].C = c
         /\ {"C", "at", "i"} \subseteq DOMAIN s[1]
    BY <2>4
  <2>15. Advances /\ \A e \in Held' : heap'[e].type = "function" => e \in Held
    BY <2>6
  <2>16. visited' = visited /\ stack[1].i <= Len(Decl(d).params) /\ (s[1].at = "type" \/ Comes(v)')
    BY <1>3, <1>6, <2>3, <2>4
  <2>17. stack' = s \/ \E f : Harmless(f) /\ stack' = <<f>> \o s
    BY <2>3
  <2>18. QED
    BY <1>1, <1>2, <1>3, <2>9, <2>12, <2>13, <2>14, <2>15, <2>16, <2>17, ParamsGoOn
<1>14. QED
  BY <1>12, <1>13

LEMMA TailOfTwo ==
  ASSUME NEW s, IsSeq(s), Len(s) = 2, NEW t, t = Tail(s) PROVE Len(t) = 1 /\ t[1] = s[2]
  BY DEF IsSeq

LEMMA NothingLeft ==
  ASSUME NEW s, IsSeq(s), Len(s) = 1, NEW t, t = Tail(s) PROVE Making(t) = {} /\ Reading(t)
<1>1. Len(t) = 0
  BY DEF IsSeq
<1>2. 1..Len(t) = {}
  <2>1. 1..0 = {}
    OBVIOUS
  <2>2. QED
    BY <1>1, <2>1
<1>3. \A m : m \notin Making(t)
  BY <1>2, MakingOf
<1>4. Making(t) = {}
  BY <1>3
<1>5. Reading(t)
  BY <1>2 DEF Reading
<1>6. QED
  BY <1>4, <1>5

LEMMA ArgumentsEndFunction ==
  ASSUME FSound, ArgumentsEnd, UNCHANGED Unit PROVE FunctionInv'
<1>1. /\ stack # <<>> /\ Head(stack).proc = "params" /\ stack' = Tail(stack)
      /\ UNCHANGED <<Bound, references, visited, arguments>>
  BY DEF ArgumentsEnd, Running
<1>2. stack[1].proc = "params" /\ Head(stack) = stack[1]
  BY <1>1, InnermostFits
<1>3. PICK d, c, ps : d = stack[1].D /\ c = stack[1].C /\ ps = Decl(d).params
  OBVIOUS
<1>4. /\ Len(stack) = 2 /\ IsSeq(stack)
      /\ stack[2].proc = "function" /\ stack[2].D = d /\ stack[2].C = c /\ stack[2].at = "macros"
      /\ \A m : m \in Making(stack) <=> m = View(stack, 1) \/ m = View(stack, 2)
      /\ d \in Visited /\ d \in Functions /\ c \in Held /\ Declares(d, c)
      /\ stack[1].i \in 1..Len(ps) + 1 /\ Argued(c, d, stack[1].i - 1)
  BY <1>1, <1>2, <1>3, InParams
<1>5. /\ stack[1].i > Len(ps)
      /\ argscomplete' = IF Decl(d).def THEN argscomplete \cup {c} ELSE argscomplete
  BY <1>2, <1>3 DEF ArgumentsEnd, This, cm
<1>6. Argued(c, d, Len(ps))
  <2>1. Len(ps) \in Nat
    BY <1>3, <1>4, ProgramForms, FSoundFits DEF Functions, IsSeq
  <2>2. stack[1].i - 1 = Len(ps)
    BY <1>4, <1>5, <2>1
  <2>3. QED
    BY <1>4, <2>2
<1>7. Advances /\ Held' = Held
  <2>1. argscomplete' \subseteq 1..Len(heap)
    BY <1>4, <1>5, FSoundFits DEF FunctionStore
  <2>2. QED
    BY <1>1, <2>1, QuietAdvances DEF Bound
<1>8. PICK t, k : t = Tail(stack) /\ k = View(stack, 1)
  OBVIOUS
<1>9. Reading(t)
  BY <1>1, <1>4, <1>8, PoppedMaking DEF FSound, FunctionInv
<1>10. Reading(stack)'
  <2>1. Reading(t)' <=> Reading(t)
    BY <1>7, Advanced, SourcesKept
  <2>2. QED
    BY <1>1, <1>8, <1>9, <2>1 DEF Reading
<1>11. PICK v : v = View(stack, 2)
  OBVIOUS
<1>12. v.proc = "function" /\ v.D = d /\ v.C = c /\ v.at = "macros" /\ v.depth = 0
  BY <1>4, <1>11 DEF View
<1>13. k.proc = "params" /\ k.D = d /\ k.C = c
  BY <1>2, <1>3, <1>8 DEF View
<1>14. ASSUME NEW m PROVE m \in Making(stack)' <=> m = v
  <2>1. Len(t) = 1 /\ t[1] = stack[2] /\ Len(stack) = 2
    BY <1>4, <1>8, TailOfTwo
  <2>2. View(t, 1) = v
    BY <1>11, <2>1 DEF View
  <2>3. \A i \in 1..Len(t) : i = 1
    BY <2>1
  <2>4. 1 \in 1..Len(t) /\ t[1].proc \in Functional
    BY <1>4, <2>1 DEF Functional
  <2>5. m \in Making(t) <=> m = v
    BY <2>2, <2>3, <2>4, MakingOf
  <2>6. Making(stack)' = Making(t)
    BY <1>1, <1>8 DEF Making
  <2>7. QED
    BY <2>5, <2>6
<1>15. /\ Functions' = Functions /\ (\A e : Decl(e)' = Decl(e)) /\ Visited' = Visited /\ Held' = Held
  BY <1>1, <1>7, Advanced DEF Advances, Unit, clangVars, Visited, TopLevel, TU
<1>16. ASSUME NEW m \in Making(stack)' PROVE Makes(m)'
  <2>1. Declares(d, c)'
    BY <1>4, <1>7, DeclaresKept
  <2>2. QED
    BY <1>4, <1>12, <1>14, <1>15, <2>1 DEF Makes
<1>17. ASSUME NEW e \in Functions, NEW b \in Held, Declares(e, b)
       PROVE  /\ Decl(e).def /\ Completed(e, b) => Completed(e, b)'
              /\ ReturnReferred(e, b) => ReturnReferred(e, b)'
              /\ b \in argscomplete' /\ Decl(e).def => Argued(b, e, Len(Decl(e).params))'
  <2>1. ASSUME Decl(e).def, Completed(e, b) PROVE Completed(e, b)'
    <3>1. CASE b \in argscomplete
      BY <1>5, <3>1 DEF Completed
    <3>2. CASE b \notin argscomplete
      <4>1. PICK m \in Making(stack) : m.D = e /\ m.C = b /\ (m.proc = "params" \/ m.at # "macros")
        BY <2>1, <3>2 DEF Completed
      <4>2. m = k
        BY <1>4, <1>8, <1>11, <1>12, <4>1
      <4>3. e = d /\ b = c
        BY <1>13, <4>1, <4>2
      <4>4. b \in argscomplete'
        BY <1>5, <2>1, <4>3
      <4>5. QED
        BY <4>4 DEF Completed
    <3>3. QED
      BY <3>1, <3>2
  <2>2. ASSUME ReturnReferred(e, b) PROVE ReturnReferred(e, b)'
    <3>1. PICK x : x = Decl(e).type /\ Decl(e)' = Decl(e)
      BY <1>15
    <3>2. Refers(b, x, <<"return", -1>>)
      BY <1>4, <1>8, <1>11, <1>12, <1>13, <2>2, <3>1 DEF ReturnReferred
    <3>3. Refers(b, x, <<"return", -1>>)'
      BY <1>7, <3>2, RefersKept
    <3>4. QED
      BY <3>1, <3>3 DEF ReturnReferred
  <2>3. ASSUME b \in argscomplete', Decl(e).def PROVE Argued(b, e, Len(Decl(e).params))'
    <3>1. PICK x : x = Len(Decl(e).params)
      OBVIOUS
    <3>2. Argued(b, e, x)
      <4>1. CASE b \in argscomplete
        BY <1>17, <2>3, <3>1, <4>1 DEF FSound, FunctionInv
      <4>2. CASE b \notin argscomplete
        <5>1. b = c /\ Decl(d).def
          BY <1>5, <2>3, <4>2
        <5>2. d = e
          BY <1>1, <1>4, <1>17, <2>3, <5>1, OneFunction
        <5>3. QED
          BY <1>3, <1>6, <3>1, <5>1, <5>2
      <4>3. QED
        BY <4>1, <4>2
    <3>3. Argued(b, e, x)'
      BY <1>1, <1>7, <3>2, ArguedKept
    <3>4. QED
      BY <1>15, <3>1, <3>3
  <2>4. QED
    BY <2>1, <2>2, <2>3
<1>18. \A b \in Held' : heap'[b].type = "function" => b \in Held
  BY <1>7
<1>19. QED
  BY <1>1, <1>7, <1>10, <1>16, <1>17, <1>18, FunctionStays

LEMMA FunctionMacrosFunction ==
  ASSUME FSound, FunctionMacros, UNCHANGED Unit PROVE FunctionInv'
<1>1. /\ stack # <<>> /\ Head(stack).proc = "function" /\ Head(stack).at = "macros"
      /\ stack' = Tail(stack) /\ UNCHANGED <<Bound, references, visited, arguments, argscomplete>>
  BY DEF FunctionMacros, Running, functionVars
<1>2. stack[1].proc = "function" /\ stack[1].at = "macros"
  BY <1>1, InnermostFits
<1>3. PICK k : k = View(stack, 1)
  OBVIOUS
<1>4. Len(stack) = 1 /\ IsSeq(stack) /\ \A m : m \in Making(stack) <=> m = k
  BY <1>1, <1>2, <1>3, OnlyFunction
<1>5. k.proc = "function" /\ k.at = "macros"
  BY <1>2, <1>3 DEF View
<1>6. PICK t : t = Tail(stack)
  OBVIOUS
<1>7. Making(stack)' = {} /\ Reading(stack)'
  <2>1. Making(t) = {} /\ Reading(t)
    BY <1>4, <1>6, NothingLeft
  <2>2. stack' = t /\ program' = program
    BY <1>1, <1>6 DEF Unit, clangVars
  <2>3. Reading(t)' <=> Reading(t)
    BY <2>2, SourcesKept
  <2>4. QED
    BY <2>1, <2>2, <2>3 DEF Making, Reading
<1>8. Advances /\ Held' = Held
  BY <1>1, QuietAdvances, FSoundFits DEF Bound, FunctionStore
<1>9. (\A e : Decl(e)' = Decl(e))
  BY <1>8, Advanced
<1>10. ASSUME NEW e \in Functions, NEW b \in Held, Declares(e, b)
       PROVE  /\ Decl(e).def /\ Completed(e, b) => Completed(e, b)'
              /\ ReturnReferred(e, b) => ReturnReferred(e, b)'
              /\ b \in argscomplete' /\ Decl(e).def => Argued(b, e, Len(Decl(e).params))'
  <2>1. ASSUME Completed(e, b) PROVE Completed(e, b)'
    BY <1>1, <1>4, <1>5, <2>1 DEF Completed
  <2>2. ASSUME ReturnReferred(e, b) PROVE ReturnReferred(e, b)'
    <3>1. PICK x : x = Decl(e).type /\ Decl(e)' = Decl(e)
      BY <1>9
    <3>2. Refers(b, x, <<"return", -1>>)
      BY <1>4, <1>5, <2>2, <3>1 DEF ReturnReferred
    <3>3. Refers(b, x, <<"return", -1>>)'
      BY <1>8, <3>2, RefersKept
    <3>4. QED
      BY <3>1, <3>3 DEF ReturnReferred
  <2>3. ASSUME b \in argscomplete', Decl(e).def PROVE Argued(b, e, Len(Decl(e).params))'
    <3>1. PICK x : x = Len(Decl(e).params)
      OBVIOUS
    <3>2. Argued(b, e, x)
      BY <1>1, <1>10, <2>3, <3>1 DEF FSound, FunctionInv
    <3>3. Argued(b, e, x)'
      BY <1>1, <1>8, <3>2, ArguedKept
    <3>4. QED
      BY <1>9, <3>1, <3>3
  <2>4. QED
    BY <2>1, <2>2, <2>3
<1>11. \A b \in Held' : heap'[b].type = "function" => b \in Held
  BY <1>8
<1>12. QED
  BY <1>1, <1>7, <1>8, <1>10, <1>11, FunctionStays

LEMMA ElementInRange == ASSUME NEW s, IsSeq(s), NEW k \in 1..Len(s) PROVE s[k] \in Range(s)
<1>1. k \in DOMAIN s
  BY DEF IsSeq
<1>2. QED
  BY <1>1 DEF Range

-----------------------------------------------------------------------------
(* VisitDeclContext                                                        *)
LEMMA TopVisited ==
  ASSUME FSound, VisitTop, UNCHANGED Unit, NEW d, d = TopLevel[visited + 1]
  PROVE  /\ d \in Range(TopLevel) /\ Declared(d) /\ phase = "ast" /\ stack = <<>>
         /\ Visited' = Visited \cup {d} /\ UnitFits'
         /\ Enter(d, <<>>) /\ UNCHANGED <<references, names>>
<1>1. /\ phase = "ast" /\ stack = <<>> /\ visited < Len(TopLevel) /\ visited' = visited + 1
      /\ Enter(d, <<>>) /\ UNCHANGED <<references, names>>
  BY DEF VisitTop
<1>2. /\ program \in Programs /\ UnitFits
  BY FSoundFits
<1>3. IsSeq(TopLevel) /\ Len(TopLevel) \in Nat /\ visited \in Nat
  BY <1>1, <1>2, ProgramForms DEF UnitFits, TopLevel, IsSeq
<1>4. visited + 1 \in 1..Len(TopLevel)
  BY <1>1, <1>3
<1>5. d \in Range(TopLevel)
  <2>1. PICK ts, k : ts = TopLevel /\ k = visited + 1
    OBVIOUS
  <2>2. IsSeq(ts) /\ k \in 1..Len(ts) /\ d = ts[k]
    BY <1>3, <1>4, <2>1
  <2>3. QED
    BY <2>1, <2>2, ElementInRange
<1>6. Declared(d)
  BY <1>1 DEF Enter
<1>7. /\ TopLevel' = TopLevel /\ phase' = phase /\ TU' = TU /\ TranslationUnits' = TranslationUnits
  BY DEF Unit, clangVars, TopLevel, TU
<1>8. Visited' = Visited \cup {d}
  <2>1. 1..visited + 1 = (1..visited) \cup {visited + 1}
    BY <1>3
  <2>2. PICK ts : ts = TopLevel
    OBVIOUS
  <2>3. {ts[k] : k \in 1..visited + 1} = {ts[k] : k \in 1..visited} \cup {ts[visited + 1]}
    BY <2>1
  <2>4. QED
    BY <1>1, <1>7, <2>2, <2>3 DEF Visited
<1>9. UnitFits'
  BY <1>1, <1>2, <1>3, <1>5, <1>7, <1>8 DEF UnitFits
<1>10. QED
  BY <1>1, <1>5, <1>6, <1>8, <1>9

(* The outermost call begins, perhaps.                                     *)
LEMMA VisitorCalled ==
  ASSUME FSound, Advances, UNCHANGED functionVars, stack = <<>>, UnitFits', Reading(stack)',
         \A m \in Making(stack)' : Makes(m)',
         \A d \in Visited' \cap Functions : d \in Visited \/ \E c \in Held' :
           Declares(d, c)' /\ (Decl(d).def => Completed(d, c)'),
         \A d \in Functions : \A c \in Held' : Declares(d, c)' =>
           c \in Held \/ (ReturnReferred(d, c)' /\ c \notin argscomplete')
  PROVE  FunctionInv'
<1>1. Making(stack) = {}
  BY MakingNone
<1>2. (\A e : Decl(e)' = Decl(e)) /\ arguments' = arguments /\ argscomplete' = argscomplete
  BY Advanced DEF functionVars
<1>3. ASSUME NEW e \in Functions, NEW b \in Held, Declares(e, b)
      PROVE  /\ Decl(e).def /\ Completed(e, b) => Completed(e, b)'
             /\ ReturnReferred(e, b) => ReturnReferred(e, b)'
             /\ b \in argscomplete' /\ Decl(e).def => Argued(b, e, Len(Decl(e).params))'
  <2>1. ASSUME Completed(e, b) PROVE Completed(e, b)'
    BY <1>1, <1>2, <2>1 DEF Completed
  <2>2. ASSUME ReturnReferred(e, b) PROVE ReturnReferred(e, b)'
    <3>1. PICK x : x = Decl(e).type /\ Decl(e)' = Decl(e)
      BY <1>2
    <3>2. Refers(b, x, <<"return", -1>>)
      BY <1>1, <2>2, <3>1 DEF ReturnReferred
    <3>3. Refers(b, x, <<"return", -1>>)'
      BY <3>2, RefersKept
    <3>4. QED
      BY <3>1, <3>3 DEF ReturnReferred
  <2>3. ASSUME b \in argscomplete', Decl(e).def PROVE Argued(b, e, Len(Decl(e).params))'
    <3>1. PICK x : x = Len(Decl(e).params)
      OBVIOUS
    <3>2. Argued(b, e, x)
      BY <1>2, <1>3, <2>3, <3>1 DEF FSound, FunctionInv
    <3>3. Argued(b, e, x)'
      BY <1>2, <3>2, ArguedKept
    <3>4. QED
      BY <1>2, <3>1, <3>3
  <2>4. QED
    BY <2>1, <2>2, <2>3
<1>4. QED
  BY <1>3, FunctionMoves

LEMMA VisitPlainFunction ==
  ASSUME FSound, VisitTop, UNCHANGED Unit, UNCHANGED functionVars, Decl(TopLevel[visited + 1]).kind # "function"
  PROVE  FunctionInv'
<1>1. PICK d, t : d = TopLevel[visited + 1] /\ t = <<>>
  OBVIOUS
<1>2. /\ stack = <<>> /\ Visited' = Visited \cup {d} /\ UnitFits'
      /\ Enter(d, t) /\ UNCHANGED <<references, names>>
  BY <1>1, TopVisited
<1>3. /\ BindsPlain
      /\ stack' = t \/ \E f : Harmless(f) /\ stack' = <<f>> \o t
  <2>1. Decl(d).kind # "function"
    BY <1>1
  <2>2. \/ IsTag(d) /\ EnterTag(d, TRUE, t)
        \/ Declared(d) /\ Decl(d).kind = "var" /\ EnterVar(d, t)
        \/ EnterTypedef(d, t)
    BY <1>2, <2>1 DEF Enter
  <2>3. QED
    BY <2>2, EnterPlain
<1>4. Advances /\ \A c \in Held' : heap'[c].type = "function" => c \in Held
  BY <1>2, <1>3, PlainAdvances
<1>5. PICK s : s = stack'
  OBVIOUS
<1>6. Making(s) = {} /\ Reading(s)
  <2>1. IsSeq(t) /\ Reading(t) /\ Making(t) = {}
    BY <1>1, MakingNone DEF IsSeq, Reading
  <2>2. (\A m : m \in Making(s) <=> m \in Making(t)) /\ Reading(s)
    BY <1>3, <1>5, <2>1, HarmlessAbove
  <2>3. QED
    BY <2>1, <2>2
<1>7. Making(stack)' = {} /\ Reading(stack)'
  <2>1. Reading(s)' <=> Reading(s)
    BY <1>4, Advanced, SourcesKept
  <2>2. QED
    BY <1>5, <1>6, <2>1 DEF Making, Reading
<1>8. \A e \in Visited' \cap Functions : e \in Visited
  BY <1>1, <1>2 DEF Functions
<1>9. \A e \in Functions : \A c \in Held' : Declares(e, c)' => c \in Held
  BY <1>4 DEF Declares, Matches
<1>10. QED
  BY <1>2, <1>4, <1>7, <1>8, <1>9, VisitorCalled

(* The component that the visitor of a function looks up, or binds         *)
LEMMA FunctionFound ==
  ASSUME FSound, NEW d \in Functions, d \in Range(TopLevel), stack = <<>>, phase = "ast",
         NEW hit, hit = Lookup("function", Decl(d).name, Decl(d).static), hit # NULL
  PROVE  hit \in Held /\ Declares(d, hit)
<1>1. PICK n, st : n = Decl(d).name /\ st = Decl(d).static
  OBVIOUS
<1>2. StoreFits /\ FunctionStore /\ program \in Programs /\ TU \in 1..Len(Mains) /\ d \in DOMAIN program.decls
  BY FSoundFits DEF UnitFits, Functions
<1>3. st \in BOOLEAN
  BY <1>1, <1>2, ProgramForms
<1>4. allComponents \subseteq 1..Len(heap) /\ Components \subseteq 1..Len(heap)
  BY <1>2 DEF StoreFits
<1>5. ASSUME NEW c \in allComponents, Matches(c, "function", n)
      PROVE  \E e \in Functions : Declares(e, c) /\ Decl(e).static = TRUE /\ e \in Range(TopLevel)
                                  /\ Decl(e).name = n
  <2>1. heap[c].type = "function" /\ heap[c].local /\ heap[c].id = n
    BY <1>2, <1>5 DEF FunctionStore, Matches
  <2>2. PICK e \in Functions : Declares(e, c)
    BY <1>2, <2>1 DEF FunctionStore
  <2>3. Decl(e).static \in BOOLEAN
    BY <1>2, ProgramForms DEF Functions
  <2>4. Decl(e).static = TRUE
    BY <2>1, <2>2, <2>3 DEF Declares
  <2>5. Decl(e).name = n
    BY <2>1, <2>2 DEF Declares, Matches
  <2>6. QED
    BY <2>2, <2>4, <2>5 DEF Declares
<1>6. CASE st
  <2>1. hit = Find(allComponents, "function", n)
    BY <1>1, <1>6 DEF Lookup, LookupLocal
  <2>2. hit \in allComponents /\ Matches(hit, "function", n)
    BY <1>2, <1>4, <2>1, FindIn
  <2>3. heap[hit].local
    <3>1. PICK e \in Functions : Declares(e, hit) /\ Decl(e).static = TRUE
      BY <1>5, <2>2
    <3>2. QED
      BY <3>1 DEF Declares
  <2>4. QED
    BY <1>1, <1>3, <1>6, <2>2, <2>3 DEF Held, Declares
<1>7. CASE ~st
  <2>1. ~HasKey(allComponents, "function", n)
    <3>1. SUFFICES ASSUME NEW c \in allComponents, Matches(c, "function", n) PROVE FALSE
      BY DEF HasKey
    <3>2. PICK e \in Functions : Decl(e).static = TRUE /\ e \in Range(TopLevel) /\ Decl(e).name = n
      BY <1>5, <3>1
    <3>3. Together(e, d)
      BY <1>2, <3>2, OneUnit
    <3>4. Decl(e).static = Decl(d).static
      BY <1>1, <3>2, <3>3 DEF FSound, Prototyped
    <3>5. QED
      BY <1>1, <1>7, <3>2, <3>4
  <2>2. hit = LookupFull("function", n)
    BY <1>1, <1>7 DEF Lookup
  <2>3. hit \in Components /\ Matches(hit, "function", n)
    BY <1>2, <2>1, <2>2, FoundByKey
  <2>4. ~heap[hit].local
    BY <1>2, <2>3 DEF FunctionStore
  <2>5. QED
    BY <1>1, <1>3, <1>7, <2>3, <2>4 DEF Held, Declares
<1>8. QED
  BY <1>6, <1>7

(* What the call looks like, of a function that is bound or was            *)
LEMMA FunctionBegins ==
  ASSUME FSound, Advances, UNCHANGED functionVars, stack = <<>>, UnitFits',
         NEW d \in Functions, Visited' = Visited \cup {d},
         NEW c \in Held', Declares(d, c)', NEW l, l \in {"type", "body"},
         NEW f, f = [Frame("function", d, c) EXCEPT !.at = l], stack' = <<f>> \o <<>>,
         \A b \in Held' : heap'[b].type = "function" => b \in Held \/ (b = c /\ l = "type"),
         c \notin Held => c \notin argscomplete
  PROVE  FunctionInv'
<1>1. PICK t, s : t = <<>> /\ s = stack'
  OBVIOUS
<1>2. /\ f.proc = "function" /\ f.D = d /\ f.C = c /\ f.at = l /\ {"C", "at", "i"} \subseteq DOMAIN f
  BY DEF Frame
<1>3. IsSeq(t) /\ Reading(t) /\ Making(t) = {} /\ s = <<f>> \o t
  BY <1>1, MakingNone DEF IsSeq, Reading
<1>4. PICK v : v = View(s, 1)
  OBVIOUS
<1>5. Reader(f)
  BY <1>2 DEF Reader, Reads
<1>6. Reading(s) /\ Len(s) = 1 /\ s[1] = f
  <2>1. IsSeq(t) /\ s = <<f>> \o t
    BY <1>3
  <2>2. Reading(s)
    BY <1>3, <1>5, <2>1, PushedMaking
  <2>3. Len(s) = Len(t) + 1 /\ s[1] = f
    BY <2>1, PushedMaking
  <2>4. QED
    BY <1>1, <2>2, <2>3
<1>7. ASSUME NEW m PROVE m \in Making(s) <=> m = v
  <2>1. \A k \in 1..Len(s) : k = 1
    BY <1>6
  <2>2. 1 \in 1..Len(s) /\ s[1].proc \in Functional
    BY <1>2, <1>6 DEF Functional
  <2>3. QED
    BY <1>4, <2>1, <2>2, MakingOf
<1>8. v.proc = "function" /\ v.D = d /\ v.C = c /\ v.at = l /\ v.depth = 0
  <2>1. s[1] = f /\ Len(s) = 1
    BY <1>6
  <2>2. v.depth = 0
    BY <1>4, <2>1 DEF View
  <2>3. QED
    BY <1>2, <1>4, <2>1, <2>2 DEF View
<1>9. (\A m : m \in Making(stack)' <=> m = v) /\ Reading(stack)'
  <2>1. Reading(s)' <=> Reading(s)
    BY Advanced, SourcesKept
  <2>2. QED
    BY <1>1, <1>6, <1>7, <2>1 DEF Making, Reading
<1>10. Functions' = Functions /\ argscomplete' = argscomplete
  BY Advanced DEF functionVars
<1>11. ASSUME NEW m \in Making(stack)' PROVE Makes(m)'
  BY <1>8, <1>9, <1>10 DEF Makes
<1>12. Completed(d, c)'
  BY <1>8, <1>9 DEF Completed
<1>13. ASSUME NEW e \in Visited' \cap Functions
       PROVE  e \in Visited \/ \E b \in Held' : Declares(e, b)' /\ (Decl(e).def => Completed(e, b)')
  BY <1>12
<1>14. ASSUME NEW e \in Functions, NEW b \in Held', Declares(e, b)'
       PROVE  b \in Held \/ (ReturnReferred(e, b)' /\ b \notin argscomplete')
  <2>1. heap'[b].type = "function"
    BY <1>14 DEF Declares, Matches
  <2>2. CASE b \notin Held
    <3>1. b = c /\ l = "type"
      BY <2>1, <2>2
    <3>2. ReturnReferred(e, b)'
      BY <1>8, <1>9, <3>1 DEF ReturnReferred
    <3>3. QED
      BY <1>10, <2>2, <3>1, <3>2
  <2>3. QED
    BY <2>2
<1>15. QED
  BY <1>9, <1>11, <1>13, <1>14, VisitorCalled

LEMMA VisitFunction ==
  ASSUME FSound, VisitTop, UNCHANGED Unit, UNCHANGED functionVars, Decl(TopLevel[visited + 1]).kind = "function"
  PROVE  FunctionInv'
<1>1. PICK d, hit : d = TopLevel[visited + 1] /\ hit = Lookup("function", Decl(d).name, Decl(d).static)
  OBVIOUS
<1>2. /\ d \in Range(TopLevel) /\ Declared(d) /\ phase = "ast" /\ stack = <<>>
      /\ Visited' = Visited \cup {d} /\ UnitFits'
      /\ Enter(d, <<>>) /\ UNCHANGED <<references, names>>
  BY <1>1, TopVisited
<1>3. EnterFunction(d, <<>>) /\ d \in Functions
  BY <1>1, <1>2 DEF Enter, IsTag, Functions, Declared
<1>4. PICK c, l, f : /\ c = Own(hit) /\ l = IF hit = NULL THEN "type" ELSE "body"
                     /\ f = [Frame("function", d, c) EXCEPT !.at = l]
  OBVIOUS
<1>5. stack' = <<f>> \o <<>> /\ l \in {"type", "body"}
  BY <1>1, <1>3, <1>4 DEF EnterFunction
<1>6. /\ StoreFits /\ FunctionStore /\ program \in Programs /\ Held = Stored
      /\ Held \subseteq 1..Len(heap) /\ argscomplete \subseteq 1..Len(heap)
  BY FSoundFits DEF FunctionStore
<1>7. argscomplete' = argscomplete /\ program' = program /\ TranslationUnits' = TranslationUnits
  BY DEF functionVars, Unit
<1>8. CASE hit # NULL
  <2>1. UNCHANGED Bound /\ c = hit /\ l = "body"
    BY <1>1, <1>3, <1>4, <1>8 DEF EnterFunction, Own
  <2>2. Advances /\ Held' = Held
    <3>1. UNCHANGED <<heap, allComponents, Components>> /\ references \subseteq references' /\ argscomplete' \subseteq 1..Len(heap)
      BY <1>2, <1>6, <1>7, <2>1 DEF Bound
    <3>2. QED
      BY <3>1, QuietAdvances
  <2>3. c \in Held /\ Declares(d, c)
    BY <1>1, <1>2, <1>3, <1>8, <2>1, FunctionFound
  <2>4. c \in Held' /\ Declares(d, c)'
    BY <2>2, <2>3, DeclaresKept
  <2>5. \A b \in Held' : heap'[b].type = "function" => b \in Held \/ (b = c /\ l = "type")
    BY <2>2
  <2>6. QED
    BY <1>2, <1>3, <1>4, <1>5, <2>2, <2>3, <2>4, <2>5, FunctionBegins
<1>9. CASE hit = NULL
  <2>1. PICK ty, n, st, o : ty = "function" /\ n = Decl(d).name /\ st = Decl(d).static /\ o = Len(heap) + 1
    OBVIOUS
  <2>2. BindNew(ty, n, st) /\ Lookup(ty, n, st) = NULL /\ c = o /\ l = "type"
    BY <1>1, <1>3, <1>4, <1>9, <2>1 DEF EnterFunction, Own
  <2>4. st \in BOOLEAN
    BY <1>3, <1>6, <2>1, ProgramForms DEF Functions
  <2>3. /\ StoreKept /\ o \notin 1..Len(heap) /\ o \in 1..Len(heap')
        /\ heap'[o].type = ty /\ heap'[o].id = n
        /\ IF st THEN heap'[o].local /\ allComponents' = allComponents \cup {o} /\ Components' = Components
                 ELSE ~heap'[o].local /\ allComponents' = allComponents /\ Components' = Components \cup {o}
        /\ IF st THEN ~HasKey(allComponents, ty, n) ELSE ~HasKey(Stored, ty, n)
    <3>1. StoreFits
      BY <1>6
    <3>2. BindNew(ty, n, st) /\ Lookup(ty, n, st) = NULL
      BY <2>2
    <3>3. o = Len(heap) + 1
      BY <2>1
    <3>4. QED
      BY <3>1, <3>2, <3>3, BoundComponent
  <2>5. FunctionStore'
    <3>1. st => ty \in {"global", "function"}
      BY <2>1
    <3>2. st /\ ty = "function" =>
            \E e \in Functions : Decl(e).static = TRUE /\ Decl(e).name = n /\ e \in Range(TopLevel)
      BY <1>2, <1>3, <2>1, <2>4
    <3>3. QED
      BY <1>6, <1>7, <2>2, <3>1, <3>2, StoreGrows
  <2>6. Advances
    BY <1>2, <2>3, <2>5 DEF Advances
  <2>7. c \in Held' /\ \A b \in Held' : b \in Held \/ b = c
    BY <2>2, <2>3 DEF Held
  <2>8. Declares(d, c)'
    <3>1. heap'[o].local <=> st
      BY <2>3, <2>4
    <3>2. Decl(d)' = Decl(d) /\ TopLevel' = TopLevel
      BY <2>6, Advanced
    <3>3. QED
      BY <1>2, <2>1, <2>2, <2>3, <3>1, <3>2 DEF Declares, Matches
  <2>9. c \notin Held /\ c \notin argscomplete
    BY <1>6, <2>2, <2>3
  <2>10. \A b \in Held' : heap'[b].type = "function" => b \in Held \/ (b = c /\ l = "type")
    BY <2>2, <2>7
  <2>11. QED
    BY <1>2, <1>3, <1>4, <1>5, <2>6, <2>7, <2>8, <2>9, <2>10, FunctionBegins
<1>10. QED
  BY <1>8, <1>9

-----------------------------------------------------------------------------
(* Between the units the components of the functions stay, but for those   *)
(* of static functions.                                                    *)
LEMMA BetweenUnits ==
  ASSUME FSound, stack = <<>>, stack' = <<>>, program' = program,
         UNCHANGED <<heap, Components, references, functionVars>>,
         FunctionStore', UnitFits', Held' \subseteq Held,
         \A d : \A c \in Held' : Declares(d, c)' => Declares(d, c),
         Visited' = {} \/ (Visited' = Visited /\ Held' = Held /\ \A d : \A c \in Held : Declares(d, c) => Declares(d, c)')
  PROVE  FunctionInv'
<1>1. /\ Functions' = Functions /\ arguments' = arguments /\ argscomplete' = argscomplete
      /\ \A d : Decl(d)' = Decl(d) /\ (NamedType(d)' <=> NamedType(d)) /\ ModelType(d)' = ModelType(d)
  BY SourcesKept DEF functionVars
<1>2. Making(stack) = {} /\ Making(stack)' = {} /\ Reading(stack)'
  BY MakingNone DEF Making, Reading
<1>3. ASSUME NEW c, NEW t, NEW r, Refers(c, t, r) PROVE Refers(c, t, r)'
  BY <1>1, <1>3 DEF Refers, Matches
<1>4. ASSUME NEW d \in Visited' \cap Functions'
      PROVE  \E c \in Held' : Declares(d, c)' /\ (Decl(d).def => Completed(d, c))'
  <2>1. PICK c \in Held : Declares(d, c) /\ (Decl(d).def => Completed(d, c))
    BY <1>1, <1>4 DEF FSound, FunctionInv
  <2>2. Decl(d).def => c \in argscomplete
    BY <1>2, <2>1 DEF Completed
  <2>3. QED
    BY <1>1, <1>4, <2>1, <2>2 DEF Completed
<1>5. ASSUME NEW d \in Functions', NEW c \in Held', Declares(d, c)'
      PROVE  /\ ReturnReferred(d, c)'
             /\ c \in argscomplete' /\ Decl(d)'.def => Argued(c, d, Len(Decl(d).params))'
  <2>1. d \in Functions /\ c \in Held /\ Declares(d, c)
    BY <1>1, <1>5
  <2>2. PICK ps, u, n : ps = Decl(d).params /\ u = Decl(d).type /\ n = Len(ps)
    OBVIOUS
  <2>3. Refers(c, u, <<"return", -1>>)
    BY <1>2, <2>1, <2>2 DEF FSound, FunctionInv, ReturnReferred
  <2>4. Refers(c, u, <<"return", -1>>)'
    BY <1>3, <2>3
  <2>5. ReturnReferred(d, c)'
    BY <1>1, <2>2, <2>4 DEF ReturnReferred
  <2>6. ASSUME c \in argscomplete, Decl(d).def PROVE Argued(c, d, Len(Decl(d).params))'
    <3>1. Argued(c, d, n)
      BY <2>1, <2>2, <2>6 DEF FSound, FunctionInv
    <3>2. c \in DOMAIN arguments' /\ arguments'[c] = [i \in 1..n |-> ps[i]]
      BY <1>1, <2>2, <3>1 DEF Argued
    <3>3. ASSUME NEW i \in 1..n PROVE Refers(c, ps[i].type, <<"argument", i>>)'
      <4>1. PICK v, w : v = ps[i].type /\ w = <<"argument", i>>
        OBVIOUS
      <4>2. Refers(c, v, w)
        BY <2>2, <3>1, <3>3, <4>1 DEF Argued
      <4>3. Refers(c, v, w)'
        BY <1>3, <4>2
      <4>4. QED
        BY <4>1, <4>3
    <3>4. QED
      BY <1>1, <2>2, <3>2, <3>3 DEF Argued
  <2>7. QED
    BY <1>1, <2>5, <2>6
<1>6. QED
  BY <1>2, <1>4, <1>5 DEF FunctionInv

LEMMA BeginUnitFunction == ASSUME FSound, BeginUnit, UNCHANGED functionVars PROVE FunctionInv'
<1>1. /\ phase = "idle" /\ phase' = "preprocess" /\ visited' = 0 /\ allComponents' = {} /\ TU < Len(Mains)
      /\ \E p : TranslationUnits' = Append(TranslationUnits, p)
      /\ UNCHANGED <<heap, Components, references, program, stack>>
  BY DEF BeginUnit, CreateASTConsumer
<1>2. stack = <<>> /\ FunctionStore /\ UnitFits /\ program \in Programs
  BY <1>1, FSoundFits DEF NestingInv
<1>3. Visited' = {}
  BY <1>1 DEF Visited
<1>4. IsSeq(TranslationUnits') /\ TU \in Nat /\ TU' = TU + 1
  BY <1>1, <1>2, Appended DEF UnitFits, TU, IsSeq
<1>5. UnitFits'
  <2>1. Len(Mains) \in Nat
    BY <1>2, ProgramForms DEF IsSeq
  <2>2. TU' \in 1..Len(Mains)
    BY <1>1, <1>4, <2>1
  <2>3. QED
    BY <1>1, <1>3, <1>4, <2>2 DEF UnitFits
<1>6. FunctionStore'
  BY <1>1, <1>2 DEF FunctionStore, Matches, functionVars
<1>7. ASSUME NEW d, NEW c \in Held', Declares(d, c)' PROVE Declares(d, c)
  <2>1. c \in Components /\ ~heap[c].local
    BY <1>1, <1>2, <1>7 DEF Held, FunctionStore
  <2>2. Decl(d)' = Decl(d)
    BY <1>1, SourcesKept
  <2>3. QED
    BY <1>1, <1>7, <2>1, <2>2 DEF Declares, Matches
<1>8. Held' \subseteq Held
  BY <1>1 DEF Held
<1>9. QED
  BY <1>1, <1>2, <1>3, <1>5, <1>6, <1>7, <1>8, BetweenUnits

LEMMA UnitFunction == ASSUME FSound, Parsed \/ EndUnit, UNCHANGED functionVars PROVE FunctionInv'
<1>1. /\ UNCHANGED <<heap, Components, allComponents, references, program, stack, TranslationUnits, visited, functionVars>>
      /\ stack = <<>>
  BY DEF Parsed, EndUnit, HandleTranslationUnit, storeVars, EndSourceFile, FSound, Inv, NestingInv
<1>2. FunctionStore /\ UnitFits
  BY FSoundFits
<1>3. /\ FunctionStore' /\ Held' = Held /\ TopLevel' = TopLevel /\ TU' = TU
      /\ \A d, c : Declares(d, c)' <=> Declares(d, c)
  BY <1>1, <1>2, SourcesKept DEF FunctionStore, Held, TopLevel, TU, Declares, Matches, functionVars
<1>4. UnitFits' /\ (Visited' = {} \/ Visited' = Visited)
  <2>1. CASE Parsed
    <3>1. phase = "preprocess" /\ phase' = "ast" /\ visited = 0
      BY <1>2, <2>1 DEF Parsed, HandleTranslationUnit, UnitFits
    <3>2. Visited' = {}
      BY <1>1, <3>1 DEF Visited
    <3>3. QED
      BY <1>1, <1>2, <1>3, <3>1, <3>2 DEF UnitFits
  <2>2. CASE EndUnit
    <3>1. phase' = "idle"
      BY <2>2 DEF EndUnit, EndSourceFile
    <3>2. Visited' = {}
      BY <3>1 DEF Visited
    <3>3. QED
      BY <1>1, <1>2, <1>3, <3>1, <3>2 DEF UnitFits
  <2>3. QED
    BY <2>1, <2>2
<1>5. QED
  BY <1>1, <1>3, <1>4, BetweenUnits

-----------------------------------------------------------------------------
(* All steps                                                               *)

LEMMA FunctionStarts == StatementInit => FunctionInv
<1> SUFFICES ASSUME StatementInit PROVE FunctionInv
  OBVIOUS
<1>1. /\ heap = <<>> /\ Components = {} /\ allComponents = {} /\ TranslationUnits = <<>> /\ phase = "idle"
      /\ visited = 0 /\ stack = <<>> /\ argscomplete = {}
  BY DEF StatementInit, VisitorInit, Init
<1>2. Visited = {} /\ Held = {} /\ IsSeq(TranslationUnits)
  BY <1>1, EmptyIsSeq DEF Visited, Held
<1>3. Making(stack) = {} /\ Reading(stack)
  BY <1>1, MakingNone DEF Reading
<1>4. FunctionStore
  BY <1>1 DEF FunctionStore
<1>5. UnitFits
  BY <1>1, <1>2 DEF UnitFits
<1>6. QED
  BY <1>2, <1>3, <1>4, <1>5 DEF FunctionInv

(* A program that has stopped does not go on, nor do the sources change.   *)
LEMMA StoppedStays == ASSUME [StatementNext]_allVars, aborted PROVE aborted'
<1>1. CASE BeginUnit \/ Parsed \/ EndUnit \/ UNCHANGED allVars
  BY <1>1 DEF BeginUnit, Parsed, EndUnit, allVars, visitVars
<1>2. CASE VisitStep
  <2>1. CASE FieldAdopt \/ RecordEnds \/ VarAdopt \/ TypedefBinds
    BY <2>1 DEF FieldAdopt, RecordEnds, VarAdopt, TypedefBinds, Abort
  <2>2. CASE \/ VisitTop \/ FieldAnonymous \/ Renamed \/ FieldPush \/ EnumNext \/ EnumEnds
             \/ VarAnonymous \/ VarNamed \/ VarEnds \/ TypedefAnonymous \/ TypedefVisits \/ TypedefLinks
    BY <2>2 DEF VisitTop, FieldAnonymous, Renamed, FieldPush, EnumNext, EnumEnds,
                VarAnonymous, VarNamed, VarEnds, TypedefAnonymous, TypedefVisits, TypedefLinks
  <2>3. CASE FieldType \/ VarType
    BY <2>3 DEF FieldType, VarType, DiscoverVisits, DiscoverRefers, DiscoverFails, Abort
  <2>4. QED
    BY <1>2, <2>1, <2>2, <2>3 DEF VisitStep
<1>3. CASE StatementStep
  <2>1. CASE InitBeyond \/ InitField
    BY <2>1 DEF InitBeyond, InitField, Abort
  <2>2. CASE \/ LeaveNode \/ LookAtNode \/ HandleCastExpr \/ FunctionBody \/ FunctionArguments
             \/ ArgumentsEnd \/ FunctionMacros \/ InitRegular \/ InitArray \/ InitNext \/ InitEnds
    BY <2>2 DEF LeaveNode, LookAtNode, HandleCastExpr, FunctionBody, FunctionArguments,
                ArgumentsEnd, FunctionMacros, InitRegular, InitArray, InitNext, InitEnds
  <2>3. CASE CastType \/ FunctionReturns \/ FunctionArgument
    BY <2>3 DEF CastType, FunctionReturns, FunctionArgument, DiscoverVisits, DiscoverRefers, DiscoverFails, Abort
  <2>4. QED
    BY <1>3, <2>1, <2>2, <2>3 DEF StatementStep
<1>4. QED
  BY <1>1, <1>2, <1>3 DEF StatementNext, VisitorNext

LEMMA PrototypesStay == ASSUME [StatementNext]_allVars, Prototyped' PROVE Prototyped
<1>1. program' = program
  BY DEF StatementNext, VisitorNext, BeginUnit, Parsed, EndUnit, Unit, allVars
<1>2. QED
  BY <1>1, SourcesKept

LEMMA VisitFunctionStep ==
  ASSUME FSound, VisitStep, UNCHANGED Unit, UNCHANGED functionVars, ~aborted' PROVE FunctionInv'
<1>1. CASE VisitTop
  BY <1>1, VisitPlainFunction, VisitFunction
<1>2. CASE FieldAnonymous \/ VarAnonymous \/ TypedefAnonymous
  BY <1>2, RenamesFunction
<1>3. CASE Renamed \/ TypedefVisits
  BY <1>3, VisitsTagFunction
<1>4. CASE RecordEnds \/ EnumEnds \/ TypedefLinks
  BY <1>4, EndsFunction
<1>5. CASE FieldAdopt \/ VarAdopt
  BY <1>5, AdoptsFunction
<1>6. CASE FieldPush \/ FieldType \/ EnumNext
  BY <1>6, FieldPushFunction, FieldTypeFunction, EnumNextFunction
<1>7. CASE VarType \/ VarNamed \/ VarEnds \/ TypedefBinds
  BY <1>7, VarTypeFunction, VarGoesFunction, TypedefBindsFunction
<1>8. QED
  BY <1>1, <1>2, <1>3, <1>4, <1>5, <1>6, <1>7 DEF VisitStep

LEMMA StatementFunctionStep ==
  ASSUME FSound, StatementStep, UNCHANGED Unit, ~aborted' PROVE FunctionInv'
<1>1. CASE LeaveNode \/ LookAtNode \/ CastType \/ HandleCastExpr
  BY <1>1, LeaveNodeFunction, LookAtNodeFunction, CastTypeFunction
<1>2. CASE FunctionReturns \/ FunctionBody \/ FunctionArguments
  BY <1>2, FunctionReturnsFunction, FunctionBodyFunction, FunctionArgumentsFunction
<1>3. CASE FunctionArgument \/ ArgumentsEnd \/ FunctionMacros
  BY <1>3, FunctionArgumentFunction, ArgumentsEndFunction, FunctionMacrosFunction
<1>4. CASE InitRegular \/ InitArray \/ InitBeyond \/ InitField \/ InitNext
  BY <1>4, InitElementFunction
<1>5. CASE InitEnds
  <2>1. UNCHANGED functionVars
    BY <1>5 DEF InitEnds, Initializing
  <2>2. QED
    BY <1>5, <2>1, EndsFunction
<1>6. QED
  BY <1>1, <1>2, <1>3, <1>4, <1>5 DEF StatementStep

LEMMA FunctionStep ==
  ASSUME FSound, [StatementNext]_allVars, ~aborted' PROVE FunctionInv'
<1>1. CASE (BeginUnit \/ Parsed \/ EndUnit) /\ UNCHANGED functionVars
  BY <1>1, BeginUnitFunction, UnitFunction
<1>2. CASE VisitStep /\ UNCHANGED Unit /\ UNCHANGED functionVars
  BY <1>2, VisitFunctionStep
<1>3. CASE StatementStep /\ UNCHANGED Unit
  BY <1>3, StatementFunctionStep
<1>4. CASE UNCHANGED allVars
  <2>1. /\ UNCHANGED Unit /\ UNCHANGED <<visited, functionVars>> /\ references \subseteq references'
        /\ BindsPlain /\ stack' = stack
    BY <1>4 DEF allVars, vars, visitVars, storeVars, clangVars, Unit, BindsPlain
  <2>2. Continues(stack)
    BY LikewiseSelf, LikewiseContinues
  <2>3. PICK s : s = stack
    OBVIOUS
  <2>4. Continues(s) /\ (stack' = s \/ \E f : Harmless(f) /\ stack' = <<f>> \o s)
    BY <2>1, <2>2, <2>3
  <2>5. QED
    BY <2>1, <2>4, PlainStep
<1>5. QED
  BY <1>1, <1>2, <1>3, <1>4 DEF StatementNext, VisitorNext

-----------------------------------------------------------------------------
(* At the end of a unit the component of a function that is defined is the *)
(* one that was found for the definition.                                  *)
LEMMA FunctionFinished ==
  ASSUME FSound, Finished, NEW d \in Definitions("function"), NEW c, c = FunctionOf(d)
  PROVE  /\ c # NULL /\ c \in Held /\ Declares(d, c) /\ d \in Functions /\ Decl(d).def
         /\ c \in argscomplete
<1>1. PICK n, st : n = Decl(d).name /\ st = Decl(d).static
  OBVIOUS
<1>2. /\ StoreFits /\ FunctionStore /\ UnitFits /\ program \in Programs /\ stack = <<>> /\ phase = "ast"
      /\ visited = Len(TopLevel) /\ Held = Stored
  BY FSoundFits DEF Finished, Done
<1>3. d \in Range(TopLevel) /\ Decl(d).kind = "function" /\ Decl(d).def
  BY DEF Definitions
<1>4. TU \in 1..Len(Mains)
  BY <1>2 DEF UnitFits
<1>5. IsSeq(TopLevel) /\ d \in Functions
  BY <1>2, <1>3, <1>4, ProgramForms DEF TopLevel, Functions, Declared
<1>6. d \in Visited
  <2>1. PICK ts : ts = TopLevel
    OBVIOUS
  <2>2. DOMAIN ts = 1..Len(ts)
    BY <1>5, <2>1 DEF IsSeq
  <2>3. \E k \in 1..Len(ts) : d = ts[k]
    BY <1>3, <2>1, <2>2 DEF Range
  <2>4. QED
    BY <1>2, <2>1, <2>3 DEF Visited
<1>7. PICK b \in Held : Declares(d, b) /\ Completed(d, b)
  BY <1>3, <1>5, <1>6 DEF FSound, FunctionInv
<1>8. b \in argscomplete
  BY <1>2, <1>7, MakingNone DEF Completed
<1>9. Matches(b, "function", n) /\ (heap[b].local <=> st)
  BY <1>1, <1>7 DEF Declares
<1>10. b \in IF st THEN allComponents ELSE Components
  BY <1>2, <1>9 DEF Held, FunctionStore
<1>11. c = Lookup("function", n, st)
  BY <1>1 DEF FunctionOf
<1>12. c # NULL
  <2>1. CASE st
    <3>1. HasKey(allComponents, "function", n) /\ allComponents \subseteq 1..Len(heap)
      BY <1>2, <1>9, <1>10, <2>1 DEF HasKey, StoreFits
    <3>2. c = Find(allComponents, "function", n)
      BY <1>11, <2>1 DEF Lookup, LookupLocal
    <3>3. QED
      BY <1>2, <3>1, <3>2, FindIn
  <2>2. CASE ~st
    <3>1. HasKey(Stored, "function", n)
      BY <1>2, <1>7, <1>9 DEF HasKey
    <3>2. c = LookupFull("function", n)
      BY <1>11, <2>2 DEF Lookup
    <3>3. QED
      BY <1>2, <3>1, <3>2, Found
  <2>3. QED
    BY <2>1, <2>2
<1>13. c \in Held /\ Declares(d, c)
  <2>1. c = Lookup("function", Decl(d).name, Decl(d).static)
    BY DEF FunctionOf
  <2>2. QED
    BY <1>2, <1>3, <1>5, <1>12, <2>1, FunctionFound
<1>14. Matches(c, "function", n) /\ (heap[c].local <=> st)
  BY <1>1, <1>13 DEF Declares
<1>15. c \in IF st THEN allComponents ELSE Components
  BY <1>2, <1>13, <1>14 DEF Held, FunctionStore
<1>16. Matches(c, heap[b].type, heap[b].id)
  BY <1>9, <1>14 DEF Matches
<1>17. c = b
  BY <1>2, <1>10, <1>15, <1>16 DEF FunctionStore
<1>18. QED
  BY <1>3, <1>5, <1>8, <1>12, <1>13, <1>17

(* What a component refers to by its type is its structure.                *)
LEMMA ReferredStructure ==
  ASSUME FSound, NEW c, NEW t, IsType(program, t), NEW r, Refers(c, t, r), NamedType(t)
  PROVE  <<c, Structure(t), r>> \in references
<1>1. PICK ty, n : ty = ModelType(t) /\ n = Decl(t).name
  OBVIOUS
<1>2. PICK s \in Components : <<c, s, r>> \in references /\ Matches(s, ty, n)
  BY <1>1 DEF Refers
<1>3. t # 0
  BY DEF NamedType
<1>4. ty \in {"struct", "enum", "typedef"} /\ Structure(t) = LookupFull(ty, n)
  BY <1>1, <1>3, TypeNamed
<1>5. StoreFits /\ FunctionStore
  BY FSoundFits
<1>6. ~HasKey(allComponents, ty, n)
  BY <1>4, <1>5, NotCached
<1>7. LookupFull(ty, n) = s
  BY <1>2, <1>5, <1>6, FoundByKey
<1>8. QED
  BY <1>2, <1>4, <1>7

LEMMA FunctionsHaveArguments == Inv /\ (Prototyped /\ ~aborted => FunctionInv) => ArgumentsOfDefinition
<1> SUFFICES ASSUME Inv, Prototyped /\ ~aborted => FunctionInv, Prototyped, Finished,
                    NEW d \in Definitions("function"), NEW c, c = FunctionOf(d),
                    NEW ps, ps = Decl(d).params, NEW u, u = Decl(d).type
             PROVE  /\ c # NULL /\ arguments[c] = ps
                    /\ \A i \in 1..Len(ps) : NamedType(ps[i].type) =>
                         <<c, Structure(ps[i].type), <<"argument", i>>>> \in references
                    /\ NamedType(u) => <<c, Structure(u), <<"return", -1>>>> \in references
  BY DEF ArgumentsOfDefinition
<1>1. FSound
  BY DEF FSound, Finished, Done
<1>2. c # NULL /\ c \in Held /\ Declares(d, c) /\ d \in Functions /\ Decl(d).def /\ c \in argscomplete
  BY <1>1, FunctionFinished
<1>3. stack = <<>> /\ program \in Programs
  BY <1>1, FSoundFits DEF Finished, Done
<1>4. IsSeq(ps) /\ (\A i \in 1..Len(ps) : IsType(program, ps[i].type)) /\ IsType(program, u)
  BY <1>2, <1>3, ProgramForms DEF Functions
<1>5. Argued(c, d, Len(ps))
  BY <1>1, <1>2 DEF FSound, FunctionInv
<1>6. arguments[c] = ps
  BY <1>4, <1>5 DEF Argued, IsSeq
<1>7. ASSUME NEW i \in 1..Len(ps), NamedType(ps[i].type)
      PROVE  <<c, Structure(ps[i].type), <<"argument", i>>>> \in references
  <2>1. PICK t, r : t = ps[i].type /\ r = <<"argument", i>>
    OBVIOUS
  <2>2. IsType(program, t) /\ NamedType(t) /\ Refers(c, t, r)
    BY <1>4, <1>5, <1>7, <2>1 DEF Argued
  <2>3. <<c, Structure(t), r>> \in references
    BY <1>1, <2>2, ReferredStructure
  <2>4. QED
    BY <2>1, <2>3
<1>8. ASSUME NamedType(u) PROVE <<c, Structure(u), <<"return", -1>>>> \in references
  <2>1. PICK r : r = <<"return", -1>>
    OBVIOUS
  <2>2. Refers(c, u, r)
    BY <1>1, <1>2, <1>3, <2>1, MakingNone DEF FSound, FunctionInv, ReturnReferred
  <2>3. <<c, Structure(u), r>> \in references
    BY <1>1, <1>4, <1>8, <2>2, ReferredStructure
  <2>4. QED
    BY <2>1, <2>3
<1>9. QED
  BY <1>2, <1>6, <1>7, <1>8
=============================================================================
