----------------------------- MODULE FieldsProofs -----------------------------
(* Proofs that the visitors build complete structures: whatever the order  *)
(* in which the AST presents the declarations, and however the traversals  *)
(* of records, fields, variables and bodies interrupt each other, the      *)
(* structure of a record that was traversed has all its fields and the     *)
(* typedefs of anonymous types refer to the records they name.             *)
EXTENDS FunctionProofs

-----------------------------------------------------------------------------
(* The records that are traversed                                          *)

(* Frames that tell the same of that                                       *)
AsBuilding(f, g) == /\ g.proc = f.proc
                    /\ f.proc = "record" => Progress(g) = Progress(f)

LEMMA BuildingOf ==
  ASSUME NEW s, NEW b
  PROVE  b \in Building(s) <=> \E k \in 1..Len(s) : s[k].proc = "record" /\ b = Progress(s[k])
  BY DEF Building

LEMMA BuildingNone == Building(<<>>) = {}
  BY EmptyIsSeq DEF Building

LEMMA SameBuilding ==
  ASSUME NEW s, NEW t, Len(s) = Len(t), \A k \in 1..Len(s) : AsBuilding(s[k], t[k])
  PROVE  Building(t) = Building(s)
<1>1. ASSUME NEW b, b \in Building(s) PROVE b \in Building(t)
  <2>1. PICK k \in 1..Len(s) : s[k].proc = "record" /\ b = Progress(s[k])
    BY <1>1, BuildingOf
  <2>2. t[k].proc = "record" /\ b = Progress(t[k])
    BY <2>1 DEF AsBuilding
  <2>3. QED
    BY <2>2, BuildingOf
<1>2. ASSUME NEW b, b \in Building(t) PROVE b \in Building(s)
  <2>1. PICK k \in 1..Len(t) : t[k].proc = "record" /\ b = Progress(t[k])
    BY <1>2, BuildingOf
  <2>2. k \in 1..Len(s) /\ AsBuilding(s[k], t[k])
    OBVIOUS
  <2>3. s[k].proc = "record" /\ b = Progress(s[k])
    BY <2>1, <2>2 DEF AsBuilding
  <2>4. QED
    BY <2>2, <2>3, BuildingOf
<1>3. QED
  BY <1>1, <1>2

LEMMA PushedBuilding ==
  ASSUME NEW s, IsSeq(s), NEW f
  PROVE  Building(<<f>> \o s) = Building(s) \cup (IF f.proc = "record" THEN {Progress(f)} ELSE {})
<1> DEFINE t == <<f>> \o s
<1>0. /\ Len(s) \in Nat /\ Len(t) = Len(s) + 1 /\ t[1] = f
      /\ \A k \in 1..Len(s) : t[k + 1] = s[k]
  BY Pushed DEF IsSeq
<1> HIDE DEF t
<1>1. ASSUME NEW b, b \in Building(t)
      PROVE  b \in Building(s) \/ (f.proc = "record" /\ b = Progress(f))
  <2>1. PICK k \in 1..Len(t) : t[k].proc = "record" /\ b = Progress(t[k])
    BY <1>1, BuildingOf
  <2>2. CASE k = 1
    BY <1>0, <2>1, <2>2
  <2>3. CASE k # 1
    <3>1. k - 1 \in 1..Len(s) /\ k = (k - 1) + 1
      BY <1>0, <2>3
    <3>2. t[k] = s[k - 1]
      BY <1>0, <3>1
    <3>3. QED
      BY <2>1, <3>1, <3>2, BuildingOf
  <2>4. QED
    BY <2>2, <2>3
<1>2. ASSUME NEW b, b \in Building(s) PROVE b \in Building(t)
  <2>1. PICK k \in 1..Len(s) : s[k].proc = "record" /\ b = Progress(s[k])
    BY <1>2, BuildingOf
  <2>2. k + 1 \in 1..Len(t) /\ t[k + 1] = s[k]
    BY <1>0
  <2>3. QED
    BY <2>1, <2>2, BuildingOf
<1>3. ASSUME f.proc = "record" PROVE Progress(f) \in Building(t)
  BY <1>0, <1>3, BuildingOf
<1>4. Building(t) = Building(s) \cup (IF f.proc = "record" THEN {Progress(f)} ELSE {})
  BY <1>1, <1>2, <1>3
<1>5. QED
  BY <1>4 DEF t

LEMMA PoppedBuilding ==
  ASSUME NEW s, IsSeq(s), s # <<>>
  PROVE  /\ IsSeq(Tail(s))
         /\ Building(s) = Building(Tail(s)) \cup (IF s[1].proc = "record" THEN {Progress(s[1])} ELSE {})
<1> DEFINE t == Tail(s)
<1>0. /\ IsSeq(t) /\ Len(s) = Len(t) + 1 /\ 1 \in 1..Len(s) /\ Len(t) \in Nat
      /\ \A k \in 1..Len(t) : t[k] = s[k + 1]
  BY Popped DEF IsSeq
<1> HIDE DEF t
<1>1. ASSUME NEW b, b \in Building(s)
      PROVE  b \in Building(t) \/ (s[1].proc = "record" /\ b = Progress(s[1]))
  <2>1. PICK k \in 1..Len(s) : s[k].proc = "record" /\ b = Progress(s[k])
    BY <1>1, BuildingOf
  <2>2. CASE k = 1
    BY <2>1, <2>2
  <2>3. CASE k # 1
    <3>1. k - 1 \in 1..Len(t) /\ k = (k - 1) + 1
      BY <1>0, <2>3
    <3>2. s[k] = t[k - 1]
      BY <1>0, <3>1
    <3>3. QED
      BY <2>1, <3>1, <3>2, BuildingOf
  <2>4. QED
    BY <2>2, <2>3
<1>2. ASSUME NEW b, b \in Building(t) PROVE b \in Building(s)
  <2>1. PICK k \in 1..Len(t) : t[k].proc = "record" /\ b = Progress(t[k])
    BY <1>2, BuildingOf
  <2>2. k + 1 \in 1..Len(s) /\ s[k + 1] = t[k]
    BY <1>0
  <2>3. QED
    BY <2>1, <2>2, BuildingOf
<1>3. ASSUME s[1].proc = "record" PROVE Progress(s[1]) \in Building(s)
  BY <1>0, <1>3, BuildingOf
<1>4. IsSeq(t) /\ Building(s) = Building(t) \cup (IF s[1].proc = "record" THEN {Progress(s[1])} ELSE {})
  BY <1>0, <1>1, <1>2, <1>3
<1>5. QED
  BY <1>4 DEF t

LEMMA TailBuilding ==
  ASSUME NEW s, IsSeq(s), s # <<>>, NEW t, IsSeq(t), t # <<>>, Len(t) = Len(s),
         \A k \in 1..Len(s) : k # 1 => t[k] = s[k]
  PROVE  Building(Tail(t)) = Building(Tail(s))
<1>1. IsSeq(Tail(t)) /\ Len(t) = Len(Tail(t)) + 1 /\ \A k \in 1..Len(Tail(t)) : Tail(t)[k] = t[k + 1]
  BY Popped
<1>2. IsSeq(Tail(s)) /\ Len(s) = Len(Tail(s)) + 1 /\ \A k \in 1..Len(Tail(s)) : Tail(s)[k] = s[k + 1]
  BY Popped
<1>3. Len(Tail(t)) \in Nat /\ Len(Tail(s)) \in Nat /\ Len(Tail(s)) = Len(Tail(t))
  BY <1>1, <1>2 DEF IsSeq
<1>4. ASSUME NEW k \in 1..Len(Tail(s)) PROVE AsBuilding(Tail(s)[k], Tail(t)[k])
  <2>1. k + 1 \in 1..Len(s) /\ k + 1 # 1
    BY <1>2, <1>3
  <2>2. Tail(t)[k] = Tail(s)[k]
    BY <1>1, <1>2, <1>3, <2>1
  <2>3. QED
    BY <2>2 DEF AsBuilding
<1>5. QED
  BY <1>3, <1>4, SameBuilding

(* A frame on top that is changed                                          *)
LEMMA ChangedBuilding ==
  ASSUME NEW s, IsSeq(s), s # <<>>, NEW g, g.proc = s[1].proc
  PROVE  /\ IsSeq(Put(s, 1, g)) /\ Put(s, 1, g) # <<>> /\ Put(s, 1, g)[1] = g
         /\ Building(Put(s, 1, g)) = Building(Tail(s)) \cup (IF g.proc = "record" THEN {Progress(g)} ELSE {})
<1> DEFINE t == Put(s, 1, g)
<1>0. Len(s) \in Nat /\ 1 \in 1..Len(s)
  BY Popped DEF IsSeq
<1>1. /\ IsSeq(t) /\ Len(t) = Len(s)
      /\ \A k \in 1..Len(s) : t[k] = IF k = 1 THEN g ELSE s[k]
  BY ExceptAny
<1> HIDE DEF t
<1>2. t # <<>> /\ t[1] = g
  BY <1>0, <1>1, EmptyIsSeq
<1>3. Building(Tail(t)) = Building(Tail(s))
  BY <1>1, <1>2, TailBuilding
<1>4. Building(t) = Building(Tail(t)) \cup (IF t[1].proc = "record" THEN {Progress(t[1])} ELSE {})
  BY <1>1, <1>2, PoppedBuilding
<1>5. IsSeq(t) /\ t # <<>> /\ t[1] = g
      /\ Building(t) = Building(Tail(s)) \cup (IF g.proc = "record" THEN {Progress(g)} ELSE {})
  BY <1>1, <1>2, <1>3, <1>4
<1>6. QED
  BY <1>5 DEF t

-----------------------------------------------------------------------------
(* Names that are longer by a word                                         *)

LEMMA AppendedOnly ==
  ASSUME NEW x, IsSeq(x), NEW y, IsSeq(y), NEW a, NEW b, Append(x, a) = Append(y, b)
  PROVE  x = y /\ a = b
<1>1. /\ Len(Append(x, a)) = Len(x) + 1 /\ Append(x, a)[Len(x) + 1] = a
      /\ \A l \in 1..Len(x) : Append(x, a)[l] = x[l]
  BY Appended
<1>2. /\ Len(Append(y, b)) = Len(y) + 1 /\ Append(y, b)[Len(y) + 1] = b
      /\ \A l \in 1..Len(y) : Append(y, b)[l] = y[l]
  BY Appended
<1>0. Len(x) \in Nat /\ Len(y) \in Nat
  BY DEF IsSeq
<1>3. Len(x) \in Nat /\ Len(y) \in Nat /\ Len(x) = Len(y)
  <2>1. Len(x) + 1 = Len(y) + 1
    BY <1>1, <1>2
  <2>2. QED
    BY <1>0, <2>1
<1>4. x = [l \in 1..Len(x) |-> x[l]] /\ y = [l \in 1..Len(y) |-> y[l]]
  BY DEF IsSeq
<1>5. \A l \in 1..Len(x) : x[l] = y[l]
  BY <1>1, <1>2, <1>3
<1>6. QED
  BY <1>1, <1>2, <1>3, <1>4, <1>5

LEMMA InsideOf ==
  ASSUME NEW x, IsSeq(x), x # <<>>, NEW k
  PROVE  Inside(Append(x, Anon(k)), x) /\ Number(Append(x, Anon(k))) = k
<1>1. /\ Len(Append(x, Anon(k))) = Len(x) + 1 /\ Append(x, Anon(k))[Len(x) + 1] = Anon(k)
  BY Appended
<1>2. Len(x) >= 1 /\ Len(x) \in Nat
  BY SeqOfElements, EmptySeq DEF IsSeq
<1>3. Number(Append(x, Anon(k))) = k
  BY <1>1 DEF Number, Anon
<1>4. QED
  BY <1>1, <1>2, <1>3 DEF Inside

LEMMA InsideOne ==
  ASSUME NEW n, NEW x, IsSeq(x), NEW y, IsSeq(y), Inside(n, x), Inside(n, y) PROVE x = y
  BY AppendedOnly DEF Inside

LEMMA InsideName ==
  ASSUME NEW x, IsSeq(x), NEW y, IsSeq(y), NEW a, Inside(Append(y, a), x)
  PROVE  x = y /\ a = Anon(Number(Append(y, a)))
  BY AppendedOnly DEF Inside

-----------------------------------------------------------------------------
(* The names that the sources tell                                         *)

LEMMA ShortNames ==
  ASSUME WellFormed, NEW d, Declared(d)
  PROVE  IsSeq(Decl(d).name) /\ ~(Len(Decl(d).name) >= 2)
  BY SingleWord DEF WellFormed, Declared

LEMMA TypedefIsNotAnon == \A k : OfTypedef # Anon(k)
  BY DEF OfTypedef, Anon

LEMMA OneIsSome == ASSUME NEW s, Len(s) = 1 PROVE s # Anonymous
<1>1. CASE s = <<>>
  BY <1>1, EmptyIsSeq
<1>2. QED
  BY <1>1 DEF Anonymous

LEMMA DenotesWhat ==
  ASSUME WellFormed, NEW n, NEW d, Denotes(n, d)
  PROVE  \/ n # Anonymous /\ Decl(d).name = n
         \/ \E v \in DOMAIN program.decls :
              /\ Nests(Decl(v)) /\ Decl(v).type = d /\ Decl(v).kind \in {"var", "typedef"}
              /\ IsSeq(Decl(v).name) /\ Decl(v).name # Anonymous /\ Len(Decl(v).name) = 1
              /\ n = Append(Decl(v).name, IF Decl(v).kind = "var" THEN Anon(0) ELSE OfTypedef)
              /\ IsSeq(n) /\ Len(n) = 2
<1>1. CASE n # Anonymous /\ Decl(d).name = n
  BY <1>1
<1>2. ASSUME NEW v \in DOMAIN program.decls, Nests(Decl(v)), Decl(v).type = d,
             \/ Decl(v).kind = "var" /\ n = Append(Decl(v).name, Anon(0))
             \/ Decl(v).kind = "typedef" /\ n = Append(Decl(v).name, OfTypedef)
      PROVE  /\ Nests(Decl(v)) /\ Decl(v).type = d /\ Decl(v).kind \in {"var", "typedef"}
             /\ IsSeq(Decl(v).name) /\ Decl(v).name # Anonymous /\ Len(Decl(v).name) = 1
             /\ n = Append(Decl(v).name, IF Decl(v).kind = "var" THEN Anon(0) ELSE OfTypedef)
             /\ IsSeq(n) /\ Len(n) = 2
  <2>1. IsSeq(Decl(v).name) /\ Len(Decl(v).name) = 1
    BY <1>2, OneWord DEF Declared
  <2>2. Decl(v).name # Anonymous
    BY <2>1, OneIsSome
  <2>3. IsSeq(n) /\ Len(n) = 2
    <3>1. PICK a : n = Append(Decl(v).name, a)
      BY <1>2
    <3>2. IsSeq(Append(Decl(v).name, a)) /\ Len(Append(Decl(v).name, a)) = Len(Decl(v).name) + 1
      BY <2>1, Appended
    <3>3. QED
      BY <2>1, <3>1, <3>2
  <2>4. QED
    BY <1>2, <2>1, <2>2, <2>3
<1>3. QED
  BY <1>1, <1>2 DEF Denotes

(* A type that is named like one of a field is that of a variable.         *)
LEMMA DenotesInside ==
  ASSUME WellFormed, NEW n, NEW d, Declared(d), Denotes(n, d), NEW x, IsSeq(x), Inside(n, x)
  PROVE  \E v \in DOMAIN program.decls : Decl(v).kind = "var" /\ Nests(Decl(v)) /\ Decl(v).name = x
<1>1. CASE Decl(d).name = n
  BY <1>1, ShortNames DEF Inside
<1>2. ASSUME NEW v \in DOMAIN program.decls, Nests(Decl(v)), Decl(v).kind \in {"var", "typedef"},
             IsSeq(Decl(v).name),
             n = Append(Decl(v).name, IF Decl(v).kind = "var" THEN Anon(0) ELSE OfTypedef)
      PROVE  Decl(v).kind = "var" /\ Nests(Decl(v)) /\ Decl(v).name = x
  <2>1. Decl(v).name = x /\ (IF Decl(v).kind = "var" THEN Anon(0) ELSE OfTypedef) = Anon(Number(n))
    BY <1>2, AppendedOnly DEF Inside
  <2>2. QED
    BY <1>2, <2>1, TypedefIsNotAnon
<1>3. QED
  BY <1>1, <1>2, DenotesWhat

(* What the names are, of structures and of the records of this unit       *)
NamesFit == /\ StoreBuilt /\ NamesBuilt /\ WellFormed /\ Unambiguous
          /\ DOMAIN names = DOMAIN program.decls
          /\ \A d \in DOMAIN names : WellNamed(d)

LEMMA StructureOf ==
  ASSUME StoreBuilt, NEW n PROVE HasStructure(n) <=> \E c \in Structures : heap[c].id = n
  BY DEF StoreBuilt, HasStructure, HasKey, Matches, Structures

LEMMA StructureOnly ==
  ASSUME StoreBuilt, NEW c \in Structures, NEW e \in Structures, heap[c].id = heap[e].id PROVE c = e
  BY DEF StoreBuilt, Structures, Matches

LEMMA RecordName ==
  ASSUME NamesFit, NEW d, IsRecord(d)
  PROVE  /\ d \in DOMAIN names /\ d \in DOMAIN program.decls
         /\ IsSeq(names[d]) /\ IsSeq(Decl(d).name) /\ ~(Len(Decl(d).name) >= 2)
         /\ names[d] = Decl(d).name \/ (Decl(d).name = Anonymous /\ Len(names[d]) >= 2)
  BY ShortNames DEF NamesFit, IsRecord, Declared, WellNamed

(* A variable of an anonymous type shares its name with no structure, ...  *)
LEMMA StructureApart ==
  ASSUME NamesFit, NEW v \in DOMAIN program.decls, Decl(v).kind = "var", Nests(Decl(v))
  PROVE  \A c \in Structures : heap[c].id # Decl(v).name
<1> SUFFICES ASSUME NEW c \in Structures, heap[c].id = Decl(v).name PROVE FALSE
  OBVIOUS
<1>1. Len(Decl(v).name) = 1
  BY OneWord DEF NamesFit, Declared
<1>2. ~InStructure(heap[c].id)
  BY <1>1 DEF InStructure, Inside
<1>3. PICK d \in DOMAIN program.decls : IsRecord(d) /\ Denotes(heap[c].id, d)
  BY <1>2 DEF NamesFit, NamesBuilt
<1>4. Decl(d).name = heap[c].id
  BY <1>1, <1>3, DenotesWhat DEF NamesFit
<1>5. QED
  BY <1>3, <1>4 DEF NamesFit, Unambiguous, NamesApart, IsRecord

(* ... nor with a record.                                                  *)
LEMMA RecordApart ==
  ASSUME NamesFit, NEW v \in DOMAIN program.decls, Decl(v).kind = "var", Nests(Decl(v)),
         NEW d, IsRecord(d)
  PROVE  names[d] # Decl(v).name
<1>1. Len(Decl(v).name) = 1
  BY OneWord DEF NamesFit, Declared
<1>2. names[d] = Decl(d).name \/ Len(names[d]) >= 2
  BY RecordName
<1>3. Decl(v).name # Decl(d).name
  BY RecordName DEF NamesFit, Unambiguous, NamesApart, IsRecord
<1>4. CASE Len(names[d]) >= 2
  <2>1. ASSUME names[d] = Decl(v).name PROVE FALSE
    <3>1. Len(names[d]) = 1
      BY <1>1, <2>1
    <3>2. QED
      BY <1>4, <3>1
  <2>2. QED
    BY <2>1
<1>5. QED
  BY <1>2, <1>3, <1>4

(* Two records that have one name, or may, are one, or are declared so.    *)
LEMMA OneCalled ==
  ASSUME NamesFit, NEW d, IsRecord(d), NEW e, IsRecord(e), names[d] # Anonymous,
         names[e] = names[d] \/ Denotes(names[d], e)
  PROVE  \/ d = e
         \/ /\ Decl(d).name # Anonymous /\ names[d] = Decl(d).name /\ Decl(e).name = Decl(d).name
<1> DEFINE n == names[d]
<1>0. WellFormed
  BY DEF NamesFit
<1>1. CASE n = Decl(d).name
  <2>1. ~(Len(n) >= 2)
    BY <1>1, RecordName
  <2>2. ASSUME names[e] = n PROVE Decl(e).name = n
    BY <2>1, <2>2, RecordName
  <2>3. ASSUME Denotes(n, e) PROVE Decl(e).name = n
    BY <1>0, <2>1, <2>3, DenotesWhat
  <2>4. QED
    BY <1>1, <2>2, <2>3
<1>2. CASE Len(n) >= 2
  <2>1. ASSUME names[e] = n PROVE d = e
    BY <1>2, <2>1, RecordName DEF NamesFit, NamesBuilt
  <2>2. ASSUME Denotes(n, e) PROVE d = e
    <3>1. ~(Decl(e).name = n)
      BY <1>2, RecordName
    <3>2. PICK v \in DOMAIN program.decls :
            /\ Nests(Decl(v)) /\ Decl(v).type = e /\ Decl(v).kind \in {"var", "typedef"}
            /\ IsSeq(Decl(v).name)
            /\ n = Append(Decl(v).name, IF Decl(v).kind = "var" THEN Anon(0) ELSE OfTypedef)
      BY <1>0, <2>2, <3>1, DenotesWhat
    <3>3. CASE InStructure(n)
      <4>1. PICK c \in Structures : Inside(n, heap[c].id)
        BY <3>3 DEF InStructure
      <4>2. IsSeq(heap[c].id)
        BY DEF NamesFit, NamesBuilt
      <4>3. Decl(v).name = heap[c].id /\ (IF Decl(v).kind = "var" THEN Anon(0) ELSE OfTypedef) = Anon(Number(n))
        <5>1. PICK a : a = IF Decl(v).kind = "var" THEN Anon(0) ELSE OfTypedef
          OBVIOUS
        <5>2. PICK b : b = Anon(Number(n))
          OBVIOUS
        <5>3. Append(Decl(v).name, a) = Append(heap[c].id, b)
          BY <3>2, <4>1, <5>1, <5>2 DEF Inside
        <5>4. IsSeq(Decl(v).name)
          BY <3>2
        <5>5. Decl(v).name = heap[c].id /\ a = b
          BY <4>2, <5>3, <5>4, AppendedOnly
        <5>6. QED
          BY <5>1, <5>2, <5>5
      <4>4. Decl(v).kind = "var"
        BY <3>2, <4>3, TypedefIsNotAnon
      <4>5. QED
        BY <3>2, <4>3, <4>4, StructureApart
    <3>4. CASE Denotes(n, d)
      <4>1. ~(Decl(d).name = n)
        BY <1>2, RecordName
      <4>2. PICK w \in DOMAIN program.decls :
              /\ Nests(Decl(w)) /\ Decl(w).type = d /\ Decl(w).kind \in {"var", "typedef"}
              /\ IsSeq(Decl(w).name)
              /\ n = Append(Decl(w).name, IF Decl(w).kind = "var" THEN Anon(0) ELSE OfTypedef)
        BY <1>0, <3>4, <4>1, DenotesWhat
      <4>3. /\ Decl(v).name = Decl(w).name
            /\ (IF Decl(v).kind = "var" THEN Anon(0) ELSE OfTypedef)
                 = (IF Decl(w).kind = "var" THEN Anon(0) ELSE OfTypedef)
        <5>1. PICK a : a = IF Decl(v).kind = "var" THEN Anon(0) ELSE OfTypedef
          OBVIOUS
        <5>2. PICK b : b = IF Decl(w).kind = "var" THEN Anon(0) ELSE OfTypedef
          OBVIOUS
        <5>3. Append(Decl(v).name, a) = Append(Decl(w).name, b)
          BY <3>2, <4>2, <5>1, <5>2
        <5>4. IsSeq(Decl(v).name) /\ IsSeq(Decl(w).name)
          BY <3>2, <4>2
        <5>5. Decl(v).name = Decl(w).name /\ a = b
          BY <5>3, <5>4, AppendedOnly
        <5>6. QED
          BY <5>1, <5>2, <5>5
      <4>4. Decl(v).kind = Decl(w).kind
        BY <3>2, <4>2, <4>3, TypedefIsNotAnon
      <4>5. QED
        BY <3>2, <4>2, <4>3, <4>4 DEF NamesFit, Unambiguous
    <3>5. QED
      BY <1>2, <3>3, <3>4, RecordName DEF NamesFit, NamesBuilt
  <2>3. QED
    BY <2>1, <2>2
<1>3. QED
  BY <1>1, <1>2, RecordName

(* As long as a record has no structure nothing has a name inside its own. *)
LEMMA NothingInside ==
  ASSUME NamesFit, NEW d, IsRecord(d), ~HasStructure(names[d]), NEW n \in Labels
  PROVE  ~Inside(n, names[d])
<1> SUFFICES ASSUME Inside(n, names[d]) PROVE FALSE
  OBVIOUS
<1> DEFINE x == names[d]
<1>0. IsSeq(x) /\ WellFormed
  BY RecordName DEF NamesFit
<1>1. InStructure(n) \/ \E e : Declared(e) /\ Denotes(n, e)
  <2>1. CASE \E c \in Structures : n = heap[c].id
    BY <2>1 DEF NamesFit, NamesBuilt, IsRecord
  <2>2. CASE \E e \in DOMAIN names : IsRecord(e) /\ n = names[e]
    BY <2>2 DEF NamesFit, NamesBuilt, IsRecord, Inside
  <2>3. QED
    BY <2>1, <2>2 DEF Labels
<1>2. CASE InStructure(n)
  <2>1. PICK c \in Structures : Inside(n, heap[c].id)
    BY <1>2 DEF InStructure
  <2>2. IsSeq(heap[c].id)
    BY DEF NamesFit, NamesBuilt
  <2>3. heap[c].id = x
    BY <1>0, <2>1, <2>2, InsideOne
  <2>4. QED
    BY <2>3, StructureOf DEF NamesFit
<1>3. ASSUME NEW e, Declared(e), Denotes(n, e) PROVE FALSE
  <2>1. \E v \in DOMAIN program.decls : Decl(v).kind = "var" /\ Nests(Decl(v)) /\ Decl(v).name = x
    BY <1>0, <1>3, DenotesInside
  <2>2. QED
    BY <2>1, RecordApart
<1>4. QED
  BY <1>1, <1>2, <1>3

-----------------------------------------------------------------------------
(* What steps keep                                                         *)

Sound == Inv /\ Unambiguous /\ BuildInv

LEMMA SoundNames == ASSUME Sound PROVE NamesFit /\ StoreFits
  BY ProgramFits DEF Sound, Inv, BuildInv, NamesFit, NestingInv

LEMMA FieldsTyped ==
  ASSUME WellFormed, NEW d, Declared(d), NEW i \in 1..Len(Decl(d).fields)
  PROVE  Decl(d).fields[i].type # 0 => IsTag(Decl(d).fields[i].type)
<1> DEFINE fs == Decl(d).fields
<1>1. IsSeq(fs) /\ \A f \in Range(fs) : f.type # 0 => IsTag(f.type)
  BY DEF WellFormed, Declared
<1>2. DOMAIN fs = 1..Len(fs)
  BY <1>1, SeqOfElements, LenProperties
<1>3. fs[i] \in Range(fs)
  BY <1>2 DEF Range
<1>4. QED
  BY <1>1, <1>3

(* A step that adds to the store and to the references                     *)
Adds == /\ StoreKept /\ NamesKept /\ TranslationUnits' = TranslationUnits
        /\ Components \subseteq Components' /\ references \subseteq references'

LEMMA RefersToKept ==
  ASSUME Sound, Adds, NEW c, NEW i, NEW t, t # 0 => Declared(t), RefersTo(c, i, t)
  PROVE  RefersTo(c, i, t)'
<1> SUFFICES ASSUME t # 0 PROVE RefersTo(c, i, t)'
  BY DEF RefersTo
<1>1. PICK s \in Components : /\ <<c, s, <<"field", i>>>> \in references
                              /\ heap[s].type = ModelType(t)
                              /\ Decl(t).name # Anonymous => heap[s].id = Decl(t).name
                              /\ TU = 1 => names[t] # Anonymous /\ heap[s].id = names[t]
  BY DEF RefersTo
<1>2. s \in 1..Len(heap) /\ t \in DOMAIN names
  BY SoundNames DEF StoreFits, NamesFit, Declared
<1>3. heap'[s] = heap[s] /\ s \in Components' /\ <<c, s, <<"field", i>>>> \in references'
  BY <1>1, <1>2 DEF Adds, StoreKept
<1>4. Decl(t)' = Decl(t) /\ ModelType(t)' = ModelType(t) /\ TU' = TU
  BY DeclKept DEF Adds, TU
<1>5. names[t] # Anonymous => names'[t] = names[t]
  BY <1>2 DEF Adds, NamesKept
<1>6. QED
  BY <1>1, <1>3, <1>4, <1>5 DEF RefersTo

LEMMA FieldsRefer ==
  ASSUME Sound, Adds, NEW c, NEW d, Declared(d), NEW i \in 1..Len(Decl(d).fields),
         RefersTo(c, i, Decl(d).fields[i].type)
  PROVE  RefersTo(c, i, Decl(d).fields[i].type)'
<1>1. PICK t : t = Decl(d).fields[i].type
  OBVIOUS
<1>2. t # 0 => Declared(t)
  BY <1>1, FieldsTyped, SoundNames DEF NamesFit, IsTag
<1>3. RefersTo(c, i, t)
  BY <1>1
<1>4. RefersTo(c, i, t)'
  BY <1>2, <1>3, RefersToKept
<1>5. Decl(d)' = Decl(d)
  BY DeclKept DEF Adds
<1>6. QED
  BY <1>1, <1>4, <1>5 DEF RefersTo

LEMMA BuildsKept ==
  ASSUME Sound, Adds, NEW b, Builds(b), Declared(b.D), names[b.D] # Anonymous, Size(b.C)' = Size(b.C),
         \A n \in Labels' : Inside(n, names[b.D]) => n \in Labels
  PROVE  Builds(b)'
<1> DEFINE fs == Decl(b.D).fields
<1>1. /\ Decl(b.D).def
      /\ b.at \in {"start", "adopt", "field", "type", "retry"} /\ b.i \in 1..Len(fs) + 1
      /\ Size(b.C) = IF b.at \in {"type", "retry"} THEN b.i ELSE b.i - 1
      /\ \A i \in 1..b.i - 1 : RefersTo(b.C, i, fs[i].type)
      /\ b.anons \in Nat /\ (b.i = 1 /\ b.at = "start" => b.anons = 0)
      /\ \A n \in Labels : Inside(n, names[b.D]) =>
           Number(n) \in 0..b.anons - 1 \/ (b.at = "adopt" /\ Number(n) = b.anons)
  BY DEF Builds
<1>2. Decl(b.D)' = Decl(b.D) /\ names'[b.D] = names[b.D]
  BY DeclKept, SoundNames DEF Adds, NamesKept, NamesFit, Declared
<1>3. Len(fs) \in Nat
  BY SoundNames DEF NamesFit, WellFormed, Declared, IsSeq
<1>4. ASSUME NEW i \in 1..b.i - 1 PROVE RefersTo(b.C, i, Decl(b.D).fields[i].type)'
  <2>1. i \in 1..Len(Decl(b.D).fields)
    BY <1>1, <1>3
  <2>2. QED
    BY <1>1, <2>1, FieldsRefer
<1>5. QED
  BY <1>1, <1>2, <1>4 DEF Builds

LEMMA BuiltKept ==
  ASSUME Sound, Adds, NEW c \in Structures, Built(c), Size(c)' = Size(c),
         \A n \in Labels' : Inside(n, heap[c].id) => n \in Labels,
         \A d : IsRecord(d) /\ Decl(d).def =>
           /\ names'[d] = heap[c].id => names[d] = heap[c].id \/ Denotes(heap[c].id, d)
           /\ Size(c) = 0 /\ Unbuilt(d) /\ (names[d] = heap[c].id \/ Denotes(heap[c].id, d)) => Unbuilt(d)'
  PROVE  Built(c)'
<1>1. c \in 1..Len(heap) /\ heap'[c] = heap[c]
  BY SoundNames DEF StoreFits, Structures, Adds, StoreKept
<1>2. Size(c)' = 0 => \A n \in Labels' : ~Inside(n, heap'[c].id)
  BY <1>1 DEF Built
<1>3. program' = program
  BY DEF Adds, NamesKept
<1>4. ASSUME NEW d \in DOMAIN program.decls, IsRecord(d), Decl(d).def,
             names'[d] = heap[c].id \/ Denotes(heap[c].id, d)
      PROVE  BuiltFrom(c, d)' \/ (Size(c)' = 0 /\ Unbuilt(d)')
  <2>1. names[d] = heap[c].id \/ Denotes(heap[c].id, d)
    BY <1>4
  <2>2. BuiltFrom(c, d) \/ (Size(c) = 0 /\ Unbuilt(d))
    BY <1>4, <2>1 DEF Built
  <2>3. CASE Size(c) = 0 /\ Unbuilt(d)
    BY <1>4, <2>1, <2>3
  <2>4. CASE BuiltFrom(c, d)
    <3>1. Decl(d)' = Decl(d) /\ Declared(d)
      BY <1>3, <1>4 DEF Decl, IsRecord
    <3>2. \A i \in 1..Len(Decl(d).fields) : RefersTo(c, i, Decl(d).fields[i].type)
      BY <2>4 DEF BuiltFrom
    <3>3. \A i \in 1..Len(Decl(d).fields) : RefersTo(c, i, Decl(d).fields[i].type)'
      BY <3>1, <3>2, FieldsRefer
    <3>4. QED
      BY <2>4, <3>1, <3>3 DEF BuiltFrom
  <2>5. QED
    BY <2>2, <2>3, <2>4
<1>5. \A n, d : Denotes(n, d)' <=> Denotes(n, d)
  BY <1>3 DEF Denotes, Decl, Nests, IsTag, Declared
<1>6. \A d : (IsRecord(d)' <=> IsRecord(d)) /\ Decl(d)' = Decl(d)
  BY <1>3 DEF IsRecord, Decl, Declared
<1>7. QED
  BY <1>1, <1>2, <1>3, <1>4, <1>5, <1>6 DEF Built

LEMMA BuildingFits ==
  ASSUME Sound, NEW s, Calls(s), NEW b \in Building(s)
  PROVE  /\ IsRecord(b.D) /\ Declared(b.D) /\ names[b.D] # Anonymous
         /\ b.C \in Structures /\ heap[b.C].id = names[b.D]
<1>1. PICK k \in 1..Len(s) : s[k].proc = "record" /\ b = Progress(s[k])
  BY BuildingOf
<1>2. Fits(s[k])
  BY DEF Calls
<1>3. b.D = s[k].D /\ b.C = s[k].C
  BY <1>1 DEF Progress
<1>4. /\ IsTag(b.D) /\ names[b.D] # Anonymous /\ Decl(b.D).kind = "record"
      /\ b.C \in allComponents \cup Components /\ heap[b.C].type = "struct" /\ heap[b.C].id = names[b.D]
  BY <1>1, <1>2, <1>3 DEF Fits, Traversing, Matches
<1>5. b.C \in Components
  BY <1>4, SoundNames DEF NamesFit, StoreBuilt
<1>6. QED
  BY <1>4, <1>5 DEF IsRecord, IsTag, Structures

LEMMA StructuresKept ==
  ASSUME Sound, Adds
  PROVE  /\ Structures \subseteq Structures'
         /\ \A c \in Structures : heap'[c] = heap[c]
         /\ \A n : InStructure(n) => InStructure(n)'
         /\ \A n, d : Denotes(n, d)' <=> Denotes(n, d)
         /\ \A d : (IsRecord(d)' <=> IsRecord(d)) /\ Decl(d)' = Decl(d)
<1>1. \A c \in Components : c \in Components' /\ heap'[c] = heap[c]
  BY SoundNames DEF StoreFits, Adds, StoreKept
<1>2. program' = program
  BY DEF Adds, NamesKept
<1>3. /\ Structures \subseteq Structures'
      /\ \A c \in Structures : heap'[c] = heap[c]
  BY <1>1 DEF Structures
<1>4. \A n : InStructure(n) => InStructure(n)'
  BY <1>3 DEF InStructure, Inside, Number
<1>5. \A n, d : Denotes(n, d)' <=> Denotes(n, d)
  BY <1>2 DEF Denotes, Decl, Nests, IsTag, Declared
<1>6. \A d : (IsRecord(d)' <=> IsRecord(d)) /\ Decl(d)' = Decl(d)
  BY <1>2 DEF IsRecord, Decl, Declared
<1>7. QED
  BY <1>3, <1>4, <1>5, <1>6

(* A step that gives no name: a structure that it makes has that of some   *)
(* record.                                                                 *)
MakesNamed == \A c \in Structures' \ Structures : \E d \in DOMAIN names :
  IsRecord(d) /\ names[d] # Anonymous /\ heap'[c].id = names[d]

LEMMA LabelsSame ==
  ASSUME Sound, Adds, SameNames, MakesNamed PROVE Labels' = Labels
<1>1. Structures \subseteq Structures' /\ \A c \in Structures : heap'[c] = heap[c]
  BY StructuresKept
<1>2. \A d : IsRecord(d)' <=> IsRecord(d)
  BY StructuresKept
<1>3. \A c \in Structures' : \/ c \in Structures
                             \/ \E d \in DOMAIN names : IsRecord(d) /\ heap'[c].id = names[d]
  BY DEF MakesNamed
<1>4. QED
  BY <1>1, <1>2, <1>3 DEF Labels, SameNames

LEMMA NamesBuiltSame ==
  ASSUME Sound, Adds, SameNames, MakesNamed PROVE NamesBuilt'
<1>1. /\ \A c \in Structures : heap'[c] = heap[c]
      /\ \A n : InStructure(n) => InStructure(n)'
      /\ \A n, d : Denotes(n, d)' <=> Denotes(n, d)
      /\ \A d : IsRecord(d)' <=> IsRecord(d)
  BY StructuresKept
<1>2. NamesBuilt /\ names' = names /\ program' = program
  BY SoundNames DEF NamesFit, SameNames
<1>3. ASSUME NEW c \in Structures', NEW n, n = heap'[c].id
      PROVE  /\ IsSeq(n) /\ n # Anonymous
             /\ InStructure(n)' \/ \E d \in DOMAIN program'.decls : IsRecord(d)' /\ Denotes(n, d)'
  <2>1. CASE c \in Structures
    BY <1>1, <1>2, <1>3, <2>1 DEF NamesBuilt
  <2>2. CASE c \notin Structures
    <3>1. PICK d \in DOMAIN names : IsRecord(d) /\ names[d] # Anonymous /\ n = names[d]
      BY <1>3, <2>2 DEF MakesNamed
    <3>2. IsSeq(n) /\ d \in DOMAIN program.decls /\ (n = Decl(d).name \/ Len(n) >= 2)
      BY <3>1, RecordName, SoundNames
    <3>3. InStructure(n) \/ Denotes(n, d)
      BY <1>2, <3>1, <3>2 DEF NamesBuilt, Denotes
    <3>4. QED
      BY <1>1, <1>2, <3>1, <3>2, <3>3
  <2>3. QED
    BY <2>1, <2>2
<1>4. ASSUME NEW d \in DOMAIN names, IsRecord(d), NEW n, n = names[d], Len(n) >= 2
      PROVE  /\ InStructure(n)' \/ Denotes(n, d)'
             /\ \A e \in DOMAIN names : IsRecord(e) /\ n = names[e] => d = e
  BY <1>1, <1>2, <1>4 DEF NamesBuilt
<1>5. \A c \in Structures' : LET n == heap'[c].id IN
        /\ IsSeq(n) /\ n # Anonymous
        /\ InStructure(heap[c].id)' \/ \E d \in DOMAIN program'.decls : IsRecord(d)' /\ Denotes(heap[c].id, d)'
  BY <1>3 DEF InStructure, Denotes
<1>6. \A d \in DOMAIN names' : IsRecord(d)' /\ Len(names'[d]) >= 2 =>
        /\ InStructure(names[d])' \/ Denotes(names[d], d)'
        /\ \A e \in DOMAIN names' : IsRecord(e)' /\ names'[d] = names'[e] => d = e
  BY <1>1, <1>2, <1>4 DEF InStructure, Denotes
<1>7. QED
  BY <1>5, <1>6 DEF NamesBuilt

(* Records that go on being traversed, or may be called                    *)
MayBuild(b) == Builds(b) /\ Declared(b.D) /\ names[b.D] # Anonymous
Calling(d, c) == /\ IsRecord(d) /\ Decl(d).def
                 /\ names[d] = heap[c].id \/ Denotes(heap[c].id, d)

LEMMA BuiltOn ==
  ASSUME Sound, Adds, SameNames, StoreBuilt', MakesNamed,
         \A c \in Structures' \ Structures : Built(c)' \/ \E b \in Building(stack') : b.C = c,
         \A c \in Structures : Size(c)' = Size(c) \/ \E b \in Building(stack') : b.C = c,
         \A c \in Structures : \A d : Calling(d, c) /\ Size(c) = 0 /\ Unbuilt(d) =>
           Unbuilt(d)' \/ \E b \in Building(stack') : b.C = c,
         \A b \in Building(stack') : Builds(b)',
         \A b \in Building(stack) : Built(b.C)' \/ \E e \in Building(stack') : e.C = b.C
  PROVE  BuildInv'
<1>1. NamesBuilt'
  BY NamesBuiltSame
<1>2. Labels' = Labels
  BY LabelsSame
<1>3. ASSUME NEW c \in Structures' PROVE Built(c)' \/ \E b \in Building(stack') : b.C = c
  <2>1. CASE c \in Structures /\ Built(c) /\ ~\E b \in Building(stack') : b.C = c
    <3>1. \A d : IsRecord(d) /\ Decl(d).def =>
           /\ names'[d] = heap[c].id => names[d] = heap[c].id \/ Denotes(heap[c].id, d)
           /\ Size(c) = 0 /\ Unbuilt(d) /\ (names[d] = heap[c].id \/ Denotes(heap[c].id, d)) => Unbuilt(d)'
      BY <2>1 DEF SameNames, Calling
    <3>2. Size(c)' = Size(c)
      BY <2>1
    <3>3. QED
      BY <1>2, <2>1, <3>1, <3>2, BuiltKept
  <2>2. CASE \E b \in Building(stack) : b.C = c
    BY <2>2
  <2>3. CASE c \notin Structures
    BY <2>3
  <2>4. QED
    BY <2>1, <2>2, <2>3 DEF Sound, BuildInv
<1>4. QED
  BY <1>1, <1>3 DEF BuildInv

LEMMA BuildsSame ==
  ASSUME Sound, Adds, SameNames, MakesNamed, NEW b, MayBuild(b), Size(b.C)' = Size(b.C)
  PROVE  Builds(b)'
  BY LabelsSame, BuildsKept DEF MayBuild

LEMMA BuiltSame ==
  ASSUME Sound, Adds, SameNames, StoreBuilt', MakesNamed, fields' = fields,
         \A c \in Structures' \ Structures : Built(c)' \/ \E b \in Building(stack') : b.C = c,
         \A c \in Structures : \A d : Calling(d, c) /\ Size(c) = 0 /\ Unbuilt(d) =>
           Unbuilt(d)' \/ \E b \in Building(stack') : b.C = c,
         \A b \in Building(stack') : MayBuild(b),
         \A b \in Building(stack) : \E e \in Building(stack') : e.C = b.C
  PROVE  BuildInv'
<1>1. \A c : Size(c)' = Size(c)
  BY DEF Size, FieldsOf
<1>2. ASSUME NEW b \in Building(stack') PROVE Builds(b)'
  BY <1>1, BuildsSame
<1>3. QED
  BY <1>1, <1>2, BuiltOn

(* What the declarations that were visited say                             *)
LEMMA SameVisited ==
  ASSUME UNCHANGED <<program, TranslationUnits, phase, visited>>
  PROVE  Visited' = Visited /\ \A d : Unbuilt(d)' <=> Unbuilt(d)
  BY DEF Visited, Unbuilt, TopLevel, TU, Decl

LEMMA StoreQuiet ==
  ASSUME StoreBuilt,
         UNCHANGED <<heap, allComponents, Components, program, fields, TranslationUnits, phase, visited>>
  PROVE  StoreBuilt'
<1>1. Visited' = Visited
  BY SameVisited
<1>2. \A n : HasStructure(n)' <=> HasStructure(n)
  BY DEF HasStructure, HasKey, Matches
<1>3. \A d : (IsRecord(d)' <=> IsRecord(d)) /\ Decl(d)' = Decl(d)
  BY DEF IsRecord, Decl, Declared
<1>4. \A d \in Visited' : IsRecord(d)' /\ Decl(d)'.name # Anonymous => HasStructure(Decl(d).name)'
  BY <1>1, <1>2, <1>3 DEF StoreBuilt, HasStructure, HasKey, Matches
<1>5. QED
  BY <1>4 DEF StoreBuilt, Matches, TU

LEMMA QuietStep ==
  ASSUME Sound,
         UNCHANGED <<heap, allComponents, Components, names, program, fields, TranslationUnits, phase, visited>>,
         references \subseteq references', Building(stack') = Building(stack)
  PROVE  BuildInv'
<1>1. StoreKept
  BY QuietStore, SoundNames
<1>2. Adds /\ SameNames
  BY <1>1 DEF Adds, SameNames, NamesKept
<1>3. StoreBuilt' /\ Structures' = Structures
  BY StoreQuiet, SoundNames DEF NamesFit, Structures
<1>4. MakesNamed
  BY <1>3 DEF MakesNamed
<1>5. \A d : Unbuilt(d) => Unbuilt(d)'
  BY SameVisited
<1>6. \A b \in Building(stack') : MayBuild(b)
  BY BuildingFits DEF Sound, BuildInv, Inv, NestingInv, MayBuild
<1>7. \A b \in Building(stack) : \E e \in Building(stack') : e.C = b.C
  OBVIOUS
<1>8. QED
  BY <1>2, <1>3, <1>4, <1>5, <1>6, <1>7, BuiltSame

(* A call that builds nothing, by the frames it leaves                     *)
LEMMA PlainTop ==
  ASSUME IsSeq(stack), stack # <<>>, stack[1].proc # "record",
         NEW g, g.proc = stack[1].proc
  PROVE  /\ Building(Put(stack, 1, g)) = Building(stack) /\ IsSeq(Put(stack, 1, g))
         /\ Building(Tail(stack)) = Building(stack) /\ IsSeq(Tail(stack))
<1>1. IsSeq(Tail(stack)) /\ Building(Tail(stack)) = Building(stack)
  BY PoppedBuilding
<1>2. IsSeq(Put(stack, 1, g)) /\ Building(Put(stack, 1, g)) = Building(Tail(stack))
  BY ChangedBuilding
<1>3. QED
  BY <1>1, <1>2

LEMMA PlainPushed ==
  ASSUME NEW s, IsSeq(s), NEW f, f.proc # "record" PROVE Building(<<f>> \o s) = Building(s)
  BY PushedBuilding

(* The queue of a call                                                     *)
LEMMA RelatedBuilding ==
  ASSUME NEW s, IsSeq(s), NEW n, NEW v
  PROVE  IsSeq([s EXCEPT ![n].related = v]) /\ Building([s EXCEPT ![n].related = v]) = Building(s)
<1>1. PICK g : g = [s[n] EXCEPT !.related = v]
  OBVIOUS
<1>2. /\ IsSeq(Put(s, n, g)) /\ Len(Put(s, n, g)) = Len(s)
      /\ \A k \in 1..Len(s) : Put(s, n, g)[k] = IF k = n THEN g ELSE s[k]
  BY ExceptAny
<1>3. Put(s, n, g) = [s EXCEPT ![n].related = v]
  BY <1>1 DEF Put
<1>4. g.proc = s[n].proc /\ Progress(g) = Progress(s[n])
  BY <1>1 DEF Progress
<1>5. \A k \in 1..Len(s) : AsBuilding(s[k], Put(s, n, g)[k])
  BY <1>2, <1>4 DEF AsBuilding
<1>6. Building(Put(s, n, g)) = Building(s)
  BY <1>2, <1>5, SameBuilding
<1>7. QED
  BY <1>2, <1>3, <1>6

-----------------------------------------------------------------------------
(* Entering a record                                                       *)

(* A component that is bound is found by what looks it up afterwards.      *)
LEMMA TagFound ==
  ASSUME StoreFits, StoreBuilt, NEW ty, ty \in {"struct", "enum", "typedef"}, NEW n
  PROVE  /\ LookupFull(ty, n) = NULL => \A e \in Components : ~Matches(e, ty, n)
         /\ LookupFull(ty, n) # NULL => LookupFull(ty, n) \in Components /\ Matches(LookupFull(ty, n), ty, n)
         /\ \A e \in Components : Matches(e, ty, n) => LookupFull(ty, n) = e
<1>1. ~HasKey(allComponents, ty, n)
  BY DEF StoreBuilt, HasKey, Matches
<1>2. LookupFull(ty, n) = Find(Components, ty, n)
  BY <1>1 DEF LookupFull
<1>3. NULL \notin Components
  BY DEF StoreFits, NULL
<1>4. CASE HasKey(Components, ty, n)
  <2>1. LookupFull(ty, n) \in Components /\ Matches(LookupFull(ty, n), ty, n)
    BY <1>2, <1>4 DEF Find, HasKey
  <2>2. QED
    BY <1>3, <2>1 DEF StoreBuilt, Matches
<1>5. CASE ~HasKey(Components, ty, n)
  BY <1>2, <1>5 DEF Find, HasKey
<1>6. QED
  BY <1>4, <1>5

(* A component that is bound                                               *)
Holds == /\ UNCHANGED <<names, program, fields, TranslationUnits>> /\ references \subseteq references'
         /\ phase = "ast" /\ phase' = "ast" /\ visited' \in Nat

VisitedHave == \A d \in Visited' : IsRecord(d) /\ Decl(d).name # Anonymous => HasStructure(Decl(d).name)'

LEMMA HoldsStore ==
  ASSUME Sound, Holds, StoreKept,
         \A c \in allComponents' : heap'[c].type \notin {"struct", "enum", "typedef"},
         \A c, e \in Components' : heap'[c].type = heap'[e].type /\ heap'[c].id = heap'[e].id => c = e,
         VisitedHave
  PROVE  StoreBuilt'
<1>1. StoreBuilt
  BY SoundNames DEF NamesFit
<1>2. \A d : (IsRecord(d)' <=> IsRecord(d)) /\ Decl(d)' = Decl(d)
  BY DEF Holds, IsRecord, Decl, Declared
<1>3. \A d \in Visited' : IsRecord(d)' /\ Decl(d)'.name # Anonymous => HasStructure(Decl(d).name)'
  BY <1>2 DEF VisitedHave
<1>4. DOMAIN fields' \subseteq 1..Len(heap') /\ \A c \in DOMAIN fields' : IsSeq(fields'[c])
  BY <1>1 DEF StoreBuilt, Holds, StoreKept
<1>5. IsSeq(TranslationUnits') /\ TU' # 0
  BY <1>1 DEF StoreBuilt, Holds, TU
<1>6. QED
  BY <1>3, <1>4, <1>5 DEF StoreBuilt, Matches, Holds

LEMMA BindsStore ==
  ASSUME Sound, Holds, NEW ty, NEW n, NEW static, BindNew(ty, n, static),
         static => ty \notin {"struct", "enum", "typedef"},
         ~static => ~HasKey(Components, ty, n),
         VisitedHave
  PROVE  /\ StoreBuilt' /\ Adds /\ SameNames
         /\ Len(heap) + 1 \in 1..Len(heap') /\ Len(heap) + 1 \notin 1..Len(heap)
         /\ heap'[Len(heap) + 1].type = ty /\ heap'[Len(heap) + 1].id = n
         /\ Components' = IF static THEN Components ELSE Components \cup {Len(heap) + 1}
<1> DEFINE o == Len(heap) + 1
<1>0. StoreFits /\ StoreBuilt
  BY SoundNames DEF NamesFit
<1>1. Bind(ty, n, static, Mains[TU])
  BY DEF BindNew
<1>2. /\ StoreKept /\ o \in 1..Len(heap')
      /\ heap'[o].type = ty /\ heap'[o].id = n
  BY <1>0, <1>1, BindKeeps
<1>3. o \notin 1..Len(heap)
  BY <1>0 DEF StoreFits, IsSeq
<1>4. Components' = IF static THEN Components ELSE Components \cup {o}
  BY <1>1 DEF Bind, BindLocal, BindGlobal, Insert
<1>5. allComponents' \subseteq allComponents \cup (IF static THEN {o} ELSE {})
  BY <1>1 DEF Bind, BindLocal, BindGlobal, Insert
<1>6. \A c \in allComponents \cup Components : heap'[c] = heap[c] /\ c # o
  BY <1>0, <1>2, <1>3 DEF StoreFits, StoreKept
<1> HIDE DEF o
<1>7. \A c \in allComponents' : heap'[c].type \notin {"struct", "enum", "typedef"}
  BY <1>0, <1>2, <1>5, <1>6 DEF StoreBuilt
<1>8. \A c, e \in Components' : heap'[c].type = heap'[e].type /\ heap'[c].id = heap'[e].id => c = e
  BY <1>0, <1>2, <1>4, <1>6 DEF StoreBuilt, Matches, HasKey
<1>9. StoreBuilt'
  BY <1>2, <1>7, <1>8, HoldsStore
<1>10. Adds /\ SameNames
  BY <1>2, <1>4 DEF Adds, NamesKept, SameNames, Holds
<1>11. QED
  BY <1>2, <1>3, <1>4, <1>9, <1>10 DEF o

(* Calls t that go on below a visit of d                                   *)
Enters(d, t) ==
  /\ Holds /\ Visited' \subseteq Visited \cup {d} /\ IsSeq(t)
  /\ \A b \in Building(t) : MayBuild(b)
  /\ \A b \in Building(stack) : \E e \in Building(t) : e.C = b.C

LEMMA StillUnbuilt ==
  ASSUME NEW d, NEW t, Enters(d, t), NEW e, Unbuilt(e), e # d PROVE Unbuilt(e)'
<1>1. Visited' \subseteq Visited \cup {d} /\ program' = program
  BY DEF Enters, Holds
<1>2. QED
  BY <1>1 DEF Unbuilt, Decl

(* A visit that binds no structure and traverses no record                 *)
LEMMA EntersOther ==
  ASSUME Sound, NEW d, NEW t, Enters(d, t), Adds, SameNames, StoreBuilt', Structures' = Structures,
         \A c \in Structures : Calling(d, c) /\ Size(c) = 0 /\ Unbuilt(d) => Unbuilt(d)',
         Building(stack') = Building(t)
  PROVE  BuildInv'
<1>1. MakesNamed
  BY DEF MakesNamed
<1>2. \A c \in Structures : \A e : Calling(e, c) /\ Size(c) = 0 /\ Unbuilt(e) => Unbuilt(e)'
  BY StillUnbuilt
<1>3. fields' = fields
  BY DEF Enters, Holds
<1>4. /\ \A b \in Building(stack') : MayBuild(b)
      /\ \A b \in Building(stack) : \E e \in Building(stack') : e.C = b.C
  BY DEF Enters
<1>5. QED
  BY <1>1, <1>2, <1>3, <1>4, BuiltSame

(* A visit keeps that of the records that were visited.                    *)
LEMMA VisitedKept ==
  ASSUME Sound, StoreKept, program' = program, NEW d, Visited' \subseteq Visited \cup {d},
         IsRecord(d) /\ Decl(d).name # Anonymous => HasStructure(Decl(d).name)'
  PROVE  VisitedHave
<1> SUFFICES ASSUME NEW e \in Visited', IsRecord(e), Decl(e).name # Anonymous
             PROVE  HasStructure(Decl(e).name)'
  BY DEF VisitedHave
<1>1. CASE e = d
  BY <1>1
<1>2. CASE e \in Visited
  <2>1. PICK n : n = Decl(e).name
    OBVIOUS
  <2>2. HasStructure(n)
    BY <1>2, <2>1, SoundNames DEF NamesFit, StoreBuilt
  <2>3. HasStructure(n)'
    BY <2>2, StructureKept, SoundNames
  <2>4. Decl(e)' = Decl(e)
    BY DEF Decl
  <2>5. QED
    BY <2>1, <2>3, <2>4
<1>3. QED
  BY <1>1, <1>2

(* A definition whose name is declared elsewhere too has no other one.     *)
LEMMA CalledByName ==
  ASSUME NamesFit, NEW d, Unbuilt(d), NEW c, Calling(d, c)
  PROVE  heap[c].id = names[d] /\ names[d] = Decl(d).name /\ names[d] # Anonymous
<1>1. IsRecord(d) /\ (names[d] = heap[c].id \/ Denotes(heap[c].id, d))
  BY DEF Calling
<1>2. Decl(d).name # Anonymous
  BY DEF Unbuilt
<1>3. names[d] = Decl(d).name
  BY <1>1, <1>2, RecordName
<1>4. Denotes(heap[c].id, d) => heap[c].id = Decl(d).name
  BY <1>2 DEF Denotes, Nests
<1>5. QED
  BY <1>1, <1>2, <1>3, <1>4

(* What is traversed is not entered.                                       *)
LEMMA NotEntered ==
  ASSUME Sound, SameNames, NEW d, IsRecord(d), NEW t, IsSeq(t), NEW f, f.proc = "record", f.D = d, stack' = <<f>> \o t,
         Calls(stack)', NEW b \in Building(t), names[b.D] # Anonymous
  PROVE  names[b.D] # names[d]
<1>1. PICK k \in 1..Len(t) : t[k].proc = "record" /\ b = Progress(t[k])
  BY BuildingOf
<1>2. /\ k + 1 \in 1..Len(stack') /\ 1 \in 1..(k + 1) - 1 /\ stack'[1] = f /\ stack'[k + 1] = t[k]
      /\ Len(t) \in Nat
  BY Pushed DEF IsSeq
<1>3. Nest(f, t[k])'
  BY <1>2 DEF Calls
<1>4. ~Within(names[t[k].D], names[f.D])
  BY <1>1, <1>3 DEF Nest, Traversing, SameNames, Within, IsAnon, Sound, Unambiguous, NamesApart, Decl, Nests, IsTag, Declared
<1>5. IsSeq(names[d])
  BY RecordName, SoundNames
<1>6. QED
  BY <1>1, <1>4, <1>5 DEF Progress, Within, IsSeq

(* VisitRecordDecl leaves the structures as they should be, whatever it    *)
(* finds.                                                                  *)
LEMMA FreshBuilds ==
  ASSUME NEW d, IsRecord(d), Decl(d).def, NEW c, Size(c) = 0, \A n \in Labels : ~Inside(n, names[d]),
         NEW b, b = [D |-> d, C |-> c, at |-> "start", i |-> 1, anons |-> 0],
         WellFormed, names[d] # Anonymous
  PROVE  MayBuild(b)
<1>1. Len(Decl(d).fields) \in Nat
  BY DEF WellFormed, Declared, IsRecord, IsSeq
<1>2. QED
  BY <1>1 DEF MayBuild, Builds, IsRecord

LEMMA EnterAnonymousBuilds ==
  ASSUME Sound, NEW d, IsRecord(d), NEW top, NEW t, Enters(d, t), EnterRecord(d, top, t), names[d] = Anonymous
  PROVE  BuildInv'
<1>1. stack' = t /\ UNCHANGED Bound
  BY DEF EnterRecord
<1>2. Holds /\ Visited' \subseteq Visited \cup {d} /\ program' = program
  BY DEF Enters, Holds
<1>3. StoreKept
  BY <1>1, QuietStore, SoundNames DEF Bound
<1>4. Decl(d).name = Anonymous
  <2>1. names[d] = Decl(d).name \/ Len(names[d]) >= 2
    BY RecordName, SoundNames
  <2>2. ~(Len(Anonymous) >= 2)
    BY EmptyIsSeq DEF Anonymous
  <2>3. QED
    BY <2>1, <2>2
<1>5. VisitedHave
  BY <1>2, <1>3, <1>4, VisitedKept
<1>6. StoreBuilt
  BY SoundNames DEF NamesFit
<1>7. StoreBuilt'
  BY <1>1, <1>2, <1>3, <1>5, <1>6, HoldsStore DEF Bound, StoreBuilt, Matches
<1>8. Adds /\ SameNames /\ Structures' = Structures
  BY <1>1, <1>2, <1>3 DEF Adds, NamesKept, SameNames, Holds, Bound, Structures
<1>9. ~Unbuilt(d)
  BY <1>4 DEF Unbuilt
<1>10. QED
  BY <1>1, <1>7, <1>8, <1>9, EntersOther

LEMMA EnterFoundBuilds ==
  ASSUME Sound, NEW d, IsRecord(d), NEW top, NEW t, Enters(d, t), EnterRecord(d, top, t), names[d] # Anonymous,
         NEW c, c = LookupFull("struct", names[d]), c # NULL, Calls(stack)'
  PROVE  BuildInv'
<1>1. /\ UNCHANGED Bound
      /\ IF Traverses(d, c)
         THEN stack' = <<[Frame("record", d, c) EXCEPT !.top = top,
                                    !.related = IF top THEN Related(d) ELSE {}]>> \o t
         ELSE stack' = t
  BY DEF EnterRecord, Own
<1>2. Holds /\ Visited' \subseteq Visited \cup {d} /\ program' = program /\ IsSeq(t) /\ names' = names
  BY DEF Enters, Holds
<1>3. StoreKept
  BY <1>1, QuietStore, SoundNames DEF Bound
<1>4. StoreBuilt /\ StoreFits /\ WellFormed /\ NamesFit
  BY SoundNames DEF NamesFit
<1>5. c \in Structures /\ heap[c].id = names[d] /\ HasStructure(names[d])
  <2>1. c \in Components /\ Matches(c, "struct", names[d])
    BY <1>4, TagFound
  <2>2. QED
    BY <2>1 DEF Matches, Structures, HasStructure, HasKey
<1>6. VisitedHave
  <2>1. PICK n : n = names[d]
    OBVIOUS
  <2>2. HasStructure(n)'
    BY <1>3, <1>4, <1>5, <2>1, StructureKept
  <2>3. Decl(d).name # Anonymous => Decl(d).name = n
    BY <1>4, <2>1, RecordName
  <2>4. Decl(d)' = Decl(d)
    BY <1>2 DEF Decl
  <2>5. Decl(d).name # Anonymous => HasStructure(Decl(d).name)'
    BY <2>2, <2>3, <2>4
  <2>6. QED
    BY <1>2, <1>3, <2>5, VisitedKept
<1>7. StoreBuilt'
  BY <1>1, <1>2, <1>3, <1>4, <1>6, HoldsStore DEF Bound, StoreBuilt, Matches
<1>8. Adds /\ SameNames /\ Structures' = Structures
  BY <1>1, <1>2, <1>3 DEF Adds, NamesKept, SameNames, Holds, Bound, Structures
<1>9. ASSUME NEW e \in Structures, Unbuilt(d), Calling(d, e) PROVE e = c
  BY <1>4, <1>5, <1>9, CalledByName, StructureOnly
<1>10. CASE ~Traverses(d, c)
  <2>1. \A e \in Structures : Calling(d, e) /\ Size(e) = 0 /\ Unbuilt(d) => Unbuilt(d)'
    BY <1>9, <1>10 DEF Calling, Traverses
  <2>2. QED
    BY <1>1, <1>7, <1>8, <1>10, <2>1, EntersOther
<1>11. CASE Traverses(d, c)
  <2>1. PICK f : f = [Frame("record", d, c) EXCEPT !.top = top, !.related = IF top THEN Related(d) ELSE {}]
    OBVIOUS
  <2>2. PICK b : b = Progress(f)
    OBVIOUS
  <2>3. /\ f.proc = "record" /\ f.D = d
        /\ b = [D |-> d, C |-> c, at |-> "start", i |-> 1, anons |-> 0]
    BY <2>1, <2>2 DEF Frame, Progress
  <2>4. stack' = <<f>> \o t
    BY <1>1, <1>11, <2>1
  <2>5. Building(stack') = Building(t) \cup {b}
    BY <1>2, <2>2, <2>3, <2>4, PushedBuilding
  <2>6. ~\E e \in Building(stack) : e.C = c
    <3>1. SUFFICES ASSUME NEW e \in Building(t), e.C = c PROVE FALSE
      BY DEF Enters
    <3>2. \E k \in 1..Len(t) : t[k].proc = "record" /\ e = Progress(t[k])
      BY BuildingOf
    <3>3. PICK k \in 1..Len(t) : t[k].proc = "record" /\ e = Progress(t[k])
      BY <3>2
    <3>4. Len(t) \in Nat /\ k + 1 \in 1..Len(stack') /\ stack'[k + 1] = t[k]
      BY <1>2, <2>4, Pushed DEF IsSeq
    <3>5. Fits(t[k])'
      BY <3>4 DEF Calls
    <3>6. heap'[c].id = names[e.D]
      BY <1>2, <3>1, <3>3, <3>5 DEF Fits, Matches, Progress
    <3>7. heap'[c].id = names[d]
      BY <1>1, <1>5 DEF Bound
    <3>8. names[e.D] # Anonymous
      BY <3>6, <3>7
    <3>9. names[e.D] # names[d]
      BY <1>2, <1>8, <2>3, <2>4, <3>8, NotEntered
    <3>10. QED
      BY <3>6, <3>7, <3>9
  <2>7. \A n \in Labels : ~Inside(n, names[d])
    <3>1. Built(c)
      BY <1>5, <2>6 DEF Sound, BuildInv
    <3>2. QED
      BY <1>5, <1>11, <3>1 DEF Built, Traverses
  <2>8. MayBuild(b)
    BY <1>4, <1>11, <2>3, <2>7, FreshBuilds DEF Traverses
  <2>9. \A e \in Building(stack') : MayBuild(e)
    BY <2>5, <2>8 DEF Enters
  <2>10. \A e \in Building(stack) : \E g \in Building(stack') : g.C = e.C
    BY <2>5 DEF Enters
  <2>11. MakesNamed
    BY <1>8 DEF MakesNamed
  <2>12. ASSUME NEW e \in Structures, NEW g, Calling(g, e), Unbuilt(g)
         PROVE  Unbuilt(g)' \/ \E h \in Building(stack') : h.C = e
    <3>1. CASE g # d
      BY <2>12, <3>1, StillUnbuilt
    <3>2. CASE g = d
      BY <1>9, <2>3, <2>5, <2>12, <3>2
    <3>3. QED
      BY <3>1, <3>2
  <2>13. fields' = fields
    BY <1>2 DEF Holds
  <2>14. QED
    BY <1>7, <1>8, <2>9, <2>10, <2>11, <2>12, <2>13, BuiltSame
<1>12. QED
  BY <1>10, <1>11

LEMMA EnterNewBuilds ==
  ASSUME Sound, NEW d, IsRecord(d), NEW top, NEW t, Enters(d, t), EnterRecord(d, top, t), names[d] # Anonymous,
         LookupFull("struct", names[d]) = NULL
  PROVE  BuildInv'
<1>0. PICK o : o = Len(heap) + 1
  OBVIOUS
<1> DEFINE f == [Frame("record", d, o) EXCEPT !.top = top, !.related = IF top THEN Related(d) ELSE {}]
<1>1. /\ BindNew("struct", names[d], FALSE)
      /\ IF Traverses(d, o) THEN stack' = <<f>> \o t ELSE stack' = t
  BY <1>0 DEF EnterRecord, Own
<1>2. /\ f.proc = "record" /\ f.D = d
      /\ Progress(f) = [D |-> d, C |-> o, at |-> "start", i |-> 1, anons |-> 0]
  BY DEF Frame, Progress
<1> HIDE DEF f
<1>3. Holds /\ Visited' \subseteq Visited \cup {d} /\ program' = program /\ IsSeq(t) /\ names' = names /\ fields' = fields
  BY DEF Enters, Holds
<1>4. StoreBuilt /\ StoreFits /\ WellFormed /\ NamesFit
  BY SoundNames DEF NamesFit
<1>5. ~HasKey(Components, "struct", names[d]) /\ ~HasStructure(names[d])
  <2>1. \A e \in Components : ~Matches(e, "struct", names[d])
    BY <1>4, TagFound
  <2>2. QED
    BY <1>4, <2>1 DEF HasKey, HasStructure, StoreBuilt, Matches
<1>6. /\ StoreKept /\ o \in Stored' /\ heap'[o].type = "struct" /\ heap'[o].id = names[d]
  BY <1>0, <1>1, <1>4, <1>5, BindKeeps DEF BindNew
<1>7. VisitedHave
  <2>1. Decl(d).name # Anonymous => Decl(d).name = names[d]
    BY <1>4, RecordName
  <2>2. Decl(d)' = Decl(d)
    BY <1>3 DEF Decl
  <2>3. Decl(d).name # Anonymous => HasStructure(Decl(d).name)'
    BY <1>6, <2>1, <2>2 DEF HasStructure, HasKey, Matches, Stored
  <2>4. QED
    BY <1>3, <1>6, <2>3, VisitedKept
<1>8. /\ StoreBuilt' /\ Adds /\ SameNames
      /\ o \in 1..Len(heap') /\ o \notin 1..Len(heap)
      /\ Components' = Components \cup {o}
  <2>1. PICK n : n = names[d]
    OBVIOUS
  <2>2. BindNew("struct", n, FALSE) /\ ~HasKey(Components, "struct", n)
    BY <1>1, <1>5, <2>1
  <2>3. QED
    BY <1>0, <1>3, <1>7, <2>2, BindsStore
<1>9. Structures' = Structures \cup {o} /\ o \notin Structures
  <2>1. \A c \in Components : heap'[c] = heap[c] /\ c # o
    BY <1>4, <1>6, <1>8 DEF StoreFits, StoreKept
  <2>2. QED
    BY <1>6, <1>8, <2>1 DEF Structures
<1>10. MakesNamed
  <2>1. d \in DOMAIN names
    BY <1>4, RecordName
  <2>2. QED
    BY <1>6, <1>9, <2>1 DEF MakesNamed
<1>11. Size(o) = 0 /\ Size(o)' = 0
  <2>1. o \notin DOMAIN fields
    BY <1>4, <1>8 DEF StoreBuilt
  <2>2. QED
    BY <1>3, <2>1, EmptyIsSeq DEF Size, FieldsOf
<1>12. \A n \in Labels : ~Inside(n, names[d])
  BY <1>4, <1>5, NothingInside
<1>13. ASSUME NEW e \in Structures, NEW g, Calling(g, e), Unbuilt(g) PROVE Unbuilt(g)'
  <2>1. CASE g # d
    BY <1>13, <2>1, StillUnbuilt
  <2>2. CASE g = d
    <3>1. heap[e].id = names[d]
      BY <1>4, <1>13, <2>2, CalledByName
    <3>2. QED
      BY <1>4, <1>5, <3>1, StructureOf
  <2>3. QED
    BY <2>1, <2>2
<1>14. CASE Traverses(d, o)
  <2>1. Building(stack') = Building(t) \cup {Progress(f)}
    BY <1>1, <1>2, <1>3, <1>14, PushedBuilding
  <2>2. MayBuild(Progress(f))
    BY <1>2, <1>4, <1>11, <1>12, <1>14, FreshBuilds DEF Traverses
  <2>3. Progress(f).C = o
    BY <1>2
  <2>4. \A e \in Building(stack') : MayBuild(e)
    BY <2>1, <2>2 DEF Enters
  <2>5. \A e \in Building(stack) : \E g \in Building(stack') : g.C = e.C
    BY <2>1 DEF Enters
  <2>6. \A c \in Structures' \ Structures : \E b \in Building(stack') : b.C = c
    BY <1>9, <2>1, <2>3
  <2>7. QED
    BY <1>3, <1>8, <1>10, <1>13, <2>4, <2>5, <2>6, BuiltSame
<1>15. CASE ~Traverses(d, o)
  <2>1. stack' = t /\ ~Decl(d).def
    BY <1>1, <1>11, <1>15 DEF Traverses
  <2>2. Labels' = Labels
    BY <1>8, <1>10, LabelsSame
  <2>3. ASSUME NEW e \in DOMAIN program.decls, IsRecord(e), Decl(e).def,
               names[e] = names[d] \/ Denotes(names[d], e)
        PROVE  Unbuilt(e)'
    <3>1. /\ e # d /\ Decl(e).name = Decl(d).name /\ Decl(d).name = names[d] /\ Decl(d).name # Anonymous
      BY <1>4, <2>1, <2>3, OneCalled
    <3>2. e \notin Visited
      BY <1>4, <1>5, <2>3, <3>1 DEF StoreBuilt
    <3>3. Unbuilt(e)
      BY <2>1, <3>1, <3>2 DEF Unbuilt, IsRecord, Declared
    <3>4. QED
      BY <3>1, <3>3, StillUnbuilt
  <2>4. Built(o)'
    <3>1. \A n \in Labels' : ~Inside(n, heap'[o].id)
      BY <1>6, <1>12, <2>2
    <3>2. \A e : (IsRecord(e)' <=> IsRecord(e)) /\ Decl(e)' = Decl(e) /\ \A n : Denotes(n, e)' <=> Denotes(n, e)
      BY <1>8, StructuresKept
    <3>3. \A e \in DOMAIN program'.decls :
            IsRecord(e)' /\ Decl(e)'.def /\ (names'[e] = heap'[o].id \/ Denotes(names[d], e)) => Unbuilt(e)'
      BY <1>3, <1>6, <2>3, <3>2
    <3>4. PICK n : n = names[d]
      OBVIOUS
    <3>5. \A e : Denotes(heap[o].id, e)' <=> Denotes(n, e)
      <4>1. heap'[o].id = n
        BY <1>6, <3>4
      <4>2. \A e : Denotes(heap[o].id, e)' <=> Denotes(n, e)'
        BY <4>1 DEF Denotes
      <4>3. QED
        BY <3>2, <4>2
    <3>6. QED
      BY <1>11, <3>1, <3>3, <3>4, <3>5 DEF Built
  <2>5. \A c \in Structures' \ Structures : Built(c)'
    BY <1>9, <2>4
  <2>6. /\ \A b \in Building(stack') : MayBuild(b)
        /\ \A b \in Building(stack) : \E e \in Building(stack') : e.C = b.C
    BY <2>1 DEF Enters
  <2>7. QED
    BY <1>3, <1>8, <1>10, <1>13, <2>5, <2>6, BuiltSame
<1>16. QED
  BY <1>14, <1>15

LEMMA EnterRecordBuilds ==
  ASSUME Sound, NEW d, IsRecord(d), NEW top, NEW t, Enters(d, t), EnterRecord(d, top, t), Calls(stack)'
  PROVE  BuildInv'
<1>1. CASE names[d] = Anonymous
  BY <1>1, EnterAnonymousBuilds
<1>2. CASE names[d] # Anonymous /\ LookupFull("struct", names[d]) # NULL
  BY <1>2, EnterFoundBuilds
<1>3. CASE names[d] # Anonymous /\ LookupFull("struct", names[d]) = NULL
  BY <1>3, EnterNewBuilds
<1>4. QED
  BY <1>1, <1>2, <1>3

(* The other visitors bind nothing or a component of another type, and     *)
(* leave a frame of their own at most.                                     *)
LEMMA EntersPlain ==
  ASSUME Sound, NEW d, ~IsRecord(d), NEW t, Enters(d, t),
         \/ UNCHANGED Bound
         \/ \E ty, n, static : /\ BindNew(ty, n, static) /\ ty # "struct"
                               /\ static => ty \notin {"struct", "enum", "typedef"}
                               /\ ~static => ~HasKey(Components, ty, n),
         \/ stack' = t
         \/ \E f : f.proc # "record" /\ stack' = <<f>> \o t
  PROVE  BuildInv'
<1>1. Holds /\ Visited' \subseteq Visited \cup {d} /\ program' = program /\ IsSeq(t)
  BY DEF Enters, Holds
<1>2. StoreBuilt /\ StoreFits
  BY SoundNames DEF NamesFit
<1>3. Building(stack') = Building(t)
  BY <1>1, PlainPushed
<1>4. CASE UNCHANGED Bound
  <2>1. StoreKept
    BY <1>2, <1>4, QuietStore DEF Bound
  <2>2. VisitedHave
    BY <1>1, <2>1, VisitedKept
  <2>3. StoreBuilt'
    BY <1>1, <1>2, <1>4, <2>1, <2>2, HoldsStore DEF Bound, StoreBuilt, Matches
  <2>4. Adds /\ SameNames /\ Structures' = Structures
    BY <1>1, <1>4, <2>1 DEF Adds, NamesKept, SameNames, Holds, Bound, Structures
  <2>5. \A c \in Structures : Calling(d, c) /\ Size(c) = 0 /\ Unbuilt(d) => Unbuilt(d)'
    BY DEF Calling
  <2>6. QED
    BY <1>3, <2>3, <2>4, <2>5, EntersOther
<1>5. ASSUME NEW ty, NEW n, NEW static, BindNew(ty, n, static), ty # "struct",
             static => ty \notin {"struct", "enum", "typedef"},
             ~static => ~HasKey(Components, ty, n)
      PROVE  BuildInv'
  <2>0. PICK o : o = Len(heap) + 1
    OBVIOUS
  <2>1. StoreKept
    BY <1>2, <1>5, BindKeeps DEF BindNew
  <2>2. VisitedHave
    BY <1>1, <2>1, VisitedKept
  <2>3. /\ StoreBuilt' /\ Adds /\ SameNames
        /\ o \notin 1..Len(heap) /\ heap'[o].type = ty
        /\ Components' = IF static THEN Components ELSE Components \cup {o}
    BY <1>1, <1>5, <2>0, <2>2, BindsStore
  <2>4. Structures' = Structures
    <3>1. \A c \in Components : heap'[c] = heap[c] /\ c # o
      BY <1>2, <2>1, <2>3 DEF StoreFits, StoreKept
    <3>2. QED
      BY <1>5, <2>3, <3>1 DEF Structures
  <2>5. \A c \in Structures : Calling(d, c) /\ Size(c) = 0 /\ Unbuilt(d) => Unbuilt(d)'
    BY DEF Calling
  <2>6. QED
    BY <1>3, <2>3, <2>4, <2>5, EntersOther
<1>6. QED
  BY <1>4, <1>5

LEMMA EnterEnumBuilds ==
  ASSUME Sound, NEW d, IsTag(d), Decl(d).kind # "record", NEW t, Enters(d, t), EnterEnum(d, t)
  PROVE  BuildInv'
<1>1. ~IsRecord(d)
  BY DEF IsRecord
<1>2. PICK n : n = names[d]
  OBVIOUS
<1>3. \/ UNCHANGED Bound
      \/ LookupFull("enum", n) = NULL /\ BindNew("enum", n, FALSE)
  BY <1>2 DEF EnterEnum
<1>4. LookupFull("enum", n) = NULL => ~HasKey(Components, "enum", n)
  BY TagFound, SoundNames DEF HasKey, NamesFit
<1>5. PICK f : f = Frame("enum", d, IF names[d] = Anonymous THEN NULL ELSE Own(LookupFull("enum", names[d])))
  OBVIOUS
<1>6. f.proc # "record"
  BY <1>5 DEF Frame
<1>7. stack' = t \/ stack' = <<f>> \o t
  BY <1>5 DEF EnterEnum
<1>8. \/ UNCHANGED Bound
      \/ \E ty, m, static : /\ BindNew(ty, m, static) /\ ty # "struct"
                            /\ static => ty \notin {"struct", "enum", "typedef"}
                            /\ ~static => ~HasKey(Components, ty, m)
  BY <1>3, <1>4
<1>9. QED
  BY <1>1, <1>6, <1>7, <1>8, EntersPlain

(* What is not found is not there to be bound twice.                       *)
LEMMA LookedUp ==
  ASSUME StoreFits, NEW ty, NEW n, NEW static, Lookup(ty, n, static) = NULL
  PROVE  ~static => ~HasKey(Components, ty, n)
<1> SUFFICES ASSUME ~static PROVE ~HasKey(Components, ty, n)
  OBVIOUS
<1>1. LookupFull(ty, n) = NULL
  BY DEF Lookup
<1>2. ~HasKey(Stored, ty, n)
  BY <1>1, Found
<1>3. QED
  BY <1>2 DEF HasKey, Stored

LEMMA EnterOtherBuilds ==
  ASSUME Sound, NEW d, Declared(d), ~IsTag(d), NEW t, Enters(d, t),
         \/ EnterVar(d, t)
         \/ EnterFunction(d, t)
         \/ EnterTypedef(d, t)
  PROVE  BuildInv'
<1>1. ~IsRecord(d)
  BY DEF IsRecord, IsTag
<1>2. PICK n, static : n = Decl(d).name /\ static = Decl(d).static
  OBVIOUS
<1>3. CASE EnterVar(d, t)
  <2>1. PICK f : f = Frame("var", d, Own(Lookup("global", n, static)))
    OBVIOUS
  <2>2. f.proc # "record"
    BY <2>1 DEF Frame
  <2>3. stack' = t \/ stack' = <<f>> \o t
    BY <1>2, <1>3, <2>1 DEF EnterVar
  <2>4. \/ UNCHANGED Bound
        \/ Lookup("global", n, static) = NULL /\ BindNew("global", n, static)
    BY <1>2, <1>3 DEF EnterVar
  <2>5. \/ UNCHANGED Bound
        \/ BindNew("global", n, static) /\ (~static => ~HasKey(Components, "global", n))
    BY <2>4, LookedUp, SoundNames
  <2>6. QED
    BY <1>1, <2>2, <2>3, <2>5, EntersPlain
<1>4. CASE EnterFunction(d, t)
  <2>1. PICK f : f = [Frame("function", d, Own(Lookup("function", n, static))) EXCEPT
                        !.at = IF Lookup("function", n, static) = NULL THEN "type" ELSE "body"]
    OBVIOUS
  <2>2. f.proc # "record"
    BY <2>1 DEF Frame
  <2>3. stack' = <<f>> \o t
    BY <1>2, <1>4, <2>1 DEF EnterFunction
  <2>4. \/ UNCHANGED Bound
        \/ Lookup("function", n, static) = NULL /\ BindNew("function", n, static)
    BY <1>2, <1>4 DEF EnterFunction
  <2>5. \/ UNCHANGED Bound
        \/ BindNew("function", n, static) /\ (~static => ~HasKey(Components, "function", n))
    BY <2>4, LookedUp, SoundNames
  <2>6. QED
    BY <1>1, <2>2, <2>3, <2>5, EntersPlain
<1>5. CASE EnterTypedef(d, t)
  <2>1. Frame("typedef", d, NULL).proc # "record"
    BY DEF Frame
  <2>2. UNCHANGED Bound /\ stack' = <<Frame("typedef", d, NULL)>> \o t
    BY <1>5 DEF EnterTypedef
  <2>3. QED
    BY <1>1, <2>1, <2>2, EntersPlain
<1>6. QED
  BY <1>3, <1>4, <1>5

LEMMA EnterTagBuilds ==
  ASSUME Sound, NEW d, IsTag(d), NEW top, NEW t, Enters(d, t), EnterTag(d, top, t), Calls(stack)'
  PROVE  BuildInv'
<1>1. CASE Decl(d).kind = "record"
  BY <1>1, EnterRecordBuilds DEF EnterTag, IsRecord, IsTag
<1>2. CASE Decl(d).kind # "record"
  BY <1>2, EnterEnumBuilds DEF EnterTag
<1>3. QED
  BY <1>1, <1>2

LEMMA EnterBuilds ==
  ASSUME Sound, NEW d, NEW t, Enters(d, t), Enter(d, t), Calls(stack)'
  PROVE  BuildInv'
<1>1. PICK top : top = TRUE
  OBVIOUS
<1>2. CASE IsTag(d) /\ EnterTag(d, top, t)
  BY <1>2, EnterTagBuilds
<1>3. CASE ~IsTag(d)
  <2>1. /\ Declared(d)
        /\ \/ EnterVar(d, t)
           \/ EnterFunction(d, t)
           \/ EnterTypedef(d, t)
    BY <1>3 DEF Enter
  <2>2. QED
    BY <1>3, <2>1, EnterOtherBuilds
<1>4. IsTag(d) => EnterTag(d, top, t)
  BY <1>1 DEF Enter, IsTag
<1>5. QED
  BY <1>2, <1>3, <1>4

-----------------------------------------------------------------------------
(* Steps that visit                                                        *)

LEMMA BuildingNow == ASSUME Sound PROVE Calls(stack) /\ \A b \in Building(stack) : MayBuild(b)
<1>1. Calls(stack)
  BY DEF Sound, Inv, NestingInv
<1>2. QED
  BY <1>1, BuildingFits DEF Sound, BuildInv, MayBuild

(* The innermost call goes on as g.                                        *)
LEMMA GoesOnAs ==
  ASSUME Sound, stack # <<>>, NEW g, g.proc = stack[1].proc,
         g.proc = "record" => MayBuild(Progress(g)) /\ g.C = stack[1].C,
         NEW s, s = Put(stack, 1, g)
  PROVE  /\ IsSeq(s) /\ s # <<>> /\ \A b \in Building(s) : MayBuild(b)
         /\ \A b \in Building(stack) : \E e \in Building(s) : e.C = b.C
<1>1. IsSeq(stack) /\ \A b \in Building(stack) : MayBuild(b)
  BY BuildingNow DEF Calls
<1>2. /\ IsSeq(s) /\ s # <<>>
      /\ Building(s) = Building(Tail(stack)) \cup (IF g.proc = "record" THEN {Progress(g)} ELSE {})
  BY <1>1, ChangedBuilding
<1>3. /\ Building(stack) = Building(Tail(stack)) \cup
           (IF stack[1].proc = "record" THEN {Progress(stack[1])} ELSE {})
  BY <1>1, PoppedBuilding
<1>4. CASE g.proc = "record"
  BY <1>1, <1>2, <1>3, <1>4 DEF Progress
<1>5. CASE g.proc # "record"
  BY <1>1, <1>2, <1>3, <1>5
<1>6. QED
  BY <1>2, <1>4, <1>5

LEMMA GoesOnAt ==
  ASSUME Sound, stack # <<>>, NEW l, NEW s, s = At(l),
         stack[1].proc = "record" => MayBuild([Progress(stack[1]) EXCEPT !.at = l])
  PROVE  /\ IsSeq(s) /\ s # <<>> /\ \A b \in Building(s) : MayBuild(b)
         /\ \A b \in Building(stack) : \E e \in Building(s) : e.C = b.C
<1>1. PICK g : g = [stack[1] EXCEPT !.at = l]
  OBVIOUS
<1>2. s = Put(stack, 1, g)
  BY <1>1 DEF At, Put
<1>3. /\ g.proc = stack[1].proc /\ g.C = stack[1].C
  BY <1>1
<1>4. ASSUME stack[1].proc = "record" PROVE Progress(g) = [Progress(stack[1]) EXCEPT !.at = l]
  BY <1>1 DEF Progress
<1>5. QED
  BY <1>2, <1>3, <1>4, GoesOnAs

LEMMA ProgressAt ==
  ASSUME NEW b, MayBuild(b), NEW l, l \in {"start", "adopt", "field", "type", "retry"},
         b.at \in {"type", "retry"} <=> l \in {"type", "retry"}, b.at = "adopt" => l = "adopt",
         l = "start" => b.at = "start"
  PROVE  MayBuild([D |-> b.D, C |-> b.C, at |-> l, i |-> b.i, anons |-> b.anons])
  BY DEF MayBuild, Builds

LEMMA DiscoverBuilds ==
  ASSUME Sound, Inv', UNCHANGED Unit, stack # <<>>, NEW t, DiscoverVisits(t)
  PROVE  BuildInv'
<1>1. /\ phase = "ast" /\ phase' = "ast" /\ program' = program
      /\ TranslationUnits' = TranslationUnits /\ Head(stack) = stack[1]
  BY Visiting DEF Sound, Inv, NestingInv, Unit
<1>2. PICK s : s = At("retry")
  OBVIOUS
<1>3. /\ Enter(t, s) /\ UNCHANGED <<references, names, fields, visited>> /\ stack[1].at = "type"
  BY <1>1, <1>2 DEF DiscoverVisits
<1>4. stack[1].proc = "record" => MayBuild([Progress(stack[1]) EXCEPT !.at = "retry"])
  <2>1. ASSUME stack[1].proc = "record" PROVE MayBuild(Progress(stack[1]))
    <3>1. 1 \in 1..Len(stack)
      BY Visiting DEF Sound
    <3>2. Progress(stack[1]) \in Building(stack)
      BY <2>1, <3>1, BuildingOf
    <3>3. QED
      BY <3>2, BuildingNow
  <2>2. PICK b : b = Progress(stack[1])
    OBVIOUS
  <2>3. /\ b.at = "type"
        /\ [b EXCEPT !.at = "retry"] = [D |-> b.D, C |-> b.C, at |-> "retry", i |-> b.i, anons |-> b.anons]
    BY <1>3, <2>2 DEF Progress
  <2>4. MayBuild(b) => MayBuild([D |-> b.D, C |-> b.C, at |-> "retry", i |-> b.i, anons |-> b.anons])
    BY <2>3, ProgressAt
  <2>5. QED
    BY <2>1, <2>2, <2>3, <2>4
<1>5. /\ IsSeq(s) /\ \A b \in Building(s) : MayBuild(b)
      /\ \A b \in Building(stack) : \E e \in Building(s) : e.C = b.C
  BY <1>2, <1>4, GoesOnAt
<1>6. Visited' = Visited /\ visited' \in Nat
  <2>1. visited \in Nat
    BY SoundNames DEF NamesFit, StoreBuilt
  <2>2. QED
    BY <1>1, <1>3, <2>1, SameVisited
<1>7. Enters(t, s)
  BY <1>1, <1>3, <1>5, <1>6 DEF Enters, Holds
<1>8. Calls(stack)'
  BY DEF Inv, NestingInv
<1>9. QED
  BY <1>3, <1>7, <1>8, EnterBuilds

(* A step within a unit that visits nothing new, t the calls that go on    *)
LEMMA EntersWithin ==
  ASSUME Sound, UNCHANGED Unit, stack # <<>>, UNCHANGED <<names, fields, visited>>, references \subseteq references',
         NEW t, IsSeq(t), \A b \in Building(t) : MayBuild(b),
         \A b \in Building(stack) : \E e \in Building(t) : e.C = b.C,
         NEW d
  PROVE  Enters(d, t)
<1>1. /\ phase = "ast" /\ phase' = "ast" /\ program' = program
      /\ TranslationUnits' = TranslationUnits
  BY Visiting DEF Sound, Inv, NestingInv, Unit
<1>2. visited \in Nat
  BY SoundNames DEF NamesFit, StoreBuilt
<1>3. Visited' = Visited
  BY <1>1, SameVisited
<1>4. QED
  BY <1>1, <1>2, <1>3 DEF Enters, Holds

LEMMA RenamedBuilds == ASSUME Sound, Inv', Renamed, UNCHANGED Unit PROVE BuildInv'
<1>1. /\ stack # <<>> /\ Head(stack).proc = "rename" /\ Head(stack) = stack[1]
      /\ UNCHANGED <<references, names, fields, visited>>
  BY Visiting DEF Sound, Renamed, Running
<1>2. PICK d, top, t : d = stack[1].D /\ top = stack[1].top /\ t = Tail(stack)
  OBVIOUS
<1>3. EnterTag(d, top, t)
  BY <1>1, <1>2 DEF Renamed
<1>4. IsSeq(stack) /\ IsTag(d)
  BY <1>1, <1>2, Visiting DEF Sound, Calls, Fits, Traversing
<1>5. IsSeq(t) /\ Building(t) = Building(stack)
  <2>1. "rename" # "record"
    OBVIOUS
  <2>2. QED
    BY <1>1, <1>2, <1>4, <2>1, PoppedBuilding
<1>6. Enters(d, t)
  BY <1>1, <1>5, BuildingNow, EntersWithin
<1>7. Calls(stack)'
  BY DEF Inv, NestingInv
<1>8. QED
  BY <1>3, <1>4, <1>6, <1>7, EnterTagBuilds

LEMMA TypedefVisitsBuilds == ASSUME Sound, Inv', TypedefVisits, UNCHANGED Unit PROVE BuildInv'
<1>1. /\ stack # <<>> /\ Head(stack).proc = "typedef" /\ Head(stack) = stack[1]
      /\ UNCHANGED <<references, names, fields, visited>>
  BY Visiting DEF Sound, TypedefVisits, Running
<1>2. PICK d, top, t : d = Decl(stack[1].D).type /\ top = TRUE /\ t = At("check")
  OBVIOUS
<1>3. EnterTag(d, top, t) /\ IsTag(d)
  BY <1>1, <1>2 DEF TypedefVisits
<1>4. /\ IsSeq(t) /\ \A b \in Building(t) : MayBuild(b)
      /\ \A b \in Building(stack) : \E e \in Building(t) : e.C = b.C
  BY <1>1, <1>2, GoesOnAt
<1>5. Enters(d, t)
  BY <1>1, <1>4, EntersWithin
<1>6. Calls(stack)'
  BY DEF Inv, NestingInv
<1>7. QED
  BY <1>3, <1>5, <1>6, EnterTagBuilds

LEMMA VisitTopBuilds == ASSUME Sound, Inv', VisitTop, UNCHANGED Unit PROVE BuildInv'
<1>1. /\ phase = "ast" /\ stack = <<>> /\ phase' = "ast" /\ program' = program
      /\ TranslationUnits' = TranslationUnits
      /\ UNCHANGED <<references, names, fields>> /\ visited' = visited + 1
  BY DEF VisitTop, Unit, clangVars
<1>2. visited \in Nat /\ visited' \in Nat
  BY <1>1, SoundNames DEF NamesFit, StoreBuilt
<1>3. PICK d : d = TopLevel[visited + 1]
  OBVIOUS
<1>4. Enter(d, <<>>)
  BY <1>3 DEF VisitTop
<1>5. Visited' \subseteq Visited \cup {d}
  <2>1. TopLevel' = TopLevel
    BY <1>1 DEF TopLevel, TU
  <2>2. PICK T : T = TopLevel
    OBVIOUS
  <2>3. Visited = {T[k] : k \in 1..visited} /\ Visited' = {T[k] : k \in 1..visited + 1} /\ d = T[visited + 1]
    BY <1>1, <1>3, <2>1, <2>2 DEF Visited
  <2>4. QED
    BY <1>2, <2>3
<1>6. IsSeq(<<>>) /\ Building(<<>>) = {} /\ Building(stack) = {}
  BY <1>1, EmptyIsSeq, BuildingNone
<1>7. Enters(d, <<>>)
  BY <1>1, <1>2, <1>5, <1>6 DEF Enters, Holds
<1>8. Calls(stack)'
  BY DEF Inv, NestingInv
<1>9. QED
  BY <1>4, <1>7, <1>8, EnterBuilds

-----------------------------------------------------------------------------
(* Steps of the calls that traverse no record                              *)

PlainCall == Sound /\ stack # <<>> /\ stack[1].proc # "record"
Plainly(t) == IsSeq(t) /\ t # <<>> /\ t[1].proc # "record" /\ Building(t) = Building(stack)

LEMMA PlainlySelf == ASSUME PlainCall PROVE Plainly(stack)
  BY BuildingNow DEF PlainCall, Plainly, Calls

LEMMA PlainlyPut ==
  ASSUME NEW s, Plainly(s), NEW g, g.proc = s[1].proc, NEW t, t = Put(s, 1, g) PROVE Plainly(t)
<1>1. IsSeq(t) /\ t # <<>> /\ t[1] = g /\ Building(t) = Building(Tail(s))
  BY ChangedBuilding DEF Plainly
<1>2. Building(s) = Building(Tail(s))
  BY PoppedBuilding DEF Plainly
<1>3. QED
  BY <1>1, <1>2 DEF Plainly

LEMMA PlainlyRelated ==
  ASSUME NEW s, Plainly(s), NEW n, NEW v, NEW t, t = PutRelated(s, n, v) PROVE Plainly(t)
<1>1. IsSeq(t) /\ Building(t) = Building(s)
  BY RelatedBuilding DEF Plainly, PutRelated
<1>2. PICK g : g = [s[n] EXCEPT !.related = v]
  OBVIOUS
<1>3. t = Put(s, n, g) /\ g.proc = s[n].proc
  BY <1>2 DEF Put, PutRelated
<1>4. Len(t) = Len(s) /\ \A k \in 1..Len(s) : t[k] = IF k = n THEN g ELSE s[k]
  BY <1>3, ExceptAny DEF Plainly
<1>5. 1 \in 1..Len(s)
  BY Popped DEF Plainly
<1>6. t # <<>> /\ t[1].proc = s[1].proc
  BY <1>3, <1>4, <1>5, EmptyIsSeq
<1>7. QED
  BY <1>1, <1>6 DEF Plainly

LEMMA PlainlyEnds ==
  ASSUME NEW s, Plainly(s)
  PROVE  /\ IsSeq(Tail(s)) /\ Building(Tail(s)) = Building(stack)
         /\ \A f : f.proc # "record" =>
              Building(<<f>> \o s) = Building(stack) /\ Building(<<f>> \o Tail(s)) = Building(stack)
<1>1. IsSeq(s) /\ IsSeq(Tail(s)) /\ Building(Tail(s)) = Building(stack) /\ Building(s) = Building(stack)
  BY PoppedBuilding DEF Plainly
<1>2. QED
  BY <1>1, PlainPushed

LEMMA PlainlyAt ==
  ASSUME PlainCall, NEW l, NEW t, t = At(l) PROVE Plainly(t)
<1>1. PICK g : g = [stack[1] EXCEPT !.at = l]
  OBVIOUS
<1>2. t = Put(stack, 1, g) /\ g.proc = stack[1].proc
  BY <1>1 DEF At, Put
<1>3. QED
  BY <1>2, PlainlySelf, PlainlyPut

LEMMA PlainlyFurther ==
  ASSUME PlainCall, NEW t,
         \/ t \in {NextNode, NextParam, NextElement, NextSub}
         \/ \E v : t = [NextSub EXCEPT ![1].last = v]
         \/ t = [stack EXCEPT ![1].i = @ + 1]
  PROVE  Plainly(t)
<1>1. CASE t = NextNode
  <2>1. PICK s : s = At("leave")
    OBVIOUS
  <2>2. Plainly(s)
    BY <2>1, PlainlyAt
  <2>3. PICK g : g = [s[1] EXCEPT !.n = @ + 1]
    OBVIOUS
  <2>4. t = [s EXCEPT ![1].n = @ + 1]
    BY <1>1, <2>1 DEF NextNode, At
  <2>5. t = Put(s, 1, g) /\ g.proc = s[1].proc
    BY <2>3, <2>4 DEF Put
  <2>6. QED
    BY <2>2, <2>5, PlainlyPut
<1>2. CASE t = NextParam
  <2>1. PICK s : s = At("type")
    OBVIOUS
  <2>2. Plainly(s)
    BY <2>1, PlainlyAt
  <2>3. PICK g : g = [s[1] EXCEPT !.i = @ + 1]
    OBVIOUS
  <2>4. t = Put(s, 1, g) /\ g.proc = s[1].proc
    BY <1>2, <2>1, <2>3 DEF NextParam, Put
  <2>5. QED
    BY <2>2, <2>4, PlainlyPut
<1>3. CASE t = NextElement
  <2>1. PICK g : g = [stack[1] EXCEPT !.i = @ + 1]
    OBVIOUS
  <2>2. PICK s : s = Put(stack, 1, g)
    OBVIOUS
  <2>0. g.proc = stack[1].proc
    BY <2>1
  <2>3. Plainly(s)
    BY <2>0, <2>2, PlainlySelf, PlainlyPut
  <2>4. PICK h : h = [s[1] EXCEPT !.k = 1]
    OBVIOUS
  <2>5. s = [stack EXCEPT ![1].i = @ + 1]
    BY <2>1, <2>2 DEF Put
  <2>6. t = [s EXCEPT ![1].k = 1]
    BY <1>3, <2>5 DEF NextElement
  <2>7. t = Put(s, 1, h) /\ h.proc = s[1].proc
    BY <2>4, <2>6 DEF Put
  <2>8. QED
    BY <2>3, <2>7, PlainlyPut
<1>4. PICK s : s = NextSub
  OBVIOUS
<1>5. Plainly(s)
  <2>1. PICK g : g = [stack[1] EXCEPT !.k = @ + 1]
    OBVIOUS
  <2>2. s = Put(stack, 1, g) /\ g.proc = stack[1].proc
    BY <1>4, <2>1 DEF NextSub, Put
  <2>3. QED
    BY <2>2, PlainlySelf, PlainlyPut
<1>6. ASSUME NEW v, t = [NextSub EXCEPT ![1].last = v] PROVE Plainly(t)
  <2>1. PICK g : g = [s[1] EXCEPT !.last = v]
    OBVIOUS
  <2>2. t = Put(s, 1, g) /\ g.proc = s[1].proc
    BY <1>4, <1>6, <2>1 DEF Put
  <2>3. QED
    BY <1>5, <2>2, PlainlyPut
<1>7. CASE t = [stack EXCEPT ![1].i = @ + 1]
  <2>1. PICK g : g = [stack[1] EXCEPT !.i = @ + 1]
    OBVIOUS
  <2>2. t = Put(stack, 1, g) /\ g.proc = stack[1].proc
    BY <1>7, <2>1 DEF Put
  <2>3. QED
    BY <2>2, PlainlySelf, PlainlyPut
<1>8. QED
  BY <1>1, <1>2, <1>3, <1>4, <1>5, <1>6, <1>7

(* They leave the structures alone, ...                                    *)
LEMMA PlainBuilds ==
  ASSUME PlainCall, UNCHANGED Unit,
         UNCHANGED <<heap, allComponents, Components, names, fields, visited>>, references \subseteq references',
         NEW s, Plainly(s),
         \/ stack' \in {s, Tail(s)}
         \/ \E f : f.proc # "record" /\ stack' \in {<<f>> \o s, <<f>> \o Tail(s)}
  PROVE  BuildInv'
<1>1. UNCHANGED <<program, TranslationUnits, phase>>
  BY DEF Unit, clangVars
<1>2. Building(stack') = Building(stack)
  BY PlainlyEnds DEF Plainly
<1>3. QED
  BY <1>1, <1>2, QuietStep DEF PlainCall

(* ... or bind a component that is no structure.                           *)
LEMMA PlainBinds ==
  ASSUME PlainCall, UNCHANGED Unit,
         UNCHANGED <<names, fields, visited>>, references \subseteq references',
         NEW ty, ty # "struct", NEW n,
         UNCHANGED Bound \/ (LookupFull(ty, n) = NULL /\ BindNew(ty, n, FALSE)),
         NEW s, Plainly(s), stack' = s \/ stack' = Tail(s)
  PROVE  BuildInv'
<1>1. PICK t : t = stack'
  OBVIOUS
<1>2. IsSeq(t) /\ Building(t) = Building(stack)
  BY <1>1, PlainlyEnds DEF Plainly
<1>3. Enters(0, t)
  BY <1>2, BuildingNow, EntersWithin DEF PlainCall
<1>4. ~IsRecord(0)
  BY VisitorAssumption DEF PlainCall, Sound, Inv, IsRecord, Declared
<1>5. \/ UNCHANGED Bound
      \/ BindNew(ty, n, FALSE) /\ ~HasKey(Components, ty, n)
  <2>1. LookupFull(ty, n) = NULL => ~HasKey(Stored, ty, n)
    BY Found, SoundNames DEF PlainCall
  <2>2. QED
    BY <2>1 DEF HasKey, Stored
<1>6. \/ UNCHANGED Bound
      \/ \E u, m, static : /\ BindNew(u, m, static) /\ u # "struct"
                           /\ static => u \notin {"struct", "enum", "typedef"}
                           /\ ~static => ~HasKey(Components, u, m)
  BY <1>5
<1>7. QED
  BY <1>1, <1>3, <1>4, <1>6, EntersPlain DEF PlainCall

LEMMA PlainHead ==
  ASSUME Sound, UNCHANGED Unit, stack # <<>>, Head(stack).proc # "record" PROVE PlainCall /\ Head(stack) = stack[1]
  BY Visiting DEF Sound, PlainCall

(* A type is discovered, and whatever comes of it, this call goes on.      *)
LEMMA DiscoverPlain ==
  ASSUME Sound, Inv', UNCHANGED Unit, stack # <<>>, Head(stack).proc # "record", NEW t, NEW r, NEW s, Plainly(s),
         \/ DiscoverVisits(t)
         \/ DiscoverRefers(t, r, s)
         \/ DiscoverFails(t, stack' = s /\ UNCHANGED aborted)
  PROVE  BuildInv'
<1>1. CASE DiscoverVisits(t)
  BY <1>1, DiscoverBuilds
<1>2. CASE DiscoverRefers(t, r, s) \/ DiscoverFails(t, stack' = s /\ UNCHANGED aborted)
  <2>1. /\ UNCHANGED <<heap, allComponents, Components, names, fields, visited>>
        /\ references \subseteq references' /\ stack' = s
    BY <1>2 DEF DiscoverRefers, DiscoverFails, Discovered, Bound
  <2>2. QED
    BY <2>1, PlainHead, PlainBuilds
<1>3. QED
  BY <1>1, <1>2

LEMMA LeaveNodeBuilds == ASSUME Sound, LeaveNode, UNCHANGED Unit PROVE BuildInv'
<1>1. /\ stack # <<>> /\ Head(stack).proc = "stmt" /\ references' = references
      /\ UNCHANGED <<heap, allComponents, Components, names, fields, visited>>
  BY DEF LeaveNode, Running, Bound
<1>2. PlainCall
  BY <1>1, PlainHead
<1>3. PICK found, l, left :
        /\ left = IF found = {} THEN stack ELSE [stack EXCEPT ![Owner].related = @ \ found]
        /\ stack' = Tail(left) \/ stack' = [left EXCEPT ![1].at = l]
  BY DEF LeaveNode
<1>4. Plainly(left)
  <2>1. PICK n, v : n = Owner /\ v = stack[n].related \ found
    OBVIOUS
  <2>2. left = stack \/ left = PutRelated(stack, n, v)
    BY <1>3, <2>1 DEF PutRelated
  <2>3. QED
    BY <1>2, <2>2, PlainlySelf, PlainlyRelated
<1>5. PICK g, u : g = [left[1] EXCEPT !.at = l] /\ u = Put(left, 1, g)
  OBVIOUS
<1>6. u = [left EXCEPT ![1].at = l] /\ g.proc = left[1].proc
  BY <1>5 DEF Put
<1>7. Plainly(u)
  BY <1>4, <1>5, <1>6, PlainlyPut
<1>8. CASE stack' = Tail(left)
  BY <1>1, <1>2, <1>4, <1>8, PlainBuilds
<1>9. CASE stack' = u
  BY <1>1, <1>2, <1>7, <1>9, PlainBuilds
<1>10. QED
  BY <1>3, <1>6, <1>8, <1>9

LEMMA LookAtNodeBuilds == ASSUME Sound, LookAtNode \/ HandleCastExpr, UNCHANGED Unit PROVE BuildInv'
<1>1. /\ stack # <<>> /\ Head(stack).proc = "stmt" /\ references \subseteq references'
      /\ UNCHANGED <<heap, allComponents, Components, names, fields, visited>> /\ stack' = NextNode
  BY DEF LookAtNode, HandleCastExpr, Running, Bound
<1>2. PICK s : s = NextNode
  OBVIOUS
<1>3. PlainCall /\ Plainly(s) /\ stack' = s
  BY <1>1, <1>2, PlainHead, PlainlyFurther
<1>4. QED
  BY <1>1, <1>3, PlainBuilds

LEMMA CastTypeBuilds == ASSUME Sound, Inv', CastType, UNCHANGED Unit PROVE BuildInv'
<1>1. stack # <<>> /\ Head(stack).proc = "stmt"
  BY DEF CastType, Running
<1>2. PICK t, r, s : t = Node.type /\ r = Head(stack).ref /\ s = At("cast")
  OBVIOUS
<1>3. Plainly(s)
  BY <1>1, <1>2, PlainHead, PlainlyAt
<1>4. \/ DiscoverVisits(t)
      \/ DiscoverRefers(t, r, s)
      \/ DiscoverFails(t, stack' = s /\ UNCHANGED aborted)
  BY <1>2 DEF CastType
<1>5. QED
  BY <1>1, <1>3, <1>4, DiscoverPlain

LEMMA FunctionReturnsBuilds == ASSUME Sound, Inv', FunctionReturns, UNCHANGED Unit PROVE BuildInv'
<1>1. stack # <<>> /\ Head(stack).proc = "function"
  BY DEF FunctionReturns, Running
<1>2. PICK t, r, s : t = Decl(This).type /\ r = <<"return", -1>> /\ s = At("body")
  OBVIOUS
<1>3. Plainly(s)
  BY <1>1, <1>2, PlainHead, PlainlyAt
<1>4. \/ DiscoverVisits(t)
      \/ DiscoverRefers(t, r, s)
      \/ DiscoverFails(t, stack' = s /\ UNCHANGED aborted)
  BY <1>2 DEF FunctionReturns
<1>5. QED
  BY <1>1, <1>3, <1>4, DiscoverPlain

LEMMA FunctionArgumentBuilds == ASSUME Sound, Inv', FunctionArgument, UNCHANGED Unit PROVE BuildInv'
<1>1. stack # <<>> /\ Head(stack).proc = "params"
  BY DEF FunctionArgument, Running
<1>2. PICK t, r, s : t = Param.type /\ r = <<"argument", Head(stack).i>> /\ s = NextParam
  OBVIOUS
<1>3. Plainly(s)
  BY <1>1, <1>2, PlainHead, PlainlyFurther
<1>4. \/ DiscoverVisits(t)
      \/ DiscoverRefers(t, r, s)
      \/ DiscoverFails(t, stack' = s /\ UNCHANGED aborted)
  BY <1>2 DEF FunctionArgument
<1>5. QED
  BY <1>1, <1>3, <1>4, DiscoverPlain

LEMMA FunctionStepBuilds ==
  ASSUME Sound, FunctionBody \/ FunctionArguments \/ ArgumentsEnd \/ FunctionMacros \/ InitEnds, UNCHANGED Unit
  PROVE  BuildInv'
<1>1. /\ stack # <<>> /\ Head(stack).proc \in {"function", "params", "init"} /\ references' = references
      /\ UNCHANGED <<heap, allComponents, Components, names, fields, visited>>
  BY DEF FunctionBody, FunctionArguments, ArgumentsEnd, FunctionMacros, InitEnds, Initializing, Running, Bound
<1>2. PlainCall
  BY <1>1, PlainHead
<1>3. CASE FunctionBody
  <2>1. PICK f, s : /\ f = Traversal(This, cm, Decl(This).body, <<"bodyenc", -1>>, FALSE)
                    /\ s = At("args")
    OBVIOUS
  <2>2. stack' = s \/ stack' = <<f>> \o s
    BY <1>3, <2>1 DEF FunctionBody
  <2>3. f.proc # "record"
    BY <2>1 DEF Traversal
  <2>4. Plainly(s)
    BY <1>2, <2>1, PlainlyAt
  <2>5. QED
    BY <1>1, <1>2, <2>2, <2>3, <2>4, PlainBuilds
<1>4. CASE FunctionArguments
  <2>1. PICK f, s : f = [Frame("params", This, cm) EXCEPT !.at = "type"] /\ s = At("macros")
    OBVIOUS
  <2>2. stack' = s \/ stack' = <<f>> \o s
    BY <1>4, <2>1 DEF FunctionArguments
  <2>3. f.proc # "record"
    BY <2>1 DEF Frame
  <2>4. Plainly(s)
    BY <1>2, <2>1, PlainlyAt
  <2>5. QED
    BY <1>1, <1>2, <2>2, <2>3, <2>4, PlainBuilds
<1>5. CASE ArgumentsEnd \/ FunctionMacros \/ InitEnds
  <2>1. stack' = Tail(stack)
    BY <1>5 DEF ArgumentsEnd, FunctionMacros, InitEnds
  <2>2. QED
    BY <1>1, <1>2, <2>1, PlainlySelf, PlainBuilds
<1>6. QED
  BY <1>3, <1>4, <1>5

LEMMA InitElementBuilds ==
  ASSUME Sound, InitRegular \/ InitArray \/ InitBeyond \/ InitNext \/ InitField, UNCHANGED Unit, ~aborted'
  PROVE  BuildInv'
<1>1. /\ stack # <<>> /\ Head(stack).proc = "init" /\ references' = references
      /\ UNCHANGED <<heap, allComponents, Components, names, fields, visited>>
  BY DEF InitRegular, InitArray, InitBeyond, InitNext, InitField, InDesignator, InElement, Running,
         Initializing, Bound
<1>2. PlainCall
  BY <1>1, PlainHead
<1>3. Plainly(NextElement) /\ Plainly(NextSub)
  BY <1>2, PlainlyFurther
<1>4. ASSUME NEW nodes, NEW index, NEW s, Plainly(s), stack' = s \/ Traverse(nodes, index, s)
      PROVE  BuildInv'
  <2>1. PICK f : f = Traversal(This, cm, nodes, <<"initializer", index>>, TRUE)
    OBVIOUS
  <2>2. f.proc # "record"
    BY <2>1 DEF Traversal
  <2>3. stack' = s \/ stack' = <<f>> \o s
    BY <1>4, <2>1 DEF Traverse
  <2>4. QED
    BY <1>1, <1>2, <1>4, <2>2, <2>3, PlainBuilds
<1>5. CASE InitRegular
  BY <1>3, <1>4, <1>5 DEF InitRegular
<1>6. CASE InitArray \/ InitBeyond
  <2>1. stack' = NextSub
    BY <1>6 DEF InitArray, InitBeyond, Abort
  <2>2. QED
    BY <1>3, <1>4, <2>1
<1>7. CASE InitNext
  <2>1. stack' = NextElement
    BY <1>7 DEF InitNext
  <2>2. QED
    BY <1>3, <1>4, <2>1
<1>8. CASE InitField
  <2>1. PICK nodes, index, now : Traverse(nodes, index, [NextSub EXCEPT ![1].last = now])
    BY <1>8 DEF InitField, Abort
  <2>2. PICK s : s = [NextSub EXCEPT ![1].last = now]
    OBVIOUS
  <2>3. Plainly(s)
    BY <1>2, <2>2, PlainlyFurther
  <2>4. Traverse(nodes, index, s)
    BY <2>1, <2>2
  <2>5. QED
    BY <1>4, <2>3, <2>4
<1>9. QED
  BY <1>5, <1>6, <1>7, <1>8

LEMMA StatementBuilds == ASSUME Sound, Inv', StatementStep, UNCHANGED Unit, ~aborted' PROVE BuildInv'
  BY LeaveNodeBuilds, LookAtNodeBuilds, CastTypeBuilds, FunctionReturnsBuilds, FunctionArgumentBuilds,
     FunctionStepBuilds, InitElementBuilds DEF StatementStep

LEMMA EnumNextBuilds == ASSUME Sound, EnumNext, UNCHANGED Unit PROVE BuildInv'
<1>1. /\ stack # <<>> /\ Head(stack).proc = "enum" /\ references \subseteq references'
      /\ UNCHANGED <<names, fields, visited>>
  BY DEF EnumNext, Running
<1>2. PlainCall
  BY <1>1, PlainHead
<1>3. PICK n, ty, s : /\ n = Decl(Head(stack).D).enumerators[Head(stack).i] /\ ty = "enumval"
                    /\ s = [stack EXCEPT ![1].i = @ + 1]
  OBVIOUS
<1>4. Plainly(s) /\ stack' = s
  BY <1>2, <1>3, PlainlyFurther DEF EnumNext
<1>5. UNCHANGED Bound \/ (LookupFull(ty, n) = NULL /\ BindNew(ty, n, FALSE))
  BY <1>3 DEF EnumNext
<1>6. ty # "struct"
  BY <1>3
<1>7. QED
  BY <1>1, <1>2, <1>4, <1>5, <1>6, PlainBinds

LEMMA TypedefBindsBuilds == ASSUME Sound, TypedefBinds, UNCHANGED Unit, ~aborted' PROVE BuildInv'
<1>1. /\ stack # <<>> /\ Head(stack).proc = "typedef"
      /\ UNCHANGED <<references, names, fields, visited>>
  BY DEF TypedefBinds, Running
<1>2. PlainCall
  BY <1>1, PlainHead
<1>3. PICK n, ty, u : n = Decl(Head(stack).D).name /\ ty = "typedef" /\ u = At("link")
  OBVIOUS
<1>4. PICK g, s : g = [u[1] EXCEPT !.C = Len(heap) + 1] /\ s = Put(u, 1, g)
  OBVIOUS
<1>5. s = [At("link") EXCEPT ![1].C = Len(heap) + 1] /\ g.proc = u[1].proc
  BY <1>3, <1>4 DEF Put
<1>6. Plainly(u)
  BY <1>2, <1>3, PlainlyAt
<1>7. Plainly(s)
  BY <1>4, <1>5, <1>6, PlainlyPut
<1>8. \/ LookupFull(ty, n) # NULL /\ stack' = Tail(stack) /\ UNCHANGED Bound
      \/ LookupFull(ty, n) = NULL /\ BindNew(ty, n, FALSE) /\ stack' = s
  BY <1>3, <1>5 DEF TypedefBinds, Abort
<1>9. ty # "struct"
  BY <1>3
<1>10. CASE LookupFull(ty, n) # NULL
  BY <1>1, <1>2, <1>8, <1>9, <1>10, PlainlySelf, PlainBinds
<1>11. CASE LookupFull(ty, n) = NULL
  BY <1>1, <1>2, <1>7, <1>8, <1>9, <1>11, PlainBinds
<1>12. QED
  BY <1>10, <1>11

LEMMA VarTypeBuilds == ASSUME Sound, Inv', VarType, UNCHANGED Unit PROVE BuildInv'
<1>1. stack # <<>> /\ Head(stack).proc = "var"
  BY DEF VarType, Running
<1>2. PICK t, r, s : t = Decl(Head(stack).D).type /\ r = <<"type", -1>> /\ s = At("macros")
  OBVIOUS
<1>3. Plainly(s)
  BY <1>1, <1>2, PlainHead, PlainlyAt
<1>4. \/ DiscoverVisits(t)
      \/ DiscoverRefers(t, r, s)
      \/ DiscoverFails(t, stack' = s /\ UNCHANGED aborted)
  BY <1>2 DEF VarType
<1>5. QED
  BY <1>1, <1>3, <1>4, DiscoverPlain

LEMMA PlainVisitorBuilds ==
  ASSUME Sound, EnumEnds \/ VarAdopt \/ VarNamed \/ VarEnds \/ TypedefLinks, UNCHANGED Unit, ~aborted'
  PROVE  BuildInv'
<1>1. /\ stack # <<>> /\ Head(stack).proc \in {"enum", "var", "typedef"} /\ references \subseteq references'
      /\ UNCHANGED <<heap, allComponents, Components, names, fields, visited>>
  <2>1. CASE EnumEnds
    BY <2>1 DEF EnumEnds, Running, Bound
  <2>2. CASE VarAdopt
    BY <2>2 DEF VarAdopt, Running, Abort
  <2>3. CASE VarNamed
    BY <2>3 DEF VarNamed, Running, Bound
  <2>4. CASE VarEnds
    BY <2>4 DEF VarEnds, Running, Bound
  <2>5. CASE TypedefLinks
    BY <2>5 DEF TypedefLinks, Running
  <2>6. QED
    BY <2>1, <2>2, <2>3, <2>4, <2>5
<1>2. PlainCall
  BY <1>1, PlainHead
<1>3. CASE VarAdopt \/ VarNamed
  <2>1. PICK l : stack' = At(l)
    BY <1>3 DEF VarAdopt, VarNamed, Abort
  <2>2. PICK s : s = At(l)
    OBVIOUS
  <2>3. Plainly(s) /\ stack' = s
    BY <1>2, <2>1, <2>2, PlainlyAt
  <2>4. QED
    BY <1>1, <1>2, <2>3, PlainBuilds
<1>4. CASE EnumEnds \/ TypedefLinks
  <2>1. stack' = Tail(stack)
    BY <1>4 DEF EnumEnds, TypedefLinks
  <2>2. QED
    BY <1>1, <1>2, <2>1, PlainlySelf, PlainBuilds
<1>5. CASE VarEnds
  <2>1. PICK f : f = Initializer(Head(stack).D, Head(stack).C)
    OBVIOUS
  <2>2. f.proc # "record"
    BY <2>1 DEF Initializer
  <2>3. stack' = Tail(stack) \/ stack' = <<f>> \o Tail(stack)
    BY <1>5, <2>1 DEF VarEnds
  <2>4. QED
    BY <1>1, <1>2, <2>2, <2>3, PlainlySelf, PlainBuilds
<1>6. QED
  BY <1>3, <1>4, <1>5

-----------------------------------------------------------------------------
(* Steps of the innermost record                                           *)

(* What is known of it                                                     *)
LEMMA Innermost ==
  ASSUME Sound, UNCHANGED Unit, stack # <<>>, Head(stack).proc = "record", NEW b, b = Progress(stack[1])
  PROVE  /\ Head(stack) = stack[1] /\ phase' = "ast" /\ program' = program /\ IsSeq(stack)
         /\ b \in Building(stack) /\ MayBuild(b)
         /\ IsRecord(b.D) /\ b.C \in Structures /\ heap[b.C].id = names[b.D]
         /\ b.D = stack[1].D /\ b.C = stack[1].C /\ b.at = stack[1].at /\ b.i = stack[1].i
         /\ b.anons = stack[1].anons
         /\ Len(Decl(b.D).fields) \in Nat
         /\ Building(stack) = Building(Tail(stack)) \cup {b} /\ IsSeq(Tail(stack))
<1>1. /\ Head(stack) = stack[1] /\ phase' = "ast" /\ program' = program /\ 1 \in 1..Len(stack)
      /\ Calls(stack)
  BY Visiting DEF Sound
<1>2. b \in Building(stack)
  BY <1>1, BuildingOf
<1>3. MayBuild(b)
  BY <1>2, BuildingNow
<1>4. IsRecord(b.D) /\ b.C \in Structures /\ heap[b.C].id = names[b.D]
  BY <1>1, <1>2, BuildingFits
<1>5. Len(Decl(b.D).fields) \in Nat
  BY <1>4, SoundNames DEF NamesFit, WellFormed, IsRecord, Declared, IsSeq
<1>6. Building(stack) = Building(Tail(stack)) \cup {b} /\ IsSeq(Tail(stack)) /\ IsSeq(stack)
  BY <1>1, PoppedBuilding DEF Calls
<1>7. QED
  BY <1>1, <1>2, <1>3, <1>4, <1>5, <1>6 DEF Progress

(* A record that has all its fields                                        *)
LEMMA WhollyBuilt ==
  ASSUME Sound, NEW b, MayBuild(b), IsRecord(b.D), b.C \in Structures, heap[b.C].id = names[b.D],
         b.at = "start", b.i > Len(Decl(b.D).fields), Len(Decl(b.D).fields) \in Nat
  PROVE  Built(b.C)
<1>1. /\ Decl(b.D).def /\ b.i = Len(Decl(b.D).fields) + 1
      /\ Size(b.C) = Len(Decl(b.D).fields)
      /\ \A i \in 1..Len(Decl(b.D).fields) : RefersTo(b.C, i, Decl(b.D).fields[i].type)
      /\ b.i = 1 => b.anons = 0
      /\ \A n \in Labels : Inside(n, names[b.D]) => Number(n) \in 0..b.anons - 1
  BY DEF MayBuild, Builds
<1>2. BuiltFrom(b.C, b.D)
  BY <1>1 DEF BuiltFrom
<1>3. Size(b.C) = 0 => \A n \in Labels : ~Inside(n, heap[b.C].id)
  BY <1>1
<1>4. ASSUME NEW d, IsRecord(d), Decl(d).def, names[d] = heap[b.C].id \/ Denotes(heap[b.C].id, d)
      PROVE  d = b.D
  <2>1. names[b.D] # Anonymous
    BY DEF MayBuild
  <2>2. PICK e : e = b.D
    OBVIOUS
  <2>3. \/ e = d
        \/ Decl(e).name # Anonymous /\ Decl(d).name = Decl(e).name
    BY <1>4, <2>1, <2>2, OneCalled, SoundNames
  <2>4. QED
    BY <1>1, <1>4, <2>2, <2>3 DEF Sound, Unambiguous, IsRecord, Declared
<1>5. QED
  BY <1>2, <1>3, <1>4 DEF Built

(* A step that leaves the store and the names alone                        *)
LEMMA StillStore ==
  ASSUME Sound, UNCHANGED Unit,
         UNCHANGED <<heap, allComponents, Components, names, visited>>, references \subseteq references'
  PROVE  /\ Adds /\ SameNames /\ MakesNamed /\ Structures' = Structures
         /\ \A d : Unbuilt(d) => Unbuilt(d)'
         /\ fields' = fields => StoreBuilt'
<1>1. StoreKept /\ UNCHANGED <<program, TranslationUnits, phase>>
  BY QuietStore, SoundNames DEF Unit, clangVars
<1>2. Structures' = Structures
  BY DEF Structures
<1>3. \A d : Unbuilt(d) => Unbuilt(d)'
  BY <1>1, SameVisited
<1>4. fields' = fields => StoreBuilt'
  BY <1>1, StoreQuiet, SoundNames DEF NamesFit
<1>5. QED
  BY <1>1, <1>2, <1>3, <1>4 DEF Adds, NamesKept, SameNames, MakesNamed

LEMMA RecordEndsBuilds == ASSUME Sound, RecordEnds, UNCHANGED Unit, ~aborted' PROVE BuildInv'
<1>1. /\ stack # <<>> /\ Head(stack).proc = "record" /\ Head(stack).at = "start"
      /\ Head(stack).i > Len(Decl(Head(stack).D).fields)
      /\ UNCHANGED <<heap, allComponents, Components, references, names, fields, visited>>
      /\ stack' = Tail(stack)
  BY DEF RecordEnds, Running, Bound, Abort
<1>2. PICK b : b = Progress(stack[1])
  OBVIOUS
<1>3. /\ b \in Building(stack) /\ MayBuild(b)
      /\ IsRecord(b.D) /\ b.C \in Structures /\ heap[b.C].id = names[b.D]
      /\ b.at = "start" /\ b.i > Len(Decl(b.D).fields) /\ Len(Decl(b.D).fields) \in Nat
      /\ Building(stack) = Building(stack') \cup {b}
  BY <1>1, <1>2, Innermost
<1>4. Built(b.C)
  BY <1>3, WhollyBuilt
<1>5. /\ Adds /\ SameNames /\ MakesNamed /\ Structures' = Structures /\ StoreBuilt'
      /\ \A d : Unbuilt(d) => Unbuilt(d)'
  BY <1>1, StillStore
<1>6. \A c : Size(c)' = Size(c)
  BY <1>1 DEF Size, FieldsOf
<1>7. Labels' = Labels
  BY <1>5, LabelsSame
<1>8. ASSUME NEW c, c = b.C PROVE Built(c)'
  <2>1. \A d : IsRecord(d) /\ Decl(d).def =>
          /\ names'[d] = heap[c].id => names[d] = heap[c].id \/ Denotes(heap[c].id, d)
          /\ Size(c) = 0 /\ Unbuilt(d) /\ (names[d] = heap[c].id \/ Denotes(heap[c].id, d)) => Unbuilt(d)'
    BY <1>5 DEF SameNames
  <2>2. c \in Structures /\ Built(c) /\ Size(c)' = Size(c)
    BY <1>3, <1>4, <1>6, <1>8
  <2>3. QED
    BY <1>5, <1>7, <2>1, <2>2, BuiltKept
<1>9. ASSUME NEW e \in Building(stack') PROVE Builds(e)'
  <2>1. MayBuild(e)
    BY <1>3, BuildingNow
  <2>2. QED
    BY <1>5, <1>6, <2>1, BuildsSame
<1>10. \A e \in Building(stack) : Built(e.C)' \/ \E g \in Building(stack') : g.C = e.C
  BY <1>3, <1>8
<1>11. QED
  BY <1>5, <1>6, <1>9, <1>10, BuiltOn

LEMMA FieldAdoptBuilds == ASSUME Sound, FieldAdopt, UNCHANGED Unit, ~aborted' PROVE BuildInv'
<1>1. /\ stack # <<>> /\ Head(stack).proc = "record" /\ Head(stack).at = "adopt"
      /\ UNCHANGED <<heap, allComponents, Components, references, names, fields, visited>>
      /\ stack' = [stack EXCEPT ![1].at = "field", ![1].anons = @ + 1]
  BY DEF FieldAdopt, InField, Running, Abort
<1>2. PICK b : b = Progress(stack[1])
  OBVIOUS
<1>3. /\ b \in Building(stack) /\ MayBuild(b) /\ b.at = "adopt" /\ b.anons = stack[1].anons
      /\ b.D = stack[1].D /\ b.C = stack[1].C /\ b.i = stack[1].i
  BY <1>1, <1>2, Innermost
<1>4. PICK n : n = b.anons + 1
  OBVIOUS
<1>5. PICK g : g = [stack[1] EXCEPT !.at = "field", !.anons = @ + 1]
  OBVIOUS
<1>6. PICK s : s = Put(stack, 1, g)
  OBVIOUS
<1>7. g.proc = stack[1].proc /\ g.C = stack[1].C /\ g.D = stack[1].D /\ g.i = stack[1].i /\ g.at = "field" /\ g.anons = n
  BY <1>3, <1>4, <1>5
<1>8. stack' = s
  BY <1>1, <1>5, <1>6 DEF Put
<1>9. MayBuild(Progress(g))
  <2>1. Progress(g) = [D |-> b.D, C |-> b.C, at |-> "field", i |-> b.i, anons |-> n]
    BY <1>3, <1>7 DEF Progress
  <2>2. /\ n \in Nat
        /\ \A k : k \in 0..b.anons - 1 \/ k = b.anons => k \in 0..n - 1
    BY <1>3, <1>4 DEF MayBuild, Builds
  <2>3. \A m \in Labels : Inside(m, names[b.D]) => Number(m) \in 0..n - 1
    BY <1>3, <2>2 DEF MayBuild, Builds
  <2>4. QED
    BY <1>3, <2>1, <2>2, <2>3 DEF MayBuild, Builds
<1>10. /\ \A e \in Building(s) : MayBuild(e)
       /\ \A e \in Building(stack) : \E h \in Building(s) : h.C = e.C
  BY <1>1, <1>6, <1>7, <1>9, GoesOnAs
<1>11. /\ Adds /\ SameNames /\ MakesNamed /\ Structures' = Structures /\ StoreBuilt'
       /\ \A d : Unbuilt(d) => Unbuilt(d)'
  BY <1>1, StillStore
<1>12. QED
  BY <1>1, <1>8, <1>10, <1>11, BuiltSame

(* ... goes on at l, ...                                                   *)
LEMMA AtBuilding ==
  ASSUME IsSeq(stack), stack # <<>>, stack[1].proc = "record", NEW b, b = Progress(stack[1]),
         NEW l, NEW s, s = At(l)
  PROVE  /\ IsSeq(s) /\ s # <<>> /\ s[1].proc = "record"
         /\ Progress(s[1]) = [D |-> b.D, C |-> b.C, at |-> l, i |-> b.i, anons |-> b.anons]
         /\ Building(s) = Building(Tail(stack)) \cup {Progress(s[1])} /\ Building(Tail(s)) = Building(Tail(stack))
<1>1. PICK g : g = [stack[1] EXCEPT !.at = l]
  OBVIOUS
<1>2. s = Put(stack, 1, g) /\ g.proc = stack[1].proc
  BY <1>1 DEF At, Put
<1>3. Progress(g) = [D |-> b.D, C |-> b.C, at |-> l, i |-> b.i, anons |-> b.anons]
  BY <1>1 DEF Progress
<1>4. IsSeq(s) /\ s # <<>> /\ s[1] = g /\ Building(s) = Building(Tail(stack)) \cup {Progress(g)}
  BY <1>2, ChangedBuilding
<1>5. Building(Tail(s)) = Building(Tail(stack))
  <2>1. Len(s) = Len(stack) /\ \A k \in 1..Len(stack) : k # 1 => s[k] = stack[k]
    BY <1>2, ExceptAny
  <2>2. QED
    BY <1>4, <2>1, TailBuilding
<1>6. QED
  BY <1>2, <1>3, <1>4, <1>5

(* ... or at the next field.                                               *)
LEMMA NextBuilding ==
  ASSUME IsSeq(stack), stack # <<>>, stack[1].proc = "record", NEW b, b = Progress(stack[1]),
         NEW t, t = NextField
  PROVE  Building(t) = Building(Tail(stack)) \cup
           {[D |-> b.D, C |-> b.C, at |-> "start", i |-> b.i + 1, anons |-> b.anons]}
<1>1. PICK s : s = At("start")
  OBVIOUS
<1>2. /\ IsSeq(s) /\ s # <<>> /\ s[1].proc = "record"
      /\ Progress(s[1]) = [D |-> b.D, C |-> b.C, at |-> "start", i |-> b.i, anons |-> b.anons]
      /\ Building(Tail(s)) = Building(Tail(stack))
  BY <1>1, AtBuilding
<1>3. PICK g : g = [s[1] EXCEPT !.i = @ + 1]
  OBVIOUS
<1>4. t = Put(s, 1, g) /\ g.proc = "record"
  BY <1>1, <1>2, <1>3 DEF NextField, Put
<1>5. Building(t) = Building(Tail(s)) \cup {Progress(g)}
  BY <1>2, <1>4, ChangedBuilding
<1>6. Progress(g) = [D |-> b.D, C |-> b.C, at |-> "start", i |-> b.i + 1, anons |-> b.anons]
  <2>1. /\ g.D = s[1].D /\ g.C = s[1].C /\ g.at = s[1].at /\ g.i = s[1].i + 1 /\ g.anons = s[1].anons
    BY <1>3
  <2>2. /\ s[1].D = b.D /\ s[1].C = b.C /\ s[1].at = "start" /\ s[1].i = b.i /\ s[1].anons = b.anons
    BY <1>2 DEF Progress
  <2>3. QED
    BY <2>1, <2>2 DEF Progress
<1>7. QED
  BY <1>2, <1>5, <1>6

(* No other call builds its structure.                                     *)
LEMMA InnermostOnly ==
  ASSUME Sound, stack # <<>>, stack[1].proc = "record", NEW e \in Building(Tail(stack))
  PROVE  e.C # stack[1].C
<1>1. PICK t : t = Tail(stack)
  OBVIOUS
<1>2. PICK k \in 1..Len(t) : t[k].proc = "record" /\ e = Progress(t[k])
  BY <1>1, BuildingOf
<1>3. IsSeq(stack) /\ NoReentry /\ NamesApart
  BY BuildingNow, NestedOnce DEF Sound, Inv, Unambiguous, Calls
<1>4. /\ IsSeq(t) /\ Len(stack) = Len(t) + 1 /\ 1 \in 1..Len(stack) /\ t[k] = stack[k + 1]
  BY <1>1, <1>3, Popped
<1>5. k + 1 \in 1..Len(stack) /\ k + 1 # 1
  BY <1>4 DEF IsSeq
<1>6. QED
  BY <1>2, <1>3, <1>4, <1>5 DEF NoReentry, Progress

LEMMA FieldTypeBuilds ==
  ASSUME Sound, Waiting(stack), Inv', FieldType, UNCHANGED Unit, ~aborted' PROVE BuildInv'
<1>1. /\ stack # <<>> /\ Head(stack).proc = "record" /\ Head(stack).i <= Len(Decl(Head(stack).D).fields)
      /\ Head(stack).at \in {"type", "retry"}
  BY DEF FieldType, InField, Running
<1>2. PICK b : b = Progress(stack[1])
  OBVIOUS
<1>3. /\ Head(stack) = stack[1] /\ IsSeq(stack)
      /\ b \in Building(stack) /\ MayBuild(b) /\ IsRecord(b.D)
      /\ b.D = stack[1].D /\ b.C = stack[1].C /\ b.at = stack[1].at /\ b.i = stack[1].i
      /\ Len(Decl(b.D).fields) \in Nat
      /\ Building(stack) = Building(Tail(stack)) \cup {b}
  BY <1>1, <1>2, Innermost
<1>4. PICK t : t = Field.type
  OBVIOUS
<1>5. b.i \in 1..Len(Decl(b.D).fields) /\ t = Decl(b.D).fields[b.i].type
  BY <1>1, <1>3, <1>4 DEF Field, MayBuild, Builds
<1>6. t # 0 => IsTag(t) /\ names[t] # Anonymous
  <2>1. t # 0 => IsTag(t)
    BY <1>3, <1>5, FieldsTyped, SoundNames DEF NamesFit, IsRecord
  <2>2. ~NeedsName(t)
    BY <1>1, <1>4, NamedSinceStart DEF Sound
  <2>3. QED
    BY <2>1, <2>2 DEF NeedsName
<1>7. CASE DiscoverVisits(t)
  BY <1>1, <1>7, DiscoverBuilds
<1>8. CASE DiscoverRefers(t, <<"field", Head(stack).i>>, NextField)
  <2>1. /\ UNCHANGED <<heap, allComponents, Components, names, fields, visited>>
        /\ references' = IF t = 0 THEN references
                         ELSE references \cup {<<b.C, Structure(t), <<"field", b.i>>>>}
        /\ stack' = NextField
    BY <1>3, <1>8 DEF DiscoverRefers, Discovered, Bound
  <2>2. t # 0 => Structure(t) # NULL
    BY <1>1, <1>8 DEF DiscoverRefers, Undiscovered
  <2>3. /\ Adds /\ SameNames /\ MakesNamed /\ Structures' = Structures /\ StoreBuilt'
        /\ \A d : Unbuilt(d) => Unbuilt(d)'
    BY <2>1, StillStore
  <2>4. PICK e : e = [D |-> b.D, C |-> b.C, at |-> "start", i |-> b.i + 1, anons |-> b.anons]
    OBVIOUS
  <2>5. Building(stack') = Building(Tail(stack)) \cup {e}
    <3>1. PICK s : s = NextField
      OBVIOUS
    <3>2. Building(s) = Building(Tail(stack)) \cup {e}
      BY <1>1, <1>2, <1>3, <2>4, <3>1, NextBuilding
    <3>3. QED
      BY <2>1, <3>1, <3>2
  <2>6. \A c : Size(c)' = Size(c)
    BY <2>1 DEF Size, FieldsOf
  <2>7. RefersTo(b.C, b.i, t)'
    <3>1. SUFFICES ASSUME t # 0 PROVE RefersTo(b.C, b.i, t)'
      BY DEF RefersTo
    <3>2. PICK s, ty, n : s = Structure(t) /\ ty = ModelType(t) /\ n = names[t]
      OBVIOUS
    <3>3. s = LookupFull(ty, n) /\ s # NULL
      BY <2>2, <3>1, <3>2 DEF Structure
    <3>4. ty \in {"struct", "enum", "typedef"}
      BY <1>6, <3>1, <3>2 DEF IsTag, ModelType
    <3>5. s \in Components /\ heap[s].type = ty /\ heap[s].id = n
      BY <3>3, <3>4, TagFound, SoundNames DEF NamesFit, Matches
    <3>6. Decl(t).name # Anonymous => n = Decl(t).name
      BY <1>6, <3>1, <3>2, SoundNames DEF NamesFit, WellNamed, IsTag, Declared
    <3>7. <<b.C, s, <<"field", b.i>>>> \in references'
      BY <2>1, <3>1, <3>2
    <3>8. s \in Components' /\ heap'[s] = heap[s] /\ names' = names
      BY <2>1, <3>5
    <3>9. Decl(t)' = Decl(t) /\ ModelType(t)' = ModelType(t)
      BY <2>3, DeclKept DEF Adds
    <3>10. n # Anonymous /\ names'[t] = n
      BY <1>6, <3>1, <3>2, <3>8
    <3>11. QED
      BY <3>2, <3>5, <3>6, <3>7, <3>8, <3>9, <3>10 DEF RefersTo
  <2>8. Builds(e)'
    <3>1. Labels' = Labels /\ names' = names /\ Decl(b.D)' = Decl(b.D)
      BY <2>3, LabelsSame, DeclKept DEF SameNames, Adds
    <3>2. \A i \in 1..b.i - 1 : RefersTo(b.C, i, Decl(b.D).fields[i].type)'
      <4>1. ASSUME NEW i \in 1..b.i - 1 PROVE RefersTo(b.C, i, Decl(b.D).fields[i].type)'
        <5>1. i \in 1..Len(Decl(b.D).fields) /\ RefersTo(b.C, i, Decl(b.D).fields[i].type) /\ Declared(b.D)
          BY <1>3, <1>5 DEF MayBuild, Builds
        <5>2. QED
          BY <2>3, <5>1, FieldsRefer
      <4>2. QED
        BY <4>1
    <3>3. PICK fs : fs = Decl(b.D).fields
      OBVIOUS
    <3>4. \A i \in 1..b.i : RefersTo(b.C, i, fs[i].type)'
      <4>1. ASSUME NEW i \in 1..b.i - 1 PROVE RefersTo(b.C, i, fs[i].type)'
        BY <3>1, <3>2, <3>3 DEF RefersTo
      <4>2. RefersTo(b.C, b.i, fs[b.i].type)'
        BY <1>5, <2>7, <3>3
      <4>3. \A i \in 1..b.i : i \in 1..b.i - 1 \/ i = b.i
        BY <1>3, <1>5
      <4>4. QED
        BY <4>1, <4>2, <4>3
    <3>5. /\ Decl(b.D).def /\ b.i + 1 \in 1..Len(fs) + 1 /\ Size(b.C)' = (b.i + 1) - 1 /\ b.i + 1 # 1
          /\ b.anons \in Nat
          /\ \A n \in Labels : Inside(n, names[b.D]) => Number(n) \in 0..b.anons - 1
      BY <1>1, <1>3, <1>5, <2>6, <3>3 DEF MayBuild, Builds
    <3>6. \A i \in 1..(b.i + 1) - 1 : RefersTo(b.C, i, fs[i].type)'
      BY <1>3, <1>5, <3>4
    <3>7. QED
      BY <2>4, <3>1, <3>3, <3>5, <3>6 DEF Builds
  <2>9. ASSUME NEW g \in Building(stack') PROVE Builds(g)'
    <3>1. CASE g = e
      BY <2>8, <3>1
    <3>2. CASE g \in Building(Tail(stack))
      <4>1. MayBuild(g)
        BY <1>3, <3>2, BuildingNow
      <4>2. QED
        BY <2>3, <2>6, <4>1, BuildsSame
    <3>3. QED
      BY <2>5, <3>1, <3>2
  <2>10. \A g \in Building(stack) : \E h \in Building(stack') : h.C = g.C
    BY <1>3, <2>4, <2>5
  <2>11. QED
    BY <2>3, <2>6, <2>9, <2>10, BuiltOn
<1>9. QED
  BY <1>4, <1>7, <1>8 DEF FieldType, DiscoverFails, Abort

(* A field is pushed.                                                      *)
LEMMA FieldPushed ==
  ASSUME Sound, NEW c \in Structures, NEW nm,
         fields' = [x \in DOMAIN fields \cup {c} |-> IF x = c THEN Append(FieldsOf(c), nm) ELSE fields[x]]
  PROVE  /\ Size(c)' = Size(c) + 1 /\ \A e : e # c => Size(e)' = Size(e)
         /\ DOMAIN fields' \subseteq 1..Len(heap) /\ \A e \in DOMAIN fields' : IsSeq(fields'[e])
<1>1. StoreBuilt /\ c \in 1..Len(heap)
  BY SoundNames DEF NamesFit, StoreFits, Structures
<1>2. DOMAIN fields \subseteq 1..Len(heap) /\ \A e \in DOMAIN fields : IsSeq(fields[e])
  BY <1>1 DEF StoreBuilt
<1>3. PICK fs : fs = FieldsOf(c)
  OBVIOUS
<1>4. IsSeq(fs)
  BY <1>2, <1>3 DEF FieldsOf, IsSeq
<1>5. PICK gs : gs = Append(fs, nm)
  OBVIOUS
<1>6. IsSeq(gs) /\ Len(gs) = Len(fs) + 1
  BY <1>4, <1>5, Appended
<1>7. /\ DOMAIN fields' = DOMAIN fields \cup {c} /\ fields'[c] = gs
      /\ \A e \in DOMAIN fields : e # c => fields'[e] = fields[e]
  BY <1>3, <1>5
<1>8. Size(c)' = Size(c) + 1
  BY <1>3, <1>6, <1>7 DEF Size, FieldsOf
<1>9. \A e : e # c => Size(e)' = Size(e)
  BY <1>7 DEF Size, FieldsOf
<1>10. DOMAIN fields' \subseteq 1..Len(heap)
  BY <1>1, <1>2, <1>7
<1>11. \A e \in DOMAIN fields' : IsSeq(fields'[e])
  BY <1>2, <1>6, <1>7
<1>12. QED
  BY <1>8, <1>9, <1>10, <1>11

(* The rest of the store is as it was.                                     *)
LEMMA StillBuilt ==
  ASSUME StoreBuilt,
         UNCHANGED <<heap, allComponents, Components, program, TranslationUnits, phase, visited>>,
         DOMAIN fields' \subseteq 1..Len(heap), \A e \in DOMAIN fields' : IsSeq(fields'[e])
  PROVE  StoreBuilt'
<1>1. Visited' = Visited
  BY SameVisited
<1>2. \A n : HasStructure(n)' <=> HasStructure(n)
  BY DEF HasStructure, HasKey, Matches
<1>3. \A d : (IsRecord(d)' <=> IsRecord(d)) /\ Decl(d)' = Decl(d)
  BY DEF IsRecord, Decl, Declared
<1>4. \A d \in Visited' : IsRecord(d)' /\ Decl(d)'.name # Anonymous => HasStructure(Decl(d).name)'
  BY <1>1, <1>2, <1>3 DEF StoreBuilt, HasStructure, HasKey, Matches
<1>5. QED
  BY <1>4 DEF StoreBuilt, Matches, TU

LEMMA FieldPushBuilds == ASSUME Sound, FieldPush, UNCHANGED Unit PROVE BuildInv'
<1>1. /\ stack # <<>> /\ Head(stack).proc = "record" /\ Head(stack).i <= Len(Decl(Head(stack).D).fields)
      /\ Head(stack).at \in {"start", "field"}
      /\ UNCHANGED <<heap, allComponents, Components, references, names, visited>>
  BY DEF FieldPush, InField, Running, Bound
<1>2. PICK b : b = Progress(stack[1])
  OBVIOUS
<1>3. /\ Head(stack) = stack[1] /\ IsSeq(stack) /\ phase' = phase
      /\ b \in Building(stack) /\ MayBuild(b) /\ IsRecord(b.D) /\ b.C \in Structures
      /\ b.D = stack[1].D /\ b.C = stack[1].C /\ b.at = stack[1].at /\ b.i = stack[1].i
      /\ Len(Decl(b.D).fields) \in Nat
      /\ Building(stack) = Building(Tail(stack)) \cup {b}
  BY <1>1, <1>2, Innermost DEF Unit, clangVars
<1>4. PICK c, nm : c = b.C /\ nm = Field.name
  OBVIOUS
<1>5. /\ fields' = [x \in DOMAIN fields \cup {c} |-> IF x = c THEN Append(FieldsOf(c), nm) ELSE fields[x]]
      /\ \E v : stack' = [At("type") EXCEPT ![Owner].related = v]
  BY <1>3, <1>4 DEF FieldPush
<1>6. /\ Size(c)' = Size(c) + 1 /\ \A e : e # c => Size(e)' = Size(e)
      /\ DOMAIN fields' \subseteq 1..Len(heap) /\ \A e \in DOMAIN fields' : IsSeq(fields'[e])
  <2>1. c \in Structures
    BY <1>3, <1>4
  <2>2. fields' = [x \in DOMAIN fields \cup {c} |-> IF x = c THEN Append(FieldsOf(c), nm) ELSE fields[x]]
    BY <1>5
  <2>3. QED
    BY <2>1, <2>2, FieldPushed
<1>7. /\ Adds /\ SameNames /\ MakesNamed /\ Structures' = Structures
      /\ \A d : Unbuilt(d) => Unbuilt(d)'
  BY <1>1, StillStore
<1>8. StoreBuilt'
  BY <1>1, <1>3, <1>6, StillBuilt, SoundNames DEF Unit, NamesFit
<1>9. PICK e : e = [D |-> b.D, C |-> b.C, at |-> "type", i |-> b.i, anons |-> b.anons]
  OBVIOUS
<1>10. Building(stack') = Building(Tail(stack)) \cup {e}
  <2>1. PICK s, n, v : s = At("type") /\ n = Owner /\ stack' = [s EXCEPT ![n].related = v]
    BY <1>5
  <2>2. IsSeq(s) /\ Building(s) = Building(Tail(stack)) \cup {e}
    BY <1>1, <1>2, <1>3, <1>9, <2>1, AtBuilding
  <2>3. QED
    BY <2>1, <2>2, RelatedBuilding
<1>11. Builds(e)'
  <2>1. PICK fs : fs = Decl(b.D).fields
    OBVIOUS
  <2>2. Labels' = Labels /\ names' = names /\ Decl(b.D)' = Decl(b.D)
    BY <1>7, LabelsSame, DeclKept DEF SameNames, Adds
  <2>3. /\ Decl(b.D).def /\ b.i \in 1..Len(fs) /\ Size(c) = b.i - 1 /\ b.i \in Nat
        /\ b.anons \in Nat
        /\ \A n \in Labels : Inside(n, names[b.D]) => Number(n) \in 0..b.anons - 1
    BY <1>1, <1>3, <1>4, <2>1 DEF MayBuild, Builds
  <2>4. \A i \in 1..b.i - 1 : RefersTo(b.C, i, fs[i].type)'
    <3>1. ASSUME NEW i \in 1..b.i - 1 PROVE RefersTo(b.C, i, fs[i].type)'
      <4>1. i \in 1..Len(fs) /\ RefersTo(b.C, i, fs[i].type) /\ Declared(b.D)
        BY <1>3, <2>1, <2>3 DEF MayBuild, Builds
      <4>2. RefersTo(b.C, i, Decl(b.D).fields[i].type)'
        BY <1>7, <2>1, <4>1, FieldsRefer
      <4>3. QED
        BY <2>1, <2>2, <4>2 DEF RefersTo
    <3>2. QED
      BY <3>1
  <2>5. Size(e.C)' = e.i
    BY <1>4, <1>6, <1>9, <2>3
  <2>6. QED
    BY <1>9, <2>1, <2>2, <2>3, <2>4, <2>5 DEF Builds
<1>12. ASSUME NEW g \in Building(stack') PROVE Builds(g)'
  <2>1. CASE g = e
    BY <1>11, <2>1
  <2>2. CASE g \in Building(Tail(stack))
    <3>1. MayBuild(g) /\ g.C # c
      BY <1>1, <1>3, <1>4, <2>2, BuildingNow, InnermostOnly
    <3>2. QED
      BY <1>6, <1>7, <3>1, BuildsSame
  <2>3. QED
    BY <1>10, <2>1, <2>2
<1>13. \A g \in Building(stack) : \E h \in Building(stack') : h.C = g.C
  BY <1>3, <1>9, <1>10
<1>14. \A x \in Structures : Size(x)' = Size(x) \/ \E h \in Building(stack') : h.C = x
  BY <1>4, <1>6, <1>9, <1>10
<1>15. QED
  BY <1>7, <1>8, <1>12, <1>13, <1>14, BuiltOn

(* Steps that name an anonymous type t                                     *)
Names1(t, n) ==
  /\ NeedsName(t) /\ Rename(t, n)
  /\ UNCHANGED <<heap, allComponents, Components, references, fields, visited, program, TranslationUnits, phase>>

LEMMA NamingAdds ==
  ASSUME Sound, NEW t, NEW n, Names1(t, n)
  PROVE  /\ Adds /\ Structures' = Structures /\ StoreBuilt' /\ \A c : Size(c)' = Size(c)
         /\ \A d : Unbuilt(d)' <=> Unbuilt(d)
         /\ DOMAIN names' = DOMAIN names /\ names[t] = Anonymous
         /\ \A d \in DOMAIN names : names'[d] = IF d = t THEN n ELSE names[d]
         /\ Labels' \subseteq Labels \cup (IF IsRecord(t) THEN {n} ELSE {})
<1>1. /\ NeedsName(t) /\ names' = [names EXCEPT ![t] = n]
      /\ UNCHANGED <<heap, allComponents, Components, references, fields, visited, program, TranslationUnits, phase>>
  BY DEF Names1, Rename
<1>2. StoreKept /\ StoreBuilt'
  BY <1>1, QuietStore, StoreQuiet, SoundNames DEF NamesFit
<1>3. /\ DOMAIN names' = DOMAIN names /\ names[t] = Anonymous
      /\ \A d \in DOMAIN names : names'[d] = IF d = t THEN n ELSE names[d]
  BY <1>1 DEF NeedsName
<1>4. Adds
  BY <1>1, <1>2, <1>3 DEF Adds, NamesKept
<1>5. Structures' = Structures /\ \A c : Size(c)' = Size(c)
  BY <1>1 DEF Structures, Size, FieldsOf
<1>6. \A d : Unbuilt(d)' <=> Unbuilt(d)
  BY <1>1, SameVisited
<1>7. ASSUME NEW m \in Labels' PROVE m \in Labels \cup (IF IsRecord(t) THEN {n} ELSE {})
  <2>1. CASE \E c \in Structures' : m = heap'[c].id
    BY <1>1, <1>5, <2>1 DEF Labels
  <2>2. CASE \E d \in DOMAIN names' : IsRecord(d)' /\ m = names'[d]
    <3>1. PICK d \in DOMAIN names : IsRecord(d) /\ m = names'[d]
      BY <1>1, <1>3, <2>2 DEF IsRecord, Decl, Declared
    <3>2. QED
      BY <1>3, <3>1 DEF Labels
  <2>3. QED
    BY <2>1, <2>2 DEF Labels
<1>8. QED
  BY <1>2, <1>3, <1>4, <1>5, <1>6, <1>7

LEMMA NamingNames ==
  ASSUME Sound, NEW t, NEW n, Names1(t, n),
         IsRecord(t) => /\ InStructure(n) \/ Denotes(n, t)
                        /\ \A e : IsRecord(e) => names[e] # n
  PROVE  NamesBuilt'
<1>1. /\ Adds /\ Structures' = Structures /\ DOMAIN names' = DOMAIN names
      /\ \A d \in DOMAIN names : names'[d] = IF d = t THEN n ELSE names[d]
  BY NamingAdds
<1>2. /\ \A c \in Structures : heap'[c] = heap[c]
      /\ \A m : InStructure(m) => InStructure(m)'
      /\ \A m, d : Denotes(m, d)' <=> Denotes(m, d)
      /\ \A d : IsRecord(d)' <=> IsRecord(d)
  BY <1>1, StructuresKept
<1>3. NamesBuilt /\ program' = program
  BY SoundNames DEF NamesFit, Names1
<1>4. ASSUME NEW c \in Structures', NEW m, m = heap'[c].id
      PROVE  /\ IsSeq(m) /\ m # Anonymous
             /\ InStructure(m)' \/ \E d \in DOMAIN program'.decls : IsRecord(d)' /\ Denotes(m, d)'
  BY <1>1, <1>2, <1>3, <1>4 DEF NamesBuilt
<1>5. ASSUME NEW d \in DOMAIN names, IsRecord(d), NEW m, m = names'[d], Len(m) >= 2
      PROVE  /\ InStructure(m)' \/ Denotes(m, d)'
             /\ \A e \in DOMAIN names' : IsRecord(e)' /\ m = names'[e] => d = e
  <2>1. CASE d = t
    <3>1. m = n /\ IsRecord(t)
      BY <1>1, <1>5, <2>1
    <3>2. InStructure(m)' \/ Denotes(m, d)'
      BY <1>2, <2>1, <3>1
    <3>3. ASSUME NEW e \in DOMAIN names, IsRecord(e), m = names'[e] PROVE d = e
      BY <1>1, <2>1, <3>1, <3>3
    <3>4. QED
      BY <1>1, <1>2, <3>2, <3>3
  <2>2. CASE d # t
    <3>1. m = names[d]
      BY <1>1, <1>5, <2>2
    <3>2. /\ InStructure(m) \/ Denotes(m, d)
          /\ \A e \in DOMAIN names : IsRecord(e) /\ m = names[e] => d = e
      BY <1>3, <1>5, <3>1 DEF NamesBuilt
    <3>3. ASSUME NEW e \in DOMAIN names, IsRecord(e), m = names'[e] PROVE d = e
      BY <1>1, <1>5, <3>1, <3>2, <3>3
    <3>4. QED
      BY <1>1, <1>2, <3>2, <3>3
  <2>3. QED
    BY <2>1, <2>2
<1>6. QED
  BY <1>1, <1>2, <1>4, <1>5 DEF NamesBuilt

LEMMA NamingBuilds ==
  ASSUME Sound, NEW t, NEW n, Names1(t, n),
         IsRecord(t) =>
           /\ InStructure(n) \/ Denotes(n, t)
           /\ \A e : IsRecord(e) => names[e] # n
           /\ \A c \in Structures : heap[c].id = n => Denotes(n, t)
           /\ \A c \in Structures : Inside(n, heap[c].id) => \E b \in Building(stack') : b.C = c,
         \A b \in Building(stack') :
           (b \in Building(stack) /\ (IsRecord(t) => ~Inside(n, names[b.D]))) \/ Builds(b)',
         \A b \in Building(stack) : \E e \in Building(stack') : e.C = b.C
  PROVE  BuildInv'
<1>1. /\ Adds /\ Structures' = Structures /\ StoreBuilt' /\ \A c : Size(c)' = Size(c)
      /\ \A d : Unbuilt(d)' <=> Unbuilt(d)
      /\ DOMAIN names' = DOMAIN names /\ names[t] = Anonymous
      /\ \A d \in DOMAIN names : names'[d] = IF d = t THEN n ELSE names[d]
      /\ Labels' \subseteq Labels \cup (IF IsRecord(t) THEN {n} ELSE {})
  BY NamingAdds
<1>2. NamesBuilt'
  BY NamingNames
<1>3. ASSUME NEW b \in Building(stack') PROVE Builds(b)'
  <2>1. CASE b \in Building(stack) /\ (IsRecord(t) => ~Inside(n, names[b.D]))
    <3>1. MayBuild(b)
      BY <2>1, BuildingNow
    <3>2. \A m \in Labels' : Inside(m, names[b.D]) => m \in Labels
      BY <1>1, <2>1
    <3>3. QED
      BY <1>1, <3>1, <3>2, BuildsKept DEF MayBuild
  <2>2. QED
    BY <2>1
<1>4. ASSUME NEW c \in Structures, ~\E b \in Building(stack') : b.C = c PROVE Built(c)'
  <2>1. Built(c)
    BY <1>4 DEF Sound, BuildInv
  <2>2. \A m \in Labels' : Inside(m, heap[c].id) => m \in Labels
    BY <1>1, <1>4
  <2>3. ASSUME NEW d, IsRecord(d), Decl(d).def
        PROVE  /\ names'[d] = heap[c].id => names[d] = heap[c].id \/ Denotes(heap[c].id, d)
               /\ Size(c) = 0 /\ Unbuilt(d) /\ (names[d] = heap[c].id \/ Denotes(heap[c].id, d)) => Unbuilt(d)'
    <3>1. d \in DOMAIN names
      BY <2>3, RecordName, SoundNames
    <3>2. QED
      BY <1>1, <2>3, <3>1
  <2>4. QED
    BY <1>1, <2>1, <2>2, <2>3, BuiltKept
<1>5. QED
  BY <1>1, <1>2, <1>3, <1>4 DEF BuildInv

LEMMA FieldAnonymousBuilds == ASSUME Sound, FieldAnonymous, UNCHANGED Unit PROVE BuildInv'
<1>1. /\ stack # <<>> /\ Head(stack).proc = "record" /\ Head(stack).i <= Len(Decl(Head(stack).D).fields)
      /\ Head(stack).at = "start"
      /\ UNCHANGED <<heap, allComponents, Components, references, fields, visited>>
  BY DEF FieldAnonymous, InField, Running, Bound
<1>2. PICK b : b = Progress(stack[1])
  OBVIOUS
<1>3. /\ Head(stack) = stack[1] /\ IsSeq(stack)
      /\ b \in Building(stack) /\ MayBuild(b) /\ IsRecord(b.D) /\ b.C \in Structures
      /\ heap[b.C].id = names[b.D]
      /\ b.D = stack[1].D /\ b.C = stack[1].C /\ b.at = stack[1].at /\ b.i = stack[1].i /\ b.anons = stack[1].anons
      /\ Building(stack) = Building(Tail(stack)) \cup {b}
  BY <1>1, <1>2, Innermost
<1>4. PICK c, x, t, n, s, f : /\ c = b.C /\ x = names[b.D] /\ t = Field.type /\ n = Append(x, Anon(b.anons))
                              /\ s = At("adopt") /\ f = Frame("rename", t, NULL)
  OBVIOUS
<1>5. Names1(t, n) /\ stack' = <<f>> \o s
  BY <1>1, <1>3, <1>4 DEF FieldAnonymous, Names1, Unit, clangVars
<1>6. IsSeq(x) /\ x # <<>> /\ heap[c].id = x
  BY <1>3, <1>4, RecordName, SoundNames DEF MayBuild, Anonymous
<1>7. Inside(n, x) /\ Number(n) = b.anons
  BY <1>4, <1>6, InsideOf
<1>8. n \notin Labels
  BY <1>1, <1>3, <1>4, <1>7 DEF MayBuild, Builds
<1>9. /\ Adds /\ Structures' = Structures /\ \A d : Size(d)' = Size(d)
      /\ \A d \in DOMAIN names : names'[d] = IF d = t THEN n ELSE names[d]
      /\ names[t] = Anonymous
      /\ Labels' \subseteq Labels \cup {n}
  <2>1. Labels' \subseteq Labels \cup (IF IsRecord(t) THEN {n} ELSE {})
    BY <1>5, NamingAdds
  <2>2. QED
    BY <1>5, <2>1, NamingAdds
<1>10. PICK e : e = [D |-> b.D, C |-> b.C, at |-> "adopt", i |-> b.i, anons |-> b.anons]
  OBVIOUS
<1>11. Building(stack') = Building(Tail(stack)) \cup {e}
  <2>1. IsSeq(s) /\ Building(s) = Building(Tail(stack)) \cup {e}
    BY <1>1, <1>2, <1>3, <1>4, <1>10, AtBuilding
  <2>2. f.proc # "record"
    BY <1>4 DEF Frame
  <2>3. QED
    BY <1>5, <2>1, <2>2, PlainPushed
<1>12. ASSUME NEW d \in Structures, Inside(n, heap[d].id) PROVE d = c
  <2>1. IsSeq(heap[d].id)
    BY SoundNames DEF NamesFit, NamesBuilt
  <2>2. heap[d].id = x
    BY <1>6, <1>7, <1>12, <2>1, InsideOne
  <2>3. QED
    BY <1>3, <1>4, <1>6, <2>2, StructureOnly, SoundNames DEF NamesFit
<1>13. IsRecord(t) =>
         /\ InStructure(n) \/ Denotes(n, t)
         /\ \A d : IsRecord(d) => names[d] # n
         /\ \A d \in Structures : heap[d].id = n => Denotes(n, t)
         /\ \A d \in Structures : Inside(n, heap[d].id) => \E g \in Building(stack') : g.C = d
  <2>1. InStructure(n)
    BY <1>3, <1>4, <1>6, <1>7 DEF InStructure
  <2>2. ASSUME NEW d, IsRecord(d) PROVE names[d] # n
    BY <1>8, <2>2, RecordName, SoundNames DEF Labels
  <2>3. \A d \in Structures : heap[d].id # n
    BY <1>8 DEF Labels
  <2>4. \A d \in Structures : Inside(n, heap[d].id) => \E g \in Building(stack') : g.C = d
    BY <1>4, <1>10, <1>11, <1>12
  <2>5. QED
    BY <2>1, <2>2, <2>3, <2>4
<1>14. Builds(e)'
  <2>1. PICK fs : fs = Decl(b.D).fields
    OBVIOUS
  <2>2. Decl(b.D)' = Decl(b.D) /\ names'[b.D] = x
    <3>1. b.D \in DOMAIN names
      BY <1>3, RecordName, SoundNames
    <3>2. QED
      BY <1>3, <1>4, <1>9, <3>1, DeclKept DEF Adds, MayBuild
  <2>3. /\ Decl(b.D).def /\ b.i \in 1..Len(fs) + 1 /\ Size(b.C) = b.i - 1
        /\ b.anons \in Nat
        /\ \A m \in Labels : Inside(m, x) => Number(m) \in 0..b.anons - 1
    BY <1>1, <1>3, <1>4, <2>1 DEF MayBuild, Builds
  <2>4. \A i \in 1..b.i - 1 : RefersTo(b.C, i, fs[i].type)'
    <3>1. ASSUME NEW i \in 1..b.i - 1 PROVE RefersTo(b.C, i, fs[i].type)'
      <4>1. i \in 1..Len(fs) /\ RefersTo(b.C, i, fs[i].type) /\ Declared(b.D)
        BY <1>1, <1>3, <2>1, <2>3 DEF MayBuild, Builds
      <4>2. RefersTo(b.C, i, Decl(b.D).fields[i].type)'
        BY <1>9, <2>1, <4>1, FieldsRefer
      <4>3. QED
        BY <2>1, <2>2, <4>2 DEF RefersTo
    <3>2. QED
      BY <3>1
  <2>5. \A m \in Labels' : Inside(m, x) => Number(m) \in 0..b.anons - 1 \/ Number(m) = b.anons
    BY <1>7, <1>9, <2>3
  <2>6. QED
    BY <1>9, <1>10, <2>1, <2>2, <2>3, <2>4, <2>5 DEF Builds
<1>15. ASSUME NEW g \in Building(Tail(stack)), Inside(n, names[g.D]) PROVE FALSE
  <2>1. g.C \in Structures /\ heap[g.C].id = names[g.D]
    BY <1>3, BuildingNow, BuildingFits
  <2>2. QED
    BY <1>1, <1>3, <1>4, <1>12, <1>15, <2>1, InnermostOnly
<1>16. \A g \in Building(stack') :
         (g \in Building(stack) /\ (IsRecord(t) => ~Inside(n, names[g.D]))) \/ Builds(g)'
  BY <1>3, <1>11, <1>14, <1>15
<1>17. \A g \in Building(stack) : \E h \in Building(stack') : h.C = g.C
  BY <1>3, <1>10, <1>11
<1>18. QED
  BY <1>5, <1>13, <1>16, <1>17, NamingBuilds

(* What a variable or a typedef names its type is not within a structure.  *)
LEMMA NamingOwner ==
  ASSUME PlainCall, NEW v, Declared(v), Decl(v).kind \in {"var", "typedef"}, NEW t, t = Decl(v).type,
         NEW n, n = Append(Decl(v).name, IF Decl(v).kind = "var" THEN Anon(0) ELSE OfTypedef),
         Names1(t, n), Building(stack') = Building(stack)
  PROVE  BuildInv'
<1>1. /\ Sound /\ NamesFit /\ WellFormed /\ IsTag(t) /\ names[t] = Anonymous /\ t \in DOMAIN names
  BY SoundNames DEF PlainCall, NamesFit, Names1, NeedsName, Sound, Inv, NestingInv, IsTag, Declared
<1>2. Decl(t).name = Anonymous
  BY <1>1 DEF Sound, Inv, NestingInv, WellNamed, Anonymous
<1>3. Nests(Decl(v)) /\ Denotes(n, t)
  BY <1>1, <1>2 DEF Nests, Denotes, Declared
<1>4. Decl(v).name # Anonymous /\ IsSeq(Decl(v).name) /\ IsSeq(n) /\ Len(n) = 2
  <2>1. PICK x, a : x = Decl(v).name /\ n = Append(x, a)
    OBVIOUS
  <2>2. IsSeq(x) /\ Len(x) = 1
    BY <1>1, <2>1, OneWord
  <2>3. Len(Anonymous) = 0 /\ Len(x) # 0
    BY <2>2, EmptyIsSeq DEF Anonymous
  <2>4. IsSeq(Append(x, a)) /\ Len(Append(x, a)) = Len(x) + 1
    BY <2>2, Appended
  <2>5. QED
    BY <2>1, <2>2, <2>3, <2>4
<1>5. ASSUME NEW c \in Structures, Inside(n, heap[c].id) PROVE FALSE
  <2>1. PICK x, w : x = heap[c].id /\ w = IF Decl(v).kind = "var" THEN Anon(0) ELSE OfTypedef
    OBVIOUS
  <2>2. IsSeq(x)
    BY <1>1, <2>1 DEF NamesFit, NamesBuilt
  <2>3. x = Decl(v).name /\ w = Anon(Number(n))
    <3>1. n = Append(Decl(v).name, w) /\ Inside(n, x)
      BY <1>5, <2>1
    <3>2. QED
      BY <1>4, <2>2, <3>1, InsideName
  <2>4. Decl(v).kind = "var"
    BY <2>1, <2>3, TypedefIsNotAnon
  <2>5. QED
    BY <1>1, <1>3, <2>1, <2>3, <2>4, StructureApart DEF Declared
<1>6. ASSUME IsRecord(t), NEW e, IsRecord(e), names[e] = n PROVE FALSE
  <2>1. n # Anonymous
    BY <1>4, EmptyIsSeq DEF Anonymous
  <2>2. e = t \/ names[e] = Decl(e).name
    BY <1>1, <1>3, <1>6, <2>1, OneCalled
  <2>3. QED
    BY <1>1, <1>4, <1>6, <2>1, <2>2, RecordName
<1>7. ASSUME NEW b \in Building(stack') PROVE b \in Building(stack) /\ ~Inside(n, names[b.D])
  BY <1>1, <1>5, BuildingNow, BuildingFits
<1>8. \A b \in Building(stack) : \E e \in Building(stack') : e.C = b.C
  OBVIOUS
<1>9. QED
  BY <1>1, <1>3, <1>5, <1>6, <1>7, <1>8, NamingBuilds

LEMMA VarAnonymousBuilds == ASSUME Sound, VarAnonymous, UNCHANGED Unit PROVE BuildInv'
<1>1. /\ stack # <<>> /\ Head(stack).proc = "var"
      /\ UNCHANGED <<heap, allComponents, Components, references, fields, visited>>
  BY DEF VarAnonymous, Running, Bound
<1>2. PlainCall /\ Head(stack) = stack[1]
  BY <1>1, PlainHead
<1>3. Fits(stack[1])
  BY <1>2, BuildingNow, SeqOfElements DEF PlainCall, Calls, IsSeq, Sound
<1>4. PICK v, t, n, s, f : /\ v = stack[1].D /\ t = Decl(v).type /\ n = Append(Decl(v).name, Anon(0))
                           /\ s = At("adopt") /\ f = [Frame("rename", t, NULL) EXCEPT !.top = TRUE]
  OBVIOUS
<1>5. Declared(v) /\ Decl(v).kind = "var" /\ heap[stack[1].C].id = Decl(v).name
  BY <1>1, <1>2, <1>3, <1>4 DEF Fits
<1>6. Names1(t, n) /\ stack' = <<f>> \o s
  BY <1>1, <1>2, <1>4, <1>5 DEF VarAnonymous, Names1, Unit, clangVars
<1>7. Building(stack') = Building(stack)
  <2>1. Plainly(s)
    BY <1>2, <1>4, PlainlyAt
  <2>2. f.proc # "record"
    BY <1>4 DEF Frame
  <2>3. QED
    BY <1>6, <2>1, <2>2, PlainlyEnds
<1>8. QED
  BY <1>2, <1>4, <1>5, <1>6, <1>7, NamingOwner

LEMMA TypedefAnonymousBuilds == ASSUME Sound, TypedefAnonymous, UNCHANGED Unit PROVE BuildInv'
<1>1. /\ stack # <<>> /\ Head(stack).proc = "typedef"
      /\ UNCHANGED <<heap, allComponents, Components, references, fields, visited>>
  BY DEF TypedefAnonymous, Running, Bound
<1>2. PlainCall /\ Head(stack) = stack[1]
  BY <1>1, PlainHead
<1>3. Fits(stack[1])
  BY <1>2, BuildingNow, SeqOfElements DEF PlainCall, Calls, IsSeq, Sound
<1>4. PICK v, t, n, s, f : /\ v = stack[1].D /\ t = Decl(v).type /\ n = Append(Decl(v).name, OfTypedef)
                           /\ s = At("bind") /\ f = [Frame("rename", t, NULL) EXCEPT !.top = TRUE]
  OBVIOUS
<1>5. Declared(v) /\ Decl(v).kind = "typedef"
  BY <1>1, <1>2, <1>3, <1>4 DEF Fits
<1>6. Names1(t, n) /\ stack' = <<f>> \o s
  BY <1>1, <1>2, <1>4, <1>5 DEF TypedefAnonymous, Names1, Unit, clangVars
<1>7. Building(stack') = Building(stack)
  <2>1. Plainly(s)
    BY <1>2, <1>4, PlainlyAt
  <2>2. f.proc # "record"
    BY <1>4 DEF Frame
  <2>3. QED
    BY <1>6, <2>1, <2>2, PlainlyEnds
<1>8. QED
  BY <1>2, <1>4, <1>5, <1>6, <1>7, NamingOwner

-----------------------------------------------------------------------------
(* Between the units                                                       *)

(* A unit is parsed or left.                                               *)
LEMMA PhaseBuilds ==
  ASSUME Sound,
         UNCHANGED <<heap, allComponents, Components, references, names, program, fields, TranslationUnits,
                     visited, stack>>,
         phase # "idle", phase' \in {"ast", "idle"}, Visited' \subseteq Visited
  PROVE  BuildInv'
<1>1. StoreBuilt /\ StoreKept
  BY QuietStore, SoundNames DEF NamesFit
<1>2. Adds /\ SameNames
  BY <1>1 DEF Adds, SameNames, NamesKept
<1>3. Structures' = Structures /\ MakesNamed /\ \A c : Size(c)' = Size(c)
  BY DEF Structures, MakesNamed, Size, FieldsOf
<1>4. StoreBuilt'
  <2>1. \A n : HasStructure(n)' <=> HasStructure(n)
    BY DEF HasStructure, HasKey, Matches
  <2>2. \A d : (IsRecord(d)' <=> IsRecord(d)) /\ Decl(d)' = Decl(d)
    BY DEF IsRecord, Decl, Declared
  <2>3. \A d \in Visited' : IsRecord(d)' /\ Decl(d)'.name # Anonymous => HasStructure(Decl(d).name)'
    BY <1>1, <2>1, <2>2 DEF StoreBuilt, HasStructure, HasKey, Matches
  <2>4. TU' # 0
    BY <1>1 DEF StoreBuilt, TU
  <2>5. QED
    BY <1>1, <2>3, <2>4 DEF StoreBuilt, Matches
<1>5. \A d : Unbuilt(d) => Unbuilt(d)'
  BY DEF Unbuilt, Decl
<1>6. Building(stack') = Building(stack)
  OBVIOUS
<1>7. ASSUME NEW b \in Building(stack') PROVE Builds(b)'
  <2>1. MayBuild(b)
    BY <1>6, <1>7, BuildingNow
  <2>2. QED
    BY <1>2, <1>3, <2>1, BuildsSame
<1>8. QED
  BY <1>2, <1>3, <1>4, <1>5, <1>6, <1>7, BuiltOn

LEMMA UnitBuilds ==
  ASSUME Sound, Parsed \/ EndUnit PROVE BuildInv'
<1>1. StoreBuilt
  BY SoundNames DEF NamesFit
<1>2. CASE Parsed
  <2>1. /\ phase = "preprocess" /\ phase' = "ast" /\ visited = 0
        /\ UNCHANGED <<heap, allComponents, Components, references, names, program, fields, TranslationUnits,
                       visited, stack>>
    BY <1>1, <1>2 DEF Parsed, HandleTranslationUnit, storeVars, StoreBuilt
  <2>2. Visited' = {}
    BY <2>1 DEF Visited
  <2>3. QED
    BY <2>1, <2>2, PhaseBuilds
<1>3. CASE EndUnit
  <2>1. /\ phase = "ast" /\ phase' = "idle"
        /\ UNCHANGED <<heap, allComponents, Components, references, names, program, fields, TranslationUnits,
                       visited, stack>>
    BY <1>3 DEF EndUnit, EndSourceFile
  <2>2. Visited' = {}
    BY <2>1 DEF Visited
  <2>3. QED
    BY <2>1, <2>2, PhaseBuilds
<1>4. QED
  BY <1>2, <1>3

(* The names of the sources                                                *)
LEMMA NamesOfSources ==
  ASSUME WellFormed, NEW ns, ns = Names(program)
  PROVE  /\ DOMAIN ns = DOMAIN program.decls
         /\ \A d \in DOMAIN ns : ns[d] = Decl(d).name /\ ~(Len(ns[d]) >= 2)
<1>1. DOMAIN ns = DOMAIN program.decls /\ \A d \in DOMAIN ns : ns[d] = Decl(d).name
  BY DEF Names, Decl
<1>2. QED
  BY <1>1, ShortNames DEF Declared

(* A unit begins with the names of the sources.                            *)
LEMMA BeginUnitBuilds == ASSUME Sound, BeginUnit PROVE BuildInv'
<1>1. /\ phase = "idle" /\ phase' = "preprocess" /\ visited' = 0 /\ allComponents' = {}
      /\ names' = Names(program)
      /\ \E p : TranslationUnits' = Append(TranslationUnits, p)
      /\ UNCHANGED <<heap, Components, references, program, fields, stack>>
  BY DEF BeginUnit, CreateASTConsumer
<1>2. StoreBuilt /\ NamesBuilt /\ WellFormed /\ stack = <<>>
  BY <1>1, SoundNames DEF NamesFit, Sound, Inv, NestingInv
<1>3. Building(stack) = {} /\ Building(stack') = {}
  BY <1>1, <1>2, BuildingNone
<1>4. Visited = {} /\ Visited' = {}
  BY <1>1 DEF Visited
<1>5. IsSeq(TranslationUnits') /\ TU \in Nat /\ TU' = TU + 1
  BY <1>1, <1>2, Appended DEF StoreBuilt, TU, IsSeq
<1>6. /\ DOMAIN names' = DOMAIN program.decls
      /\ \A d \in DOMAIN names' : names'[d] = Decl(d).name /\ ~(Len(names'[d]) >= 2)
  BY <1>1, <1>2, NamesOfSources
<1>7. /\ Structures' = Structures
      /\ \A n : InStructure(n)' <=> InStructure(n)
      /\ \A n, d : Denotes(n, d)' <=> Denotes(n, d)
      /\ \A d : (IsRecord(d)' <=> IsRecord(d)) /\ Decl(d)' = Decl(d) /\ ModelType(d)' = ModelType(d)
      /\ \A c : Size(c)' = Size(c)
  BY <1>1 DEF Structures, InStructure, Denotes, IsRecord, Decl, Declared, Nests, IsTag, Size, FieldsOf, ModelType
<1>8. \A d : Unbuilt(d)' <=> Unbuilt(d)
  BY <1>1, <1>4 DEF Unbuilt, Decl
<1>9. StoreBuilt'
  BY <1>1, <1>2, <1>4, <1>5 DEF StoreBuilt, Matches
<1>10. NamesBuilt'
  <2>1. ASSUME NEW c \in Structures', NEW n, n = heap'[c].id
        PROVE  /\ IsSeq(n) /\ n # Anonymous
               /\ InStructure(n)' \/ \E d \in DOMAIN program'.decls : IsRecord(d)' /\ Denotes(n, d)'
    <3>1. c \in Structures /\ n = heap[c].id
      BY <1>1, <1>7, <2>1
    <3>2. /\ IsSeq(n) /\ n # Anonymous
          /\ InStructure(n) \/ \E d \in DOMAIN program.decls : IsRecord(d) /\ Denotes(n, d)
      BY <1>2, <3>1 DEF NamesBuilt
    <3>3. QED
      BY <1>1, <1>7, <3>2
  <2>2. QED
    BY <1>1, <1>6, <1>7, <2>1 DEF NamesBuilt
<1>11. ASSUME NEW c \in Structures PROVE Built(c)'
  <2>1. Built(c) /\ heap'[c] = heap[c]
    BY <1>1, <1>3 DEF Sound, BuildInv
  <2>2. ASSUME NEW m \in Labels', Inside(m, heap[c].id) PROVE m \in Labels
    <3>1. CASE \E d \in DOMAIN names' : m = names'[d]
      BY <1>6, <2>2, <3>1 DEF Inside
    <3>2. CASE \E e \in Structures' : m = heap'[e].id
      BY <1>1, <1>7, <3>2 DEF Labels
    <3>3. QED
      BY <3>1, <3>2 DEF Labels
  <2>3. ASSUME NEW i, NEW t, RefersTo(c, i, t) PROVE RefersTo(c, i, t)'
    <3>1. SUFFICES ASSUME t # 0 PROVE RefersTo(c, i, t)'
      BY DEF RefersTo
    <3>2. PICK s \in Components : /\ <<c, s, <<"field", i>>>> \in references
                                  /\ heap[s].type = ModelType(t)
                                  /\ Decl(t).name # Anonymous => heap[s].id = Decl(t).name
      BY <2>3, <3>1 DEF RefersTo
    <3>3. TU' # 1
      BY <1>2, <1>5, <3>2 DEF StoreBuilt
    <3>4. QED
      BY <1>1, <1>7, <3>2, <3>3 DEF RefersTo
  <2>4. ASSUME NEW d \in DOMAIN program.decls, IsRecord(d), Decl(d).def,
               names'[d] = heap[c].id \/ Denotes(heap[c].id, d)
        PROVE  BuiltFrom(c, d)' \/ (Size(c)' = 0 /\ Unbuilt(d)')
    <3>1. heap[c].id # Anonymous
      BY <1>2 DEF NamesBuilt
    <3>2. Denotes(heap[c].id, d)
      BY <1>6, <2>4, <3>1 DEF Denotes
    <3>3. BuiltFrom(c, d) \/ (Size(c) = 0 /\ Unbuilt(d))
      BY <2>1, <2>4, <3>2 DEF Built
    <3>4. ASSUME BuiltFrom(c, d) PROVE BuiltFrom(c, d)'
      <4>1. PICK fs : fs = Decl(d).fields
        OBVIOUS
      <4>2. Size(c) = Len(fs) /\ \A i \in 1..Len(fs) : RefersTo(c, i, fs[i].type)
        BY <3>4, <4>1 DEF BuiltFrom
      <4>3. \A i \in 1..Len(fs) : RefersTo(c, i, fs[i].type)'
        BY <2>3, <4>2
      <4>4. QED
        BY <1>7, <4>1, <4>2, <4>3 DEF BuiltFrom
    <3>5. QED
      BY <1>7, <1>8, <3>3, <3>4
  <2>5. QED
    BY <1>1, <1>7, <2>1, <2>2, <2>4 DEF Built
<1>12. QED
  BY <1>3, <1>7, <1>9, <1>10, <1>11 DEF BuildInv

-----------------------------------------------------------------------------
(* All steps                                                               *)

LEMMA BuildStarts == StatementInit => BuildInv
<1> SUFFICES ASSUME StatementInit PROVE BuildInv
  OBVIOUS
<1>1. /\ heap = <<>> /\ Components = {} /\ allComponents = {} /\ TranslationUnits = <<>> /\ phase = "idle"
      /\ program \in Programs /\ visited = 0 /\ stack = <<>> /\ names = Names(program)
      /\ fields = [c \in {} |-> <<>>]
  BY DEF StatementInit, VisitorInit, Init
<1>2. Building(stack) = {} /\ Structures = {} /\ Visited = {} /\ DOMAIN fields = {} /\ TU = 0
      /\ IsSeq(TranslationUnits)
  BY <1>1, BuildingNone, EmptyIsSeq DEF Structures, Visited, TU
<1>3. StoreBuilt
  BY <1>1, <1>2 DEF StoreBuilt
<1>4. NamesBuilt
  <2>1. WellFormed
    BY <1>1, ProgramFits
  <2>2. \A d \in DOMAIN names : ~(Len(names[d]) >= 2)
    BY <1>1, <2>1, NamesOfSources
  <2>3. QED
    BY <1>2, <2>2 DEF NamesBuilt
<1>5. QED
  BY <1>2, <1>3, <1>4 DEF BuildInv

(* The sources do not change.                                              *)
LEMMA SourcesStay == ASSUME [StatementNext]_allVars, Unambiguous' PROVE Unambiguous
<1>1. program' = program
  BY DEF StatementNext, VisitorNext, BeginUnit, Parsed, EndUnit, Unit, allVars
<1>2. QED
  BY <1>1 DEF Unambiguous, NamesApart, Nests, IsTag, Declared, Decl

LEMMA VisitBuilds ==
  ASSUME Sound, Waiting(stack), Inv', VisitStep, UNCHANGED Unit, ~aborted' PROVE BuildInv'
<1>1. CASE FieldAnonymous \/ VarAnonymous \/ TypedefAnonymous
  BY <1>1, FieldAnonymousBuilds, VarAnonymousBuilds, TypedefAnonymousBuilds
<1>2. CASE VisitTop \/ Renamed \/ TypedefVisits
  BY <1>2, VisitTopBuilds, RenamedBuilds, TypedefVisitsBuilds
<1>3. CASE FieldAdopt \/ FieldPush \/ FieldType \/ RecordEnds
  BY <1>3, FieldAdoptBuilds, FieldPushBuilds, FieldTypeBuilds, RecordEndsBuilds
<1>4. CASE EnumNext \/ TypedefBinds \/ VarType
  BY <1>4, EnumNextBuilds, TypedefBindsBuilds, VarTypeBuilds
<1>5. CASE EnumEnds \/ VarAdopt \/ VarNamed \/ VarEnds \/ TypedefLinks
  BY <1>5, PlainVisitorBuilds
<1>6. QED
  BY <1>1, <1>2, <1>3, <1>4, <1>5 DEF VisitStep

LEMMA BuildStep ==
  ASSUME Sound, Waiting(stack), Inv', [StatementNext]_allVars, ~aborted' PROVE BuildInv'
<1>1. CASE BeginUnit
  BY <1>1, BeginUnitBuilds
<1>2. CASE Parsed \/ EndUnit
  BY <1>2, UnitBuilds
<1>3. CASE VisitStep /\ UNCHANGED Unit
  BY <1>3, VisitBuilds
<1>4. CASE StatementStep /\ UNCHANGED Unit
  BY <1>4, StatementBuilds
<1>5. CASE UNCHANGED allVars
  <2>1. /\ UNCHANGED <<heap, allComponents, Components, names, program, fields, TranslationUnits, phase, visited>>
        /\ references' = references /\ stack' = stack
    BY <1>5 DEF allVars, vars, visitVars, storeVars, clangVars
  <2>2. QED
    BY <2>1, QuietStep
<1>6. QED
  BY <1>1, <1>2, <1>3, <1>4, <1>5 DEF StatementNext, VisitorNext

LEMMA InvariantStarts == StatementInit => Inv /\ VisitorInv
  BY WaitingStarts, BuildStarts, FunctionStarts DEF VisitorInv, Inv

LEMMA InvariantKeeps == Inv /\ VisitorInv /\ [StatementNext]_allVars => Inv' /\ VisitorInv'
<1> SUFFICES ASSUME Inv, VisitorInv, [StatementNext]_allVars PROVE Inv' /\ VisitorInv'
  OBVIOUS
<1>1. Inv /\ Waiting(stack) /\ (Unambiguous /\ ~aborted => BuildInv) /\ (Prototyped /\ ~aborted => FunctionInv)
  BY DEF VisitorInv, Inv
<1>2. Inv' /\ Waiting(stack)'
  BY <1>1, WaitingKeeps
<1>3. ASSUME Unambiguous', ~aborted' PROVE BuildInv'
  <2>1. Sound
    BY <1>1, <1>3, SourcesStay, StoppedStays DEF Sound
  <2>2. QED
    BY <1>1, <1>2, <1>3, <2>1, BuildStep
<1>4. ASSUME Prototyped', ~aborted' PROVE FunctionInv'
  <2>1. FSound
    BY <1>1, <1>4, PrototypesStay, StoppedStays DEF FSound
  <2>2. QED
    BY <1>4, <2>1, FunctionStep
<1>5. QED
  BY <1>2, <1>3, <1>4 DEF VisitorInv, Inv

(* A record that is built has its fields.                                  *)
LEMMA BuiltKeepsFields == Inv /\ VisitorInv => FieldsKept
<1> SUFFICES ASSUME Inv, VisitorInv, Unambiguous, Done,
                    NEW d \in Records, NEW fs, fs = Decl(d).fields, NEW c, c = Structure(d)
             PROVE  /\ Size(c) = Len(fs)
                    /\ \A i \in 1..Len(fs) :
                         fs[i].type # 0 /\ names[fs[i].type] # Anonymous
                         /\ (TU = 1 \/ Decl(fs[i].type).name # Anonymous) =>
                           <<c, Structure(fs[i].type), <<"field", i>>>> \in references
  BY DEF FieldsKept
<1>1. Sound /\ NamesFit /\ StoreFits /\ stack = <<>>
  <2>1. Sound /\ stack = <<>>
    BY DEF VisitorInv, Done, Sound, Inv
  <2>2. QED
    BY <2>1, SoundNames
<1>2. /\ IsRecord(d) /\ Declared(d) /\ Decl(d).def /\ d # 0 /\ c # NULL /\ ~Unbuilt(d)
      /\ c = LookupFull("struct", names[d])
  <2>1. d \in DOMAIN program.decls /\ Decl(d).kind = "record" /\ Decl(d).def /\ c # NULL /\ ~Unbuilt(d)
    BY DEF Records
  <2>2. d # 0
    BY <2>1 DEF Structure
  <2>3. c = LookupFull("struct", names[d])
    BY <2>1, <2>2 DEF Structure, ModelType
  <2>4. QED
    BY <2>1, <2>2, <2>3 DEF IsRecord, Declared
<1>3. c \in Structures /\ heap[c].id = names[d]
  BY <1>1, <1>2, TagFound DEF NamesFit, Matches, Structures
<1>4. BuiltFrom(c, d)
  <2>1. Built(c)
    BY <1>1, <1>3, BuildingNone DEF Sound, BuildInv
  <2>2. QED
    BY <1>2, <1>3, <2>1 DEF Built, Declared
<1>5. ASSUME NEW i \in 1..Len(fs), NEW t, t = fs[i].type, t # 0, names[t] # Anonymous,
             TU = 1 \/ Decl(t).name # Anonymous
      PROVE  <<c, Structure(t), <<"field", i>>>> \in references
  <2>1. IsTag(t) /\ Declared(t)
    BY <1>1, <1>2, <1>5, FieldsTyped DEF NamesFit, IsTag
  <2>2. PICK s \in Components : /\ <<c, s, <<"field", i>>>> \in references
                                /\ heap[s].type = ModelType(t)
                                /\ Decl(t).name # Anonymous => heap[s].id = Decl(t).name
                                /\ TU = 1 => names[t] # Anonymous /\ heap[s].id = names[t]
    BY <1>4, <1>5 DEF BuiltFrom, RefersTo
  <2>3. Decl(t).name # Anonymous => names[t] = Decl(t).name
    BY <1>1, <2>1 DEF Sound, Inv, NestingInv, WellNamed, Declared
  <2>4. PICK ty, n : ty = ModelType(t) /\ n = names[t]
    OBVIOUS
  <2>5. Matches(s, ty, n) /\ ty \in {"struct", "enum", "typedef"}
    BY <1>5, <2>1, <2>2, <2>3, <2>4 DEF Matches, IsTag, ModelType
  <2>6. LookupFull(ty, n) = s
    BY <1>1, <2>5, TagFound DEF NamesFit
  <2>7. QED
    BY <1>5, <2>2, <2>4, <2>6 DEF Structure
<1>6. QED
  BY <1>4, <1>5 DEF BuiltFrom

(* What the calls in progress wait for is there when they go on: the       *)
(* anonymous type that a field, a variable or a typedef renamed and had    *)
(* visited, the type that DiscoverTypeReferences looks up again, the       *)
(* structure that a record adopts its fields from - whatever else the      *)
(* calls they make bind, rename or visit meanwhile.  And, where names are  *)
(* unambiguous, every structure has the fields of the one definition that  *)
(* is called like it, those before the one TraverseFields is at, or, of a  *)
(* record that was only declared, none; and where the declarations of a    *)
(* function agree, its component has the arguments of the definition as    *)
(* far as VisitFunctionDecl has got, and refers to their types.            *)
THEOREM VisitorInvariance == VisitorSpec => []VisitorInv
  BY InvariantStarts, InvariantKeeps, PTL DEF VisitorSpec

(* Between two declarations of a unit, every record that was visited has   *)
(* each of its fields once, with a reference to the structure of its type, *)
(* however many units define it and whatever VisitRecordDecl was called    *)
(* for while TraverseFields was underway (ReferenceBuilder.cc).            *)
THEOREM FieldsKeptInvariance == VisitorSpec => []FieldsKept
  BY InvariantStarts, InvariantKeeps, BuiltKeepsFields, PTL DEF VisitorSpec

(* At the end of a unit every function it defines has the arguments of the *)
(* definition and refers to their types and to the one it returns, however *)
(* many declarations of it VisitFunctionDecl came to before or after, in   *)
(* whichever units, and whatever was visited on their behalf meanwhile     *)
(* (ReferenceBuilder.cc).                                                  *)
THEOREM ArgumentsOfDefinitionInvariance == VisitorSpec => []ArgumentsOfDefinition
<1>1. Inv /\ VisitorInv => ArgumentsOfDefinition
  BY FunctionsHaveArguments DEF VisitorInv
<1>2. QED
  BY <1>1, InvariantStarts, InvariantKeeps, PTL DEF VisitorSpec
=============================================================================
