---------------------------- MODULE VisitorProofs ----------------------------
(* Proofs about the visitors and the traversals of statements, which call  *)
(* each other: no record is entered while it is being traversed, what a    *)
(* call waits for is there when it goes on, and only designators can lead  *)
(* the visitors to a structure or a field that is missing.                 *)
EXTENDS VisitorInvariants, SequenceTheorems, TLAPS

-----------------------------------------------------------------------------
(* Sequences of any elements                                               *)

Elements(s) == {s[k] : k \in 1..Len(s)}

LEMMA SeqOfElements == ASSUME NEW s, IsSeq(s) PROVE s \in Seq(Elements(s))
<1> DEFINE n == Len(s)
<1>1. n \in Nat /\ s = [k \in 1..n |-> s[k]]
  BY DEF IsSeq
<1>2. \A k \in 1..n : s[k] \in Elements(s)
  BY DEF Elements
<1> HIDE DEF n
<1>3. [k \in 1..n |-> s[k]] \in Seq(Elements(s))
  BY <1>1, <1>2, IsASeq
<1>4. QED
  BY <1>1, <1>3

LEMMA SeqIsSeq == ASSUME NEW S, NEW s \in Seq(S) PROVE IsSeq(s)
  BY LenProperties DEF IsSeq

LEMMA EmptyIsSeq == IsSeq(<<>>) /\ Len(<<>>) = 0
  BY SeqIsSeq, EmptySeq

LEMMA Changed ==
  ASSUME NEW s, IsSeq(s), 1 \in 1..Len(s), NEW v
  PROVE  /\ IsSeq([s EXCEPT ![1] = v]) /\ Len([s EXCEPT ![1] = v]) = Len(s)
         /\ \A k \in 1..Len(s) : [s EXCEPT ![1] = v][k] = IF k = 1 THEN v ELSE s[k]
<1> DEFINE S == Elements(s) \cup {v}
<1>1. s \in Seq(S)
  BY SeqOfElements, SeqMonotonic
<1>2. /\ [s EXCEPT ![1] = v] \in Seq(S) /\ Len([s EXCEPT ![1] = v]) = Len(s)
      /\ \A k \in 1..Len(s) : [s EXCEPT ![1] = v][k] = IF k = 1 THEN v ELSE s[k]
  <2> HIDE DEF S
  <2>1. v \in S
    BY DEF S
  <2>2. QED
    BY <1>1, <2>1, ExceptSeq
<1>3. QED
  BY <1>2, SeqIsSeq

LEMMA Pushed ==
  ASSUME NEW s, IsSeq(s), NEW f
  PROVE  /\ IsSeq(<<f>> \o s) /\ Len(<<f>> \o s) = Len(s) + 1 /\ (<<f>> \o s)[1] = f
         /\ \A k \in 1..Len(s) : (<<f>> \o s)[k + 1] = s[k]
<1> DEFINE S == Elements(s) \cup {f}
<1>1. s \in Seq(S) /\ <<f>> \in Seq(S) /\ Len(<<f>>) = 1 /\ <<f>>[1] = f
  <2>1. s \in Seq(S)
    BY SeqOfElements, SeqMonotonic
  <2>2. <<f>> \in Seq(S) /\ Len(<<f>>) = 1 /\ <<f>>[1] = f
    OBVIOUS
  <2>3. QED
    BY <2>1, <2>2
<1> HIDE DEF S
<1>2. PICK g, t : g = <<f>> /\ t = <<f>> \o s
  OBVIOUS
<1>3. /\ t \in Seq(S) /\ Len(t) = Len(g) + Len(s)
      /\ \A k \in 1..Len(g) + Len(s) : t[k] = IF k <= Len(g) THEN g[k] ELSE s[k - Len(g)]
  BY <1>1, <1>2, ConcatProperties
<1>4. IsSeq(t) /\ Len(s) \in Nat /\ Len(g) = 1 /\ g[1] = f
  BY <1>1, <1>2, <1>3, SeqIsSeq, LenProperties
<1>5. IsSeq(t) /\ Len(t) = Len(s) + 1 /\ t[1] = f /\ \A k \in 1..Len(s) : t[k + 1] = s[k]
  BY <1>3, <1>4
<1>6. QED
  BY <1>2, <1>5

LEMMA Popped ==
  ASSUME NEW s, IsSeq(s), s # <<>>, NEW t, t = Tail(s)
  PROVE  /\ IsSeq(t) /\ Len(s) = Len(t) + 1 /\ Head(s) = s[1] /\ 1 \in 1..Len(s)
         /\ \A k \in 1..Len(t) : t[k] = s[k + 1]
<1>1. s \in Seq(Elements(s))
  BY SeqOfElements
<1>2. /\ t \in Seq(Elements(s)) /\ Len(t) = Len(s) - 1 /\ Head(s) = s[1] /\ Len(s) \in Nat /\ Len(s) # 0
      /\ \A k \in 1..Len(t) : t[k] = s[k + 1]
  <2>1. Len(s) \in Nat /\ Len(s) # 0
    BY <1>1, LenProperties, EmptySeq, SeqEqual
  <2>2. QED
    BY <1>1, <2>1, HeadTailProperties
<1>3. IsSeq(t)
  BY <1>2, SeqIsSeq
<1>4. Len(t) \in Nat
  BY <1>3 DEF IsSeq
<1>5. QED
  BY <1>2, <1>3, <1>4

-----------------------------------------------------------------------------
(* Frames.  g is the frame of the same call as f, perhaps further on.      *)
SameCall(f, g) ==
  /\ {"proc", "D", "C"} \subseteq DOMAIN g
  /\ g.proc = f.proc /\ g.D = f.D
  /\ f.proc # "typedef" => g.C = f.C
  /\ f.proc = "record" => "i" \in DOMAIN g /\ g.i \in Nat \ {0}

SameCalls(s, t) ==
  IsSeq(t) /\ Len(t) = Len(s) /\ \A k \in 1..Len(s) : SameCall(s[k], t[k])

LEMMA FitsSame == ASSUME NEW f, Fits(f) PROVE SameCall(f, f)
  BY DEF Fits, SameCall

LEMMA SameFits == ASSUME NEW f, NEW g, Fits(f), SameCall(f, g) PROVE Fits(g)
  BY DEF Fits, SameCall, Traversing

LEMMA SameNests ==
  ASSUME NEW f, NEW g, NEW a, NEW b, Nest(f, g), SameCall(f, a), SameCall(g, b)
  PROVE  Nest(a, b)
  BY DEF Nest, SameCall

LEMMA SameKeeps ==
  ASSUME NEW s, NEW t, Calls(s), SameCalls(s, t) PROVE Calls(t)
<1>1. IsSeq(t) /\ Len(t) = Len(s)
  BY DEF SameCalls
<1>2. \A k \in 1..Len(t) : Fits(t[k])
  BY SameFits DEF Calls, SameCalls
<1>3. ASSUME NEW k \in 1..Len(t), NEW j \in 1..k-1 PROVE Nest(t[j], t[k])
  <2>1. j \in 1..Len(t)
    BY <1>1 DEF IsSeq
  <2>2. Nest(s[j], s[k]) /\ SameCall(s[j], t[j]) /\ SameCall(s[k], t[k])
    BY <1>1, <2>1 DEF Calls, SameCalls
  <2>3. QED
    BY <2>2, SameNests
<1>4. QED
  BY <1>1, <1>2, <1>3 DEF Calls

(* The calls below the innermost one                                       *)
LEMMA TailCalls ==
  ASSUME NEW s, Calls(s), s # <<>>, NEW t, t = Tail(s)
  PROVE  /\ Calls(t) /\ \A k \in 1..Len(t) : Nest(s[1], t[k])
         /\ Head(s) = s[1] /\ Fits(s[1]) /\ 1 \in 1..Len(s)
<1>1. /\ IsSeq(t) /\ Len(s) = Len(t) + 1 /\ Head(s) = s[1] /\ 1 \in 1..Len(s)
      /\ \A k \in 1..Len(t) : t[k] = s[k + 1]
  BY Popped DEF Calls
<1>2. Len(t) \in Nat
  BY <1>1 DEF IsSeq
<1>3. ASSUME NEW k \in 1..Len(t) PROVE Fits(t[k]) /\ Nest(s[1], t[k])
  <2>1. k + 1 \in 1..Len(s) /\ 1 \in 1..(k + 1) - 1 /\ t[k] = s[k + 1]
    BY <1>1, <1>2
  <2>2. QED
    BY <2>1 DEF Calls
<1>4. ASSUME NEW k \in 1..Len(t), NEW j \in 1..k-1 PROVE Nest(t[j], t[k])
  <2>1. k + 1 \in 1..Len(s) /\ j + 1 \in 1..(k + 1) - 1 /\ t[k] = s[k + 1] /\ t[j] = s[j + 1]
    BY <1>1, <1>2
  <2>2. QED
    BY <2>1 DEF Calls
<1>5. Fits(s[1])
  BY <1>1 DEF Calls
<1>6. QED
  BY <1>1, <1>3, <1>4, <1>5 DEF Calls

(* A step changes the innermost frame, or the queue of macros of one, but  *)
(* never what a frame is of.                                               *)
LEMMA HeadChanged ==
  ASSUME NEW s, Calls(s), s # <<>>, NEW g, SameCall(s[1], g), NEW t, t = [s EXCEPT ![1] = g]
  PROVE  SameCalls(s, t) /\ t # <<>> /\ t[1] = g
<1>1. 1 \in 1..Len(s) /\ IsSeq(s)
  BY TailCalls DEF Calls
<1>2. IsSeq(t) /\ Len(t) = Len(s) /\ t[1] = g /\ \A k \in 1..Len(s) : k # 1 => t[k] = s[k]
  <2>1. IsSeq(t) /\ Len(t) = Len(s) /\ \A k \in 1..Len(s) : t[k] = IF k = 1 THEN g ELSE s[k]
    BY <1>1, Changed
  <2>2. QED
    BY <1>1, <2>1
<1>3. ASSUME NEW k \in 1..Len(s) PROVE SameCall(s[k], t[k])
  <2>1. CASE k = 1
    BY <1>2, <2>1
  <2>2. CASE k # 1
    BY <1>2, <2>2, FitsSame DEF Calls
  <2>3. QED
    BY <2>1, <2>2
<1>4. t # <<>>
  BY <1>1, <1>2, EmptyIsSeq
<1>5. QED
  BY <1>2, <1>3, <1>4 DEF SameCalls

LEMMA SameSelf == ASSUME NEW s, Calls(s) PROVE SameCalls(s, s)
  BY FitsSame DEF Calls, SameCalls

LEMMA SameTwice ==
  ASSUME NEW s, NEW t, NEW u, SameCalls(s, t), SameCalls(t, u) PROVE SameCalls(s, u)
<1>1. Len(u) = Len(s) /\ IsSeq(u) /\ Len(t) = Len(s)
  BY DEF SameCalls
<1>2. ASSUME NEW k \in 1..Len(s) PROVE SameCall(s[k], u[k])
  <2>1. SameCall(s[k], t[k]) /\ SameCall(t[k], u[k])
    BY <1>1 DEF SameCalls
  <2>2. QED
    BY <2>1 DEF SameCall
<1>3. QED
  BY <1>1, <1>2 DEF SameCalls

-----------------------------------------------------------------------------
(* Steps of the store and of the names                                     *)

(* The components with a key that is asked for                             *)
Stored == allComponents \cup Components

(* Components stay where they are, and what is found stays found.          *)
StoreKept ==
  /\ StoreFits'
  /\ 1..Len(heap) \subseteq 1..Len(heap')
  /\ \A c \in 1..Len(heap) : heap'[c] = heap[c]
  /\ Stored \subseteq Stored'

(* Only what has no name yet gets one.                                     *)
NamesKept == /\ program' = program
             /\ \A d \in DOMAIN names : names[d] # Anonymous => names'[d] = names[d]

LEMMA QuietStore ==
  ASSUME StoreFits, UNCHANGED <<heap, allComponents, Components>> PROVE StoreKept
  BY DEF StoreFits, StoreKept, Stored

(* A component that is bound is new, and found unless one like it is.      *)
LEMMA BindKeeps ==
  ASSUME StoreFits, NEW t, NEW n, NEW local, NEW p, Bind(t, n, local, p)
  PROVE  /\ StoreKept
         /\ Len(heap) + 1 \in 1..Len(heap')
         /\ heap'[Len(heap) + 1].type = t /\ heap'[Len(heap) + 1].id = n
         /\ ~local /\ ~HasKey(Components, t, n) => Len(heap) + 1 \in Stored'
<1>1. PICK r : heap' = Append(heap, r) /\ r.type = t /\ r.id = n
  BY DEF Bind, BindLocal, BindGlobal, Record
<1>2. /\ allComponents' \subseteq allComponents \cup {Len(heap) + 1} /\ allComponents \subseteq allComponents'
      /\ Components' \subseteq Components \cup {Len(heap) + 1} /\ Components \subseteq Components'
      /\ ~local /\ ~HasKey(Components, t, n) => Len(heap) + 1 \in Components'
  BY DEF Bind, BindLocal, BindGlobal, Insert
<1>3. /\ IsSeq(heap') /\ Len(heap) \in Nat /\ Len(heap') = Len(heap) + 1 /\ heap'[Len(heap) + 1] = r
      /\ \A c \in 1..Len(heap) : heap'[c] = heap[c]
  <2> DEFINE S == Elements(heap) \cup {r}
  <2>1. heap \in Seq(S)
    BY SeqOfElements, SeqMonotonic DEF StoreFits
  <2>2. r \in S
    OBVIOUS
  <2> HIDE DEF S
  <2>3. heap' \in Seq(S) /\ Len(heap) \in Nat /\ Len(heap') = Len(heap) + 1
    BY <1>1, <2>1, <2>2
  <2>4. heap'[Len(heap) + 1] = r /\ \A c \in 1..Len(heap) : heap'[c] = heap[c]
    BY <1>1, <2>1, <2>2
  <2>5. QED
    BY <2>3, <2>4, SeqIsSeq
<1>4. 1..Len(heap) \subseteq 1..Len(heap') /\ Len(heap) + 1 \in 1..Len(heap')
  BY <1>3
<1>5. StoreFits'
  BY <1>2, <1>3, <1>4 DEF StoreFits
<1>6. QED
  BY <1>1, <1>2, <1>3, <1>4, <1>5 DEF StoreKept, Stored

(* What a lookup of a structure tells                                      *)
LEMMA StructureFound ==
  ASSUME StoreFits, NEW n
  PROVE  /\ LookupFull("struct", n) = NULL <=> ~HasStructure(n)
         /\ LookupFull("struct", n) # NULL => /\ LookupFull("struct", n) \in Stored
                                              /\ Matches(LookupFull("struct", n), "struct", n)
<1>1. ASSUME NEW S, S \subseteq 1..Len(heap)
      PROVE  /\ ~HasKey(S, "struct", n) => Find(S, "struct", n) = NULL
             /\ HasKey(S, "struct", n) => /\ Find(S, "struct", n) \in S
                                          /\ Matches(Find(S, "struct", n), "struct", n)
                                          /\ Find(S, "struct", n) # NULL
  <2>1. ASSUME HasKey(S, "struct", n)
        PROVE  Find(S, "struct", n) \in S /\ Matches(Find(S, "struct", n), "struct", n)
    <3>1. \E c \in S : Matches(c, "struct", n)
      BY <2>1 DEF HasKey
    <3>2. Find(S, "struct", n) = CHOOSE c \in S : Matches(c, "struct", n)
      BY <2>1 DEF Find
    <3>3. QED
      BY <3>1, <3>2
  <2>2. \A c \in S : c # NULL
    BY <1>1 DEF NULL, StoreFits, IsSeq
  <2>3. QED
    BY <2>1, <2>2 DEF Find
<1>2. allComponents \subseteq 1..Len(heap) /\ Components \subseteq 1..Len(heap)
  BY DEF StoreFits
<1>3. HasStructure(n) <=> HasKey(allComponents, "struct", n) \/ HasKey(Components, "struct", n)
  BY DEF HasStructure, HasKey
<1>4. QED
  BY <1>1, <1>2, <1>3 DEF LookupFull, LookupLocal, Stored

LEMMA StructureKept ==
  ASSUME StoreFits, StoreKept, NEW n, HasStructure(n) PROVE HasStructure(n)'
  BY DEF StoreFits, StoreKept, Stored, HasStructure, HasKey, Matches

(* What the programs are, of the one at hand                               *)
WellFormed ==
  \A d \in DOMAIN program.decls : LET D == Decl(d) IN
    /\ IsSeq(D.fields)
    /\ D.name \in Seq(STRING) /\ Len(D.name) <= 1
    /\ D.name = Anonymous => D.kind \in {"record", "enum"}
    /\ \A f \in Range(D.fields) : f.type # 0 => IsTag(f.type)

Inv == program \in Programs /\ NestingInv

LEMMA ProgramFits == ASSUME program \in Programs PROVE WellFormed
  BY VisitorAssumption DEF WellFormed, Decl, IsTag, Declared

(* Calls that go on have what they had: structures stay, and nothing they  *)
(* are about is renamed.                                                   *)
LEMMA FitsKept ==
  ASSUME StoreFits, StoreKept, NamesKept, DOMAIN names = DOMAIN program.decls, NEW f, Fits(f)
  PROVE  Fits(f)'
<1>1. Decl(f.D)' = Decl(f.D) /\ (IsTag(f.D) <=> IsTag(f.D)') /\ (Declared(f.D) <=> Declared(f.D)')
  BY DEF NamesKept, Decl, IsTag, Declared
<1>2. f.proc \in Traversing => names'[f.D] = names[f.D]
  BY DEF Fits, IsTag, Declared, NamesKept
<1>3. f.proc = "record" => f.C \in Stored' /\ Matches(f.C, "struct", names[f.D])' /\ names'[f.D] = names[f.D]
  BY <1>2 DEF Fits, StoreFits, StoreKept, Stored, Matches, Traversing
<1>4. f.proc = "var" => f.C \in 1..Len(heap') /\ heap'[f.C].id = Decl(f.D).name
  BY DEF Fits, StoreKept
<1>5. QED
  BY <1>1, <1>2, <1>3, <1>4 DEF Fits, Stored

LEMMA NestKept ==
  ASSUME NamesKept, DOMAIN names = DOMAIN program.decls, NEW f, NEW g, Fits(f), Fits(g), Nest(f, g)
  PROVE  Nest(f, g)'
<1>1. f.proc \in Traversing => names'[f.D] = names[f.D]
  BY DEF Fits, IsTag, Declared, NamesKept
<1>2. g.proc \in Traversing => names'[g.D] = names[g.D]
  BY DEF Fits, IsTag, Declared, NamesKept
<1>3. NamesApart' <=> NamesApart
  BY DEF NamesKept, NamesApart, Decl, Nests, IsTag, Declared
<1>4. QED
  BY <1>1, <1>2, <1>3 DEF Nest, Traversing

LEMMA CallsKept ==
  ASSUME StoreFits, StoreKept, NamesKept, DOMAIN names = DOMAIN program.decls, NEW s, Calls(s)
  PROVE  Calls(s)'
<1>1. \A k \in 1..Len(s) : Fits(s[k])'
  BY FitsKept DEF Calls
<1>2. ASSUME NEW k \in 1..Len(s), NEW j \in 1..k-1 PROVE Nest(s[j], s[k])'
  <2>1. j \in 1..Len(s)
    BY DEF Calls, IsSeq
  <2>2. QED
    BY <2>1, NestKept DEF Calls
<1>3. QED
  BY <1>1, <1>2 DEF Calls

-----------------------------------------------------------------------------
(* Entering a declaration                                                  *)

(* A step that renames nothing                                             *)
SameNames == names' = names /\ program' = program

LEMMA SameNamesKept == ASSUME SameNames PROVE NamesKept
  BY DEF SameNames, NamesKept

(* Calls that go on below a step, the innermost on top                     *)
LEMMA CallsResumed ==
  ASSUME Inv, SameNames, StoreKept, NEW t, Calls(t), stack' = t PROVE Calls(stack)'
<1>1. Calls(t)'
  BY CallsKept, SameNamesKept DEF Inv, NestingInv
<1>2. QED
  BY <1>1 DEF Calls

(* A call of which all this holds after the step is made over them.        *)
LEMMA CallsOnTop ==
  ASSUME NEW t, Calls(t)', NEW f, Fits(f)', \A k \in 1..Len(t) : Nest(f, t[k])',
         stack' = <<f>> \o t
  PROVE  Calls(stack)'
<1>2. PICK u : u = <<f>> \o t
  OBVIOUS
<1>3. IsSeq(u) /\ Len(u) = Len(t) + 1 /\ u[1] = f /\ Len(t) \in Nat /\ \A k \in 1..Len(t) : u[k + 1] = t[k]
  <2>1. IsSeq(t)
    BY DEF Calls
  <2>2. Len(t) \in Nat
    BY <2>1 DEF IsSeq
  <2>3. QED
    BY <1>2, <2>1, <2>2, Pushed
<1>4. ASSUME NEW k \in 1..Len(u) PROVE Fits(u[k])'
  <2>1. CASE k = 1
    BY <1>3, <2>1
  <2>2. CASE k # 1
    <3>1. k - 1 \in 1..Len(t) /\ u[k] = t[k - 1]
      BY <1>3, <2>2
    <3>2. Fits(t[k - 1])'
      BY <3>1 DEF Calls
    <3>3. QED
      BY <3>1, <3>2
  <2>3. QED
    BY <2>1, <2>2
<1>5. ASSUME NEW k \in 1..Len(u), NEW j \in 1..k-1 PROVE Nest(u[j], u[k])'
  <2>1. k - 1 \in 1..Len(t) /\ u[k] = t[k - 1] /\ j \in 1..Len(u)
    BY <1>3
  <2>2. CASE j = 1
    <3>1. Nest(f, t[k - 1])'
      BY <2>1
    <3>2. QED
      BY <1>3, <2>1, <2>2, <3>1
  <2>3. CASE j # 1
    <3>1. j - 1 \in 1..(k - 1) - 1 /\ u[j] = t[j - 1]
      BY <1>3, <2>1, <2>3
    <3>2. Nest(t[j - 1], t[k - 1])'
      BY <2>1, <3>1 DEF Calls
    <3>3. QED
      BY <2>1, <3>1, <3>2
  <2>4. QED
    BY <2>2, <2>3
<1>6. Calls(u)'
  BY <1>3, <1>4, <1>5 DEF Calls
<1>7. stack' = u
  BY <1>2
<1>8. QED
  BY <1>6, <1>7 DEF Calls

LEMMA CallsPushed ==
  ASSUME Inv, SameNames, StoreKept, NEW t, Calls(t), NEW f, Fits(f)',
         \A k \in 1..Len(t) : Nest(f, t[k]),
         stack' = <<f>> \o t
  PROVE  Calls(stack)'
<1>1. Calls(t)'
  BY CallsKept, SameNamesKept DEF Inv, NestingInv
<1>2. NamesApart' <=> NamesApart
  BY DEF SameNames, NamesApart, Decl, Nests, IsTag, Declared
<1>3. \A k \in 1..Len(t) : Nest(f, t[k])'
  BY <1>2 DEF Nest, SameNames
<1>4. QED
  BY <1>1, <1>3, CallsOnTop

(* Calls over which declaration d may be visited                           *)
MayVisit(d, t) == \A k \in 1..Len(t) :
  /\ t[k].proc \notin {"rename", "enum"}
  /\ t[k].proc = "record" =>
       /\ IsTag(d)
       /\ NamesApart /\ Decl(d).kind = "record" /\ names[d] # Anonymous
            => ~Within(names[t[k].D], names[d])

LEMMA EnterRecordCalls ==
  ASSUME Inv, SameNames, NEW d, IsTag(d), Decl(d).kind = "record", NEW top, NEW t, Calls(t), MayVisit(d, t),
         EnterRecord(d, top, t)
  PROVE  /\ StoreKept /\ Calls(stack)'
         /\ names[d] # Anonymous => HasStructure(names[d])'
<1>0. StoreFits
  BY DEF Inv, NestingInv
<1>1. CASE names[d] = Anonymous
  <2>1. stack' = t /\ UNCHANGED <<heap, allComponents, Components>>
    BY <1>1 DEF EnterRecord, Bound
  <2>2. StoreKept
    BY <1>0, <2>1, QuietStore
  <2>3. QED
    BY <1>1, <2>1, <2>2, CallsResumed
<1>2. CASE names[d] # Anonymous
  <2>0. PICK hit, c : hit = LookupFull("struct", names[d]) /\ c = Own(hit)
    OBVIOUS
  <2>1. /\ hit = NULL => BindNew("struct", names[d], FALSE)
        /\ hit # NULL => UNCHANGED <<heap, allComponents, Components>>
    BY <1>2, <2>0 DEF EnterRecord, Bound
  <2>2. ASSUME hit = NULL
        PROVE  StoreKept /\ c \in Stored' /\ heap'[c].type = "struct" /\ heap'[c].id = names[d]
    <3>1. ~HasKey(Components, "struct", names[d])
      BY <1>0, <2>0, <2>2, StructureFound DEF HasStructure, HasKey
    <3>2. Bind("struct", names[d], FALSE, Mains[TU])
      BY <2>1, <2>2 DEF BindNew
    <3>3. /\ StoreKept /\ Len(heap) + 1 \in Stored'
          /\ heap'[Len(heap) + 1].type = "struct" /\ heap'[Len(heap) + 1].id = names[d]
      BY <1>0, <3>1, <3>2, BindKeeps
    <3>4. c = Len(heap) + 1
      BY <2>0, <2>2 DEF Own
    <3>5. QED
      BY <3>3, <3>4
  <2>3. ASSUME hit # NULL
        PROVE  StoreKept /\ c \in Stored' /\ heap'[c].type = "struct" /\ heap'[c].id = names[d]
    <3>1. StoreKept
      BY <1>0, <2>1, <2>3, QuietStore
    <3>2. c \in Stored /\ heap[c].type = "struct" /\ heap[c].id = names[d]
      BY <1>0, <2>0, <2>3, StructureFound DEF Own, Matches
    <3>3. Stored \subseteq Stored' /\ heap' = heap
      BY <2>1, <2>3, <3>1 DEF StoreKept
    <3>4. QED
      BY <3>1, <3>2, <3>3
  <2>4. StoreKept /\ c \in Stored' /\ heap'[c].type = "struct" /\ heap'[c].id = names[d]
    BY <2>2, <2>3
  <2>5. HasStructure(names[d])'
    BY <2>4 DEF HasStructure, HasKey, Matches, Stored, SameNames
  <2>6. \/ stack' = t
        \/ \E r : stack' = <<[Frame("record", d, c) EXCEPT !.top = top, !.related = r]>> \o t
    BY <1>2, <2>0 DEF EnterRecord
  <2>7. CASE stack' = t
    BY <2>4, <2>5, <2>7, CallsResumed
  <2>8. ASSUME NEW r, stack' = <<[Frame("record", d, c) EXCEPT !.top = top, !.related = r]>> \o t
        PROVE  Calls(stack)'
    <3>1. PICK f : f = [Frame("record", d, c) EXCEPT !.top = top, !.related = r]
      OBVIOUS
    <3>2. /\ {"proc", "D", "C", "i"} \subseteq DOMAIN f
          /\ f.proc = "record" /\ f.D = d /\ f.C = c /\ f.i = 1
      BY <3>1 DEF Frame
    <3>3. Fits(f)'
      BY <1>2, <2>4, <3>2 DEF Fits, SameNames, IsTag, Declared, Decl, Stored, Matches, Traversing
    <3>4. \A k \in 1..Len(t) : Nest(f, t[k])
      BY <1>2, <3>2 DEF Nest, MayVisit, Traversing
    <3>5. QED
      BY <2>4, <2>8, <3>1, <3>3, <3>4, CallsPushed
  <2>9. QED
    BY <2>4, <2>5, <2>6, <2>7, <2>8
<1>3. QED
  BY <1>1, <1>2

LEMMA EnterEnumCalls ==
  ASSUME Inv, SameNames, NEW d, IsTag(d), NEW t, Calls(t), MayVisit(d, t), EnterEnum(d, t)
  PROVE  StoreKept /\ Calls(stack)'
<1>0. StoreFits
  BY DEF Inv, NestingInv
<1>1. StoreKept
  <2>1. CASE UNCHANGED Bound
    BY <1>0, <2>1, QuietStore DEF Bound
  <2>2. CASE BindNew("enum", names[d], FALSE)
    BY <1>0, <2>2, BindKeeps DEF BindNew
  <2>3. QED
    BY <2>1, <2>2 DEF EnterEnum
<1>2. PICK c : stack' = t \/ stack' = <<Frame("enum", d, c)>> \o t
  BY DEF EnterEnum
<1>3. CASE stack' = t
  BY <1>1, <1>3, CallsResumed
<1>4. CASE stack' = <<Frame("enum", d, c)>> \o t
  <2>1. PICK f : f = Frame("enum", d, c)
    OBVIOUS
  <2>2. {"proc", "D", "C"} \subseteq DOMAIN f /\ f.proc = "enum"
    BY <2>1 DEF Frame
  <2>3. Fits(f)'
    BY <2>2 DEF Fits, Traversing
  <2>4. \A k \in 1..Len(t) : Nest(f, t[k])
    BY <2>2 DEF Nest, MayVisit, Traversing
  <2>5. QED
    BY <1>1, <1>4, <2>1, <2>3, <2>4, CallsPushed
<1>5. QED
  BY <1>1, <1>2, <1>3, <1>4

LEMMA EnterTagCalls ==
  ASSUME Inv, SameNames, NEW d, IsTag(d), NEW top, NEW t, Calls(t), MayVisit(d, t), EnterTag(d, top, t)
  PROVE  /\ StoreKept /\ Calls(stack)'
         /\ Decl(d).kind = "record" /\ names[d] # Anonymous => HasStructure(names[d])'
  BY EnterRecordCalls, EnterEnumCalls DEF EnterTag

(* Calls without a record among them                                       *)
LEMMA MayVisitOther ==
  ASSUME NEW d, ~IsTag(d), NEW t, MayVisit(d, t), NEW f, f.proc \notin Traversing \cup {"enum"}
  PROVE  \A k \in 1..Len(t) : Nest(f, t[k])
  BY DEF MayVisit, Nest

LEMMA EnterVarCalls ==
  ASSUME Inv, SameNames, NEW d, Declared(d), Decl(d).kind = "var", NEW t, Calls(t), MayVisit(d, t),
         EnterVar(d, t)
  PROVE  StoreKept /\ Calls(stack)'
<1>0. StoreFits /\ ~IsTag(d)
  BY DEF Inv, NestingInv, IsTag
<1>1. CASE stack' = t /\ UNCHANGED Bound
  <2>1. StoreKept
    BY <1>0, <1>1, QuietStore DEF Bound
  <2>2. QED
    BY <1>1, <2>1, CallsResumed
<1>2. ASSUME NEW c, c = Len(heap) + 1, BindNew("global", Decl(d).name, Decl(d).static),
             stack' = <<Frame("var", d, c)>> \o t
      PROVE  StoreKept /\ Calls(stack)'
  <2>1. StoreKept /\ c \in 1..Len(heap') /\ heap'[c].id = Decl(d).name
    BY <1>0, <1>2, BindKeeps DEF BindNew
  <2>2. PICK f : f = Frame("var", d, c)
    OBVIOUS
  <2>3. {"proc", "D", "C"} \subseteq DOMAIN f /\ f.proc = "var" /\ f.D = d /\ f.C = c
    BY <2>2 DEF Frame
  <2>4. Fits(f)'
    BY <2>1, <2>3 DEF Fits, SameNames, Declared, Decl, Traversing
  <2>5. \A k \in 1..Len(t) : Nest(f, t[k])
    BY <1>0, <2>3, MayVisitOther DEF Traversing
  <2>6. QED
    BY <1>2, <2>1, <2>2, <2>4, <2>5, CallsPushed
<1>3. QED
  <2>1. PICK hit : hit = Lookup("global", Decl(d).name, Decl(d).static)
    OBVIOUS
  <2>2. \/ stack' = t /\ UNCHANGED Bound
        \/ /\ BindNew("global", Decl(d).name, Decl(d).static) /\ hit = NULL
           /\ stack' = <<Frame("var", d, Own(hit))>> \o t
    BY <2>1 DEF EnterVar
  <2>3. hit = NULL => Own(hit) = Len(heap) + 1
    BY DEF Own
  <2>4. QED
    BY <1>1, <1>2, <2>2, <2>3

LEMMA EnterOtherCalls ==
  ASSUME Inv, SameNames, NEW d, Declared(d), ~IsTag(d), NEW t, Calls(t), MayVisit(d, t),
         \/ EnterFunction(d, t)
         \/ Decl(d).kind = "typedef" /\ EnterTypedef(d, t)
  PROVE  StoreKept /\ Calls(stack)'
<1>0. StoreFits
  BY DEF Inv, NestingInv
<1>1. StoreKept
  <2>1. CASE UNCHANGED Bound
    BY <1>0, <2>1, QuietStore DEF Bound
  <2>2. CASE BindNew("function", Decl(d).name, Decl(d).static)
    BY <1>0, <2>2, BindKeeps DEF BindNew
  <2>3. QED
    BY <2>1, <2>2 DEF EnterFunction, EnterTypedef
<1>2. PICK f : /\ {"proc", "D", "C"} \subseteq DOMAIN f /\ f.proc \in {"function", "typedef"}
               /\ f.proc = "typedef" => f.D = d /\ Decl(d).kind = "typedef"
               /\ stack' = <<f>> \o t
  <2>1. CASE EnterFunction(d, t)
    <3>1. PICK c, l : stack' = <<[Frame("function", d, c) EXCEPT !.at = l]>> \o t
      BY <2>1 DEF EnterFunction
    <3>2. PICK f : f = [Frame("function", d, c) EXCEPT !.at = l]
      OBVIOUS
    <3>3. {"proc", "D", "C"} \subseteq DOMAIN f /\ f.proc = "function"
      BY <3>2 DEF Frame
    <3>4. QED
      BY <3>1, <3>2, <3>3
  <2>2. CASE Decl(d).kind = "typedef" /\ EnterTypedef(d, t)
    <3>1. PICK f : f = Frame("typedef", d, NULL)
      OBVIOUS
    <3>2. {"proc", "D", "C"} \subseteq DOMAIN f /\ f.proc = "typedef" /\ f.D = d
      BY <3>1 DEF Frame
    <3>3. stack' = <<f>> \o t
      BY <2>2, <3>1 DEF EnterTypedef
    <3>4. QED
      BY <2>2, <3>2, <3>3
  <2>3. QED
    BY <2>1, <2>2
<1>3. Fits(f)'
  BY <1>2 DEF Fits, Traversing, SameNames, Declared, Decl
<1>4. \A k \in 1..Len(t) : Nest(f, t[k])
  BY <1>2, MayVisitOther DEF Traversing
<1>5. QED
  BY <1>1, <1>2, <1>3, <1>4, CallsPushed

(* Whatever is visited, the calls and the store are as they should be.     *)
LEMMA EnterCalls ==
  ASSUME Inv, SameNames, NEW d, NEW t, Calls(t), MayVisit(d, t), Enter(d, t)
  PROVE  StoreKept /\ Calls(stack)'
<1>1. Declared(d)
  BY DEF Enter
<1>2. CASE IsTag(d) /\ EnterTag(d, TRUE, t)
  BY <1>2, EnterTagCalls
<1>3. CASE Decl(d).kind = "var" /\ EnterVar(d, t)
  BY <1>1, <1>3, EnterVarCalls
<1>4. CASE \/ Decl(d).kind = "function" /\ EnterFunction(d, t)
           \/ Decl(d).kind = "typedef" /\ EnterTypedef(d, t)
  <2>1. ~IsTag(d)
    BY <1>4 DEF IsTag
  <2>2. QED
    BY <1>1, <1>4, <2>1, EnterOtherCalls
<1>5. QED
  BY <1>2, <1>3, <1>4 DEF Enter

LEMMA AtLeastTwo == \A n \in Nat : n # 0 => n >= 1 /\ (n = 1 \/ n >= 2)
  OBVIOUS

(* A record without a structure is about nothing that is being traversed   *)
(* nor that it is within: the name of what is traversed begins with that   *)
(* of a record that has one, or of a variable, which is no record's.       *)
LEMMA NewRecord ==
  ASSUME Inv, WellFormed, NamesApart, NEW d, IsTag(d), Decl(d).kind = "record", names[d] # Anonymous,
         ~HasStructure(names[d]), ~Renaming(d),
         NEW g, Fits(g), g.proc = "record"
  PROVE  ~Within(names[g.D], names[d])
<1>1. PICK e : e = g.D
  OBVIOUS
<1>2. /\ d \in DOMAIN names /\ e \in DOMAIN names /\ DOMAIN names = DOMAIN program.decls
      /\ WellNamed(d) /\ WellNamed(e) /\ Decl(e).kind = "record"
      /\ Len(names[e]) >= 2 => Rooted(e)
      /\ names[e] # Anonymous /\ HasStructure(names[e])
  <2>1. Declared(d) /\ Declared(e) /\ Decl(e).kind = "record" /\ names[e] # Anonymous
    BY <1>1 DEF Fits, Traversing, IsTag
  <2>2. HasStructure(names[e])
    BY <1>1 DEF Fits, HasStructure, HasKey
  <2>3. QED
    BY <2>1, <2>2 DEF Inv, NestingInv, Declared
<1>3. SUFFICES ASSUME Within(names[e], names[d]) PROVE FALSE
  BY <1>1
<1>4. PICK x, y : x = names[d] /\ y = names[e]
  OBVIOUS
<1>5. /\ IsSeq(x) /\ IsSeq(y) /\ Len(x) \in Nat /\ Len(y) \in Nat /\ ~(Len(x) >= 2)
      /\ x # <<>> /\ y # <<>> /\ x = Decl(d).name
  BY <1>2, <1>4 DEF WellNamed, IsSeq, Anonymous
<1>6. Len(x) = 1 /\ Len(y) # 0
  <2>1. ASSUME NEW s, IsSeq(s), Len(s) = 0 PROVE s = <<>>
    BY <2>1, SeqOfElements, EmptySeq, SeqEqual
  <2>2. Len(x) # 0 /\ Len(y) # 0
    BY <1>5, <2>1
  <2>3. Len(x) \in Nat /\ ~(Len(x) >= 2)
    BY <1>5
  <2>4. QED
    BY <2>2, <2>3, AtLeastTwo
<1>7. Len(y) >= 1 /\ y[1] = x[1] /\ \A l \in 2..Len(y) : IsAnon(y[l])
  BY <1>3, <1>4, <1>5, <1>6 DEF Within
<1>8. x = <<y[1]>>
  <2>1. x \in Seq(Elements(x)) /\ x[1] \in Elements(x)
    BY <1>5, <1>6, SeqOfElements DEF Elements
  <2>2. <<x[1]>> \in Seq(Elements(x)) /\ Len(<<x[1]>>) = 1 /\ <<x[1]>>[1] = x[1]
    BY <2>1
  <2>3. PICK z : z = <<x[1]>>
    OBVIOUS
  <2>4. x = z
    BY <1>6, <2>1, <2>2, <2>3, SeqEqual
  <2>5. QED
    BY <1>7, <2>3, <2>4
<1>9. CASE Len(y) = 1
  <2>1. y = <<y[1]>>
    BY <1>5, <1>9, SeqOfElements, SeqEqual DEF IsSeq
  <2>2. HasStructure(x)
    BY <1>2, <1>4, <1>8, <2>1
  <2>3. QED
    BY <1>4, <2>2
<1>10. CASE Len(y) # 1
  <2>0. Len(y) \in Nat /\ Len(y) # 0
    BY <1>5, <1>6
  <2>1. Len(y) >= 2
    BY <1>10, <2>0, AtLeastTwo
  <2>2. \/ HasStructure(<<y[1]>>)
        \/ \E v \in DOMAIN program.decls :
             Decl(v).kind = "var" /\ Nests(Decl(v)) /\ Decl(v).name = <<y[1]>>
    BY <1>2, <1>4, <1>7, <2>1 DEF Rooted
  <2>3. ~HasStructure(<<y[1]>>)
    BY <1>4, <1>8
  <2>4. PICK v \in DOMAIN program.decls : Decl(v).kind = "var" /\ Nests(Decl(v)) /\ Decl(v).name = Decl(d).name
    BY <1>5, <1>8, <2>2, <2>3
  <2>5. QED
    BY <1>2, <2>4 DEF NamesApart
<1>11. QED
  BY <1>9, <1>10

-----------------------------------------------------------------------------
(* What a step changes in the frames of calls that go on                   *)

LEMMA SameDomain == ASSUME NEW m \in Nat, NEW n \in Nat, 1..m = 1..n PROVE m = n
<1>1. m # 0 => m \in 1..n
  OBVIOUS
<1>2. n # 0 => n \in 1..m
  OBVIOUS
<1>3. QED
  BY <1>1, <1>2

LEMMA ChangedAt ==
  ASSUME NEW s, Calls(s), NEW n, NEW g, n \in 1..Len(s) => SameCall(s[n], g)
  PROVE  SameCalls(s, [s EXCEPT ![n] = g])
<1>1. IsSeq(s) /\ Len(s) \in Nat /\ s = [k \in 1..Len(s) |-> s[k]]
  BY DEF Calls, IsSeq
<1>2. PICK t : t = [s EXCEPT ![n] = g]
  OBVIOUS
<1>3. IsSeq(t) /\ Len(t) = Len(s) /\ \A k \in 1..Len(s) : t[k] = IF k = n THEN g ELSE s[k]
  <2> DEFINE S == Elements(s) \cup {g}
             m == Len(s)
  <2>1. t = [k \in 1..Len(s) |-> IF k = n THEN g ELSE s[k]]
    BY <1>1, <1>2
  <2>2. \A k \in 1..m : (IF k = n THEN g ELSE s[k]) \in S
    BY DEF Elements
  <2>3. m \in Nat
    BY <1>1
  <2> HIDE DEF S, m
  <2>4. [k \in 1..m |-> IF k = n THEN g ELSE s[k]] \in Seq(S)
    BY <2>2, <2>3, IsASeq
  <2>5. t \in Seq(S)
    BY <2>1, <2>4 DEF m
  <2>6. DOMAIN t = 1..Len(t) /\ DOMAIN t = 1..m /\ Len(t) \in Nat
    BY <2>1, <2>5, LenProperties DEF m
  <2>7. Len(t) = m
    BY <2>3, <2>6, SameDomain
  <2>8. QED
    BY <2>1, <2>5, <2>7, SeqIsSeq DEF m
<1>4. ASSUME NEW k \in 1..Len(s) PROVE SameCall(s[k], t[k])
  <2>1. CASE k = n
    BY <1>3, <2>1
  <2>2. CASE k # n
    BY <1>3, <2>2, FitsSame DEF Calls
  <2>3. QED
    BY <2>1, <2>2
<1>5. SameCalls(s, t)
  BY <1>3, <1>4 DEF SameCalls
<1>6. QED
  BY <1>2, <1>5

LEMMA NonEmpty == ASSUME NEW s, Calls(s), s # <<>> PROVE 1 \in 1..Len(s) /\ Head(s) = s[1] /\ Fits(s[1])
  BY TailCalls

(* stack[1].at                                                             *)
LEMMA AtSame == ASSUME NEW l, Calls(stack) PROVE SameCalls(stack, At(l))
<1>1. PICK g : g = [stack[1] EXCEPT !.at = l]
  OBVIOUS
<1>2. 1 \in 1..Len(stack) => Fits(stack[1])
  BY DEF Calls
<1>3. 1 \in 1..Len(stack) => SameCall(stack[1], g)
  BY <1>1, <1>2 DEF Fits, SameCall, Traversing
<1>4. SameCalls(stack, [stack EXCEPT ![1] = g])
  BY <1>3, ChangedAt
<1>5. At(l) = [stack EXCEPT ![1] = g]
  BY <1>1 DEF At
<1>6. QED
  BY <1>4, <1>5

LEMMA RelatedSame ==
  ASSUME NEW s, Calls(s), NEW n, NEW v PROVE SameCalls(s, [s EXCEPT ![n].related = v])
<1>1. PICK g : g = [s[n] EXCEPT !.related = v]
  OBVIOUS
<1>2. n \in 1..Len(s) => Fits(s[n])
  BY DEF Calls
<1>3. n \in 1..Len(s) => SameCall(s[n], g)
  BY <1>1, <1>2 DEF Fits, SameCall, Traversing
<1>4. SameCalls(s, [s EXCEPT ![n] = g])
  BY <1>3, ChangedAt
<1>5. [s EXCEPT ![n].related = v] = [s EXCEPT ![n] = g]
  BY <1>1
<1>6. QED
  BY <1>4, <1>5

LEMMA NextSame ==
  ASSUME NEW s, Calls(s) PROVE SameCalls(s, [s EXCEPT ![1].i = @ + 1])
<1>1. PICK g : g = [s[1] EXCEPT !.i = @ + 1]
  OBVIOUS
<1>2. 1 \in 1..Len(s) => Fits(s[1])
  BY DEF Calls
<1>3. 1 \in 1..Len(s) => SameCall(s[1], g)
  <2>1. \A i \in Nat \ {0} : i + 1 \in Nat \ {0}
    OBVIOUS
  <2>2. QED
    BY <1>1, <1>2, <2>1 DEF Fits, SameCall, Traversing
<1>4. SameCalls(s, [s EXCEPT ![1] = g])
  BY <1>3, ChangedAt
<1>5. [s EXCEPT ![1].i = @ + 1] = [s EXCEPT ![1] = g]
  BY <1>1
<1>6. QED
  BY <1>4, <1>5

(* ... of any frame, and what else may change in it                        *)
LEMMA HeadSame ==
  ASSUME NEW s, Calls(s), NEW v
  PROVE  /\ SameCalls(s, [s EXCEPT ![1].at = v])
         /\ SameCalls(s, [s EXCEPT ![1].anons = v])
         /\ SameCalls(s, [s EXCEPT ![1].n = v])
         /\ SameCalls(s, [s EXCEPT ![1].k = v])
         /\ SameCalls(s, [s EXCEPT ![1].last = v])
<1>1. PICK a, b, c, d, e :
        /\ a = [s[1] EXCEPT !.at = v] /\ b = [s[1] EXCEPT !.anons = v] /\ c = [s[1] EXCEPT !.n = v]
        /\ d = [s[1] EXCEPT !.k = v] /\ e = [s[1] EXCEPT !.last = v]
  OBVIOUS
<1>2. 1 \in 1..Len(s) => Fits(s[1])
  BY DEF Calls
<1>3. ASSUME NEW g \in {a, b, c, d, e} PROVE 1 \in 1..Len(s) => SameCall(s[1], g)
  BY <1>1, <1>2 DEF Fits, SameCall, Traversing
<1>4. \A g \in {a, b, c, d, e} : SameCalls(s, [s EXCEPT ![1] = g])
  <2>1. SUFFICES ASSUME NEW g \in {a, b, c, d, e} PROVE SameCalls(s, [s EXCEPT ![1] = g])
    OBVIOUS
  <2>2. QED
    BY <1>3, ChangedAt
<1>5. /\ [s EXCEPT ![1].at = v] = [s EXCEPT ![1] = a]
      /\ [s EXCEPT ![1].anons = v] = [s EXCEPT ![1] = b]
      /\ [s EXCEPT ![1].n = v] = [s EXCEPT ![1] = c]
      /\ [s EXCEPT ![1].k = v] = [s EXCEPT ![1] = d]
      /\ [s EXCEPT ![1].last = v] = [s EXCEPT ![1] = e]
  BY <1>1
<1>6. QED
  BY <1>4, <1>5

(* Only the component of a typedef is set after its visitor has begun.     *)
LEMMA ComponentSame ==
  ASSUME NEW s, Calls(s), s[1].proc = "typedef", NEW v PROVE SameCalls(s, [s EXCEPT ![1].C = v])
<1>1. PICK g : g = [s[1] EXCEPT !.C = v]
  OBVIOUS
<1>2. 1 \in 1..Len(s) => Fits(s[1])
  BY DEF Calls
<1>3. 1 \in 1..Len(s) => SameCall(s[1], g)
  BY <1>1, <1>2 DEF Fits, SameCall, Traversing
<1>4. SameCalls(s, [s EXCEPT ![1] = g])
  BY <1>3, ChangedAt
<1>5. [s EXCEPT ![1].C = v] = [s EXCEPT ![1] = g]
  BY <1>1
<1>6. QED
  BY <1>4, <1>5

(* The steps composed of these                                             *)
LEMMA FurtherSame ==
  ASSUME Calls(stack)
  PROVE  /\ SameCalls(stack, NextField) /\ SameCalls(stack, NextParam)
         /\ SameCalls(stack, NextNode) /\ SameCalls(stack, NextElement) /\ SameCalls(stack, NextSub)
<1>1. ASSUME NEW l PROVE SameCalls(stack, [At(l) EXCEPT ![1].i = @ + 1])
  BY AtSame, NextSame, SameKeeps, SameTwice
<1>2. SameCalls(stack, NextNode)
  <2>1. PICK s, v : /\ s = [stack EXCEPT ![1].at = "leave"] /\ v = s[1].n + 1
    OBVIOUS
  <2>2. SameCalls(stack, s) /\ Calls(s)
    BY <2>1, HeadSame, SameKeeps
  <2>3. SameCalls(s, [s EXCEPT ![1].n = v])
    BY <2>2, HeadSame
  <2>4. NextNode = [s EXCEPT ![1].n = v]
    BY <2>1 DEF NextNode
  <2>5. QED
    BY <2>2, <2>3, <2>4, SameTwice
<1>3. SameCalls(stack, NextElement)
  <2>1. PICK s : s = [stack EXCEPT ![1].i = @ + 1]
    OBVIOUS
  <2>2. SameCalls(stack, s) /\ Calls(s)
    BY <2>1, NextSame, SameKeeps
  <2>3. SameCalls(s, [s EXCEPT ![1].k = 1])
    BY <2>2, HeadSame
  <2>4. NextElement = [s EXCEPT ![1].k = 1]
    BY <2>1 DEF NextElement
  <2>5. QED
    BY <2>2, <2>3, <2>4, SameTwice
<1>4. SameCalls(stack, NextSub)
  BY HeadSame DEF NextSub
<1>5. QED
  BY <1>1, <1>2, <1>3, <1>4 DEF NextField, NextParam

-----------------------------------------------------------------------------
(* Steps that rename nothing                                               *)

LEMMA Assembled ==
  ASSUME Inv, phase' = "ast", SameNames, StoreKept, Calls(stack)',
         \A d \in DOMAIN names : Renaming(d) /\ Decl(d).kind = "record" => HasStructure(names[d])'
  PROVE  Inv'
<1>1. StoreFits
  BY DEF Inv, NestingInv
<1>2. \A d : Decl(d)' = Decl(d) /\ names'[d] = names[d]
  BY DEF SameNames, Decl
<1>3. ASSUME NEW d \in DOMAIN names PROVE WellNamed(d)'
  <2>1. WellNamed(d)
    BY DEF Inv, NestingInv
  <2>2. Decl(d).kind = "record" /\ Len(names[d]) >= 2 => HasStructure(names[d])'
    <3>1. HasStructure(names[d]) => HasStructure(names[d])'
      BY <1>1, <1>2, StructureKept DEF HasStructure, HasKey, Matches
    <3>2. QED
      BY <2>1, <3>1 DEF WellNamed
  <2>3. QED
    BY <1>2, <2>1, <2>2 DEF WellNamed
<1>4. ASSUME NEW d \in DOMAIN names, Decl(d).kind = "record", Len(names[d]) >= 2 PROVE Rooted(d)'
  <2>1. Rooted(d)
    BY <1>4 DEF Inv, NestingInv
  <2>2. PICK n : n = <<names[d][1]>>
    OBVIOUS
  <2>3. HasStructure(n) => HasStructure(n)'
    BY <1>1, StructureKept
  <2>4. \A v : Nests(Decl(v))' <=> Nests(Decl(v))
    BY <1>2 DEF SameNames, Nests, IsTag, Declared, Decl
  <2>5. DOMAIN program'.decls = DOMAIN program.decls
    BY DEF SameNames
  <2>6. QED
    BY <1>2, <2>1, <2>2, <2>3, <2>4, <2>5 DEF Rooted
<1>5. QED
  BY <1>2, <1>3, <1>4 DEF Inv, NestingInv, SameNames, StoreKept

(* Returning, or going on with the same calls                              *)
LEMMA Resumes ==
  ASSUME Inv, phase' = "ast", SameNames, UNCHANGED <<heap, allComponents, Components>>,
         Head(stack).proc # "rename", NEW t, Calls(t), stack' = t
  PROVE  Inv'
<1>1. StoreKept
  BY QuietStore DEF Inv, NestingInv
<1>2. \A d : ~Renaming(d)
  BY DEF Renaming
<1>3. QED
  BY <1>1, <1>2, CallsResumed, Assembled

(* There is a record among the calls only if one is innermost, or about to *)
(* be visited, or an enum is.                                              *)
LEMMA NoRecords ==
  ASSUME Calls(stack), stack # <<>>, stack[1].proc \notin Traversing \cup {"enum"}, NEW k \in 1..Len(stack)
  PROVE  stack[k].proc \notin Traversing \cup {"enum"}
<1>1. CASE k = 1
  BY <1>1
<1>2. CASE k # 1
  <2>1. 1 \in 1..k-1
    BY <1>2 DEF Calls, IsSeq
  <2>2. Nest(stack[1], stack[k])
    BY <2>1 DEF Calls
  <2>3. QED
    BY <2>2 DEF Nest, Traversing
<1>3. QED
  BY <1>1, <1>2

(* A traversal that visits no record itself is begun.                      *)
LEMMA PlainPush ==
  ASSUME Inv, phase' = "ast", SameNames, UNCHANGED <<heap, allComponents, Components>>,
         stack # <<>>, Head(stack).proc # "rename",
         NEW t, Calls(t), \A k \in 1..Len(t) : t[k].proc \notin Traversing \cup {"enum"},
         NEW f, {"proc", "D", "C"} \subseteq DOMAIN f, f.proc \in {"stmt", "params", "init"},
         stack' = <<f>> \o t
  PROVE  Inv'
<1>1. StoreKept
  BY QuietStore DEF Inv, NestingInv
<1>2. Fits(f)'
  BY DEF Fits, Traversing
<1>3. \A k \in 1..Len(t) : Nest(f, t[k])
  BY DEF Nest, Traversing
<1>4. Calls(stack)'
  BY <1>1, <1>2, <1>3, CallsPushed
<1>5. \A d : ~Renaming(d)
  BY DEF Renaming
<1>6. QED
  BY <1>1, <1>4, <1>5, Assembled

(* A type that has no structure yet may be visited on the way.             *)
LEMMA DiscoverKeeps ==
  ASSUME Inv, phase' = "ast", program' = program, stack # <<>>, Head(stack).proc \notin {"rename", "enum"},
         NEW t, Head(stack).proc = "record" /\ t # 0 => IsTag(t), DiscoverVisits(t)
  PROVE  Inv'
<1>0. SameNames /\ Calls(stack) /\ StoreFits /\ WellFormed
  BY ProgramFits DEF Inv, NestingInv, SameNames, DiscoverVisits
<1>1. PICK s : s = At("retry")
  OBVIOUS
<1>2. SameCalls(stack, s) /\ Calls(s)
  BY <1>0, <1>1, AtSame, SameKeeps
<1>3. Enter(t, s) /\ t # 0 /\ Structure(t) = NULL
  BY <1>1 DEF DiscoverVisits, Undiscovered
<1>4. Head(stack) = stack[1] /\ 1 \in 1..Len(stack)
  BY <1>0, NonEmpty
<1>5. \A d : ~Renaming(d)
  BY DEF Renaming
<1>6. ASSUME NEW k \in 1..Len(s), s[k].proc = "record", NamesApart, Decl(t).kind = "record",
             names[t] # Anonymous, IsTag(t)
      PROVE  ~Within(names[s[k].D], names[t])
  <2>1. ~HasStructure(names[t])
    BY <1>0, <1>3, <1>6, StructureFound DEF Structure, ModelType
  <2>2. Fits(s[k])
    BY <1>2 DEF Calls
  <2>3. QED
    BY <1>0, <1>5, <1>6, <2>1, <2>2, NewRecord
<1>7. ASSUME NEW k \in 1..Len(s)
      PROVE  s[k].proc \notin {"rename", "enum"} /\ (s[k].proc = "record" => IsTag(t))
  <2>1. k \in 1..Len(stack) /\ s[k].proc = stack[k].proc
    BY <1>2 DEF SameCalls, SameCall
  <2>2. CASE stack[1].proc = "record"
    <3>1. CASE k = 1
      BY <1>3, <1>4, <2>1, <2>2, <3>1
    <3>2. CASE k # 1
      <4>1. 1 \in 1..k-1
        BY <2>1, <3>2 DEF Calls, IsSeq
      <4>2. Nest(stack[1], stack[k])
        BY <1>0, <2>1, <4>1 DEF Calls
      <4>3. QED
        BY <1>3, <1>4, <2>1, <2>2, <4>2 DEF Nest
    <3>3. QED
      BY <3>1, <3>2
  <2>3. CASE stack[1].proc # "record"
    BY <1>0, <1>4, <2>1, <2>3, NoRecords DEF Traversing
  <2>4. QED
    BY <2>2, <2>3
<1>8. MayVisit(t, s)
  BY <1>6, <1>7 DEF MayVisit
<1>9. StoreKept /\ Calls(stack)'
  BY <1>0, <1>2, <1>3, <1>8, EnterCalls
<1>10. QED
  BY <1>0, <1>5, <1>9, Assembled

-----------------------------------------------------------------------------
(* Renaming an anonymous type                                              *)

LEMMA Appended ==
  ASSUME NEW x, IsSeq(x), NEW a
  PROVE  /\ IsSeq(Append(x, a)) /\ Len(Append(x, a)) = Len(x) + 1 /\ Append(x, a)[Len(x) + 1] = a
         /\ \A l \in 1..Len(x) : Append(x, a)[l] = x[l]
<1> DEFINE S == Elements(x) \cup {a}
<1>1. x \in Seq(S) /\ a \in S
  BY SeqOfElements, SeqMonotonic
<1> HIDE DEF S
<1>2. PICK y : y = Append(x, a)
  OBVIOUS
<1>3. y \in Seq(S) /\ Len(y) = Len(x) + 1
  BY <1>1, <1>2
<1>4. y[Len(x) + 1] = a /\ \A l \in 1..Len(x) : y[l] = x[l]
  BY <1>1, <1>2
<1>5. QED
  BY <1>2, <1>3, <1>4, SeqIsSeq

(* What is within a name with one more ::anon is within that name.         *)
LEMMA WithinLonger ==
  ASSUME NEW x, IsSeq(x), NEW a, IsAnon(a), NEW y, IsSeq(y), Within(y, Append(x, a))
  PROVE  Within(y, x)
<1>1. PICK z : z = Append(x, a)
  OBVIOUS
<1>2. /\ Len(z) = Len(x) + 1 /\ z[Len(x) + 1] = a /\ Len(x) \in Nat /\ Len(y) \in Nat
      /\ \A l \in 1..Len(x) : z[l] = x[l]
  BY <1>1, Appended DEF IsSeq
<1>3. /\ Len(z) <= Len(y) /\ \A l \in 1..Len(z) : y[l] = z[l]
      /\ \A l \in Len(z) + 1..Len(y) : IsAnon(y[l])
  BY <1>1 DEF Within
<1>4. ASSUME NEW l \in Len(x) + 1..Len(y) PROVE IsAnon(y[l])
  <2>1. l = Len(x) + 1 => y[l] = a
    BY <1>2, <1>3
  <2>2. l # Len(x) + 1 => l \in Len(z) + 1..Len(y)
    BY <1>2, <1>4
  <2>3. QED
    BY <1>3, <2>1, <2>2
<1>5. Len(x) <= Len(y) /\ \A l \in 1..Len(x) : y[l] = x[l]
  BY <1>2, <1>3
<1>6. QED
  BY <1>4, <1>5 DEF Within

LEMMA NeverLonger == ASSUME NEW x, IsSeq(x), NEW a PROVE ~Within(x, Append(x, a))
<1>1. PICK z : z = Append(x, a)
  OBVIOUS
<1>2. Len(z) = Len(x) + 1 /\ Len(x) \in Nat
  BY <1>1, Appended DEF IsSeq
<1>3. QED
  BY <1>1, <1>2 DEF Within

(* The visitor that renames type t to n goes on to visit it.               *)
LEMMA Renames ==
  ASSUME Inv, WellFormed, phase' = "ast", program' = program, UNCHANGED <<heap, allComponents, Components>>,
         stack # <<>>, Head(stack).proc # "rename",
         \A k \in 1..Len(stack) : stack[k].proc \notin {"rename", "enum"},
         NEW t, NeedsName(t), NEW n, IsSeq(n), Len(n) >= 2, Rename(t, n),
         \A k \in 1..Len(stack) : NamesApart /\ stack[k].proc = "record" => ~Within(names[stack[k].D], n),
         Decl(t).kind = "record" /\ (\A l \in 2..Len(n) : IsAnon(n[l])) =>
           \/ HasStructure(<<n[1]>>)
           \/ \E v \in DOMAIN program.decls :
                Decl(v).kind = "var" /\ Nests(Decl(v)) /\ Decl(v).name = <<n[1]>>,
         NEW s, SameCalls(stack, s),
         NEW f, {"proc", "D", "C"} \subseteq DOMAIN f, f.proc = "rename", f.D = t,
         stack' = <<f>> \o s
  PROVE  Inv'
<1>1. /\ StoreFits /\ Calls(stack) /\ DOMAIN names = DOMAIN program.decls /\ IsTag(t)
      /\ t \in DOMAIN names /\ names[t] = Anonymous
  BY DEF Inv, NestingInv, NeedsName, IsTag, Declared
<1>2. /\ DOMAIN names' = DOMAIN names /\ names'[t] = n
      /\ \A d \in DOMAIN names : d # t => names'[d] = names[d]
  BY <1>1 DEF Rename
<1>3. NamesKept
  BY <1>1, <1>2 DEF NamesKept
<1>4. StoreKept
  BY <1>1, QuietStore
<1>5. Calls(s) /\ Calls(s)'
  BY <1>1, <1>3, <1>4, CallsKept, SameKeeps
<1>6. n # <<>>
  BY EmptyIsSeq
<1>7. \A d : /\ Decl(d)' = Decl(d) /\ (IsTag(d)' <=> IsTag(d)) /\ (Nests(Decl(d))' <=> Nests(Decl(d)))
  BY DEF Decl, IsTag, Nests, Declared
<1>8. Fits(f)'
  BY <1>1, <1>2, <1>6, <1>7 DEF Fits, Traversing, Anonymous
<1>9. ASSUME NEW k \in 1..Len(s) PROVE Nest(f, s[k])'
  <2>1. /\ k \in 1..Len(stack) /\ s[k].proc = stack[k].proc /\ s[k].D = stack[k].D
        /\ Fits(stack[k])
    BY <1>1 DEF SameCalls, SameCall, Calls
  <2>2. s[k].proc \notin {"rename", "enum"}
    BY <2>1
  <2>3. NamesApart' <=> NamesApart
    BY <1>7 DEF NamesApart
  <2>4. s[k].proc = "record" => names'[s[k].D] = names[s[k].D]
    BY <1>1, <1>3, <2>1 DEF NamesKept, Fits, Traversing, IsTag, Declared
  <2>5. NamesApart /\ s[k].proc = "record" => ~Within(names[s[k].D], n)
    BY <2>1
  <2>6. QED
    BY <1>2, <2>2, <2>3, <2>4, <2>5 DEF Nest, Traversing
<1>10. Calls(stack)'
  BY <1>5, <1>8, <1>9, CallsOnTop
<1>11. Renaming(t)'
  <2>1. PICK u : u = <<f>> \o s
    OBVIOUS
  <2>2. IsSeq(u) /\ u[1] = f /\ Len(u) = Len(s) + 1 /\ Len(s) \in Nat
    BY <1>5, <2>1, Pushed DEF Calls, IsSeq
  <2>3. Len(u) # 0
    BY <2>2
  <2>4. u # <<>>
    BY <2>3, EmptyIsSeq
  <2>5. Head(u) = f
    BY <2>2, <2>4, Popped
  <2>6. QED
    BY <2>1, <2>4, <2>5 DEF Renaming
<1>12. \A d : HasStructure(names[d])' <=> HasKey(Stored, "struct", names'[d])
  BY DEF HasStructure, HasKey, Matches, Stored
<1>13. ASSUME NEW d \in DOMAIN names PROVE WellNamed(d)'
  <2>1. WellNamed(d)
    BY DEF Inv, NestingInv
  <2>2. CASE d = t
    <3>1. Decl(t).name = Anonymous
      BY <1>1, <2>1, <2>2, EmptyIsSeq DEF WellNamed, Anonymous
    <3>2. QED
      BY <1>2, <1>7, <1>11, <2>2, <3>1 DEF WellNamed
  <2>3. CASE d # t
    <3>1. ~Renaming(d)
      BY DEF Renaming
    <3>2. HasStructure(names[d]) => HasStructure(names[d])'
      BY <1>2, <1>12, <2>3 DEF HasStructure, Stored
    <3>3. QED
      BY <1>2, <1>7, <2>1, <2>3, <3>1, <3>2 DEF WellNamed
  <2>4. QED
    BY <2>2, <2>3
<1>14. ASSUME NEW d \in DOMAIN names, Decl(d).kind = "record", Len(names'[d]) >= 2 PROVE Rooted(d)'
  <2>1. PICK r : r = <<names'[d][1]>>
    OBVIOUS
  <2>2. HasStructure(r)' <=> HasStructure(r)
    BY DEF HasStructure, HasKey, Matches
  <2>3. CASE d = t
    BY <1>2, <1>7, <1>14, <2>1, <2>2, <2>3 DEF Rooted
  <2>4. CASE d # t
    <3>1. Rooted(d)
      BY <1>2, <1>14, <2>4 DEF Inv, NestingInv
    <3>2. QED
      BY <1>2, <1>7, <2>1, <2>2, <2>4, <3>1 DEF Rooted
  <2>5. QED
    BY <2>3, <2>4
<1>15. QED
  BY <1>2, <1>4, <1>7, <1>10, <1>13, <1>14 DEF Inv, NestingInv, StoreKept

(* A call is in progress only while a unit is visited.                     *)
LEMMA Visiting ==
  ASSUME Inv, stack # <<>>, UNCHANGED Unit
  PROVE  /\ phase' = "ast" /\ program' = program /\ WellFormed
         /\ Calls(stack) /\ 1 \in 1..Len(stack) /\ Head(stack) = stack[1] /\ Fits(stack[1])
<1>1. WellFormed /\ Calls(stack)
  BY ProgramFits DEF Inv, NestingInv
<1>2. phase' = "ast" /\ program' = program
  BY DEF Inv, NestingInv, Unit, clangVars
<1>3. QED
  BY <1>1, <1>2, NonEmpty

(* Inside a record there are only records around it.                       *)
LEMMA InRecord ==
  ASSUME Calls(stack), stack # <<>>, stack[1].proc = "record", NEW k \in 1..Len(stack)
  PROVE  stack[k].proc \notin {"rename", "enum"}
<1>1. CASE k = 1
  BY <1>1
<1>2. CASE k # 1
  <2>1. 1 \in 1..k-1
    BY <1>2 DEF Calls, IsSeq
  <2>2. Nest(stack[1], stack[k])
    BY <2>1 DEF Calls
  <2>3. QED
    BY <2>2 DEF Nest
<1>3. QED
  BY <1>1, <1>2

LEMMA AnonIsAnon == ASSUME NEW k PROVE IsAnon(Anon(k))
  BY DEF IsAnon, Anon

LEMMA FieldAnonymousKeeps == ASSUME Inv, FieldAnonymous, UNCHANGED Unit PROVE Inv'
<1>1. stack # <<>> /\ Head(stack).proc = "record"
  BY DEF FieldAnonymous, InField, Running
<1>2. /\ phase' = "ast" /\ program' = program /\ WellFormed
      /\ Calls(stack) /\ 1 \in 1..Len(stack) /\ Head(stack) = stack[1] /\ Fits(stack[1])
  BY <1>1, Visiting
<1>3. PICK g, t, x, a, n, s, f :
        /\ g = stack[1] /\ t = Field.type /\ x = names[g.D] /\ a = Anon(g.anons) /\ n = Append(x, a)
        /\ s = At("adopt") /\ f = Frame("rename", t, NULL)
  OBVIOUS
<1>4. /\ IsTag(g.D) /\ Decl(g.D).kind = "record" /\ x # Anonymous
      /\ heap[g.C].id = x /\ HasStructure(x)
  BY <1>1, <1>2, <1>3 DEF Fits, Traversing, Matches, HasStructure, HasKey
<1>5. g.D \in DOMAIN names /\ WellNamed(g.D) /\ (Len(x) >= 2 => Rooted(g.D))
  BY <1>3, <1>4 DEF Inv, NestingInv, IsTag, Declared
<1>6. NeedsName(t) /\ Rename(t, n) /\ stack' = <<f>> \o s
  BY <1>2, <1>3, <1>4 DEF FieldAnonymous
<1>7. IsSeq(x) /\ IsAnon(a)
  BY <1>3, <1>5, AnonIsAnon DEF WellNamed
<1>8. Len(x) \in Nat /\ Len(x) # 0
  BY <1>4, <1>7, SeqOfElements, EmptySeq, SeqEqual DEF IsSeq, Anonymous
<1>9. IsSeq(n) /\ Len(n) = Len(x) + 1 /\ \A l \in 1..Len(x) : n[l] = x[l]
  BY <1>3, <1>7, Appended
<1>10. Len(n) >= 2 /\ n[1] = x[1]
  BY <1>8, <1>9
<1>11. \A k \in 1..Len(stack) : stack[k].proc \notin {"rename", "enum"}
  BY <1>1, <1>2, InRecord
<1>12. ASSUME NEW k \in 1..Len(stack), NamesApart, stack[k].proc = "record"
       PROVE  ~Within(names[stack[k].D], n)
  <2>1. CASE k = 1
    BY <1>3, <1>7, <2>1, NeverLonger
  <2>2. CASE k # 1
    <3>1. 1 \in 1..k-1
      BY <2>2 DEF Calls, IsSeq
    <3>2. Nest(stack[1], stack[k]) /\ Fits(stack[k])
      BY <1>2, <3>1 DEF Calls
    <3>3. ~Within(names[stack[k].D], x)
      BY <1>1, <1>2, <1>3, <1>12, <3>2 DEF Nest, Traversing
    <3>4. IsSeq(names[stack[k].D])
      <4>1. stack[k].D \in DOMAIN names
        BY <1>12, <3>2 DEF Fits, Traversing, IsTag, Declared, Inv, NestingInv
      <4>2. QED
        BY <4>1 DEF Inv, NestingInv, WellNamed
    <3>5. QED
      BY <1>3, <1>7, <3>3, <3>4, WithinLonger
  <2>3. QED
    BY <2>1, <2>2
<1>13. ASSUME \A l \in 2..Len(n) : IsAnon(n[l])
       PROVE  \/ HasStructure(<<n[1]>>)
              \/ \E v \in DOMAIN program.decls :
                   Decl(v).kind = "var" /\ Nests(Decl(v)) /\ Decl(v).name = <<n[1]>>
  <2>1. CASE Len(x) = 1
    <3>1. x = <<x[1]>>
      BY <1>7, <2>1, SeqOfElements, SeqEqual DEF IsSeq
    <3>2. QED
      BY <1>4, <1>10, <3>1
  <2>2. CASE Len(x) # 1
    <3>1. Len(x) >= 2
      BY <1>8, <2>2, AtLeastTwo
    <3>2. \A l \in 2..Len(x) : IsAnon(x[l])
      BY <1>9, <1>13
    <3>3. QED
      BY <1>3, <1>5, <1>10, <3>1, <3>2 DEF Rooted
  <2>3. QED
    BY <2>1, <2>2
<1>14. SameCalls(stack, s)
  BY <1>2, <1>3, AtSame
<1>15. {"proc", "D", "C"} \subseteq DOMAIN f /\ f.proc = "rename" /\ f.D = t
  BY <1>3 DEF Frame
<1>16. UNCHANGED <<heap, allComponents, Components>>
  BY DEF FieldAnonymous, Bound
<1>17. QED
  BY <1>1, <1>2, <1>6, <1>9, <1>10, <1>11, <1>12, <1>13, <1>14, <1>15, <1>16, Renames

(* A name that is declared is one word.                                    *)
LEMMA OneWord ==
  ASSUME WellFormed, NEW d, Declared(d), Decl(d).kind \notin {"record", "enum"}
  PROVE  IsSeq(Decl(d).name) /\ Len(Decl(d).name) = 1 /\ Decl(d).name = <<Decl(d).name[1]>>
<1>1. PICK x : x = Decl(d).name
  OBVIOUS
<1>2. x \in Seq(STRING) /\ Len(x) <= 1 /\ x # <<>>
  BY <1>1 DEF WellFormed, Declared, Anonymous
<1>3. Len(x) = 1
  <2>1. Len(x) \in Nat
    BY <1>2, LenProperties
  <2>2. Len(x) # 0
    BY <1>2, EmptySeq
  <2>3. QED
    BY <1>2, <2>1, <2>2
<1>4. x = <<x[1]>>
  BY <1>2, <1>3
<1>5. QED
  BY <1>1, <1>2, <1>3, <1>4, SeqIsSeq

(* ... of a variable or a typedef                                          *)
LEMMA OuterRenames ==
  ASSUME Inv, stack # <<>>, Head(stack).proc \in {"var", "typedef"}, UNCHANGED Unit,
         UNCHANGED <<heap, allComponents, Components>>,
         NEW t, t = Decl(Head(stack).D).type, NeedsName(t),
         NEW a, IsAnon(a) => Head(stack).proc = "var",
         Rename(t, Append(Decl(Head(stack).D).name, a)),
         NEW l, stack' = <<[Frame("rename", t, NULL) EXCEPT !.top = TRUE]>> \o At(l)
  PROVE  Inv'
<1>2. /\ phase' = "ast" /\ program' = program /\ WellFormed
      /\ Calls(stack) /\ 1 \in 1..Len(stack) /\ Head(stack) = stack[1] /\ Fits(stack[1])
  BY Visiting
<1>3. PICK d, x, n, s, f :
        /\ d = stack[1].D /\ x = Decl(d).name /\ n = Append(x, a)
        /\ s = At(l) /\ f = [Frame("rename", t, NULL) EXCEPT !.top = TRUE]
  OBVIOUS
<1>4. Declared(d) /\ Decl(d).kind = stack[1].proc
  BY <1>2, <1>3 DEF Fits
<1>5. IsSeq(x) /\ Len(x) = 1 /\ x = <<x[1]>>
  BY <1>2, <1>3, <1>4, OneWord
<1>6. IsSeq(n) /\ Len(n) = 2 /\ n[1] = x[1] /\ n[2] = a
  BY <1>3, <1>5, Appended
<1>7. \A k \in 1..Len(stack) : stack[k].proc \notin Traversing \cup {"enum"}
  BY <1>2, NoRecords DEF Traversing
<1>8. Nests(Decl(d))
  <2>1. WellNamed(t)
    BY DEF Inv, NestingInv, NeedsName, IsTag, Declared
  <2>2. Decl(t).name = Anonymous
    BY <2>1, EmptyIsSeq DEF WellNamed, NeedsName, Anonymous
  <2>3. QED
    BY <1>2, <1>3, <2>2 DEF Nests, NeedsName
<1>9. ASSUME \A k \in 2..Len(n) : IsAnon(n[k])
      PROVE  \E v \in DOMAIN program.decls :
               Decl(v).kind = "var" /\ Nests(Decl(v)) /\ Decl(v).name = <<n[1]>>
  <2>1. IsAnon(a)
    BY <1>6, <1>9
  <2>2. QED
    BY <1>2, <1>3, <1>4, <1>5, <1>6, <1>8, <2>1 DEF Declared
<1>10. SameCalls(stack, s)
  BY <1>2, <1>3, AtSame
<1>11. {"proc", "D", "C"} \subseteq DOMAIN f /\ f.proc = "rename" /\ f.D = t
  BY <1>3 DEF Frame
<1>12. Rename(t, n) /\ stack' = <<f>> \o s
  BY <1>2, <1>3
<1>13. Len(n) >= 2
  BY <1>6
<1>14. \A k \in 1..Len(stack) : stack[k].proc \notin {"rename", "enum"} /\ stack[k].proc # "record"
  BY <1>7 DEF Traversing
<1>15. Head(stack).proc # "rename"
  OBVIOUS
<1>16. QED
  BY <1>2, <1>6, <1>9, <1>10, <1>11, <1>12, <1>13, <1>14, <1>15, Renames

LEMMA VarAnonymousKeeps == ASSUME Inv, VarAnonymous, UNCHANGED Unit PROVE Inv'
<1>1. stack # <<>> /\ Head(stack).proc = "var" /\ UNCHANGED <<heap, allComponents, Components>>
  BY DEF VarAnonymous, Running, Bound
<1>2. heap[Head(stack).C].id = Decl(Head(stack).D).name
  BY <1>1, Visiting DEF Fits
<1>3. PICK t, a : t = Decl(Head(stack).D).type /\ a = Anon(0)
  OBVIOUS
<1>4. /\ NeedsName(t) /\ Rename(t, Append(Decl(Head(stack).D).name, a))
      /\ stack' = <<[Frame("rename", t, NULL) EXCEPT !.top = TRUE]>> \o At("adopt")
  BY <1>2, <1>3 DEF VarAnonymous
<1>5. QED
  BY <1>1, <1>3, <1>4, OuterRenames

LEMMA TypedefAnonymousKeeps == ASSUME Inv, TypedefAnonymous, UNCHANGED Unit PROVE Inv'
<1>1. stack # <<>> /\ Head(stack).proc = "typedef" /\ UNCHANGED <<heap, allComponents, Components>>
  BY DEF TypedefAnonymous, Running, Bound
<1>2. PICK t, a : t = Decl(Head(stack).D).type /\ a = OfTypedef
  OBVIOUS
<1>3. /\ NeedsName(t) /\ Rename(t, Append(Decl(Head(stack).D).name, a))
      /\ stack' = <<[Frame("rename", t, NULL) EXCEPT !.top = TRUE]>> \o At("bind")
  BY <1>2 DEF TypedefAnonymous
<1>4. ~IsAnon(a)
  BY <1>2 DEF IsAnon, OfTypedef
<1>5. QED
  BY <1>1, <1>2, <1>3, <1>4, OuterRenames

LEMMA RenamedKeeps == ASSUME Inv, Renamed, UNCHANGED Unit PROVE Inv'
<1>1. stack # <<>> /\ Head(stack).proc = "rename" /\ names' = names
  BY DEF Renamed, Running
<1>2. /\ phase' = "ast" /\ program' = program /\ WellFormed
      /\ Calls(stack) /\ 1 \in 1..Len(stack) /\ Head(stack) = stack[1] /\ Fits(stack[1])
  BY <1>1, Visiting
<1>3. SameNames
  BY <1>1, <1>2 DEF SameNames
<1>4. PICK d, top, t : d = stack[1].D /\ top = stack[1].top /\ t = Tail(stack)
  OBVIOUS
<1>5. IsTag(d) /\ names[d] # Anonymous
  BY <1>1, <1>2, <1>4 DEF Fits, Traversing
<1>6. Calls(t) /\ \A k \in 1..Len(t) : Nest(stack[1], t[k])
  BY <1>1, <1>2, <1>4, TailCalls
<1>7. MayVisit(d, t)
  BY <1>1, <1>2, <1>4, <1>5, <1>6 DEF MayVisit, Nest, Traversing
<1>8. EnterTag(d, top, t)
  BY <1>2, <1>4 DEF Renamed
<1>9. /\ StoreKept /\ Calls(stack)'
      /\ Decl(d).kind = "record" /\ names[d] # Anonymous => HasStructure(names[d])'
  BY <1>3, <1>5, <1>6, <1>7, <1>8, EnterTagCalls
<1>10. \A e : Renaming(e) => e = d
  BY <1>2, <1>4 DEF Renaming
<1>11. \A e \in DOMAIN names : Renaming(e) /\ Decl(e).kind = "record" => HasStructure(names[e])'
  BY <1>5, <1>9, <1>10
<1>12. QED
  BY <1>2, <1>3, <1>9, <1>11, Assembled

-----------------------------------------------------------------------------
(* The other steps of the visitors                                         *)

(* One that leaves the innermost calls as they are, or returns, or aborts  *)
LEMMA GoesOn ==
  ASSUME Inv, stack # <<>>, Head(stack).proc # "rename", UNCHANGED Unit, names' = names,
         UNCHANGED <<heap, allComponents, Components>>,
         NEW s, SameCalls(stack, s), stack' \in {s, Tail(stack), <<>>}
  PROVE  Inv'
<1>1. phase' = "ast" /\ program' = program /\ Calls(stack)
  BY Visiting
<1>2. SameNames
  BY <1>1 DEF SameNames
<1>3. Calls(s)
  BY <1>1, SameKeeps
<1>4. Calls(Tail(stack))
  BY <1>1, TailCalls
<1>5. Calls(<<>>)
  BY EmptyIsSeq DEF Calls
<1>6. PICK t : t = stack'
  OBVIOUS
<1>7. Calls(t)
  BY <1>3, <1>4, <1>5, <1>6
<1>8. QED
  BY <1>1, <1>2, <1>6, <1>7, Resumes

LEMMA FieldAdoptKeeps == ASSUME Inv, FieldAdopt, UNCHANGED Unit PROVE Inv'
<1>1. stack # <<>> /\ Head(stack).proc = "record"
  BY DEF FieldAdopt, InField, Running
<1>2. Calls(stack)
  BY <1>1, Visiting
<1>3. PICK s, v, t : /\ s = [stack EXCEPT ![1].at = "field"] /\ v = s[1].anons + 1
                     /\ t = [s EXCEPT ![1].anons = v]
  OBVIOUS
<1>4. SameCalls(stack, s) /\ Calls(s)
  BY <1>2, <1>3, HeadSame, SameKeeps
<1>5. SameCalls(stack, t)
  BY <1>3, <1>4, HeadSame, SameTwice
<1>6. [stack EXCEPT ![1].at = "field", ![1].anons = @ + 1] = t
  BY <1>3
<1>7. stack' \in {t, <<>>} /\ UNCHANGED <<heap, allComponents, Components, names>>
  BY <1>6 DEF FieldAdopt, Abort
<1>8. QED
  BY <1>1, <1>5, <1>7, GoesOn

LEMMA FieldPushKeeps == ASSUME Inv, FieldPush, UNCHANGED Unit PROVE Inv'
<1>1. stack # <<>> /\ Head(stack).proc = "record"
  BY DEF FieldPush, InField, Running
<1>2. Calls(stack)
  BY <1>1, Visiting
<1>3. PICK s, n, v, t : /\ s = At("type") /\ n = Owner /\ v = {l \in stack[n].related : l > Field.to}
                        /\ t = [s EXCEPT ![n].related = v]
  OBVIOUS
<1>4. SameCalls(stack, s) /\ Calls(s)
  BY <1>2, <1>3, AtSame, SameKeeps
<1>5. SameCalls(stack, t)
  BY <1>3, <1>4, RelatedSame, SameTwice
<1>6. stack' = t /\ UNCHANGED <<heap, allComponents, Components, names>>
  BY <1>3 DEF FieldPush, Bound
<1>7. QED
  BY <1>1, <1>5, <1>6, GoesOn

LEMMA FieldTypeKeeps == ASSUME Inv, FieldType, UNCHANGED Unit PROVE Inv'
<1>1. stack # <<>> /\ Head(stack).proc = "record" /\ Head(stack).i <= Len(Decl(Head(stack).D).fields)
  BY DEF FieldType, InField, Running
<1>2. /\ phase' = "ast" /\ program' = program /\ WellFormed
      /\ Calls(stack) /\ Head(stack) = stack[1] /\ Fits(stack[1])
  BY <1>1, Visiting
<1>3. PICK t : t = Field.type
  OBVIOUS
<1>4. CASE DiscoverVisits(t)
  <2>1. PICK d, i, fs : d = stack[1].D /\ i = stack[1].i /\ fs = Decl(d).fields
    OBVIOUS
  <2>2. Declared(d) /\ i \in Nat \ {0} /\ i <= Len(fs) /\ IsSeq(fs)
    BY <1>1, <1>2, <2>1 DEF Fits, Traversing, IsTag, WellFormed, Declared
  <2>3. i \in 1..Len(fs) /\ fs = [k \in 1..Len(fs) |-> fs[k]]
    BY <2>2 DEF IsSeq
  <2>4. fs[i] \in Range(fs)
    BY <2>3 DEF Range
  <2>5. t = fs[i].type
    BY <1>2, <1>3, <2>1 DEF Field
  <2>6. t # 0 => Decl(t).kind \in {"record", "enum"}
    BY <1>2, <2>1, <2>2, <2>4, <2>5 DEF WellFormed, Declared, IsTag
  <2>7. Declared(t)
    BY <1>4 DEF DiscoverVisits, Enter
  <2>8. QED
    BY <1>1, <1>2, <1>4, <2>6, <2>7, DiscoverKeeps DEF IsTag
<1>5. CASE \/ DiscoverRefers(t, <<"field", Head(stack).i>>, NextField)
           \/ DiscoverFails(t, Abort)
  <2>1. /\ UNCHANGED <<heap, allComponents, Components, names>>
        /\ stack' \in {NextField, <<>>}
    BY <1>5 DEF DiscoverRefers, DiscoverFails, Abort, Bound
  <2>2. SameCalls(stack, NextField)
    BY <1>2, FurtherSame
  <2>3. QED
    BY <1>1, <2>1, <2>2, GoesOn
<1>6. QED
  BY <1>3, <1>4, <1>5 DEF FieldType

LEMMA RecordEndsKeeps == ASSUME Inv, RecordEnds, UNCHANGED Unit PROVE Inv'
<1>1. stack # <<>> /\ Head(stack).proc = "record"
  BY DEF RecordEnds, Running
<1>2. SameCalls(stack, stack)
  BY <1>1, Visiting, SameSelf
<1>3. stack' \in {Tail(stack), <<>>} /\ UNCHANGED <<heap, allComponents, Components, names>>
  BY DEF RecordEnds, Abort, Bound
<1>4. QED
  BY <1>1, <1>2, <1>3, GoesOn

LEMMA EnumNextKeeps == ASSUME Inv, EnumNext, UNCHANGED Unit PROVE Inv'
<1>1. stack # <<>> /\ Head(stack).proc = "enum" /\ names' = names
  BY DEF EnumNext, Running
<1>2. phase' = "ast" /\ program' = program /\ Calls(stack) /\ StoreFits
  BY <1>1, Visiting DEF Inv, NestingInv
<1>3. PICK t : t = [stack EXCEPT ![1].i = @ + 1]
  OBVIOUS
<1>4. Calls(t)
  BY <1>2, <1>3, NextSame, SameKeeps
<1>5. StoreKept
  <2>1. CASE UNCHANGED Bound
    BY <1>2, <2>1, QuietStore DEF Bound
  <2>2. ASSUME NEW e, BindNew("enumval", e, FALSE) PROVE StoreKept
    BY <1>2, <2>2, BindKeeps DEF BindNew
  <2>3. QED
    BY <2>1, <2>2 DEF EnumNext
<1>6. SameNames /\ stack' = t
  BY <1>1, <1>2, <1>3 DEF SameNames, EnumNext
<1>7. Calls(stack)'
  BY <1>4, <1>5, <1>6, CallsResumed
<1>8. \A d : ~Renaming(d)
  BY <1>1 DEF Renaming
<1>9. QED
  BY <1>2, <1>5, <1>6, <1>7, <1>8, Assembled

LEMMA EnumEndsKeeps == ASSUME Inv, EnumEnds, UNCHANGED Unit PROVE Inv'
<1>1. stack # <<>> /\ Head(stack).proc = "enum"
  BY DEF EnumEnds, Running
<1>2. SameCalls(stack, stack)
  BY <1>1, Visiting, SameSelf
<1>3. stack' = Tail(stack) /\ UNCHANGED <<heap, allComponents, Components, names>>
  BY DEF EnumEnds, Bound
<1>4. QED
  BY <1>1, <1>2, <1>3, GoesOn

LEMMA VarAdoptKeeps == ASSUME Inv, VarAdopt, UNCHANGED Unit PROVE Inv'
<1>1. stack # <<>> /\ Head(stack).proc = "var"
  BY DEF VarAdopt, Running
<1>2. PICK s : s = At("macros")
  OBVIOUS
<1>3. SameCalls(stack, s)
  BY <1>1, <1>2, Visiting, AtSame
<1>4. stack' \in {s, <<>>} /\ UNCHANGED <<heap, allComponents, Components, names>>
  BY <1>2 DEF VarAdopt, Abort
<1>5. QED
  BY <1>1, <1>3, <1>4, GoesOn

LEMMA VarNamedKeeps == ASSUME Inv, VarNamed, UNCHANGED Unit PROVE Inv'
<1>1. stack # <<>> /\ Head(stack).proc = "var"
  BY DEF VarNamed, Running
<1>2. PICK s : s = At("type")
  OBVIOUS
<1>3. SameCalls(stack, s)
  BY <1>1, <1>2, Visiting, AtSame
<1>4. stack' = s /\ UNCHANGED <<heap, allComponents, Components, names>>
  BY <1>2 DEF VarNamed, Bound
<1>5. QED
  BY <1>1, <1>3, <1>4, GoesOn

(* DiscoverTypeReferences outside a record, which goes on whatever it finds *)
LEMMA DiscoverGoesOn ==
  ASSUME Inv, UNCHANGED Unit, stack # <<>>, Head(stack).proc \notin {"rename", "enum", "record"},
         NEW t, NEW r, NEW s, SameCalls(stack, s),
         \/ DiscoverVisits(t)
         \/ DiscoverRefers(t, r, s)
         \/ DiscoverFails(t, stack' = s /\ UNCHANGED aborted)
  PROVE  Inv'
<1>1. CASE DiscoverVisits(t)
  <2>1. phase' = "ast" /\ program' = program
    BY Visiting
  <2>2. QED
    BY <1>1, <2>1, DiscoverKeeps
<1>2. CASE DiscoverRefers(t, r, s) \/ DiscoverFails(t, stack' = s /\ UNCHANGED aborted)
  <2>1. stack' = s /\ UNCHANGED <<heap, allComponents, Components, names>>
    BY <1>2 DEF DiscoverRefers, DiscoverFails, Bound
  <2>2. QED
    BY <2>1, GoesOn
<1>3. QED
  BY <1>1, <1>2

LEMMA VarTypeKeeps == ASSUME Inv, VarType, UNCHANGED Unit PROVE Inv'
<1>1. stack # <<>> /\ Head(stack).proc = "var"
  BY DEF VarType, Running
<1>2. PICK s, t, r : s = At("macros") /\ t = Decl(Head(stack).D).type /\ r = <<"type", -1>>
  OBVIOUS
<1>3. SameCalls(stack, s)
  BY <1>1, <1>2, Visiting, AtSame
<1>4. \/ DiscoverVisits(t)
      \/ DiscoverRefers(t, r, s)
      \/ DiscoverFails(t, stack' = s /\ UNCHANGED aborted)
  BY <1>2 DEF VarType
<1>5. QED
  BY <1>1, <1>3, <1>4, DiscoverGoesOn

LEMMA VarEndsKeeps == ASSUME Inv, VarEnds, UNCHANGED Unit PROVE Inv'
<1>1. stack # <<>> /\ Head(stack).proc = "var"
  BY DEF VarEnds, Running
<1>2. phase' = "ast" /\ program' = program /\ Calls(stack) /\ Head(stack) = stack[1]
  BY <1>1, Visiting
<1>3. SameNames /\ UNCHANGED <<heap, allComponents, Components, names>>
  BY <1>2 DEF VarEnds, Bound, SameNames
<1>4. PICK f, t : f = Initializer(Head(stack).D, Head(stack).C) /\ t = Tail(stack)
  OBVIOUS
<1>5. stack' = t \/ stack' = <<f>> \o t
  BY <1>4 DEF VarEnds
<1>6. CASE stack' = t
  BY <1>1, <1>2, <1>3, <1>4, <1>6, SameSelf, GoesOn
<1>7. CASE stack' = <<f>> \o t
  <2>1. Calls(t) /\ \A k \in 1..Len(t) : k + 1 \in 1..Len(stack) /\ t[k] = stack[k + 1]
    <3>1. IsSeq(t) /\ Len(stack) = Len(t) + 1 /\ \A k \in 1..Len(t) : t[k] = stack[k + 1]
      BY <1>1, <1>2, <1>4, Popped DEF Calls
    <3>2. Len(t) \in Nat
      BY <3>1 DEF IsSeq
    <3>3. \A k \in 1..Len(t) : k + 1 \in 1..Len(stack)
      BY <3>1, <3>2
    <3>4. QED
      BY <1>1, <1>2, <1>4, <3>1, <3>3, TailCalls
  <2>2. \A k \in 1..Len(t) : t[k].proc \notin Traversing \cup {"enum"}
    BY <1>1, <1>2, <2>1, NoRecords DEF Traversing
  <2>3. {"proc", "D", "C"} \subseteq DOMAIN f /\ f.proc = "init"
    BY <1>4 DEF Initializer
  <2>4. QED
    BY <1>1, <1>2, <1>3, <1>7, <2>1, <2>2, <2>3, PlainPush
<1>8. QED
  BY <1>5, <1>6, <1>7

LEMMA TypedefVisitsKeeps == ASSUME Inv, TypedefVisits, UNCHANGED Unit PROVE Inv'
<1>1. stack # <<>> /\ Head(stack).proc = "typedef" /\ names' = names
  BY DEF TypedefVisits, Running
<1>2. phase' = "ast" /\ program' = program /\ Calls(stack) /\ Head(stack) = stack[1]
  BY <1>1, Visiting
<1>3. SameNames
  BY <1>1, <1>2 DEF SameNames
<1>4. PICK d, s : d = Decl(Head(stack).D).type /\ s = At("check")
  OBVIOUS
<1>5. SameCalls(stack, s) /\ Calls(s)
  BY <1>2, <1>4, AtSame, SameKeeps
<1>6. IsTag(d) /\ EnterTag(d, TRUE, s)
  BY <1>4 DEF TypedefVisits
<1>7. ASSUME NEW k \in 1..Len(s) PROVE s[k].proc \notin {"rename", "enum", "record"}
  <2>1. k \in 1..Len(stack) /\ s[k].proc = stack[k].proc
    BY <1>5 DEF SameCalls, SameCall
  <2>2. QED
    BY <1>1, <1>2, <2>1, NoRecords DEF Traversing
<1>8. MayVisit(d, s)
  BY <1>7 DEF MayVisit
<1>9. StoreKept /\ Calls(stack)'
  BY <1>3, <1>5, <1>6, <1>8, EnterTagCalls
<1>10. \A e : ~Renaming(e)
  BY <1>1 DEF Renaming
<1>11. QED
  BY <1>2, <1>3, <1>9, <1>10, Assembled

LEMMA TypedefBindsKeeps == ASSUME Inv, TypedefBinds, UNCHANGED Unit PROVE Inv'
<1>1. stack # <<>> /\ Head(stack).proc = "typedef" /\ names' = names
  BY DEF TypedefBinds, Running
<1>2. phase' = "ast" /\ program' = program /\ Calls(stack) /\ Head(stack) = stack[1] /\ StoreFits
  BY <1>1, Visiting DEF Inv, NestingInv
<1>3. SameNames
  BY <1>1, <1>2 DEF SameNames
<1>4. PICK s, t, c : s = At("link") /\ c = Len(heap) + 1 /\ t = [s EXCEPT ![1].C = c]
  OBVIOUS
<1>5. \/ stack' \in {Tail(stack), <<>>} /\ UNCHANGED Bound
      \/ BindNew("typedef", Decl(Head(stack).D).name, FALSE) /\ stack' = t
  BY <1>4 DEF TypedefBinds, Abort
<1>6. CASE stack' \in {Tail(stack), <<>>} /\ UNCHANGED Bound
  BY <1>1, <1>2, <1>6, SameSelf, GoesOn DEF Bound
<1>7. CASE BindNew("typedef", Decl(Head(stack).D).name, FALSE) /\ stack' = t
  <2>1. StoreKept
    BY <1>2, <1>7, BindKeeps DEF BindNew
  <2>2. SameCalls(stack, s) /\ Calls(s) /\ 1 \in 1..Len(stack)
    BY <1>1, <1>2, <1>4, AtSame, SameKeeps, NonEmpty
  <2>3. s[1].proc = "typedef"
    BY <1>1, <1>2, <2>2 DEF SameCalls, SameCall
  <2>4. Calls(t)
    BY <1>4, <2>2, <2>3, ComponentSame, SameKeeps
  <2>5. Calls(stack)'
    BY <1>3, <1>7, <2>1, <2>4, CallsResumed
  <2>6. \A d : ~Renaming(d)
    BY <1>1 DEF Renaming
  <2>7. QED
    BY <1>2, <1>3, <2>1, <2>5, <2>6, Assembled
<1>8. QED
  BY <1>5, <1>6, <1>7

LEMMA TypedefLinksKeeps == ASSUME Inv, TypedefLinks, UNCHANGED Unit PROVE Inv'
<1>1. stack # <<>> /\ Head(stack).proc = "typedef"
  BY DEF TypedefLinks, Running
<1>2. SameCalls(stack, stack)
  BY <1>1, Visiting, SameSelf
<1>3. stack' = Tail(stack) /\ UNCHANGED <<heap, allComponents, Components, names>>
  BY DEF TypedefLinks
<1>4. QED
  BY <1>1, <1>2, <1>3, GoesOn

-----------------------------------------------------------------------------
(* The steps of the traversals of functions, initializers and statements   *)

LEMMA LeaveNodeKeeps == ASSUME Inv, LeaveNode, UNCHANGED Unit PROVE Inv'
<1>1. stack # <<>> /\ Head(stack).proc = "stmt"
  BY DEF LeaveNode, Running
<1>2. Calls(stack) /\ Head(stack) = stack[1] /\ phase' = "ast" /\ program' = program
  BY <1>1, Visiting
<1>3. PICK found, l, left :
        /\ left = IF found = {} THEN stack ELSE [stack EXCEPT ![Owner].related = @ \ found]
        /\ stack' = Tail(left) \/ stack' = [left EXCEPT ![1].at = l]
  BY DEF LeaveNode
<1>4. SameCalls(stack, left) /\ Calls(left)
  <2>1. CASE found = {}
    BY <1>2, <1>3, <2>1, SameSelf
  <2>2. CASE found # {}
    <3>1. PICK n, v : n = Owner /\ v = stack[n].related \ found
      OBVIOUS
    <3>2. left = [stack EXCEPT ![n].related = v]
      BY <1>3, <2>2, <3>1
    <3>3. QED
      BY <1>2, <3>2, RelatedSame, SameKeeps
  <2>3. QED
    BY <2>1, <2>2
<1>5. left # <<>>
  <2>1. Len(left) = Len(stack) /\ 1 \in 1..Len(stack)
    BY <1>1, <1>2, <1>4, NonEmpty DEF SameCalls
  <2>2. Len(left) # 0
    BY <2>1
  <2>3. QED
    BY <2>2, EmptyIsSeq
<1>6. PICK t : t = stack'
  OBVIOUS
<1>7. Calls(t)
  <2>1. Calls(Tail(left))
    BY <1>4, <1>5, TailCalls
  <2>2. Calls([left EXCEPT ![1].at = l])
    BY <1>4, HeadSame, SameKeeps
  <2>3. QED
    BY <1>3, <1>6, <2>1, <2>2
<1>8. SameNames /\ UNCHANGED <<heap, allComponents, Components>>
  BY <1>2 DEF LeaveNode, Bound, SameNames
<1>9. QED
  BY <1>1, <1>2, <1>6, <1>7, <1>8, Resumes

(* A traversal that is begun by a function or an initializer               *)
LEMMA BeginsTraversal ==
  ASSUME Inv, UNCHANGED Unit, stack # <<>>, Head(stack).proc \notin {"record", "rename", "enum"},
         UNCHANGED <<heap, allComponents, Components, names>>, NEW s, SameCalls(stack, s),
         NEW f, {"proc", "D", "C"} \subseteq DOMAIN f, f.proc \in {"stmt", "params", "init"},
         stack' = <<f>> \o s
  PROVE  Inv'
<1>1. phase' = "ast" /\ program' = program /\ Calls(stack) /\ Head(stack) = stack[1]
  BY Visiting
<1>2. SameNames
  BY <1>1 DEF SameNames
<1>3. Calls(s)
  BY <1>1, SameKeeps
<1>4. ASSUME NEW k \in 1..Len(s) PROVE s[k].proc \notin Traversing \cup {"enum"}
  <2>1. k \in 1..Len(stack) /\ s[k].proc = stack[k].proc
    BY DEF SameCalls, SameCall
  <2>2. QED
    BY <1>1, <2>1, NoRecords DEF Traversing
<1>5. Head(stack).proc # "rename"
  OBVIOUS
<1>6. QED
  BY <1>1, <1>2, <1>3, <1>4, <1>5, PlainPush

LEMMA LookAtNodeKeeps == ASSUME Inv, LookAtNode \/ HandleCastExpr, UNCHANGED Unit PROVE Inv'
<1>1. stack # <<>> /\ Head(stack).proc = "stmt"
  BY DEF LookAtNode, HandleCastExpr, Running
<1>2. SameCalls(stack, NextNode)
  BY <1>1, Visiting, FurtherSame
<1>3. stack' = NextNode /\ UNCHANGED <<heap, allComponents, Components, names>>
  BY DEF LookAtNode, HandleCastExpr, Bound
<1>4. QED
  BY <1>1, <1>2, <1>3, GoesOn

LEMMA CastTypeKeeps == ASSUME Inv, CastType, UNCHANGED Unit PROVE Inv'
<1>1. stack # <<>> /\ Head(stack).proc = "stmt"
  BY DEF CastType, Running
<1>2. PICK s, t, r : s = At("cast") /\ t = Node.type /\ r = Head(stack).ref
  OBVIOUS
<1>3. SameCalls(stack, s)
  BY <1>1, <1>2, Visiting, AtSame
<1>4. \/ DiscoverVisits(t)
      \/ DiscoverRefers(t, r, s)
      \/ DiscoverFails(t, stack' = s /\ UNCHANGED aborted)
  BY <1>2 DEF CastType
<1>5. QED
  BY <1>1, <1>3, <1>4, DiscoverGoesOn

LEMMA FunctionReturnsKeeps == ASSUME Inv, FunctionReturns, UNCHANGED Unit PROVE Inv'
<1>1. stack # <<>> /\ Head(stack).proc = "function"
  BY DEF FunctionReturns, Running
<1>2. PICK s, t, r : s = At("body") /\ t = Decl(This).type /\ r = <<"return", -1>>
  OBVIOUS
<1>3. SameCalls(stack, s)
  BY <1>1, <1>2, Visiting, AtSame
<1>4. \/ DiscoverVisits(t)
      \/ DiscoverRefers(t, r, s)
      \/ DiscoverFails(t, stack' = s /\ UNCHANGED aborted)
  BY <1>2 DEF FunctionReturns
<1>5. QED
  BY <1>1, <1>3, <1>4, DiscoverGoesOn

LEMMA FunctionBodyKeeps == ASSUME Inv, FunctionBody, UNCHANGED Unit PROVE Inv'
<1>1. stack # <<>> /\ Head(stack).proc = "function"
  BY DEF FunctionBody, Running
<1>2. PICK f, s : /\ f = Traversal(This, cm, Decl(This).body, <<"bodyenc", -1>>, FALSE)
                  /\ s = At("args")
  OBVIOUS
<1>3. SameCalls(stack, s)
  BY <1>1, <1>2, Visiting, AtSame
<1>4. {"proc", "D", "C"} \subseteq DOMAIN f /\ f.proc = "stmt"
  BY <1>2 DEF Traversal
<1>5. UNCHANGED <<heap, allComponents, Components, names>> /\ (stack' = s \/ stack' = <<f>> \o s)
  BY <1>2 DEF FunctionBody, Bound
<1>6. QED
  BY <1>1, <1>3, <1>4, <1>5, GoesOn, BeginsTraversal

LEMMA FunctionArgumentsKeeps == ASSUME Inv, FunctionArguments, UNCHANGED Unit PROVE Inv'
<1>1. stack # <<>> /\ Head(stack).proc = "function"
  BY DEF FunctionArguments, Running
<1>2. PICK f, s : f = [Frame("params", This, cm) EXCEPT !.at = "type"] /\ s = At("macros")
  OBVIOUS
<1>3. SameCalls(stack, s)
  BY <1>1, <1>2, Visiting, AtSame
<1>4. {"proc", "D", "C"} \subseteq DOMAIN f /\ f.proc = "params"
  BY <1>2 DEF Frame
<1>5. UNCHANGED <<heap, allComponents, Components, names>> /\ (stack' = s \/ stack' = <<f>> \o s)
  BY <1>2 DEF FunctionArguments, Bound
<1>6. QED
  BY <1>1, <1>3, <1>4, <1>5, GoesOn, BeginsTraversal

LEMMA FunctionArgumentKeeps == ASSUME Inv, FunctionArgument, UNCHANGED Unit PROVE Inv'
<1>1. stack # <<>> /\ Head(stack).proc = "params"
  BY DEF FunctionArgument, Running
<1>2. PICK s, t, r : s = NextParam /\ t = Param.type /\ r = <<"argument", Head(stack).i>>
  OBVIOUS
<1>3. SameCalls(stack, s)
  BY <1>1, <1>2, Visiting, FurtherSame
<1>4. \/ DiscoverVisits(t)
      \/ DiscoverRefers(t, r, s)
      \/ DiscoverFails(t, stack' = s /\ UNCHANGED aborted)
  BY <1>2 DEF FunctionArgument
<1>5. QED
  BY <1>1, <1>3, <1>4, DiscoverGoesOn

(* Calls that return                                                       *)
LEMMA ReturnKeeps ==
  ASSUME Inv, ArgumentsEnd \/ FunctionMacros \/ InitEnds, UNCHANGED Unit PROVE Inv'
<1>1. stack # <<>> /\ Head(stack).proc \in {"params", "function", "init"}
  BY DEF ArgumentsEnd, FunctionMacros, InitEnds, Running
<1>2. SameCalls(stack, stack)
  BY <1>1, Visiting, SameSelf
<1>3. stack' = Tail(stack) /\ UNCHANGED <<heap, allComponents, Components, names>>
  BY DEF ArgumentsEnd, FunctionMacros, InitEnds, Initializing, Bound
<1>4. QED
  BY <1>1, <1>2, <1>3, GoesOn

LEMMA InitElementKeeps ==
  ASSUME Inv, InitRegular \/ InitArray \/ InitBeyond \/ InitNext, UNCHANGED Unit PROVE Inv'
<1>1. stack # <<>> /\ Head(stack).proc = "init" /\ UNCHANGED <<heap, allComponents, Components, names>>
  BY DEF InitRegular, InitArray, InitBeyond, InitNext, InDesignator, InElement, Running, Initializing, Bound
<1>2. SameCalls(stack, NextElement) /\ SameCalls(stack, NextSub)
  BY <1>1, Visiting, FurtherSame
<1>3. CASE InitRegular
  <2>1. PICK f, s : /\ f = Traversal(This, cm, Element.subs[1], <<"initializer", Head(stack).i>>, TRUE)
                    /\ s = NextElement
    OBVIOUS
  <2>2. {"proc", "D", "C"} \subseteq DOMAIN f /\ f.proc = "stmt"
    BY <2>1 DEF Traversal
  <2>3. stack' = <<f>> \o s
    BY <1>3, <2>1 DEF InitRegular, Traverse
  <2>4. QED
    BY <1>1, <1>2, <2>1, <2>2, <2>3, BeginsTraversal
<1>4. CASE InitArray \/ InitBeyond \/ InitNext
  <2>1. stack' \in {NextSub, <<>>} \/ stack' = NextElement
    BY <1>4 DEF InitArray, InitBeyond, InitNext, Abort
  <2>2. QED
    BY <1>1, <1>2, <2>1, GoesOn
<1>5. QED
  BY <1>3, <1>4

LEMMA InitFieldKeeps == ASSUME Inv, InitField, UNCHANGED Unit PROVE Inv'
<1>1. stack # <<>> /\ Head(stack).proc = "init" /\ UNCHANGED <<heap, allComponents, Components, names>>
  BY DEF InitField, InDesignator, InElement, Running, Initializing, Bound
<1>2. PICK nodes, index, now : \/ stack' = <<>>
                               \/ Traverse(nodes, index, [NextSub EXCEPT ![1].last = now])
  BY DEF InitField, Abort
<1>3. Calls(stack) /\ SameCalls(stack, stack)
  BY <1>1, Visiting, SameSelf
<1>4. CASE stack' = <<>>
  BY <1>1, <1>3, <1>4, GoesOn
<1>5. CASE Traverse(nodes, index, [NextSub EXCEPT ![1].last = now])
  <2>1. PICK f, u, s : /\ f = Traversal(This, cm, nodes, <<"initializer", index>>, TRUE)
                       /\ u = NextSub /\ s = [u EXCEPT ![1].last = now]
    OBVIOUS
  <2>2. SameCalls(stack, u) /\ Calls(u)
    BY <1>3, <2>1, FurtherSame, SameKeeps
  <2>3. SameCalls(stack, s)
    BY <2>1, <2>2, HeadSame, SameTwice
  <2>4. {"proc", "D", "C"} \subseteq DOMAIN f /\ f.proc = "stmt"
    BY <2>1 DEF Traversal
  <2>5. stack' = <<f>> \o s
    BY <1>5, <2>1 DEF Traverse
  <2>6. QED
    BY <1>1, <2>3, <2>4, <2>5, BeginsTraversal
<1>6. QED
  BY <1>2, <1>4, <1>5

-----------------------------------------------------------------------------
(* Translation units                                                       *)

LEMMA VisitTopKeeps == ASSUME Inv, VisitTop, UNCHANGED Unit PROVE Inv'
<1>1. phase' = "ast" /\ SameNames /\ stack = <<>>
  BY DEF VisitTop, Unit, clangVars, SameNames
<1>2. PICK d, t : d = TopLevel[visited + 1] /\ t = <<>>
  OBVIOUS
<1>3. Calls(t) /\ Len(t) = 0
  BY <1>2, EmptyIsSeq DEF Calls
<1>4. MayVisit(d, t)
  BY <1>3 DEF MayVisit
<1>5. Enter(d, t)
  BY <1>2 DEF VisitTop
<1>6. StoreKept /\ Calls(stack)'
  BY <1>1, <1>3, <1>4, <1>5, EnterCalls
<1>7. \A e : ~Renaming(e)
  BY <1>1 DEF Renaming
<1>8. QED
  BY <1>1, <1>6, <1>7, Assembled

(* A step that is of clang only, or none                                   *)
LEMMA Unmoved ==
  ASSUME Inv, UNCHANGED <<heap, allComponents, Components, names, program, stack>>,
         phase' # "ast" => stack = <<>>
  PROVE  Inv'
<1>1. StoreFits /\ Calls(stack) /\ DOMAIN names = DOMAIN program.decls
  BY DEF Inv, NestingInv
<1>2. SameNames
  BY DEF SameNames
<1>3. StoreKept
  BY <1>1, QuietStore
<1>4. PICK t : t = stack
  OBVIOUS
<1>5. Calls(t) /\ stack' = t
  BY <1>1, <1>4
<1>6. Calls(stack)'
  BY <1>2, <1>3, <1>5, CallsResumed
<1>7. \A d : /\ Decl(d)' = Decl(d) /\ (IsTag(d)' <=> IsTag(d)) /\ (Nests(Decl(d))' <=> Nests(Decl(d)))
             /\ (Renaming(d)' <=> Renaming(d))
  BY DEF Decl, IsTag, Nests, Declared, Renaming
<1>8. \A n : HasKey(allComponents \cup Components, "struct", n)' <=> HasKey(allComponents \cup Components, "struct", n)
  BY DEF HasKey, Matches
<1>9. ASSUME NEW d \in DOMAIN names PROVE WellNamed(d)'
  <2>1. WellNamed(d)
    BY DEF Inv, NestingInv
  <2>2. QED
    BY <1>7, <1>8, <2>1 DEF WellNamed, HasStructure
<1>10. ASSUME NEW d \in DOMAIN names, Decl(d).kind = "record", Len(names[d]) >= 2 PROVE Rooted(d)'
  <2>1. Rooted(d)
    BY <1>10 DEF Inv, NestingInv
  <2>2. QED
    BY <1>7, <1>8, <2>1 DEF Rooted, HasStructure
<1>11. QED
  BY <1>3, <1>6, <1>7, <1>9, <1>10 DEF Inv, NestingInv, StoreKept

LEMMA SingleWord == ASSUME NEW x \in Seq(STRING), Len(x) <= 1 PROVE IsSeq(x) /\ ~(Len(x) >= 2)
<1>1. IsSeq(x)
  BY SeqIsSeq
<1>2. Len(x) \in Nat
  BY LenProperties
<1>3. QED
  BY <1>1, <1>2

(* The names a unit begins with                                            *)
LEMMA FirstNames ==
  ASSUME WellFormed, names = Names(program)
  PROVE  /\ DOMAIN names = DOMAIN program.decls
         /\ \A d \in DOMAIN names : IsSeq(names[d]) /\ names[d] = Decl(d).name /\ ~(Len(names[d]) >= 2)
<1>1. DOMAIN names = DOMAIN program.decls /\ \A d \in DOMAIN names : names[d] = Decl(d).name
  BY DEF Names, Decl
<1>2. QED
  BY <1>1, SingleWord DEF WellFormed

LEMMA BeginUnitKeeps == ASSUME Inv, BeginUnit PROVE Inv'
<1>1. /\ stack' = <<>> /\ program' = program /\ names' = Names(program) /\ heap' = heap
      /\ allComponents' = {} /\ Components' = Components
  BY DEF BeginUnit, CreateASTConsumer, Inv, NestingInv
<1>2. WellFormed
  BY ProgramFits DEF Inv
<1>3. /\ DOMAIN names' = DOMAIN program.decls
      /\ \A d \in DOMAIN names' : IsSeq(names'[d]) /\ names'[d] = Decl(d).name /\ ~(Len(names'[d]) >= 2)
  <2>1. DOMAIN names' = DOMAIN program.decls /\ \A d \in DOMAIN names' : names'[d] = Decl(d).name
    BY <1>1 DEF Names, Decl
  <2>2. QED
    BY <1>2, <2>1, SingleWord DEF WellFormed
<1>4. StoreFits'
  BY <1>1 DEF Inv, NestingInv, StoreFits
<1>5. Calls(stack)'
  BY <1>1, EmptyIsSeq DEF Calls
<1>6. \A d : Decl(d)' = Decl(d)
  BY <1>1 DEF Decl
<1>7. \A d \in DOMAIN names' : WellNamed(d)'
  BY <1>3, <1>6 DEF WellNamed
<1>8. \A d \in DOMAIN names' : Decl(d)'.kind = "record" /\ Len(names'[d]) >= 2 => Rooted(d)'
  BY <1>3
<1>9. QED
  BY <1>1, <1>3, <1>4, <1>5, <1>7, <1>8 DEF Inv, NestingInv

LEMMA VisitStarts == StatementInit => Inv
<1> SUFFICES ASSUME StatementInit PROVE Inv
  OBVIOUS
<1>1. /\ stack = <<>> /\ program \in Programs /\ names = Names(program) /\ heap = <<>>
      /\ allComponents = {} /\ Components = {}
  BY DEF StatementInit, VisitorInit, Init
<1>2. WellFormed
  BY <1>1, ProgramFits
<1>3. /\ DOMAIN names = DOMAIN program.decls
      /\ \A d \in DOMAIN names : IsSeq(names[d]) /\ names[d] = Decl(d).name /\ ~(Len(names[d]) >= 2)
  BY <1>1, <1>2, FirstNames
<1>4. StoreFits
  BY <1>1, EmptyIsSeq DEF StoreFits
<1>5. Calls(stack)
  BY <1>1, EmptyIsSeq DEF Calls
<1>6. QED
  BY <1>1, <1>3, <1>4, <1>5 DEF Inv, NestingInv, WellNamed

-----------------------------------------------------------------------------
(* The theorems                                                            *)

LEMMA VisitKeeps == Inv /\ [StatementNext]_allVars => Inv'
<1> SUFFICES ASSUME Inv, [StatementNext]_allVars PROVE Inv'
  OBVIOUS
<1>1. CASE BeginUnit
  BY <1>1, BeginUnitKeeps
<1>2. CASE Parsed
  <2>1. UNCHANGED <<heap, allComponents, Components, names, program, stack>> /\ phase' = "ast"
    BY <1>2 DEF Parsed, HandleTranslationUnit, storeVars
  <2>2. QED
    BY <2>1, Unmoved
<1>3. CASE EndUnit
  <2>1. UNCHANGED <<heap, allComponents, Components, names, program, stack>> /\ stack = <<>>
    BY <1>3 DEF EndUnit, EndSourceFile
  <2>2. QED
    BY <2>1, Unmoved
<1>4. CASE UNCHANGED allVars
  <2>1. UNCHANGED <<heap, allComponents, Components, names, program, stack, phase>>
    BY <1>4 DEF allVars, vars, storeVars, clangVars, visitVars
  <2>2. QED
    BY <2>1, Unmoved DEF Inv, NestingInv
<1>5. CASE VisitStep /\ UNCHANGED Unit
  BY <1>5, VisitTopKeeps, FieldAnonymousKeeps, RenamedKeeps, FieldAdoptKeeps, FieldPushKeeps,
     FieldTypeKeeps, RecordEndsKeeps, EnumNextKeeps, EnumEndsKeeps, VarAnonymousKeeps, VarAdoptKeeps,
     VarNamedKeeps, VarTypeKeeps, VarEndsKeeps, TypedefAnonymousKeeps, TypedefVisitsKeeps,
     TypedefBindsKeeps, TypedefLinksKeeps
  DEF VisitStep
<1>6. CASE StatementStep /\ UNCHANGED Unit
  BY <1>6, LeaveNodeKeeps, LookAtNodeKeeps, CastTypeKeeps, FunctionReturnsKeeps, FunctionBodyKeeps,
     FunctionArgumentsKeeps, FunctionArgumentKeeps, ReturnKeeps, InitElementKeeps, InitFieldKeeps
  DEF StatementStep
<1>7. QED
  BY <1>1, <1>2, <1>3, <1>4, <1>5, <1>6 DEF StatementNext, VisitorNext

(* However the visitors and the traversals call each other, whatever the   *)
(* declarations lead to: an inner call is never about a record that an     *)
(* outer one traverses, nor about one that it is within.                   *)
THEOREM NestingInvariance == VisitorSpec => []NestingInv
<1>1. StatementInit => Inv
  BY VisitStarts
<1>2. Inv /\ [StatementNext]_allVars => Inv'
  BY VisitKeeps
<1>3. Inv => NestingInv
  BY DEF Inv
<1>4. QED
  BY <1>1, <1>2, <1>3, PTL DEF VisitorSpec

(* Two calls that traverse records of the same structure are one.          *)
LEMMA NestedOnce == ASSUME NestingInv PROVE NoReentry
<1>1. ASSUME NamesApart, NEW k \in 1..Len(stack), NEW j \in 1..k-1,
             stack[j].proc = "record", stack[k].proc = "record", stack[j].C = stack[k].C
      PROVE  FALSE
  <2>1. j \in 1..Len(stack)
    BY DEF NestingInv, Calls, IsSeq
  <2>2. Fits(stack[j]) /\ Fits(stack[k]) /\ Nest(stack[j], stack[k])
    BY <2>1 DEF NestingInv, Calls
  <2>3. PICK x : x = names[stack[k].D]
    OBVIOUS
  <2>4. names[stack[j].D] = x
    BY <1>1, <2>2, <2>3 DEF Fits, Matches
  <2>5. ~Within(x, x)
    BY <1>1, <2>2, <2>3, <2>4 DEF Nest, Traversing
  <2>6. IsSeq(x)
    <3>1. stack[k].D \in DOMAIN names
      BY <1>1, <2>2 DEF Fits, Traversing, IsTag, Declared, NestingInv
    <3>2. QED
      BY <2>3, <3>1 DEF NestingInv, WellNamed
  <2>7. Within(x, x)
    <3>1. Len(x) \in Nat
      BY <2>6 DEF IsSeq
    <3>2. QED
      BY <3>1 DEF Within
  <2>8. QED
    BY <2>5, <2>7
<1>2. \A j, k \in 1..Len(stack) : j # k => j \in 1..k-1 \/ k \in 1..j-1
  BY DEF NestingInv, Calls, IsSeq
<1>3. QED
  BY <1>1, <1>2 DEF NoReentry

(* No structure is traversed while it is being traversed, though types may *)
(* lead back to it - if no variable of an anonymous type has the name of a *)
(* record.                                                                 *)
THEOREM NeverReentered == VisitorSpec => []NoReentry
<1>1. VisitorSpec => []NestingInv
  BY NestingInvariance
<1>2. NestingInv => NoReentry
  BY NestedOnce
<1>3. QED
  BY <1>1, <1>2, PTL

-----------------------------------------------------------------------------
(* A sequence that is changed wherever it is                               *)

Put(s, n, g) == [s EXCEPT ![n] = g]

LEMMA ExceptAny ==
  ASSUME NEW s, IsSeq(s), NEW n, NEW g
  PROVE  /\ IsSeq(Put(s, n, g)) /\ Len(Put(s, n, g)) = Len(s)
         /\ \A k \in 1..Len(s) : Put(s, n, g)[k] = IF k = n THEN g ELSE s[k]
<1>1. Len(s) \in Nat /\ s = [k \in 1..Len(s) |-> s[k]]
  BY DEF IsSeq
<1>2. PICK t : t = [s EXCEPT ![n] = g] /\ t = Put(s, n, g)
  BY DEF Put
<1>3. IsSeq(t) /\ Len(t) = Len(s) /\ \A k \in 1..Len(s) : t[k] = IF k = n THEN g ELSE s[k]
  <2> DEFINE S == Elements(s) \cup {g}
             m == Len(s)
  <2>1. t = [k \in 1..Len(s) |-> IF k = n THEN g ELSE s[k]]
    BY <1>1, <1>2
  <2>2. \A k \in 1..m : (IF k = n THEN g ELSE s[k]) \in S
    BY DEF Elements
  <2>3. m \in Nat
    BY <1>1
  <2> HIDE DEF S, m
  <2>4. [k \in 1..m |-> IF k = n THEN g ELSE s[k]] \in Seq(S)
    BY <2>2, <2>3, IsASeq
  <2>5. t \in Seq(S)
    BY <2>1, <2>4 DEF m
  <2>6. DOMAIN t = 1..Len(t) /\ DOMAIN t = 1..m /\ Len(t) \in Nat
    BY <2>1, <2>5, LenProperties DEF m
  <2>7. Len(t) = m
    BY <2>3, <2>6, SameDomain
  <2>8. QED
    BY <2>1, <2>5, <2>7, SeqIsSeq DEF m
<1>4. QED
  BY <1>2, <1>3

-----------------------------------------------------------------------------
(* What is found                                                           *)

LEMMA Found ==
  ASSUME StoreFits, NEW ty, NEW n PROVE LookupFull(ty, n) # NULL <=> HasKey(Stored, ty, n)
<1>1. ASSUME NEW S, S \subseteq 1..Len(heap) PROVE Find(S, ty, n) # NULL <=> HasKey(S, ty, n)
  <2>1. HasKey(S, ty, n) => Find(S, ty, n) \in S
    <3>1. ASSUME HasKey(S, ty, n) PROVE Find(S, ty, n) \in S
      <4>1. \E c \in S : Matches(c, ty, n)
        BY <3>1 DEF HasKey
      <4>2. Find(S, ty, n) = CHOOSE c \in S : Matches(c, ty, n)
        BY <3>1 DEF Find
      <4>3. QED
        BY <4>1, <4>2
    <3>2. QED
      BY <3>1
  <2>2. \A c \in S : c # NULL
    BY <1>1 DEF NULL, StoreFits, IsSeq
  <2>3. QED
    BY <2>1, <2>2 DEF Find
<1>2. allComponents \subseteq 1..Len(heap) /\ Components \subseteq 1..Len(heap)
  BY DEF StoreFits
<1>3. HasKey(Stored, ty, n) <=> HasKey(allComponents, ty, n) \/ HasKey(Components, ty, n)
  BY DEF Stored, HasKey
<1>4. QED
  BY <1>1, <1>2, <1>3 DEF LookupFull, LookupLocal

LEMMA PresentFound == ASSUME Inv, NEW t, Present(t) PROVE t # 0 /\ Structure(t) # NULL
<1>1. StoreFits /\ t \in DOMAIN program.decls /\ HasKey(Stored, ModelType(t), names[t])
  BY DEF Inv, NestingInv, Present, IsTag, Declared, Stored
<1>2. 0 \notin DOMAIN program.decls
  BY VisitorAssumption DEF Inv
<1>3. LookupFull(ModelType(t), names[t]) # NULL
  BY <1>1, Found
<1>4. QED
  BY <1>1, <1>2, <1>3 DEF Structure

LEMMA KeyKept == ASSUME StoreFits, StoreKept, NEW ty, NEW n, HasKey(Stored, ty, n) PROVE HasKey(Stored, ty, n)'
  BY DEF StoreFits, StoreKept, Stored, HasKey, Matches

LEMMA DeclKept ==
  ASSUME NamesKept, NEW d
  PROVE  Decl(d)' = Decl(d) /\ (IsTag(d)' <=> IsTag(d)) /\ ModelType(d)' = ModelType(d)
  BY DEF NamesKept, Decl, IsTag, Declared, ModelType

LEMMA PresentKept == ASSUME Inv, StoreKept, NamesKept, NEW t, Present(t) PROVE Present(t)'
<1>1. StoreFits /\ IsTag(t) /\ t \in DOMAIN names /\ names[t] # Anonymous
      /\ HasKey(Stored, ModelType(t), names[t])
  BY DEF Inv, NestingInv, Present, IsTag, Declared, Stored
<1>2. names'[t] = names[t]
  BY <1>1 DEF NamesKept
<1>3. PICK ty, n : ty = ModelType(t) /\ n = names[t]
  OBVIOUS
<1>4. HasKey(Stored, ty, n)'
  BY <1>1, <1>3, KeyKept
<1>5. QED
  BY <1>1, <1>2, <1>3, <1>4, DeclKept DEF Present, Stored

-----------------------------------------------------------------------------
(* The calls that wait                                                     *)

Needs(f) == f.proc = "record" \/ Adopts(f)

(* Calls below the innermost one may go on after the step.                 *)
Undisturbed ==
  /\ StoreKept /\ NamesKept
  /\ \A t : Renaming(t) => Present(t)' \/ Renaming(t)'
  /\ \A k \in 2..Len(stack) : Needs(stack[k]) => _currentStructure' # NULL \/ Head(stack').proc = "rename"

LEMMA WaitsKept ==
  ASSUME Inv, Undisturbed, NEW f, Waits(f),
         Needs(f) => _currentStructure' # NULL \/ Head(stack').proc = "rename"
  PROVE  Waits(f)'
<1>1. \A t : Present(t) \/ Renaming(t) => Present(t)' \/ Renaming(t)'
  BY PresentKept DEF Undisturbed
<1>2. \A t : Present(t) => Present(t)'
  BY PresentKept DEF Undisturbed
<1>3. ASSUME NEW t, ~NeedsName(t) PROVE ~NeedsName(t)'
  <2>1. DOMAIN names = DOMAIN program.decls
    BY DEF Inv, NestingInv
  <2>2. NamesKept
    BY DEF Undisturbed
  <2>3. QED
    BY <1>3, <2>1, <2>2, DeclKept DEF NeedsName, IsTag, Declared, NamesKept
<1>4. \A d : Decl(d)' = Decl(d)
  BY DeclKept DEF Undisturbed
<1>5. QED
  BY <1>1, <1>2, <1>3, <1>4 DEF Waits, Needs

(* Frames of calls that have not been called from                          *)
AsCalled(f, g) ==
  /\ g.proc = f.proc /\ g.D = f.D
  /\ "at" \in DOMAIN f => "at" \in DOMAIN g /\ g.at = f.at
  /\ f.proc = "record" => g.i = f.i

AsCalledBelow(s, t) ==
  /\ IsSeq(t) /\ Len(t) = Len(s) /\ t[1].proc = s[1].proc
  /\ \A k \in 2..Len(s) : AsCalled(s[k], t[k])

LEMMA AsCalledWaits == ASSUME NEW f, NEW g, AsCalled(f, g), Waits(f)' PROVE Waits(g)'
  BY DEF AsCalled, Waits, Adopts

LEMMA BelowSelf == ASSUME NEW s, IsSeq(s) PROVE AsCalledBelow(s, s)
  BY DEF AsCalledBelow, AsCalled

LEMMA BelowTwice ==
  ASSUME NEW s, NEW t, NEW u, AsCalledBelow(s, t), AsCalledBelow(t, u) PROVE AsCalledBelow(s, u)
  BY DEF AsCalledBelow, AsCalled

(* The calls below the innermost one still wait after the step.            *)
LEMMA BelowWait ==
  ASSUME Inv, Waiting(stack), Undisturbed, NEW t, AsCalledBelow(stack, t)
  PROVE  /\ \A k \in 2..Len(t) : Waits(t[k])'
         /\ \A k \in 2..Len(t) : Adopts(t[k]) => t[k-1].proc \in Traversing \cup {"enum"}
<1>1. Len(t) = Len(stack) /\ Len(stack) \in Nat /\ t[1].proc = stack[1].proc
      /\ \A k \in 2..Len(stack) : AsCalled(stack[k], t[k])
  BY DEF AsCalledBelow, Inv, NestingInv, Calls, IsSeq
<1>2. \A k \in 2..Len(stack) : k \in 1..Len(stack)
  BY <1>1
<1>3. ASSUME NEW k \in 2..Len(t) PROVE Waits(t[k])'
  <2>1. Waits(stack[k]) /\ (Needs(stack[k]) => _currentStructure' # NULL \/ Head(stack').proc = "rename")
    BY <1>1, <1>2 DEF Waiting, Undisturbed
  <2>2. PICK f, g : f = stack[k] /\ g = t[k]
    OBVIOUS
  <2>3. Waits(f)'
    BY <2>1, <2>2, WaitsKept
  <2>4. Waits(g)'
    BY <1>1, <2>2, <2>3, AsCalledWaits
  <2>5. QED
    BY <2>2, <2>4
<1>4. ASSUME NEW k \in 2..Len(t), Adopts(t[k]) PROVE t[k-1].proc \in Traversing \cup {"enum"}
  <2>0. "at" \in DOMAIN stack[k]
    BY <1>1, <1>2 DEF Waiting, Waits
  <2>1. Adopts(stack[k]) /\ stack[k-1].proc \in Traversing \cup {"enum"}
    BY <1>1, <1>4, <2>0 DEF AsCalled, Adopts, Waiting
  <2>2. k-1 = 1 \/ k-1 \in 2..Len(stack)
    BY <1>1
  <2>3. t[k-1].proc = stack[k-1].proc
    BY <1>1, <2>2 DEF AsCalled
  <2>4. QED
    BY <2>1, <2>3
<1>5. QED
  BY <1>3, <1>4

(* They go on under the innermost one, ...                                 *)
LEMMA HeadGoesOn ==
  ASSUME Inv, Waiting(stack), Undisturbed, NEW t, AsCalledBelow(stack, t), Waits(t[1])'
  PROVE  Waiting(t)'
<1>1. \A k \in 1..Len(t) : k = 1 \/ k \in 2..Len(t)
  BY DEF AsCalledBelow, IsSeq
<1>2. ASSUME NEW k \in 1..Len(t) PROVE Waits(t[k])'
  BY <1>1, BelowWait
<1>3. QED
  BY <1>2, BelowWait DEF Waiting

(* ... without it, ...                                                     *)
LEMMA Returned ==
  ASSUME Inv, Waiting(stack), Undisturbed, stack # <<>>, NEW s, AsCalledBelow(stack, s), NEW t, t = Tail(s)
  PROVE  /\ Waiting(t)' /\ IsSeq(t)
         /\ 1 \in 1..Len(t) /\ Adopts(t[1]) => stack[1].proc \in Traversing \cup {"enum"}
<1>1. IsSeq(s) /\ Len(s) = Len(stack) /\ s[1].proc = stack[1].proc /\ 1 \in 1..Len(stack)
  BY NonEmpty DEF AsCalledBelow, Inv, NestingInv
<1>2. s # <<>>
  <2>1. Len(s) # 0
    BY <1>1
  <2>2. QED
    BY <2>1, EmptyIsSeq
<1>3. IsSeq(t) /\ Len(s) = Len(t) + 1 /\ \A k \in 1..Len(t) : t[k] = s[k + 1]
  BY <1>1, <1>2, Popped
<1>4. Len(t) \in Nat
  BY <1>3 DEF IsSeq
<1>5. \A k \in 1..Len(t) : k + 1 \in 2..Len(s)
  BY <1>3, <1>4
<1>6. ASSUME NEW k \in 1..Len(t) PROVE Waits(t[k])'
  <2>1. PICK f : f = s[k + 1]
    OBVIOUS
  <2>2. Waits(f)'
    BY <1>5, <2>1, BelowWait
  <2>3. f = t[k]
    BY <1>3, <2>1
  <2>4. QED
    BY <2>2, <2>3
<1>7. ASSUME NEW k \in 1..Len(t), Adopts(t[k]) PROVE s[k].proc \in Traversing \cup {"enum"}
  <2>1. Adopts(s[k + 1]) /\ k + 1 \in 2..Len(s) /\ (k + 1) - 1 = k
    BY <1>3, <1>4, <1>5, <1>7
  <2>2. QED
    BY <2>1, BelowWait
<1>8. ASSUME NEW k \in 2..Len(t), Adopts(t[k]) PROVE t[k-1].proc \in Traversing \cup {"enum"}
  <2>1. k - 1 \in 1..Len(t) /\ k \in 1..Len(t) /\ (k - 1) + 1 = k
    BY <1>4
  <2>2. t[k-1] = s[k]
    BY <1>3, <2>1
  <2>3. QED
    BY <1>7, <1>8, <2>1, <2>2
<1>9. QED
  BY <1>1, <1>3, <1>6, <1>7, <1>8 DEF Waiting

(* ... or under one more.                                                  *)
LEMMA CallMade ==
  ASSUME NEW t, IsSeq(t), Waiting(t)', NEW f, Waits(f)',
         1 \in 1..Len(t) /\ Adopts(t[1]) => f.proc \in Traversing \cup {"enum"},
         NEW u, u = <<f>> \o t
  PROVE  Waiting(u)'
<1>0. Len(t) \in Nat
  BY DEF IsSeq
<1>1. IsSeq(u) /\ Len(u) = Len(t) + 1 /\ u[1] = f /\ Len(t) \in Nat /\ \A k \in 1..Len(t) : u[k + 1] = t[k]
  BY <1>0, Pushed
<1>2. \A k \in 2..Len(u) : k - 1 \in 1..Len(t) /\ u[k] = t[k - 1]
  <2>1. ASSUME NEW k \in 2..Len(u) PROVE k - 1 \in 1..Len(t) /\ (k - 1) + 1 = k
    BY <1>1
  <2>2. QED
    BY <1>1, <2>1
<1>3. ASSUME NEW k \in 1..Len(u) PROVE Waits(u[k])'
  <2>1. CASE k = 1
    BY <1>1, <2>1
  <2>2. CASE k # 1
    <3>1. k - 1 \in 1..Len(t) /\ u[k] = t[k - 1]
      BY <1>1, <1>2, <2>2
    <3>2. Waits(t[k - 1])'
      BY <3>1 DEF Waiting
    <3>3. QED
      BY <3>1, <3>2
  <2>3. QED
    BY <2>1, <2>2
<1>4. ASSUME NEW k \in 2..Len(u), Adopts(u[k]) PROVE u[k-1].proc \in Traversing \cup {"enum"}
  <2>1. k - 1 \in 1..Len(t) /\ Adopts(t[k - 1])
    BY <1>2, <1>4
  <2>2. CASE k = 2
    BY <1>1, <2>1, <2>2
  <2>3. CASE k # 2
    <3>1. k - 1 \in 2..Len(u) /\ k - 1 \in 2..Len(t)
      BY <1>1, <2>3
    <3>2. u[k-1] = t[(k-1)-1]
      BY <1>2, <3>1
    <3>3. t[(k-1)-1].proc \in Traversing \cup {"enum"}
      BY <2>1, <3>1 DEF Waiting
    <3>4. QED
      BY <3>2, <3>3
  <2>4. QED
    BY <2>2, <2>3
<1>5. QED
  BY <1>3, <1>4 DEF Waiting

LEMMA WaitingNow == ASSUME NEW t, Waiting(t)', stack' = t PROVE Waiting(stack)'
  BY DEF Waiting

-----------------------------------------------------------------------------
(* A call that has only begun, or that counts on nothing                   *)
Idle(f) ==
  /\ "at" \in DOMAIN f
  /\ f.proc = "record" => f.at = "start"
  /\ ~Adopts(f)
  /\ ~(f.proc = "typedef" /\ f.at = "check")

LEMMA IdleWaits ==
  ASSUME NEW f, Idle(f), f.proc = "record" => _currentStructure' # NULL PROVE Waits(f)'
  BY DEF Idle, Waits, Adopts

LEMMA PlainIdle ==
  ASSUME NEW f, "at" \in DOMAIN f, f.proc \notin {"record", "var", "typedef"} PROVE Idle(f)
  BY DEF Idle, Adopts

(* Outside of records nothing counts on the current structure.             *)
LEMMA NoNeeds ==
  ASSUME Calls(stack), Waiting(stack), stack # <<>>, stack[1].proc \notin Traversing \cup {"enum"},
         NEW k \in 2..Len(stack)
  PROVE  ~Needs(stack[k])
<1>1. k \in 1..Len(stack) /\ k-1 \in 1..Len(stack)
  BY DEF Calls, IsSeq
<1>2. stack[k].proc \notin Traversing \cup {"enum"} /\ stack[k-1].proc \notin Traversing \cup {"enum"}
  BY <1>1, NoRecords
<1>3. QED
  BY <1>2 DEF Needs, Waiting, Traversing

LEMMA QuietlyKept ==
  ASSUME Inv, Waiting(stack), StoreKept, SameNames, stack # <<>>, Head(stack).proc # "rename",
         \/ _currentStructure # NULL => _currentStructure' # NULL
         \/ stack[1].proc \notin Traversing \cup {"enum"}
  PROVE  Undisturbed
<1>1. NamesKept /\ \A t : ~Renaming(t)
  BY SameNamesKept DEF Renaming
<1>2. ASSUME NEW k \in 2..Len(stack), Needs(stack[k]) PROVE _currentStructure' # NULL
  <2>1. CASE stack[1].proc \notin Traversing \cup {"enum"}
    BY <1>2, <2>1, NoNeeds DEF Inv, NestingInv
  <2>2. CASE _currentStructure # NULL => _currentStructure' # NULL
    <3>1. k \in 1..Len(stack)
      BY DEF Inv, NestingInv, Calls, IsSeq
    <3>2. Waits(stack[k])
      BY <3>1 DEF Waiting
    <3>3. QED
      BY <1>2, <2>2, <3>2 DEF Waits, Needs
  <2>3. QED
    BY <2>1, <2>2
<1>3. QED
  BY <1>1, <1>2 DEF Undisturbed

(* The innermost call returns or aborts, ...                               *)
LEMMA ReturnsWaiting ==
  ASSUME Inv, Waiting(stack), stack # <<>>, Head(stack).proc # "rename", UNCHANGED Unit,
         UNCHANGED <<heap, allComponents, Components, names, _currentStructure>>,
         stack' \in {Tail(stack), <<>>}
  PROVE  Waiting(stack)'
<1>1. SameNames /\ StoreKept /\ IsSeq(stack)
  BY Visiting, QuietStore DEF SameNames, Inv, NestingInv, Calls
<1>2. Undisturbed
  BY <1>1, QuietlyKept
<1>3. CASE stack' = Tail(stack)
  <2>1. PICK t : t = Tail(stack)
    OBVIOUS
  <2>2. Waiting(t)'
    BY <1>1, <1>2, <2>1, BelowSelf, Returned
  <2>3. QED
    BY <1>3, <2>1, <2>2, WaitingNow
<1>4. CASE stack' = <<>>
  BY <1>4, EmptyIsSeq DEF Waiting
<1>5. QED
  BY <1>3, <1>4

(* ... goes on ...                                                         *)
LEMMA GoesOnWaiting ==
  ASSUME Inv, Waiting(stack), stack # <<>>, Head(stack).proc # "rename", UNCHANGED Unit,
         UNCHANGED <<heap, allComponents, Components, names, _currentStructure>>,
         NEW s, AsCalledBelow(stack, s), Waits(s[1])', stack' \in {s, Tail(stack), <<>>}
  PROVE  Waiting(stack)'
<1>1. SameNames /\ StoreKept
  BY Visiting, QuietStore DEF SameNames, Inv, NestingInv
<1>2. Undisturbed
  BY <1>1, QuietlyKept
<1>3. CASE stack' = s
  BY <1>2, <1>3, HeadGoesOn, WaitingNow
<1>4. CASE stack' \in {Tail(stack), <<>>}
  BY <1>4, ReturnsWaiting
<1>5. QED
  BY <1>3, <1>4

(* ... or calls a traversal.                                               *)
LEMMA BeginsWaiting ==
  ASSUME Inv, Waiting(stack), stack # <<>>, Head(stack).proc \notin {"record", "rename"}, UNCHANGED Unit,
         UNCHANGED <<heap, allComponents, Components, names, _currentStructure>>,
         NEW s, AsCalledBelow(stack, s), Idle(s[1]), NEW f, Idle(f), f.proc # "record",
         stack' = <<f>> \o s
  PROVE  Waiting(stack)'
<1>1. SameNames /\ StoreKept /\ IsSeq(s) /\ s[1].proc # "record"
  BY Visiting, QuietStore DEF SameNames, Inv, NestingInv, AsCalledBelow
<1>2. Undisturbed
  BY <1>1, QuietlyKept
<1>3. PICK g, u : g = s[1] /\ u = <<f>> \o s
  OBVIOUS
<1>4. Waits(g)' /\ Waits(f)' /\ ~Adopts(g)
  BY <1>1, <1>3, IdleWaits DEF Idle
<1>5. Waiting(s)'
  BY <1>2, <1>3, <1>4, HeadGoesOn
<1>6. Waiting(u)'
  BY <1>1, <1>3, <1>4, <1>5, CallMade
<1>7. QED
  BY <1>3, <1>6, WaitingNow

-----------------------------------------------------------------------------
(* What a step changes in the frame it is of                               *)

LEMMA HeadBelow ==
  ASSUME NEW s, Calls(s), s # <<>>, "at" \in DOMAIN s[1], NEW g, g.proc = s[1].proc
  PROVE  AsCalledBelow(s, Put(s, 1, g)) /\ Put(s, 1, g)[1] = g
<1>1. IsSeq(s) /\ 1 \in 1..Len(s)
  BY NonEmpty DEF Calls
<1>2. PICK t : t = Put(s, 1, g)
  OBVIOUS
<1>3. IsSeq(t) /\ Len(t) = Len(s) /\ \A k \in 1..Len(s) : t[k] = IF k = 1 THEN g ELSE s[k]
  BY <1>1, <1>2, ExceptAny
<1>4. \A k \in 2..Len(s) : k \in 1..Len(s) /\ k # 1
  BY <1>1 DEF IsSeq
<1>5. QED
  BY <1>1, <1>2, <1>3, <1>4 DEF AsCalledBelow, AsCalled

(* Only where it is changes.                                               *)
PutAt(s, l) == [s EXCEPT ![1].at = l]

LEMMA AtBelow ==
  ASSUME NEW s, Calls(s), s # <<>>, "at" \in DOMAIN s[1], NEW l, NEW t, t = PutAt(s, l)
  PROVE  /\ AsCalledBelow(s, t) /\ "at" \in DOMAIN t[1] /\ t[1].at = l
         /\ t[1].proc = s[1].proc /\ t[1].D = s[1].D
         /\ s[1].proc = "record" => t[1].i = s[1].i
<1>1. PICK f, g : f = s[1] /\ g = [f EXCEPT !.at = l]
  OBVIOUS
<1>2. Fits(f) /\ "at" \in DOMAIN f
  BY <1>1, NonEmpty
<1>3. /\ "at" \in DOMAIN g /\ g.at = l /\ g.proc = s[1].proc /\ g.D = s[1].D
      /\ s[1].proc = "record" => g.i = s[1].i
  BY <1>1, <1>2 DEF Fits
<1>4. t = Put(s, 1, g)
  BY <1>1 DEF PutAt, Put
<1>5. AsCalledBelow(s, t) /\ t[1] = g
  BY <1>3, <1>4, HeadBelow
<1>6. QED
  BY <1>3, <1>5

(* Something else does.                                                    *)
Others(s, v) == {[s EXCEPT ![1].i = v], [s EXCEPT ![1].anons = v], [s EXCEPT ![1].n = v],
                 [s EXCEPT ![1].k = v], [s EXCEPT ![1].last = v], [s EXCEPT ![1].C = v]}

LEMMA OtherBelow ==
  ASSUME NEW s, Calls(s), s # <<>>, "at" \in DOMAIN s[1], NEW v, NEW t, t \in Others(s, v)
  PROVE  /\ AsCalledBelow(s, t) /\ "at" \in DOMAIN t[1] /\ t[1].at = s[1].at
         /\ t[1].proc = s[1].proc /\ t[1].D = s[1].D
<1>1. PICK f, a, b, c, d, e, h :
        /\ f = s[1]
        /\ a = [f EXCEPT !.i = v] /\ b = [f EXCEPT !.anons = v] /\ c = [f EXCEPT !.n = v]
        /\ d = [f EXCEPT !.k = v] /\ e = [f EXCEPT !.last = v] /\ h = [f EXCEPT !.C = v]
  OBVIOUS
<1>2. {"proc", "D", "at"} \subseteq DOMAIN f
  <2>1. Fits(f) /\ "at" \in DOMAIN f
    BY <1>1, NonEmpty
  <2>2. QED
    BY <2>1 DEF Fits
<1>3. ASSUME NEW g \in {a, b, c, d, e, h}
      PROVE  "at" \in DOMAIN g /\ g.at = s[1].at /\ g.proc = s[1].proc /\ g.D = s[1].D
  BY <1>1, <1>2
<1>4. \E g \in {a, b, c, d, e, h} : t = Put(s, 1, g)
  BY <1>1 DEF Others, Put
<1>5. PICK g \in {a, b, c, d, e, h} : t = Put(s, 1, g)
  BY <1>4
<1>6. AsCalledBelow(s, t) /\ t[1] = g
  BY <1>3, <1>5, HeadBelow
<1>7. QED
  BY <1>3, <1>6

(* The queue of some call does.                                            *)
PutRelated(s, n, v) == [s EXCEPT ![n].related = v]

LEMMA RelatedBelow ==
  ASSUME NEW s, Calls(s), s # <<>>, NEW n, NEW v, NEW t, t = PutRelated(s, n, v)
  PROVE  AsCalledBelow(s, t) /\ AsCalled(s[1], t[1])
<1>1. PICK g : g = [s[n] EXCEPT !.related = v]
  OBVIOUS
<1>2. t = Put(s, n, g) /\ IsSeq(s) /\ 1 \in 1..Len(s)
  BY <1>1, NonEmpty DEF Calls, Put, PutRelated
<1>3. IsSeq(t) /\ Len(t) = Len(s) /\ \A k \in 1..Len(s) : t[k] = IF k = n THEN g ELSE s[k]
  BY <1>2, ExceptAny
<1>4. ASSUME NEW k \in 1..Len(s) PROVE AsCalled(s[k], t[k])
  <2>1. CASE k = n
    <3>1. Fits(s[n]) /\ t[k] = g
      BY <1>3, <2>1 DEF Calls
    <3>2. AsCalled(s[n], g)
      BY <1>1, <3>1 DEF Fits, AsCalled
    <3>3. QED
      BY <2>1, <3>1, <3>2
  <2>2. CASE k # n
    BY <1>3, <2>2 DEF AsCalled
  <2>3. QED
    BY <2>1, <2>2
<1>5. \A k \in 2..Len(s) : k \in 1..Len(s)
  BY <1>2 DEF IsSeq
<1>6. QED
  BY <1>2, <1>3, <1>4, <1>5 DEF AsCalledBelow, AsCalled

(* The innermost call a step further                                       *)
Onward(t) == /\ AsCalledBelow(stack, t) /\ Calls(t) /\ t # <<>>
             /\ "at" \in DOMAIN t[1] /\ t[1].proc = stack[1].proc

LEMMA OnwardFurther ==
  ASSUME NEW s, Onward(s), NEW v, NEW t, SameCalls(s, t)
  PROVE  /\ t \in Others(s, v) => Onward(t) /\ t[1].at = s[1].at
         /\ t = PutAt(s, v) => Onward(t) /\ t[1].at = v
<1>1. Calls(t) /\ 1 \in 1..Len(s) /\ Len(t) = Len(s)
  BY SameKeeps, NonEmpty DEF Onward, SameCalls
<1>2. t # <<>>
  <2>1. Len(t) # 0
    BY <1>1
  <2>2. QED
    BY <2>1, EmptyIsSeq
<1>3. ASSUME t = PutAt(s, v) PROVE Onward(t) /\ t[1].at = v
  <2>1. AsCalledBelow(s, t) /\ "at" \in DOMAIN t[1] /\ t[1].at = v /\ t[1].proc = s[1].proc
    BY <1>3, AtBelow DEF Onward
  <2>2. QED
    BY <1>1, <1>2, <2>1, BelowTwice DEF Onward
<1>4. ASSUME t \in Others(s, v) PROVE Onward(t) /\ t[1].at = s[1].at
  <2>1. AsCalledBelow(s, t) /\ "at" \in DOMAIN t[1] /\ t[1].at = s[1].at /\ t[1].proc = s[1].proc
    BY <1>4, OtherBelow DEF Onward
  <2>2. QED
    BY <1>1, <1>2, <2>1, BelowTwice DEF Onward
<1>5. QED
  BY <1>3, <1>4

LEMMA OnwardSelf == ASSUME Inv, Waiting(stack), stack # <<>> PROVE Onward(stack)
<1>1. Calls(stack) /\ 1 \in 1..Len(stack) /\ IsSeq(stack)
  BY NonEmpty DEF Inv, NestingInv, Calls
<1>2. "at" \in DOMAIN stack[1]
  BY <1>1 DEF Waiting, Waits
<1>3. QED
  BY <1>1, <1>2, BelowSelf DEF Onward

LEMMA OnwardAt ==
  ASSUME Inv, Waiting(stack), stack # <<>>, NEW l, NEW t, t = At(l) PROVE Onward(t) /\ t[1].at = l
<1>1. SameCalls(stack, t)
  BY AtSame DEF Inv, NestingInv
<1>2. t = PutAt(stack, l)
  BY DEF At, PutAt
<1>3. QED
  BY <1>1, <1>2, OnwardSelf, OnwardFurther

LEMMA OnwardNext ==
  ASSUME Inv, Waiting(stack), stack # <<>>
  PROVE  /\ Onward(NextField) /\ NextField[1].at = "start"
         /\ Onward(NextParam) /\ Onward(NextNode) /\ Onward(NextElement) /\ Onward(NextSub)
<1>0. Calls(stack)
  BY DEF Inv, NestingInv
<1>1. ASSUME NEW l, NEW t, t = [At(l) EXCEPT ![1].i = @ + 1] PROVE Onward(t) /\ t[1].at = l
  <2>1. PICK s, v : s = At(l) /\ v = s[1].i + 1
    OBVIOUS
  <2>2. Onward(s) /\ s[1].at = l
    BY <2>1, OnwardAt
  <2>3. t = [s EXCEPT ![1].i = @ + 1] /\ t = [s EXCEPT ![1].i = v]
    BY <1>1, <2>1
  <2>4. t \in Others(s, v)
    BY <2>3 DEF Others
  <2>5. SameCalls(s, t)
    BY <2>2, <2>3, NextSame DEF Onward
  <2>6. QED
    BY <2>2, <2>4, <2>5, OnwardFurther
<1>2. Onward(NextNode)
  <2>1. PICK s, v, t : s = [stack EXCEPT ![1].at = "leave"] /\ v = s[1].n + 1 /\ t = [s EXCEPT ![1].n = v]
    OBVIOUS
  <2>2. SameCalls(stack, s) /\ s = PutAt(stack, "leave")
    BY <1>0, <2>1, HeadSame DEF PutAt
  <2>3. Onward(s)
    BY <2>2, OnwardSelf, OnwardFurther
  <2>4. SameCalls(s, t) /\ t \in Others(s, v)
    BY <2>1, <2>3, HeadSame DEF Onward, Others
  <2>5. Onward(t)
    BY <2>3, <2>4, OnwardFurther
  <2>6. t = NextNode
    BY <2>1 DEF NextNode
  <2>7. QED
    BY <2>5, <2>6
<1>3. Onward(NextElement)
  <2>1. PICK s, v, t : /\ v = stack[1].i + 1
                       /\ s = [stack EXCEPT ![1].i = v] /\ t = [s EXCEPT ![1].k = 1]
    OBVIOUS
  <2>2. s = [stack EXCEPT ![1].i = @ + 1] /\ s \in Others(stack, v)
    BY <2>1 DEF Others
  <2>3. Onward(s)
    BY <1>0, <2>2, NextSame, OnwardSelf, OnwardFurther
  <2>4. SameCalls(s, t) /\ t \in Others(s, 1)
    BY <2>1, <2>3, HeadSame DEF Onward, Others
  <2>5. Onward(t)
    BY <2>3, <2>4, OnwardFurther
  <2>6. t = NextElement
    BY <2>1 DEF NextElement
  <2>7. QED
    BY <2>5, <2>6
<1>4. Onward(NextSub)
  <2>1. PICK v, t : v = stack[1].k + 1 /\ t = [stack EXCEPT ![1].k = v]
    OBVIOUS
  <2>2. SameCalls(stack, t) /\ t \in Others(stack, v)
    BY <1>0, <2>1, HeadSame DEF Others
  <2>3. Onward(t)
    BY <2>2, OnwardSelf, OnwardFurther
  <2>4. t = NextSub
    BY <2>1 DEF NextSub
  <2>5. QED
    BY <2>3, <2>4
<1>5. QED
  BY <1>1, <1>2, <1>3, <1>4 DEF NextField, NextParam

-----------------------------------------------------------------------------
(* Entering a declaration                                                  *)

(* What is looked up and bound unless it is found is there.                *)
LEMMA BoundOrFound ==
  ASSUME StoreFits, NEW ty, NEW n, NEW hit, hit = LookupFull(ty, n),
         IF hit = NULL THEN BindNew(ty, n, FALSE) ELSE UNCHANGED Bound
  PROVE  StoreKept /\ HasKey(Stored, ty, n)' /\ Own(hit) # NULL
<1>1. CASE hit = NULL
  <2>1. Bind(ty, n, FALSE, Mains[TU])
    BY <1>1 DEF BindNew
  <2>2. ~HasKey(Components, ty, n)
    <3>1. ~HasKey(Stored, ty, n)
      BY <1>1, Found
    <3>2. QED
      BY <3>1 DEF Stored, HasKey
  <2>3. /\ StoreKept /\ Len(heap) + 1 \in Stored'
        /\ heap'[Len(heap) + 1].type = ty /\ heap'[Len(heap) + 1].id = n
    BY <2>1, <2>2, BindKeeps
  <2>4. HasKey(Stored, ty, n)'
    BY <2>3 DEF HasKey, Matches
  <2>5. Own(hit) # NULL
    <3>1. Len(heap) \in Nat
      BY DEF StoreFits, IsSeq
    <3>2. Len(heap) + 1 # 0
      BY <3>1
    <3>3. QED
      BY <1>1, <3>2 DEF Own, NULL
  <2>6. QED
    BY <2>3, <2>4, <2>5
<1>2. CASE hit # NULL
  <2>1. UNCHANGED <<heap, allComponents, Components>>
    BY <1>2 DEF Bound
  <2>2. StoreKept
    BY <2>1, QuietStore
  <2>3. HasKey(Stored, ty, n)
    BY <1>2, Found
  <2>4. HasKey(Stored, ty, n)'
    BY <2>2, <2>3, KeyKept
  <2>5. QED
    BY <1>2, <2>2, <2>4 DEF Own
<1>3. QED
  BY <1>1, <1>2

LEMMA FrameIdle ==
  ASSUME NEW p, NEW d, NEW c, NEW f, f = Frame(p, d, c)
  PROVE  Idle(f) /\ f.proc = p
  BY DEF Frame, Idle, Adopts

(* A record or an enum that has a name gets a structure.                   *)
LEMMA TagShape ==
  ASSUME Inv, SameNames, NEW d, IsTag(d), names[d] # Anonymous, NEW top, NEW t, EnterTag(d, top, t)
  PROVE  /\ StoreKept /\ Present(d)' /\ _currentStructure' # NULL
         /\ \/ stack' = t
            \/ \E f : Idle(f) /\ f.proc \in {"record", "enum"} /\ stack' = <<f>> \o t
<1>1. PICK ty, n, hit, c : ty = ModelType(d) /\ n = names[d] /\ hit = LookupFull(ty, n) /\ c = Own(hit)
  OBVIOUS
<1>2. StoreFits
  BY DEF Inv, NestingInv
<1>3. /\ IF hit = NULL THEN BindNew(ty, n, FALSE) ELSE UNCHANGED Bound
      /\ c # NULL => _currentStructure' = c
      /\ \/ stack' = t
         \/ \E f : Idle(f) /\ f.proc \in {"record", "enum"} /\ stack' = <<f>> \o t
  <2>1. CASE Decl(d).kind = "record"
    <3>0. ty = "struct"
      BY <1>1, <2>1 DEF ModelType
    <3>1. /\ IF hit = NULL THEN BindNew("struct", n, FALSE) ELSE UNCHANGED Bound
          /\ _currentStructure' = c
          /\ \/ stack' = t
             \/ \E r : stack' = <<[Frame("record", d, c) EXCEPT !.top = top, !.related = r]>> \o t
      BY <1>1, <2>1, <3>0 DEF EnterTag, EnterRecord
    <3>2. ASSUME NEW r, stack' = <<[Frame("record", d, c) EXCEPT !.top = top, !.related = r]>> \o t
          PROVE  \E f : Idle(f) /\ f.proc \in {"record", "enum"} /\ stack' = <<f>> \o t
      <4>1. PICK f : f = [Frame("record", d, c) EXCEPT !.top = top, !.related = r]
        OBVIOUS
      <4>2. Idle(f) /\ f.proc = "record"
        BY <4>1 DEF Frame, Idle, Adopts
      <4>3. stack' = <<f>> \o t
        BY <3>2, <4>1
      <4>4. QED
        BY <4>2, <4>3
    <3>3. QED
      BY <3>0, <3>1, <3>2
  <2>2. CASE Decl(d).kind # "record"
    <3>0. ty = "enum"
      BY <1>1, <2>2 DEF ModelType, IsTag
    <3>1. EnterEnum(d, t)
      BY <2>2 DEF EnterTag
    <3>2. LookupFull("enum", names[d]) = hit /\ n = names[d]
      BY <1>1, <3>0
    <3>3. c # NULL
      <4>1. Len(heap) + 1 # NULL
        <5>1. Len(heap) \in Nat
          BY <1>2 DEF StoreFits, IsSeq
        <5>2. QED
          BY <5>1 DEF NULL
      <4>2. QED
        BY <1>1, <4>1 DEF Own
    <3>4. /\ IF hit = NULL THEN BindNew("enum", n, FALSE) ELSE UNCHANGED Bound
          /\ _currentStructure' = c
          /\ stack' = t \/ stack' = <<Frame("enum", d, c)>> \o t
      BY <1>1, <3>1, <3>2, <3>3 DEF EnterEnum
    <3>5. PICK f : f = Frame("enum", d, c)
      OBVIOUS
    <3>6. Idle(f) /\ f.proc = "enum"
      BY <3>5, FrameIdle
    <3>7. QED
      BY <3>0, <3>4, <3>5, <3>6
  <2>3. QED
    BY <2>1, <2>2
<1>4. StoreKept /\ HasKey(Stored, ty, n)' /\ c # NULL
  BY <1>1, <1>2, <1>3, BoundOrFound
<1>5. Present(d)'
  BY <1>1, <1>4 DEF Present, SameNames, IsTag, Declared, Decl, ModelType, Stored
<1>6. QED
  BY <1>3, <1>4, <1>5

LEMMA UnnamedShape ==
  ASSUME NEW d, IsTag(d), names[d] = Anonymous, NEW top, NEW t, EnterTag(d, top, t)
  PROVE  /\ UNCHANGED <<heap, allComponents, Components>>
         /\ stack' = t \/ stack' = <<Frame("enum", d, NULL)>> \o t
  BY DEF EnterTag, EnterRecord, EnterEnum, Bound

LEMMA OtherShape ==
  ASSUME StoreFits, NEW d, NEW t,
         \/ EnterVar(d, t)
         \/ EnterFunction(d, t)
         \/ EnterTypedef(d, t)
  PROVE  /\ StoreKept
         /\ \/ stack' = t
            \/ \E f : Idle(f) /\ f.proc # "record" /\ stack' = <<f>> \o t
<1>1. StoreKept
  <2>1. CASE UNCHANGED Bound
    BY <2>1, QuietStore DEF Bound
  <2>2. ASSUME NEW ty, NEW n, NEW local, BindNew(ty, n, local) PROVE StoreKept
    BY <2>2, BindKeeps DEF BindNew
  <2>3. QED
    BY <2>1, <2>2 DEF EnterVar, EnterFunction, EnterTypedef
<1>2. CASE EnterVar(d, t)
  <2>1. PICK c, f : (stack' = t \/ stack' = <<Frame("var", d, c)>> \o t) /\ f = Frame("var", d, c)
    BY <1>2 DEF EnterVar
  <2>2. Idle(f) /\ f.proc = "var"
    BY <2>1, FrameIdle
  <2>3. QED
    BY <1>1, <2>1, <2>2
<1>3. CASE EnterFunction(d, t)
  <2>1. PICK c, l : stack' = <<[Frame("function", d, c) EXCEPT !.at = l]>> \o t
    BY <1>3 DEF EnterFunction
  <2>2. PICK f : f = [Frame("function", d, c) EXCEPT !.at = l]
    OBVIOUS
  <2>3. "at" \in DOMAIN f /\ f.proc = "function"
    BY <2>2 DEF Frame
  <2>4. Idle(f)
    BY <2>3, PlainIdle
  <2>5. QED
    BY <1>1, <2>1, <2>2, <2>3, <2>4
<1>4. CASE EnterTypedef(d, t)
  <2>1. PICK f : f = Frame("typedef", d, NULL)
    OBVIOUS
  <2>2. Idle(f) /\ f.proc = "typedef"
    BY <2>1, FrameIdle
  <2>3. stack' = <<f>> \o t
    BY <1>4, <2>1 DEF EnterTypedef
  <2>4. QED
    BY <1>1, <2>2, <2>3
<1>5. QED
  BY <1>2, <1>3, <1>4

LEMMA EnterShape ==
  ASSUME Inv, SameNames, NEW d, NEW t, Enter(d, t)
  PROVE  /\ StoreKept
         /\ \/ stack' = t
            \/ \E f : /\ Idle(f) /\ (f.proc = "record" => _currentStructure' # NULL)
                      /\ stack' = <<f>> \o t
         /\ IsTag(d) /\ names[d] # Anonymous => Present(d)' /\ _currentStructure' # NULL
<1>0. StoreFits
  BY DEF Inv, NestingInv
<1>1. CASE IsTag(d) /\ EnterTag(d, TRUE, t) /\ names[d] # Anonymous
  BY <1>1, TagShape
<1>2. CASE IsTag(d) /\ EnterTag(d, TRUE, t) /\ names[d] = Anonymous
  <2>1. PICK f : f = Frame("enum", d, NULL)
    OBVIOUS
  <2>2. UNCHANGED <<heap, allComponents, Components>> /\ (stack' = t \/ stack' = <<f>> \o t)
    BY <1>2, <2>1, UnnamedShape
  <2>3. Idle(f) /\ f.proc = "enum"
    BY <2>1, FrameIdle
  <2>4. StoreKept
    BY <1>0, <2>2, QuietStore
  <2>5. QED
    BY <1>2, <2>2, <2>3, <2>4
<1>3. CASE \/ Decl(d).kind = "var" /\ EnterVar(d, t)
           \/ Decl(d).kind = "function" /\ EnterFunction(d, t)
           \/ Decl(d).kind = "typedef" /\ EnterTypedef(d, t)
  <2>1. ~IsTag(d)
    BY <1>3 DEF IsTag
  <2>2. /\ StoreKept
        /\ \/ stack' = t
           \/ \E f : Idle(f) /\ f.proc # "record" /\ stack' = <<f>> \o t
    BY <1>0, <1>3, OtherShape
  <2>3. QED
    BY <2>1, <2>2
<1>4. QED
  BY <1>1, <1>2, <1>3 DEF Enter

(* A call that has a type visited goes on waiting for it.                  *)
LEMMA CallsVisitor ==
  ASSUME Undisturbed, Inv, Waiting(stack), NEW s, AsCalledBelow(stack, s), Waits(s[1])', ~Adopts(s[1]),
         \/ stack' = s
         \/ \E f : /\ Idle(f) /\ (f.proc = "record" => _currentStructure' # NULL)
                   /\ stack' = <<f>> \o s
  PROVE  Waiting(stack)'
<1>1. Waiting(s)' /\ IsSeq(s)
  BY HeadGoesOn DEF AsCalledBelow
<1>2. CASE stack' = s
  BY <1>1, <1>2, WaitingNow
<1>3. ASSUME NEW f, Idle(f), f.proc = "record" => _currentStructure' # NULL, stack' = <<f>> \o s
      PROVE  Waiting(stack)'
  <2>1. PICK u : u = <<f>> \o s
    OBVIOUS
  <2>2. Waits(f)'
    BY <1>3, IdleWaits
  <2>3. Waiting(u)'
    BY <1>1, <2>1, <2>2, CallMade
  <2>4. QED
    BY <1>3, <2>1, <2>3, WaitingNow
<1>4. QED
  BY <1>2, <1>3

LEMMA DiscoverWaits ==
  ASSUME Inv, Waiting(stack), UNCHANGED Unit, stack # <<>>, Head(stack).proc \notin {"rename", "enum"},
         NEW t, DiscoverVisits(t),
         Head(stack).proc = "record" =>
           /\ t = Field.type /\ Head(stack).i <= Len(Decl(Head(stack).D).fields)
           /\ IsTag(t) /\ names[t] # Anonymous
  PROVE  Waiting(stack)'
<1>1. SameNames /\ Calls(stack) /\ Head(stack) = stack[1]
  BY Visiting DEF SameNames, DiscoverVisits
<1>2. PICK s, g : s = At("retry") /\ g = s[1]
  OBVIOUS
<1>3. Onward(s) /\ g.at = "retry"
  BY <1>2, OnwardAt
<1>4. Enter(t, s)
  BY <1>2 DEF DiscoverVisits
<1>5. /\ StoreKept
      /\ \/ stack' = s
         \/ \E f : /\ Idle(f) /\ (f.proc = "record" => _currentStructure' # NULL)
                   /\ stack' = <<f>> \o s
      /\ IsTag(t) /\ names[t] # Anonymous => Present(t)' /\ _currentStructure' # NULL
  BY <1>1, <1>4, EnterShape
<1>6. /\ "at" \in DOMAIN g /\ g.proc = stack[1].proc
      /\ stack[1].proc = "record" => g.D = stack[1].D /\ g.i = stack[1].i
  <2>1. s = PutAt(stack, "retry") /\ "at" \in DOMAIN stack[1]
    BY <1>2, OnwardSelf DEF At, PutAt, Onward
  <2>2. QED
    BY <1>1, <1>2, <1>3, <2>1, AtBelow DEF Onward
<1>7. Undisturbed
  <2>1. CASE stack[1].proc = "record"
    BY <1>1, <1>5, <2>1, QuietlyKept
  <2>2. CASE stack[1].proc # "record"
    BY <1>1, <1>5, <2>2, QuietlyKept DEF Traversing
  <2>3. QED
    BY <2>1, <2>2
<1>8. Waits(g)'
  <2>1. CASE stack[1].proc = "record"
    <3>1. /\ t = Decl(g.D).fields[g.i].type /\ g.i <= Len(Decl(g.D).fields)
          /\ IsTag(t) /\ names[t] # Anonymous
      BY <1>1, <1>6, <2>1 DEF Field
    <3>2. Present(t)' /\ _currentStructure' # NULL /\ ~NeedsName(t)'
      BY <1>5, <3>1 DEF Present, NeedsName
    <3>3. Decl(g.D)' = Decl(g.D)
      BY <1>1 DEF SameNames, Decl
    <3>4. g.proc = "record"
      BY <1>6, <2>1
    <3>5. QED
      BY <1>3, <1>6, <3>1, <3>2, <3>3, <3>4 DEF Waits, Adopts
  <2>2. CASE stack[1].proc # "record"
    BY <1>3, <1>6, <2>2, IdleWaits DEF Idle, Adopts
  <2>3. QED
    BY <2>1, <2>2
<1>9. ~Adopts(g)
  BY <1>3 DEF Adopts
<1>10. QED
  BY <1>2, <1>3, <1>5, <1>7, <1>8, <1>9, CallsVisitor DEF Onward

-----------------------------------------------------------------------------
(* The steps of the visitors                                               *)

(* A type is renamed, and visited next.                                    *)
LEMMA RenamesWait ==
  ASSUME Inv, Inv', Waiting(stack), UNCHANGED Unit, stack # <<>>,
         UNCHANGED <<heap, allComponents, Components>>,
         Head(stack).proc \in {"record", "var", "typedef"},
         NEW t, NeedsName(t), NEW n, Rename(t, n), NEW l, NEW s, s = At(l),
         Head(stack).proc = "record" =>
           l = "adopt" /\ t = Field.type /\ Head(stack).i <= Len(Decl(Head(stack).D).fields),
         Head(stack).proc = "typedef" => l # "check",
         NEW f, f.proc = "rename", f.D = t, "at" \in DOMAIN f,
         stack' = <<f>> \o s
  PROVE  Waiting(stack)'
<1>1. /\ program' = program /\ Calls(stack) /\ Head(stack) = stack[1] /\ StoreFits
      /\ DOMAIN names = DOMAIN program.decls
  BY Visiting DEF Inv, NestingInv
<1>2. PICK g, u : g = s[1] /\ u = <<f>> \o s
  OBVIOUS
<1>3. Onward(s) /\ g.at = l
  BY <1>2, OnwardAt
<1>4. /\ "at" \in DOMAIN g /\ g.proc = stack[1].proc /\ g.D = stack[1].D
      /\ stack[1].proc = "record" => g.i = stack[1].i
  <2>1. s = PutAt(stack, l) /\ "at" \in DOMAIN stack[1]
    BY OnwardSelf DEF At, PutAt, Onward
  <2>2. QED
    BY <1>1, <1>2, <1>3, <2>1, AtBelow DEF Onward
<1>5. u # <<>> /\ Head(u) = f /\ u[1] = f /\ 1 \in 1..Len(u)
  <2>1. IsSeq(s) /\ Len(s) \in Nat
    BY <1>3 DEF Onward, AsCalledBelow, IsSeq
  <2>2. IsSeq(u) /\ u[1] = f /\ Len(u) = Len(s) + 1
    BY <1>2, <2>1, Pushed
  <2>3. Len(u) # 0 /\ 1 \in 1..Len(u)
    BY <2>1, <2>2
  <2>4. u # <<>>
    BY <2>3, EmptyIsSeq
  <2>5. QED
    BY <2>2, <2>3, <2>4, Popped
<1>6. stack' = u
  BY <1>2
<1>7. Head(stack').proc = "rename" /\ Renaming(t)' /\ ~NeedsName(t)'
  <2>1. Fits(f)'
    BY <1>5, <1>6 DEF Inv, NestingInv, Calls
  <2>2. QED
    BY <1>5, <1>6, <2>1 DEF Renaming, NeedsName, Fits, Traversing
<1>8. NamesKept
  <2>1. \A d \in DOMAIN names : d # t => names'[d] = names[d]
    BY DEF Rename
  <2>2. QED
    BY <1>1, <2>1 DEF NamesKept, NeedsName
<1>9. Undisturbed
  <2>1. StoreKept
    BY <1>1, QuietStore
  <2>2. \A d : ~Renaming(d)
    BY DEF Renaming
  <2>3. QED
    BY <1>7, <1>8, <2>1, <2>2 DEF Undisturbed
<1>10. Waits(g)'
  <2>1. CASE stack[1].proc = "record"
    <3>1. t = Decl(g.D).fields[g.i].type /\ g.i <= Len(Decl(g.D).fields) /\ g.at = "adopt"
      BY <1>1, <1>3, <1>4, <2>1 DEF Field
    <3>2. Decl(g.D)' = Decl(g.D) /\ g.proc = "record"
      BY <1>1, <1>4, <2>1 DEF Decl
    <3>3. QED
      BY <1>4, <1>7, <3>1, <3>2 DEF Waits, Adopts
  <2>2. CASE stack[1].proc # "record"
    BY <1>1, <1>3, <1>4, <1>7, <2>2 DEF Waits
  <2>3. QED
    BY <2>1, <2>2
<1>11. Waiting(s)' /\ IsSeq(s)
  BY <1>2, <1>3, <1>9, <1>10, HeadGoesOn DEF Onward, AsCalledBelow
<1>12. Waits(f)'
  BY PlainIdle, IdleWaits
<1>13. Waiting(u)'
  BY <1>2, <1>11, <1>12, CallMade DEF Traversing
<1>14. QED
  BY <1>6, <1>13, WaitingNow

LEMMA FieldAnonymousWaits == ASSUME Inv, Inv', Waiting(stack), FieldAnonymous, UNCHANGED Unit PROVE Waiting(stack)'
<1>1. /\ stack # <<>> /\ Head(stack).proc = "record" /\ UNCHANGED <<heap, allComponents, Components>>
      /\ Head(stack).i <= Len(Decl(Head(stack).D).fields)
  BY DEF FieldAnonymous, InField, Running, Bound
<1>2. PICK t, n, s, f, l : /\ t = Field.type /\ n = Append(heap[Head(stack).C].id, Anon(Head(stack).anons))
                           /\ l = "adopt" /\ s = At(l) /\ f = Frame("rename", t, NULL)
  OBVIOUS
<1>3. NeedsName(t) /\ Rename(t, n) /\ stack' = <<f>> \o s
  BY <1>2 DEF FieldAnonymous
<1>4. f.proc = "rename" /\ f.D = t /\ "at" \in DOMAIN f
  BY <1>2 DEF Frame
<1>5. t = Field.type /\ s = At(l) /\ l = "adopt"
  BY <1>2
<1>6. QED
  BY <1>1, <1>3, <1>4, <1>5, RenamesWait

LEMMA VarAnonymousWaits == ASSUME Inv, Inv', Waiting(stack), VarAnonymous, UNCHANGED Unit PROVE Waiting(stack)'
<1>1. stack # <<>> /\ Head(stack).proc = "var" /\ UNCHANGED <<heap, allComponents, Components>>
  BY DEF VarAnonymous, Running, Bound
<1>2. PICK t, n, s, f, l : /\ t = Decl(Head(stack).D).type /\ n = Append(heap[Head(stack).C].id, Anon(0))
                           /\ l = "adopt" /\ s = At(l) /\ f = [Frame("rename", t, NULL) EXCEPT !.top = TRUE]
  OBVIOUS
<1>3. NeedsName(t) /\ Rename(t, n) /\ stack' = <<f>> \o s
  BY <1>2 DEF VarAnonymous
<1>4. f.proc = "rename" /\ f.D = t /\ "at" \in DOMAIN f
  BY <1>2 DEF Frame
<1>5. s = At(l)
  BY <1>2
<1>6. QED
  BY <1>1, <1>3, <1>4, <1>5, RenamesWait

LEMMA TypedefAnonymousWaits ==
  ASSUME Inv, Inv', Waiting(stack), TypedefAnonymous, UNCHANGED Unit PROVE Waiting(stack)'
<1>1. stack # <<>> /\ Head(stack).proc = "typedef" /\ UNCHANGED <<heap, allComponents, Components>>
  BY DEF TypedefAnonymous, Running, Bound
<1>2. PICK t, n, s, f, l : /\ t = Decl(Head(stack).D).type /\ n = Append(Decl(Head(stack).D).name, OfTypedef)
                           /\ l = "bind" /\ s = At(l) /\ f = [Frame("rename", t, NULL) EXCEPT !.top = TRUE]
  OBVIOUS
<1>3. NeedsName(t) /\ Rename(t, n) /\ stack' = <<f>> \o s
  BY <1>2 DEF TypedefAnonymous
<1>4. f.proc = "rename" /\ f.D = t /\ "at" \in DOMAIN f
  BY <1>2 DEF Frame
<1>5. s = At(l) /\ l # "check"
  BY <1>2
<1>6. QED
  BY <1>1, <1>3, <1>4, <1>5, RenamesWait

LEMMA RenamedWaits == ASSUME Inv, Waiting(stack), Renamed, UNCHANGED Unit PROVE Waiting(stack)'
<1>1. stack # <<>> /\ Head(stack).proc = "rename" /\ names' = names
  BY DEF Renamed, Running
<1>2. /\ program' = program /\ Calls(stack) /\ Head(stack) = stack[1] /\ Fits(stack[1]) /\ IsSeq(stack)
  BY <1>1, Visiting DEF Calls
<1>3. SameNames
  BY <1>1, <1>2 DEF SameNames
<1>4. PICK d, top, t : d = stack[1].D /\ top = stack[1].top /\ t = Tail(stack)
  OBVIOUS
<1>5. IsTag(d) /\ names[d] # Anonymous /\ EnterTag(d, top, t)
  BY <1>1, <1>2, <1>4 DEF Fits, Traversing, Renamed
<1>6. /\ StoreKept /\ Present(d)' /\ _currentStructure' # NULL
      /\ \/ stack' = t
         \/ \E f : Idle(f) /\ f.proc \in {"record", "enum"} /\ stack' = <<f>> \o t
  BY <1>3, <1>5, TagShape
<1>7. Undisturbed
  <2>1. \A e : Renaming(e) => e = d
    BY <1>2, <1>4 DEF Renaming
  <2>2. QED
    BY <1>3, <1>6, <2>1, SameNamesKept DEF Undisturbed
<1>8. Waiting(t)' /\ IsSeq(t)
  BY <1>1, <1>2, <1>4, <1>7, BelowSelf, Returned
<1>9. CASE stack' = t
  BY <1>8, <1>9, WaitingNow
<1>10. ASSUME NEW f, Idle(f), f.proc \in {"record", "enum"}, stack' = <<f>> \o t PROVE Waiting(stack)'
  <2>1. PICK u : u = <<f>> \o t
    OBVIOUS
  <2>2. Waits(f)'
    BY <1>6, <1>10, IdleWaits
  <2>3. f.proc \in Traversing \cup {"enum"}
    BY <1>10 DEF Traversing
  <2>4. Waiting(u)'
    BY <1>8, <2>1, <2>2, <2>3, CallMade
  <2>5. QED
    BY <1>10, <2>1, <2>4, WaitingNow
<1>11. QED
  BY <1>6, <1>9, <1>10

(* What a record at one of its fields counts on after the step             *)
LEMMA InFieldWaits ==
  ASSUME Inv, Waiting(stack), stack # <<>>, Head(stack).proc = "record", UNCHANGED Unit,
         UNCHANGED <<names, _currentStructure>>,
         Head(stack).i <= Len(Decl(Head(stack).D).fields), ~NeedsName(Field.type),
         NEW g, g.proc = "record", "at" \in DOMAIN g, g.at \in {"field", "type"},
         g.D = stack[1].D, g.i = stack[1].i
  PROVE  Waits(g)'
<1>1. program' = program /\ Head(stack) = stack[1] /\ 1 \in 1..Len(stack)
  BY Visiting
<1>2. _currentStructure # NULL
  <2>1. Waits(stack[1])
    BY <1>1 DEF Waiting
  <2>2. QED
    BY <1>1, <2>1 DEF Waits
<1>3. PICK t : t = Decl(g.D).fields[g.i].type
  OBVIOUS
<1>4. ~NeedsName(t) /\ g.i <= Len(Decl(g.D).fields)
  BY <1>1, <1>3 DEF Field
<1>5. ~NeedsName(t)' /\ Decl(g.D)' = Decl(g.D)
  BY <1>1, <1>4 DEF NeedsName, IsTag, Declared, Decl
<1>6. QED
  BY <1>2, <1>3, <1>4, <1>5 DEF Waits, Adopts

LEMMA NamedSinceStart ==
  ASSUME Inv, Waiting(stack), stack # <<>>, UNCHANGED Unit, Head(stack).proc = "record", Head(stack).at # "start"
  PROVE  ~NeedsName(Field.type)
<1>1. Head(stack) = stack[1] /\ 1 \in 1..Len(stack)
  BY Visiting
<1>2. Waits(stack[1])
  BY <1>1 DEF Waiting
<1>3. QED
  BY <1>1, <1>2 DEF Waits, Field

LEMMA FieldAdoptWaits == ASSUME Inv, Waiting(stack), FieldAdopt, UNCHANGED Unit PROVE Waiting(stack)'
<1>1. /\ stack # <<>> /\ Head(stack).proc = "record" /\ Head(stack).at = "adopt"
      /\ Head(stack).i <= Len(Decl(Head(stack).D).fields)
      /\ UNCHANGED <<heap, allComponents, Components, names, _currentStructure>>
  BY DEF FieldAdopt, InField, Running
<1>2. Calls(stack) /\ Head(stack) = stack[1] /\ Onward(stack) /\ Fits(stack[1])
  BY <1>1, Visiting, OnwardSelf
<1>3. PICK s, v, t, f, g :
        /\ s = [stack EXCEPT ![1].at = "field"] /\ v = s[1].anons + 1 /\ t = [s EXCEPT ![1].anons = v]
        /\ f = s[1] /\ g = [f EXCEPT !.anons = v]
  OBVIOUS
<1>4. SameCalls(stack, s) /\ Calls(s) /\ s = PutAt(stack, "field")
  BY <1>2, <1>3, HeadSame, SameKeeps DEF PutAt
<1>5. Onward(s) /\ f.at = "field"
  <2>1. Onward(s) /\ s[1].at = "field"
    BY <1>2, <1>4, OnwardFurther
  <2>2. QED
    BY <1>3, <2>1
<1>6. /\ {"proc", "D", "i", "at"} \subseteq DOMAIN f /\ f.proc = "record"
      /\ f.D = stack[1].D /\ f.i = stack[1].i
  <2>1. f.D = stack[1].D /\ f.i = stack[1].i /\ f.proc = "record"
    BY <1>1, <1>2, <1>3, <1>4, AtBelow DEF Onward
  <2>2. Fits(f)
    BY <1>3, <1>5, NonEmpty DEF Onward
  <2>3. QED
    BY <1>3, <1>5, <2>1, <2>2 DEF Fits, Onward
<1>7. /\ g.proc = "record" /\ "at" \in DOMAIN g /\ g.at = "field" /\ g.D = stack[1].D /\ g.i = stack[1].i
  BY <1>3, <1>5, <1>6
<1>8. t = Put(s, 1, g)
  BY <1>3 DEF Put
<1>9. AsCalledBelow(stack, t) /\ t[1] = g
  <2>1. g.proc = s[1].proc
    BY <1>3, <1>6, <1>7
  <2>2. AsCalledBelow(s, t) /\ t[1] = g
    BY <1>5, <1>8, <2>1, HeadBelow DEF Onward
  <2>3. QED
    BY <1>5, <2>2, BelowTwice DEF Onward
<1>10. Waits(g)'
  <2>1. ~NeedsName(Field.type)
    BY <1>1, NamedSinceStart
  <2>2. QED
    BY <1>1, <1>7, <2>1, InFieldWaits
<1>11. [stack EXCEPT ![1].at = "field", ![1].anons = @ + 1] = t
  BY <1>3
<1>12. stack' \in {t, <<>>}
  BY <1>11 DEF FieldAdopt, Abort
<1>13. QED
  BY <1>1, <1>9, <1>10, <1>12, GoesOnWaiting

LEMMA FieldPushWaits == ASSUME Inv, Waiting(stack), FieldPush, UNCHANGED Unit PROVE Waiting(stack)'
<1>1. /\ stack # <<>> /\ Head(stack).proc = "record"
      /\ Head(stack).i <= Len(Decl(Head(stack).D).fields)
      /\ Head(stack).at # "start" \/ ~NeedsName(Field.type)
      /\ UNCHANGED <<heap, allComponents, Components, names, _currentStructure>>
  BY DEF FieldPush, InField, Running, Bound
<1>2. Calls(stack) /\ Head(stack) = stack[1] /\ Onward(stack)
  BY <1>1, Visiting, OnwardSelf
<1>3. PICK s, n, v, t, g :
        /\ s = At("type") /\ n = Owner /\ v = {l \in stack[n].related : l > Field.to}
        /\ t = [s EXCEPT ![n].related = v] /\ g = t[1]
  OBVIOUS
<1>4. Onward(s) /\ s[1].at = "type"
  BY <1>1, <1>3, OnwardAt
<1>5. s[1].D = stack[1].D /\ s[1].i = stack[1].i /\ s[1].proc = "record"
  <2>1. s = PutAt(stack, "type")
    BY <1>3 DEF At, PutAt
  <2>2. QED
    BY <1>1, <1>2, <2>1, AtBelow DEF Onward
<1>6. AsCalledBelow(s, t) /\ AsCalled(s[1], t[1])
  <2>1. t = PutRelated(s, n, v)
    BY <1>3 DEF PutRelated
  <2>2. QED
    BY <1>4, <2>1, RelatedBelow DEF Onward
<1>7. AsCalledBelow(stack, t)
  BY <1>4, <1>6, BelowTwice DEF Onward
<1>8. /\ g.proc = "record" /\ "at" \in DOMAIN g /\ g.at = "type" /\ g.D = stack[1].D /\ g.i = stack[1].i
  <2>1. g = t[1] /\ "at" \in DOMAIN s[1]
    BY <1>3, <1>4 DEF Onward
  <2>2. QED
    BY <1>4, <1>5, <1>6, <2>1 DEF AsCalled
<1>9. Waits(g)'
  <2>1. ~NeedsName(Field.type)
    BY <1>1, NamedSinceStart
  <2>2. QED
    BY <1>1, <1>8, <2>1, InFieldWaits
<1>10. stack' = t /\ g = t[1]
  BY <1>3 DEF FieldPush
<1>11. QED
  BY <1>1, <1>7, <1>9, <1>10, GoesOnWaiting

(* A record counts on the structure visited last.                          *)
LEMMA CurrentKnown ==
  ASSUME Inv, Waiting(stack), stack # <<>>, Needs(Head(stack)), Head(stack).proc # "rename"
  PROVE  _currentStructure # NULL
<1>1. Head(stack) = stack[1] /\ 1 \in 1..Len(stack)
  BY NonEmpty DEF Inv, NestingInv
<1>2. Waits(stack[1])
  BY <1>1 DEF Waiting
<1>3. QED
  BY <1>1, <1>2 DEF Waits, Needs

LEMMA FieldTypeWaits == ASSUME Inv, Waiting(stack), FieldType, UNCHANGED Unit PROVE Waiting(stack)'
<1>1. /\ stack # <<>> /\ Head(stack).proc = "record" /\ Head(stack).i <= Len(Decl(Head(stack).D).fields)
      /\ Head(stack).at # "start"
  BY DEF FieldType, InField, Running
<1>2. /\ phase' = "ast" /\ program' = program /\ WellFormed
      /\ Calls(stack) /\ Head(stack) = stack[1] /\ Fits(stack[1])
  BY <1>1, Visiting
<1>3. PICK t : t = Field.type
  OBVIOUS
<1>4. ~NeedsName(t)
  BY <1>1, <1>3, NamedSinceStart
<1>5. CASE DiscoverVisits(t)
  <2>1. PICK d, i, fs : d = stack[1].D /\ i = stack[1].i /\ fs = Decl(d).fields
    OBVIOUS
  <2>2. Declared(d) /\ i \in Nat \ {0} /\ i <= Len(fs) /\ IsSeq(fs)
    BY <1>1, <1>2, <2>1 DEF Fits, Traversing, IsTag, WellFormed, Declared
  <2>3. i \in 1..Len(fs) /\ fs = [k \in 1..Len(fs) |-> fs[k]]
    BY <2>2 DEF IsSeq
  <2>4. fs[i] \in Range(fs)
    BY <2>3 DEF Range
  <2>5. t = fs[i].type
    BY <1>2, <1>3, <2>1 DEF Field
  <2>6. t # 0 => Decl(t).kind \in {"record", "enum"}
    BY <1>2, <2>1, <2>2, <2>4, <2>5 DEF WellFormed, Declared, IsTag
  <2>7. Declared(t) /\ t # 0
    BY <1>5 DEF DiscoverVisits, Enter, Undiscovered
  <2>8. IsTag(t) /\ names[t] # Anonymous
    BY <1>4, <2>6, <2>7 DEF IsTag, NeedsName
  <2>9. Head(stack).proc \notin {"rename", "enum"}
    BY <1>1
  <2>10. QED
    BY <1>1, <1>3, <1>5, <2>8, <2>9, DiscoverWaits
<1>6. CASE \/ DiscoverRefers(t, <<"field", Head(stack).i>>, NextField)
           \/ DiscoverFails(t, Abort)
  <2>1. /\ UNCHANGED <<heap, allComponents, Components, names, _currentStructure>>
        /\ stack' \in {NextField, <<>>}
    BY <1>6 DEF DiscoverRefers, DiscoverFails, Abort, Bound
  <2>2. PICK s, g : s = NextField /\ g = s[1]
    OBVIOUS
  <2>3. AsCalledBelow(stack, s) /\ "at" \in DOMAIN g /\ g.at = "start" /\ g.proc = "record"
    BY <1>1, <1>2, <2>2, OnwardNext DEF Onward
  <2>4. _currentStructure' # NULL
    BY <1>1, <2>1, CurrentKnown DEF Needs
  <2>5. Waits(g)'
    BY <2>3, <2>4, IdleWaits DEF Idle, Adopts
  <2>6. stack' \in {s, <<>>} /\ g = s[1]
    BY <2>1, <2>2
  <2>7. QED
    BY <1>1, <2>1, <2>3, <2>5, <2>6, GoesOnWaiting
<1>7. QED
  BY <1>3, <1>5, <1>6 DEF FieldType

(* A call that counts on nothing any more goes on.                         *)
LEMMA IdleGoesOn ==
  ASSUME Inv, Waiting(stack), stack # <<>>, Head(stack).proc \notin {"record", "rename"}, UNCHANGED Unit,
         UNCHANGED <<heap, allComponents, Components, names, _currentStructure>>,
         NEW s, Onward(s), Idle(s[1]), stack' \in {s, Tail(stack), <<>>}
  PROVE  Waiting(stack)'
<1>1. PICK g : g = s[1]
  OBVIOUS
<1>2. g.proc # "record" /\ AsCalledBelow(stack, s)
  BY <1>1, Visiting DEF Onward
<1>3. Waits(g)'
  BY <1>1, <1>2, IdleWaits
<1>4. QED
  BY <1>1, <1>2, <1>3, GoesOnWaiting

LEMMA OnwardIdle ==
  ASSUME NEW s, Onward(s), stack[1].proc \notin {"record", "var", "typedef"} PROVE Idle(s[1])
  BY PlainIdle DEF Onward

LEMMA EnumNextWaits == ASSUME Inv, Waiting(stack), EnumNext, UNCHANGED Unit PROVE Waiting(stack)'
<1>1. stack # <<>> /\ Head(stack).proc = "enum" /\ names' = names /\ _currentStructure' = _currentStructure
  BY DEF EnumNext, Running
<1>2. program' = program /\ Calls(stack) /\ StoreFits /\ Head(stack) = stack[1]
  BY <1>1, Visiting DEF Inv, NestingInv
<1>3. PICK v, t, g : v = stack[1].i + 1 /\ t = [stack EXCEPT ![1].i = v] /\ g = t[1]
  OBVIOUS
<1>4. Onward(t)
  <2>1. t \in Others(stack, v)
    BY <1>3 DEF Others
  <2>2. SameCalls(stack, t)
    <3>1. t = [stack EXCEPT ![1].i = @ + 1]
      BY <1>3
    <3>2. QED
      BY <1>2, <3>1, NextSame
  <2>3. QED
    BY <1>1, <2>1, <2>2, OnwardSelf, OnwardFurther
<1>5. StoreKept
  <2>1. CASE UNCHANGED Bound
    BY <1>2, <2>1, QuietStore DEF Bound
  <2>2. ASSUME NEW e, BindNew("enumval", e, FALSE) PROVE StoreKept
    BY <1>2, <2>2, BindKeeps DEF BindNew
  <2>3. QED
    BY <2>1, <2>2 DEF EnumNext
<1>6. Undisturbed
  BY <1>1, <1>2, <1>5, QuietlyKept DEF SameNames
<1>7. Waits(g)'
  <2>1. Idle(g) /\ g.proc = "enum"
    BY <1>1, <1>2, <1>3, <1>4, OnwardIdle DEF Onward
  <2>2. QED
    BY <2>1, IdleWaits
<1>8. Waiting(t)'
  BY <1>3, <1>4, <1>6, <1>7, HeadGoesOn DEF Onward
<1>9. stack' = t
  BY <1>3 DEF EnumNext
<1>10. QED
  BY <1>8, <1>9, WaitingNow

(* Calls that end                                                          *)
LEMMA EndWaits ==
  ASSUME Inv, Waiting(stack), UNCHANGED Unit,
         RecordEnds \/ EnumEnds \/ TypedefLinks \/ ArgumentsEnd \/ FunctionMacros \/ InitEnds
  PROVE  Waiting(stack)'
<1>1. /\ stack # <<>> /\ Head(stack).proc # "rename"
      /\ UNCHANGED <<heap, allComponents, Components, names, _currentStructure>>
      /\ stack' \in {Tail(stack), <<>>}
  BY DEF RecordEnds, EnumEnds, TypedefLinks, ArgumentsEnd, FunctionMacros, InitEnds, Running, Bound, Abort,
         Initializing
<1>2. QED
  BY <1>1, ReturnsWaiting

LEMMA VarAdoptWaits == ASSUME Inv, Waiting(stack), VarAdopt, UNCHANGED Unit PROVE Waiting(stack)'
<1>1. /\ stack # <<>> /\ Head(stack).proc = "var"
      /\ UNCHANGED <<heap, allComponents, Components, names, _currentStructure>>
  BY DEF VarAdopt, Running
<1>2. PICK s : s = At("macros")
  OBVIOUS
<1>3. Onward(s) /\ s[1].at = "macros" /\ s[1].proc = "var"
  BY <1>1, <1>2, OnwardAt, Visiting DEF Onward
<1>4. stack' \in {s, <<>>}
  BY <1>2 DEF VarAdopt, Abort
<1>5. Idle(s[1])
  BY <1>3 DEF Idle, Adopts, Onward
<1>6. QED
  BY <1>1, <1>3, <1>4, <1>5, IdleGoesOn

LEMMA VarNamedWaits == ASSUME Inv, Waiting(stack), VarNamed, UNCHANGED Unit PROVE Waiting(stack)'
<1>1. /\ stack # <<>> /\ Head(stack).proc = "var"
      /\ UNCHANGED <<heap, allComponents, Components, names, _currentStructure>>
  BY DEF VarNamed, Running, Bound
<1>2. PICK s : s = At("type")
  OBVIOUS
<1>3. Onward(s) /\ s[1].at = "type" /\ s[1].proc = "var"
  BY <1>1, <1>2, OnwardAt, Visiting DEF Onward
<1>4. stack' = s
  BY <1>2 DEF VarNamed
<1>5. Idle(s[1])
  BY <1>3 DEF Idle, Adopts, Onward
<1>6. QED
  BY <1>1, <1>3, <1>4, <1>5, IdleGoesOn

(* DiscoverTypeReferences outside of records                               *)
LEMMA DiscoverIdly ==
  ASSUME Inv, Waiting(stack), UNCHANGED Unit, stack # <<>>, Head(stack).proc \notin {"rename", "enum", "record"},
         NEW t, NEW r, NEW s, Onward(s), Idle(s[1]),
         \/ DiscoverVisits(t)
         \/ DiscoverRefers(t, r, s)
         \/ DiscoverFails(t, stack' = s /\ UNCHANGED aborted)
  PROVE  Waiting(stack)'
<1>1. CASE DiscoverVisits(t)
  BY <1>1, DiscoverWaits
<1>2. CASE DiscoverRefers(t, r, s) \/ DiscoverFails(t, stack' = s /\ UNCHANGED aborted)
  <2>1. stack' = s /\ UNCHANGED <<heap, allComponents, Components, names, _currentStructure>>
    BY <1>2 DEF DiscoverRefers, DiscoverFails, Bound
  <2>2. QED
    BY <2>1, IdleGoesOn
<1>3. QED
  BY <1>1, <1>2

LEMMA VarTypeWaits == ASSUME Inv, Waiting(stack), VarType, UNCHANGED Unit PROVE Waiting(stack)'
<1>1. stack # <<>> /\ Head(stack).proc = "var"
  BY DEF VarType, Running
<1>2. PICK s, t, r : s = At("macros") /\ t = Decl(Head(stack).D).type /\ r = <<"type", -1>>
  OBVIOUS
<1>3. Onward(s) /\ s[1].at = "macros" /\ s[1].proc = "var"
  BY <1>1, <1>2, OnwardAt, Visiting DEF Onward
<1>4. \/ DiscoverVisits(t)
      \/ DiscoverRefers(t, r, s)
      \/ DiscoverFails(t, stack' = s /\ UNCHANGED aborted)
  BY <1>2 DEF VarType
<1>5. Idle(s[1])
  BY <1>3 DEF Idle, Adopts, Onward
<1>6. QED
  BY <1>1, <1>3, <1>4, <1>5, DiscoverIdly

LEMMA VarEndsWaits == ASSUME Inv, Waiting(stack), VarEnds, UNCHANGED Unit PROVE Waiting(stack)'
<1>1. /\ stack # <<>> /\ Head(stack).proc = "var"
      /\ UNCHANGED <<heap, allComponents, Components, names, _currentStructure>>
  BY DEF VarEnds, Running, Bound
<1>2. SameNames /\ Head(stack) = stack[1] /\ StoreKept /\ IsSeq(stack)
  BY <1>1, Visiting, QuietStore DEF SameNames, Inv, NestingInv, Calls
<1>3. Undisturbed
  BY <1>1, <1>2, QuietlyKept
<1>4. PICK f, t, u : f = Initializer(Head(stack).D, Head(stack).C) /\ t = Tail(stack) /\ u = <<f>> \o t
  OBVIOUS
<1>5. /\ Waiting(t)' /\ IsSeq(t)
      /\ 1 \in 1..Len(t) /\ Adopts(t[1]) => stack[1].proc \in Traversing \cup {"enum"}
  BY <1>1, <1>2, <1>3, <1>4, BelowSelf, Returned
<1>6. stack' = t \/ stack' = u
  BY <1>4 DEF VarEnds
<1>7. Waits(f)'
  <2>1. "at" \in DOMAIN f /\ f.proc = "init"
    BY <1>4 DEF Initializer
  <2>2. QED
    BY <2>1, PlainIdle, IdleWaits
<1>8. Waiting(u)'
  <2>1. ~(1 \in 1..Len(t) /\ Adopts(t[1]))
    BY <1>1, <1>2, <1>5 DEF Traversing
  <2>2. u = <<f>> \o t
    BY <1>4
  <2>3. QED
    BY <1>5, <1>7, <2>1, <2>2, CallMade
<1>9. QED
  BY <1>5, <1>6, <1>8, WaitingNow

LEMMA TypedefVisitsWaits == ASSUME Inv, Waiting(stack), TypedefVisits, UNCHANGED Unit PROVE Waiting(stack)'
<1>1. stack # <<>> /\ Head(stack).proc = "typedef" /\ names' = names
  BY DEF TypedefVisits, Running
<1>2. program' = program /\ Calls(stack) /\ Head(stack) = stack[1] /\ SameNames
  BY <1>1, Visiting DEF SameNames
<1>3. PICK d, s, g : d = Decl(Head(stack).D).type /\ s = At("check") /\ g = s[1]
  OBVIOUS
<1>4. Onward(s) /\ g.at = "check"
  BY <1>1, <1>3, OnwardAt
<1>5. "at" \in DOMAIN g /\ g.proc = "typedef" /\ g.D = stack[1].D
  <2>1. s = PutAt(stack, "check") /\ "at" \in DOMAIN stack[1]
    BY <1>1, <1>3, OnwardSelf DEF At, PutAt, Onward
  <2>2. QED
    BY <1>1, <1>2, <1>3, <1>4, <2>1, AtBelow DEF Onward
<1>6. IsTag(d) /\ names[d] # Anonymous /\ EnterTag(d, TRUE, s)
  BY <1>3 DEF TypedefVisits, NeedsName
<1>7. /\ StoreKept /\ Present(d)' /\ _currentStructure' # NULL
      /\ \/ stack' = s
         \/ \E f : Idle(f) /\ f.proc \in {"record", "enum"} /\ stack' = <<f>> \o s
  BY <1>2, <1>6, TagShape
<1>8. Undisturbed
  BY <1>1, <1>2, <1>7, QuietlyKept
<1>9. Waits(g)'
  <2>1. d = Decl(g.D).type /\ Decl(g.D)' = Decl(g.D)
    BY <1>2, <1>3, <1>5 DEF Decl
  <2>2. QED
    BY <1>4, <1>5, <1>7, <2>1 DEF Waits, Adopts
<1>10. ~Adopts(g)
  BY <1>4 DEF Adopts
<1>11. QED
  BY <1>3, <1>4, <1>7, <1>8, <1>9, <1>10, CallsVisitor DEF Onward

LEMMA TypedefBindsWaits == ASSUME Inv, Waiting(stack), TypedefBinds, UNCHANGED Unit PROVE Waiting(stack)'
<1>1. /\ stack # <<>> /\ Head(stack).proc = "typedef" /\ names' = names
      /\ _currentStructure' = _currentStructure
  BY DEF TypedefBinds, Running
<1>2. SameNames /\ Calls(stack) /\ Head(stack) = stack[1] /\ StoreFits
  BY <1>1, Visiting DEF SameNames, Inv, NestingInv
<1>3. PICK s, t, c, g : s = At("link") /\ c = Len(heap) + 1 /\ t = [s EXCEPT ![1].C = c] /\ g = t[1]
  OBVIOUS
<1>4. \/ stack' \in {Tail(stack), <<>>} /\ UNCHANGED Bound
      \/ BindNew("typedef", Decl(Head(stack).D).name, FALSE) /\ stack' = t
  BY <1>3 DEF TypedefBinds, Abort
<1>5. CASE stack' \in {Tail(stack), <<>>} /\ UNCHANGED Bound
  BY <1>1, <1>5, ReturnsWaiting DEF Bound
<1>6. CASE BindNew("typedef", Decl(Head(stack).D).name, FALSE) /\ stack' = t
  <2>1. StoreKept
    BY <1>2, <1>6, BindKeeps DEF BindNew
  <2>2. Undisturbed
    BY <1>1, <1>2, <2>1, QuietlyKept
  <2>3. Onward(s) /\ s[1].at = "link" /\ s[1].proc = "typedef"
    BY <1>1, <1>2, <1>3, OnwardAt DEF Onward
  <2>4. SameCalls(s, t) /\ t \in Others(s, c)
    BY <1>3, <2>3, ComponentSame DEF Onward, Others
  <2>5. Onward(t) /\ t[1].at = "link" /\ t[1].proc = "typedef"
    BY <1>1, <1>2, <2>3, <2>4, OnwardFurther DEF Onward
  <2>6. g = t[1]
    BY <1>3
  <2>7. Waits(g)'
    BY <2>5, <2>6, IdleWaits DEF Idle, Adopts, Onward
  <2>8. Waiting(t)'
    BY <2>2, <2>5, <2>6, <2>7, HeadGoesOn DEF Onward
  <2>9. QED
    BY <1>6, <2>8, WaitingNow
<1>7. QED
  BY <1>4, <1>5, <1>6

-----------------------------------------------------------------------------
(* The steps of the traversals                                             *)

LEMMA LeaveNodeWaits == ASSUME Inv, Waiting(stack), LeaveNode, UNCHANGED Unit PROVE Waiting(stack)'
<1>1. /\ stack # <<>> /\ Head(stack).proc = "stmt"
      /\ UNCHANGED <<heap, allComponents, Components, names, _currentStructure>>
  BY DEF LeaveNode, Running, Bound
<1>2. SameNames /\ Calls(stack) /\ Head(stack) = stack[1] /\ Onward(stack) /\ StoreKept
  BY <1>1, Visiting, QuietStore, OnwardSelf DEF SameNames, Inv, NestingInv
<1>3. Undisturbed
  BY <1>1, <1>2, QuietlyKept
<1>4. PICK found, l, left :
        /\ left = IF found = {} THEN stack ELSE [stack EXCEPT ![Owner].related = @ \ found]
        /\ stack' = Tail(left) \/ stack' = [left EXCEPT ![1].at = l]
  BY DEF LeaveNode
<1>5. Onward(left)
  <2>1. CASE found = {}
    BY <1>2, <1>4, <2>1
  <2>2. CASE found # {}
    <3>1. PICK n, v : n = Owner /\ v = stack[n].related \ found
      OBVIOUS
    <3>2. left = PutRelated(stack, n, v)
      BY <1>4, <2>2, <3>1 DEF PutRelated
    <3>3. AsCalledBelow(stack, left) /\ AsCalled(stack[1], left[1])
      BY <1>1, <1>2, <3>2, RelatedBelow
    <3>4. SameCalls(stack, left)
      <4>1. SameCalls(stack, [stack EXCEPT ![n].related = v])
        BY <1>2, RelatedSame
      <4>2. QED
        BY <3>2, <4>1 DEF PutRelated
    <3>5. Calls(left)
      BY <1>2, <3>4, SameKeeps
    <3>6. left # <<>>
      <4>1. Len(left) = Len(stack) /\ 1 \in 1..Len(stack)
        BY <1>1, <1>2, <3>4, NonEmpty DEF SameCalls
      <4>2. Len(left) # 0
        BY <4>1
      <4>3. QED
        BY <4>2, EmptyIsSeq
    <3>7. QED
      BY <1>2, <3>3, <3>5, <3>6 DEF Onward, AsCalled
  <2>3. QED
    BY <2>1, <2>2
<1>6. PICK t, u, g : t = Tail(left) /\ u = [left EXCEPT ![1].at = l] /\ g = u[1]
  OBVIOUS
<1>7. Waiting(t)'
  BY <1>1, <1>3, <1>5, <1>6, Returned DEF Onward
<1>8. Waiting(u)'
  <2>1. SameCalls(left, u) /\ u = PutAt(left, l)
    BY <1>5, <1>6, HeadSame DEF Onward, PutAt
  <2>2. Onward(u)
    BY <1>5, <2>1, OnwardFurther
  <2>3. g = u[1]
    BY <1>6
  <2>4. Idle(g) /\ g.proc = "stmt"
    BY <1>1, <1>2, <2>2, <2>3, OnwardIdle DEF Onward
  <2>5. Waits(g)'
    BY <2>4, IdleWaits
  <2>6. QED
    BY <1>3, <2>2, <2>3, <2>5, HeadGoesOn DEF Onward
<1>9. QED
  BY <1>4, <1>6, <1>7, <1>8, WaitingNow

LEMMA LookAtNodeWaits ==
  ASSUME Inv, Waiting(stack), LookAtNode \/ HandleCastExpr, UNCHANGED Unit PROVE Waiting(stack)'
<1>1. /\ stack # <<>> /\ Head(stack).proc = "stmt"
      /\ UNCHANGED <<heap, allComponents, Components, names, _currentStructure>>
      /\ stack' = NextNode
  BY DEF LookAtNode, HandleCastExpr, Running, Bound
<1>2. PICK s : s = NextNode
  OBVIOUS
<1>3. Onward(s) /\ Idle(s[1])
  BY <1>1, <1>2, OnwardNext, OnwardIdle, Visiting
<1>4. stack' = s
  BY <1>1, <1>2
<1>5. QED
  BY <1>1, <1>3, <1>4, IdleGoesOn

LEMMA CastTypeWaits == ASSUME Inv, Waiting(stack), CastType, UNCHANGED Unit PROVE Waiting(stack)'
<1>1. stack # <<>> /\ Head(stack).proc = "stmt"
  BY DEF CastType, Running
<1>2. PICK s, t, r : s = At("cast") /\ t = Node.type /\ r = Head(stack).ref
  OBVIOUS
<1>3. Onward(s) /\ Idle(s[1])
  BY <1>1, <1>2, OnwardAt, OnwardIdle, Visiting
<1>4. \/ DiscoverVisits(t)
      \/ DiscoverRefers(t, r, s)
      \/ DiscoverFails(t, stack' = s /\ UNCHANGED aborted)
  BY <1>2 DEF CastType
<1>5. QED
  BY <1>1, <1>3, <1>4, DiscoverIdly

LEMMA FunctionReturnsWaits == ASSUME Inv, Waiting(stack), FunctionReturns, UNCHANGED Unit PROVE Waiting(stack)'
<1>1. stack # <<>> /\ Head(stack).proc = "function"
  BY DEF FunctionReturns, Running
<1>2. PICK s, t, r : s = At("body") /\ t = Decl(This).type /\ r = <<"return", -1>>
  OBVIOUS
<1>3. Onward(s) /\ Idle(s[1])
  BY <1>1, <1>2, OnwardAt, OnwardIdle, Visiting
<1>4. \/ DiscoverVisits(t)
      \/ DiscoverRefers(t, r, s)
      \/ DiscoverFails(t, stack' = s /\ UNCHANGED aborted)
  BY <1>2 DEF FunctionReturns
<1>5. QED
  BY <1>1, <1>3, <1>4, DiscoverIdly

LEMMA FunctionArgumentWaits == ASSUME Inv, Waiting(stack), FunctionArgument, UNCHANGED Unit PROVE Waiting(stack)'
<1>1. stack # <<>> /\ Head(stack).proc = "params"
  BY DEF FunctionArgument, Running
<1>2. PICK s, t, r : s = NextParam /\ t = Param.type /\ r = <<"argument", Head(stack).i>>
  OBVIOUS
<1>3. Onward(s) /\ Idle(s[1])
  BY <1>1, <1>2, OnwardNext, OnwardIdle, Visiting
<1>4. \/ DiscoverVisits(t)
      \/ DiscoverRefers(t, r, s)
      \/ DiscoverFails(t, stack' = s /\ UNCHANGED aborted)
  BY <1>2 DEF FunctionArgument
<1>5. QED
  BY <1>1, <1>3, <1>4, DiscoverIdly

(* The body, the arguments and the initializer are traversed.              *)
LEMMA TraversalWaits ==
  ASSUME Inv, Waiting(stack), UNCHANGED Unit, stack # <<>>, Head(stack).proc \in {"function", "init"},
         UNCHANGED <<heap, allComponents, Components, names, _currentStructure>>,
         NEW s, Onward(s), NEW f, "at" \in DOMAIN f, f.proc \in {"stmt", "params"},
         stack' \in {s, <<>>} \/ stack' = <<f>> \o s
  PROVE  Waiting(stack)'
<1>1. Idle(s[1])
  BY OnwardIdle, Visiting
<1>2. CASE stack' \in {s, <<>>}
  BY <1>1, <1>2, IdleGoesOn
<1>3. CASE stack' = <<f>> \o s
  <2>1. Idle(f)
    BY PlainIdle
  <2>2. QED
    BY <1>1, <1>3, <2>1, BeginsWaiting DEF Onward
<1>4. QED
  BY <1>2, <1>3

LEMMA FunctionBodyWaits == ASSUME Inv, Waiting(stack), FunctionBody, UNCHANGED Unit PROVE Waiting(stack)'
<1>1. /\ stack # <<>> /\ Head(stack).proc = "function"
      /\ UNCHANGED <<heap, allComponents, Components, names, _currentStructure>>
  BY DEF FunctionBody, Running, Bound
<1>2. PICK f, s : /\ f = Traversal(This, cm, Decl(This).body, <<"bodyenc", -1>>, FALSE)
                  /\ s = At("args")
  OBVIOUS
<1>3. Onward(s)
  BY <1>1, <1>2, OnwardAt
<1>4. "at" \in DOMAIN f /\ f.proc = "stmt"
  BY <1>2 DEF Traversal
<1>5. stack' \in {s, <<>>} \/ stack' = <<f>> \o s
  BY <1>2 DEF FunctionBody
<1>6. QED
  BY <1>1, <1>3, <1>4, <1>5, TraversalWaits

LEMMA FunctionArgumentsWaits == ASSUME Inv, Waiting(stack), FunctionArguments, UNCHANGED Unit PROVE Waiting(stack)'
<1>1. /\ stack # <<>> /\ Head(stack).proc = "function"
      /\ UNCHANGED <<heap, allComponents, Components, names, _currentStructure>>
  BY DEF FunctionArguments, Running, Bound
<1>2. PICK f, s : f = [Frame("params", This, cm) EXCEPT !.at = "type"] /\ s = At("macros")
  OBVIOUS
<1>3. Onward(s)
  BY <1>1, <1>2, OnwardAt
<1>4. "at" \in DOMAIN f /\ f.proc = "params"
  BY <1>2 DEF Frame
<1>5. stack' \in {s, <<>>} \/ stack' = <<f>> \o s
  BY <1>2 DEF FunctionArguments
<1>6. QED
  BY <1>1, <1>3, <1>4, <1>5, TraversalWaits

LEMMA InitElementWaits ==
  ASSUME Inv, Waiting(stack), InitRegular \/ InitArray \/ InitBeyond \/ InitNext \/ InitField, UNCHANGED Unit
  PROVE  Waiting(stack)'
<1>1. /\ stack # <<>> /\ Head(stack).proc = "init"
      /\ UNCHANGED <<heap, allComponents, Components, names, _currentStructure>>
  BY DEF InitRegular, InitArray, InitBeyond, InitNext, InitField, InDesignator, InElement, Running,
         Initializing, Bound
<1>2. Onward(NextElement) /\ Onward(NextSub)
  BY <1>1, OnwardNext
<1>3. ASSUME NEW nodes, NEW index, NEW s, Onward(s), stack' \in {s, <<>>} \/ Traverse(nodes, index, s)
      PROVE  Waiting(stack)'
  <2>1. PICK f : f = Traversal(This, cm, nodes, <<"initializer", index>>, TRUE)
    OBVIOUS
  <2>2. "at" \in DOMAIN f /\ f.proc = "stmt"
    BY <2>1 DEF Traversal
  <2>3. stack' \in {s, <<>>} \/ stack' = <<f>> \o s
    BY <1>3, <2>1 DEF Traverse
  <2>4. QED
    BY <1>1, <1>3, <2>2, <2>3, TraversalWaits
<1>4. CASE InitRegular
  BY <1>2, <1>3, <1>4 DEF InitRegular
<1>5. CASE InitArray \/ InitBeyond
  <2>1. stack' \in {NextSub, <<>>}
    BY <1>5 DEF InitArray, InitBeyond, Abort
  <2>2. QED
    BY <1>2, <1>3, <2>1
<1>6. CASE InitNext
  <2>1. stack' \in {NextElement, <<>>}
    BY <1>6 DEF InitNext
  <2>2. QED
    BY <1>2, <1>3, <2>1
<1>7. CASE InitField
  <2>1. PICK nodes, index, now : \/ stack' = <<>>
                                 \/ Traverse(nodes, index, [NextSub EXCEPT ![1].last = now])
    BY <1>7 DEF InitField, Abort
  <2>2. PICK u, s : u = NextSub /\ s = [u EXCEPT ![1].last = now]
    OBVIOUS
  <2>3. Onward(s)
    <3>1. Onward(u)
      BY <1>2, <2>2
    <3>2. SameCalls(u, s) /\ s \in Others(u, now)
      BY <2>2, <3>1, HeadSame DEF Onward, Others
    <3>3. QED
      BY <3>1, <3>2, OnwardFurther
  <2>4. stack' \in {s, <<>>} \/ Traverse(nodes, index, s)
    BY <2>1, <2>2
  <2>5. QED
    BY <1>3, <2>3, <2>4
<1>8. QED
  BY <1>4, <1>5, <1>6, <1>7

-----------------------------------------------------------------------------
(* Translation units                                                       *)

LEMMA VisitTopWaits == ASSUME Inv, VisitTop, UNCHANGED Unit PROVE Waiting(stack)'
<1>1. SameNames
  BY DEF VisitTop, Unit, SameNames
<1>2. PICK d, t : d = TopLevel[visited + 1] /\ t = <<>>
  OBVIOUS
<1>3. Enter(d, t)
  BY <1>2 DEF VisitTop
<1>4. \/ stack' = t
      \/ \E f : /\ Idle(f) /\ (f.proc = "record" => _currentStructure' # NULL)
                /\ stack' = <<f>> \o t
  BY <1>1, <1>3, EnterShape
<1>5. Waiting(t)' /\ IsSeq(t) /\ ~(1 \in 1..Len(t))
  BY <1>2, EmptyIsSeq DEF Waiting
<1>6. CASE stack' = t
  BY <1>5, <1>6, WaitingNow
<1>7. ASSUME NEW f, Idle(f), f.proc = "record" => _currentStructure' # NULL, stack' = <<f>> \o t
      PROVE  Waiting(stack)'
  <2>1. PICK u : u = <<f>> \o t
    OBVIOUS
  <2>2. Waits(f)'
    BY <1>7, IdleWaits
  <2>3. Waiting(u)'
    BY <1>5, <2>1, <2>2, CallMade
  <2>4. QED
    BY <1>7, <2>1, <2>3, WaitingNow
<1>8. QED
  BY <1>4, <1>6, <1>7

LEMMA EmptyWaits == stack = <<>> => Waiting(stack)
  BY EmptyIsSeq DEF Waiting

LEMMA SameWaits == ASSUME Waiting(stack), UNCHANGED allVars PROVE Waiting(stack)'
<1>1. UNCHANGED <<heap, allComponents, Components, program, stack, names, _currentStructure>>
  BY DEF allVars, vars, storeVars, visitVars
<1>2. \A t : /\ Decl(t)' = Decl(t) /\ (IsTag(t)' <=> IsTag(t)) /\ ModelType(t)' = ModelType(t)
             /\ (NeedsName(t)' <=> NeedsName(t)) /\ (Renaming(t)' <=> Renaming(t))
  BY <1>1 DEF Decl, IsTag, Declared, ModelType, NeedsName, Renaming
<1>3. \A ty, n : HasKey(allComponents \cup Components, ty, n)' <=> HasKey(allComponents \cup Components, ty, n)
  BY <1>1 DEF HasKey, Matches
<1>4. \A t : Present(t)' <=> Present(t)
  BY <1>1, <1>2, <1>3 DEF Present
<1>5. \A f : Waits(f)' <=> Waits(f)
  BY <1>1, <1>2, <1>4 DEF Waits
<1>6. QED
  BY <1>1, <1>5 DEF Waiting

LEMMA WaitingStep == ASSUME Inv, Inv', Waiting(stack), [StatementNext]_allVars PROVE Waiting(stack)'
<1>1. CASE BeginUnit \/ Parsed \/ EndUnit
  <2>1. stack' = <<>>
    BY <1>1 DEF BeginUnit, Parsed, EndUnit, CreateASTConsumer, HandleTranslationUnit, EndSourceFile,
                Inv, NestingInv
  <2>2. QED
    BY <2>1, EmptyIsSeq DEF Waiting
<1>2. CASE UNCHANGED allVars
  BY <1>2, SameWaits
<1>3. CASE VisitStep /\ UNCHANGED Unit
  BY <1>3, VisitTopWaits, FieldAnonymousWaits, RenamedWaits, FieldAdoptWaits, FieldPushWaits,
     FieldTypeWaits, EndWaits, EnumNextWaits, VarAnonymousWaits, VarAdoptWaits,
     VarNamedWaits, VarTypeWaits, VarEndsWaits, TypedefAnonymousWaits, TypedefVisitsWaits,
     TypedefBindsWaits
  DEF VisitStep
<1>4. CASE StatementStep /\ UNCHANGED Unit
  BY <1>4, LeaveNodeWaits, LookAtNodeWaits, CastTypeWaits, FunctionReturnsWaits, FunctionBodyWaits,
     FunctionArgumentsWaits, FunctionArgumentWaits, EndWaits, InitElementWaits
  DEF StatementStep
<1>5. QED
  BY <1>1, <1>2, <1>3, <1>4 DEF StatementNext, VisitorNext

-----------------------------------------------------------------------------
(* Where the visitors stop                                                 *)

(* A record finds the structure of the anonymous type it adopts, and a     *)
(* type it has had visited.                                                *)
LEMMA FieldsFound ==
  ASSUME Inv, Waiting(stack), UNCHANGED Unit, FieldAdopt \/ FieldType PROVE aborted' = aborted
<1>1. stack # <<>> /\ Head(stack).proc = "record"
  BY DEF FieldAdopt, FieldType, InField, Running
<1>2. Head(stack) = stack[1] /\ 1 \in 1..Len(stack)
  BY <1>1, Visiting
<1>3. Waits(Head(stack))
  BY <1>2 DEF Waiting
<1>4. PICK t : t = Field.type
  OBVIOUS
<1>5. Head(stack).at \in {"adopt", "retry"} => Structure(t) # NULL
  <2>1. ~Renaming(t)
    BY <1>1 DEF Renaming
  <2>2. Head(stack).at \in {"adopt", "retry"} => Present(t)
    BY <1>1, <1>3, <1>4, <2>1 DEF Waits, Field
  <2>3. QED
    BY <2>2, PresentFound
<1>6. CASE FieldAdopt
  BY <1>4, <1>5, <1>6 DEF FieldAdopt, InField, Running, Adopted
<1>7. CASE FieldType
  BY <1>4, <1>5, <1>7 DEF FieldType, DiscoverVisits, DiscoverRefers, DiscoverFails
<1>8. QED
  BY <1>6, <1>7

LEMMA CurrentFound ==
  ASSUME Inv, Waiting(stack), UNCHANGED Unit, RecordEnds \/ VarAdopt PROVE aborted' = aborted
<1>1. stack # <<>> /\ Needs(Head(stack)) /\ Head(stack).proc # "rename"
  BY DEF RecordEnds, VarAdopt, Running, Needs, Adopts
<1>2. _currentStructure # NULL
  BY <1>1, CurrentKnown
<1>3. QED
  BY <1>2 DEF RecordEnds, VarAdopt

LEMMA UnderlyingFound ==
  ASSUME Inv, Waiting(stack), UNCHANGED Unit, TypedefBinds PROVE aborted' = aborted
<1>1. stack # <<>> /\ Head(stack).proc = "typedef"
  BY DEF TypedefBinds, Running
<1>2. Head(stack) = stack[1] /\ 1 \in 1..Len(stack)
  BY <1>1, Visiting
<1>3. Waits(Head(stack))
  BY <1>2 DEF Waiting
<1>4. PICK t : t = Decl(Head(stack).D).type
  OBVIOUS
<1>5. Head(stack).at = "check" => t # 0 /\ Structure(t) # NULL
  BY <1>1, <1>3, <1>4, PresentFound DEF Waits
<1>6. QED
  BY <1>4, <1>5 DEF TypedefBinds, Underlying

LEMMA OnlyDesignators ==
  ASSUME Inv, Waiting(stack), [StatementNext]_allVars, aborted', ~aborted
  PROVE  InElement /\ Element.designators # <<>>
<1>1. CASE BeginUnit \/ Parsed \/ EndUnit \/ UNCHANGED allVars
  BY <1>1 DEF BeginUnit, Parsed, EndUnit, allVars, visitVars
<1>2. CASE VisitStep /\ UNCHANGED Unit
  <2>1. CASE FieldAdopt \/ FieldType \/ RecordEnds \/ VarAdopt \/ TypedefBinds
    BY <1>2, <2>1, FieldsFound, CurrentFound, UnderlyingFound
  <2>2. CASE \/ VisitTop \/ FieldAnonymous \/ Renamed \/ FieldPush \/ EnumNext \/ EnumEnds
             \/ VarAnonymous \/ VarNamed \/ VarEnds \/ TypedefAnonymous \/ TypedefVisits \/ TypedefLinks
    BY <2>2 DEF VisitTop, FieldAnonymous, Renamed, FieldPush, EnumNext, EnumEnds,
                VarAnonymous, VarNamed, VarEnds, TypedefAnonymous, TypedefVisits, TypedefLinks
  <2>3. CASE VarType
    BY <2>3 DEF VarType, DiscoverVisits, DiscoverRefers, DiscoverFails
  <2>4. QED
    BY <1>2, <2>1, <2>2, <2>3 DEF VisitStep
<1>3. CASE StatementStep
  <2>1. CASE InitBeyond \/ InitField
    BY <2>1 DEF InitBeyond, InitField, InDesignator
  <2>2. CASE \/ LeaveNode \/ LookAtNode \/ HandleCastExpr \/ FunctionBody \/ FunctionArguments
             \/ ArgumentsEnd \/ FunctionMacros \/ InitRegular \/ InitArray \/ InitNext \/ InitEnds
    BY <2>2 DEF LeaveNode, LookAtNode, HandleCastExpr, FunctionBody, FunctionArguments,
                ArgumentsEnd, FunctionMacros, InitRegular, InitArray, InitNext, InitEnds
  <2>3. CASE CastType \/ FunctionReturns \/ FunctionArgument
    BY <2>3 DEF CastType, FunctionReturns, FunctionArgument, DiscoverVisits, DiscoverRefers, DiscoverFails
  <2>4. QED
    BY <1>3, <2>1, <2>2, <2>3 DEF StatementStep
<1>4. QED
  BY <1>1, <1>2, <1>3 DEF StatementNext, VisitorNext

-----------------------------------------------------------------------------
(* The calls and what they wait for, together                              *)

LEMMA WaitingStarts == StatementInit => Inv /\ Waiting(stack)
<1>1. StatementInit => stack = <<>>
  BY DEF StatementInit, VisitorInit
<1>2. QED
  BY <1>1, VisitStarts, EmptyWaits

LEMMA WaitingKeeps == Inv /\ Waiting(stack) /\ [StatementNext]_allVars => Inv' /\ Waiting(stack)'
  BY VisitKeeps, WaitingStep

(* Whatever the program: no assertion of the visitors fails and no         *)
(* structure that they take for granted is missing, but in                 *)
(* TraverseInitializer, at an element that has designators.                *)
THEOREM OnlyDesignatorsAbort == VisitorSpec => OnlyDesignatorsStray
<1>1. StatementInit => Inv /\ Waiting(stack)
  BY WaitingStarts
<1>2. Inv /\ Waiting(stack) /\ [StatementNext]_allVars => Inv' /\ Waiting(stack)'
  BY WaitingKeeps
<1>3. Inv /\ Waiting(stack) /\ [StatementNext]_allVars =>
        [aborted' /\ ~aborted => InElement /\ Element.designators # <<>>]_allVars
  BY OnlyDesignators
<1>4. QED
  BY <1>1, <1>2, <1>3, PTL DEF VisitorSpec, OnlyDesignatorsStray
=============================================================================
