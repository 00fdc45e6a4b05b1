------------------------------ MODULE SetProofs ------------------------------
(* Proofs about the two sets of the Registry: ReferenceSet, for any number *)
(* of arguments and targets, and DeclarationSet, for any number of files   *)
(* and lines.                                                              *)
EXTENDS ReferenceSet, DeclarationSet, TLAPS

-----------------------------------------------------------------------------
(* References                                                              *)


(* What saves the set: references of which neither is less are the same.   *)
THEOREM IncomparableEqual ==
  ASSUME NEW a \in Reference, NEW b \in Reference, ~Less(a, b), ~Less(b, a)
  PROVE  a = b
<1>1. /\ a.arg \in Nat /\ a.refkind \in Nat /\ a.target \in Nat
      /\ b.arg \in Nat /\ b.refkind \in Nat /\ b.target \in Nat
  BY ReferenceAssumption DEF Reference
<1>2. a.arg = b.arg /\ a.refkind = b.refkind /\ a.target = b.target
  BY <1>1 DEF Less
<1>3. QED
  BY <1>2 DEF Reference

(* An insertion adds the reference and keeps all nodes.                    *)
LEMMA InsertKeeps ==
  ASSUME NEW S, NEW s \in Seq(S), NEW r \in S, NEW g \in 0..Len(s),
         NEW t, t = InsertAfter(s, g, r)
  PROVE  /\ t \in Seq(S) /\ t[g + 1] = r /\ g + 1 \in 1..Len(t)
         /\ \A k \in 1..Len(s) : \E j \in 1..Len(t) : t[j] = s[k]
         /\ \A j \in 1..Len(t) : t[j] = r \/ \E k \in 1..Len(s) : t[j] = s[k]
<1> DEFINE n == Len(s)
<1>1. n \in Nat /\ g \in Nat /\ g <= n /\ \A k \in 1..n : s[k] \in S
  OBVIOUS
<1>2. t = [k \in 1..n + 1 |-> IF k <= g THEN s[k] ELSE IF k = g + 1 THEN r ELSE s[k - 1]]
  BY DEF InsertAfter
<1>3. ASSUME NEW k \in 1..n + 1
      PROVE  /\ k <= g => k \in 1..n /\ t[k] = s[k]
             /\ k = g + 1 => t[k] = r
             /\ k > g + 1 => k - 1 \in 1..n /\ t[k] = s[k - 1]
  BY <1>1, <1>2
<1>4. t \in Seq(S) /\ Len(t) = n + 1
  <2>1. ASSUME NEW k \in 1..n + 1 PROVE t[k] \in S
    BY <1>1, <1>3
  <2>2. QED
    BY <1>1, <1>2, <2>1
<1>5. ASSUME NEW k \in 1..n PROVE \E j \in 1..n + 1 : t[j] = s[k]
  <2>1. CASE k <= g
    BY <1>1, <1>3, <2>1
  <2>2. CASE k > g
    <3>1. k + 1 \in 1..n + 1 /\ k + 1 > g + 1 /\ (k + 1) - 1 = k
      BY <1>1, <2>2
    <3>2. QED
      BY <1>3, <3>1
  <2>3. QED
    BY <1>1, <2>1, <2>2
<1>6. ASSUME NEW j \in 1..n + 1 PROVE t[j] = r \/ \E k \in 1..n : t[j] = s[k]
  BY <1>1, <1>3
<1>7. g + 1 \in 1..n + 1 /\ t[g + 1] = r
  BY <1>1, <1>3
<1>8. QED
  BY <1>4, <1>5, <1>6, <1>7

(* One call of reference(), wherever the search in the tree ends.          *)
LEMMA ReferKeeps ==
  ASSUME RefInv, NEW r \in Reference, NEW g \in 0..Len(nodes), Refer(r, g) PROVE RefInv'
<1> USE DEF RefInv
<1>1. requested' = requested \cup {r}
  BY DEF Refer
<1>2. CASE g = 0 \/ Less(nodes[g], r)
  <2>1. nodes' = InsertAfter(nodes, g, r)
    BY <1>2 DEF Refer
  <2>2. /\ nodes' \in Seq(Reference) /\ nodes'[g + 1] = r /\ g + 1 \in 1..Len(nodes')
        /\ \A k \in 1..Len(nodes) : \E j \in 1..Len(nodes') : nodes'[j] = nodes[k]
        /\ \A j \in 1..Len(nodes') : nodes'[j] = r \/ \E k \in 1..Len(nodes) : nodes'[j] = nodes[k]
    BY <2>1, InsertKeeps
  <2>3. NoReferenceLost'
    BY <1>1, <2>2 DEF NoReferenceLost
  <2>4. QED
    BY <1>1, <2>2, <2>3
<1>3. CASE ~(g = 0 \/ Less(nodes[g], r))
  <2>1. nodes' = nodes /\ g \in 1..Len(nodes) /\ ~Less(r, nodes[g]) /\ ~Less(nodes[g], r)
    BY <1>3 DEF Refer, Gap
  <2>2. nodes[g] \in Reference
    BY <2>1
  <2>3. nodes[g] = r
    BY <2>1, <2>2, IncomparableEqual
  <2>4. NoReferenceLost'
    BY <1>1, <2>1, <2>3 DEF NoReferenceLost
  <2>5. QED
    BY <1>1, <2>1, <2>4
<1>4. QED
  BY <1>2, <1>3

(* NoReferenceLost: what reference() was called with stays in the set.     *)
THEOREM ReferencesKept == RefSpec => []NoReferenceLost
<1>1. RefInit => RefInv
  BY DEF RefInit, RefInv, NoReferenceLost
<1>2. RefInv /\ [RefNext]_refVars => RefInv'
  <2>1. RefInv /\ RefNext => RefInv'
    BY ReferKeeps DEF RefNext
  <2>2. RefInv /\ UNCHANGED refVars => RefInv'
    BY DEF RefInv, NoReferenceLost, refVars
  <2>3. QED
    BY <2>1, <2>2
<1>3. RefInv => NoReferenceLost
  BY DEF RefInv
<1>4. QED
  BY <1>1, <1>2, <1>3, PTL DEF RefSpec

-----------------------------------------------------------------------------
(* Declarations                                                            *)


(* Locations that operator< does not tell apart are at one line and column.*)
LEMMA EquivalentPlace ==
  ASSUME NEW a \in Location, NEW b \in Location
  PROVE  Equivalent(a, b) <=> a.line = b.line /\ a.column = b.column
<1>1. a.line \in Nat /\ a.column \in Nat /\ b.line \in Nat /\ b.column \in Nat
  BY DeclarationAssumption DEF Location
<1>2. QED
  BY <1>1 DEF Equivalent, Before

(* The set holds declarations only, and one at each place declared at.     *)
DeclInv ==
  /\ declarations \subseteq declared /\ declared \subseteq Location
  /\ \A l \in declared : \E k \in declarations : k.line = l.line /\ k.column = l.column

(* A declaration is inserted, unless its place is taken.                   *)
LEMMA DeclareStep == ASSUME DeclInv, NEW l \in Location, Declare(l) PROVE DeclInv'
<1> USE DEF DeclInv
<1>1. declared' = declared \cup {l} /\ declarations' \in {declarations, declarations \cup {l}}
  BY DEF Declare
<1>2. \E k \in declarations' : k.line = l.line /\ k.column = l.column
  <2>1. CASE \E k \in declarations : Equivalent(k, l)
    <3>1. PICK k \in declarations : Equivalent(k, l)
      BY <2>1
    <3>2. k \in declarations' /\ k \in Location
      BY <1>1
    <3>3. QED
      BY <3>1, <3>2, EquivalentPlace
  <2>2. CASE ~\E k \in declarations : Equivalent(k, l)
    BY <2>2 DEF Declare
  <2>3. QED
    BY <2>1, <2>2
<1>3. QED
  BY <1>1, <1>2

(* DeclarationsKept: a declaration is in the set unless another one is at  *)
(* the same line and column of another file.                               *)
THEOREM DeclarationAtEachPlace == DeclSpec => []DeclarationsKept
<1>1. DeclInit => DeclInv
  BY DEF DeclInit, DeclInv
<1>2. DeclInv /\ [DeclNext]_declVars => DeclInv'
  <2> SUFFICES ASSUME DeclInv, [DeclNext]_declVars PROVE DeclInv'
    OBVIOUS
  <2>1. CASE UNCHANGED <<declarations, declared>>
    BY <2>1 DEF DeclInv
  <2>2. QED
    BY <2>1, DeclareStep DEF DeclNext, Define, declVars
<1>3. DeclInv => DeclarationsKept
  <2> SUFFICES ASSUME DeclInv, NEW l \in declared
               PROVE  \E k \in declarations :
                        /\ k.line = l.line /\ k.column = l.column
                        /\ (\A m \in declared : m.line = l.line /\ m.column = l.column => m = l)
                             => k = l
    BY DEF DeclInv, DeclarationsKept
  <2>1. PICK k \in declarations : k.line = l.line /\ k.column = l.column
    BY DEF DeclInv
  <2>2. k \in declared
    BY DEF DeclInv
  <2>3. QED
    BY <2>1, <2>2
<1>4. QED
  BY <1>1, <1>2, <1>3, PTL DEF DeclSpec
=============================================================================
