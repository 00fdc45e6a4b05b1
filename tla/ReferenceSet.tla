---------------------------- MODULE ReferenceSet ----------------------------
(***************************************************************************)
(* set<Reference> Component::references.  Reference::operator< is no strict*)
(* weak order - it compares argument, kind and target one after the other  *)
(* without stopping where they differ, so that a < b and b < a may both    *)
(* hold - yet a std::set is built on it.                                   *)
(*                                                                         *)
(* The set is its nodes in order.  An insertion descends from the root to  *)
(* a gap between two nodes, comparing with nodes on the way; which ones    *)
(* depends on the shape of the tree, so every gap is allowed whose two     *)
(* neighbours, always among the nodes compared, lead there.                *)
(***************************************************************************)
EXTENDS Naturals, Sequences

CONSTANTS Args, RefKinds, Targets,  \* numbered in the order of int, string, pointer
          MaxNodes                  \* bound: nodes of the tree

ASSUME ReferenceAssumption ==
  Args \subseteq Nat /\ RefKinds \subseteq Nat /\ Targets \subseteq Nat /\ MaxNodes \in Nat

Reference == [arg : Args, refkind : RefKinds, target : Targets]

VARIABLES
  nodes,      \* the set, in order
  requested   \* history: the references that reference() was called with

refVars == <<nodes, requested>>

(* Slip: the kind of a reference is not compared.                          *)
Less_NoKind(a, b) == a.arg < b.arg \/ a.target < b.target

(* Reference::operator<                                                    *)
Less(a, b) == a.arg < b.arg \/ a.refkind < b.refkind \/ a.target < b.target

(* The gap after node g of the sequence s, where the search for r may end. *)
Gap(s, g, r) == /\ g > 0 => ~Less(r, s[g])
                /\ g < Len(s) => Less(r, s[g + 1])

InsertAfter(s, g, r) ==
  [k \in 1..Len(s) + 1 |-> IF k <= g THEN s[k] ELSE IF k = g + 1 THEN r ELSE s[k - 1]]

RefInit == nodes = <<>> /\ requested = {}

(* set::insert refuses r if the node before the gap is not less than it.   *)
Refer(r, g) ==
  /\ Gap(nodes, g, r)
  /\ IF g = 0 \/ Less(nodes[g], r)
     THEN Len(nodes) < MaxNodes /\ nodes' = InsertAfter(nodes, g, r)
     ELSE UNCHANGED nodes
  /\ requested' = requested \cup {r}

RefNext == \E r \in Reference : \E g \in 0..Len(nodes) : Refer(r, g)

RefSpec == RefInit /\ [][RefNext]_refVars

-----------------------------------------------------------------------------
(* Two references that operator< takes for equivalent are equal, so no     *)
(* reference that a visitor made is lost, whatever the shape of the tree.  *)
NoReferenceLost == \A r \in requested : \E k \in 1..Len(nodes) : nodes[k] = r

(* A set can not grow a node nobody asked for, nor drop one; together with *)
(* NoReferenceLost, iterating over it yields what was requested.           *)
RefInv ==
  /\ nodes \in Seq(Reference) /\ requested \subseteq Reference
  /\ \A k \in 1..Len(nodes) : nodes[k] \in requested
  /\ NoReferenceLost
=============================================================================
