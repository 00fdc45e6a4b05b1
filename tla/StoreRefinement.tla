-------------------------- MODULE StoreRefinement --------------------------
(***************************************************************************)
(* The component store implements the Registry: the lookup cache, the sets *)
(* of the Files and the global set together answer every lookup as a       *)
(* search of all the components ever declared would, and no identifier of  *)
(* a scope gets a second component.                                        *)
(***************************************************************************)
EXTENDS ComponentStore

(* The store keeps one entity per component it allocates, in that order.   *)
Entities == [c \in 1..Len(heap) |->
               [type |-> heap[c].type, id |-> heap[c].id, home |-> heap[c].home]]

EntityLinks == {<<l[1], l[2]>> : l \in references}

Abstract == INSTANCE Registry WITH
  Global   <- NoFile,
  entities <- Entities,
  links    <- EntityLinks,
  scope    <- Scope

(* What the store promises to the visitors: each of its steps is one that  *)
(* the Registry allows, or is of no consequence to it.                     *)
ImplementsRegistry == Abstract!Spec

(* An identifier of a scope has one component, and so one document.        *)
EntityOnce == Abstract!EntityOnce
=============================================================================
