------------------------------ MODULE Registry ------------------------------
(***************************************************************************)
(* What the component store promises, without its data structures: there   *)
(* is one entity for an identifier of each scope - the whole program, or a *)
(* file for what is TULocal - and a name resolves to the TULocal entity of *)
(* a file in scope if there is one, to the global entity otherwise.  The   *)
(* entities are searched directly; there is no cache, no per-file set and  *)
(* no way to insert an entity that is then not there.                      *)
(***************************************************************************)
EXTENDS Naturals, Sequences

CONSTANTS Types, Ids, Files,
          Global  \* the scope that is the whole program; no file

VARIABLES
  entities,  \* the entities, in the order in which they were declared
  links,     \* <<from, to>>: references between them
  scope      \* the files of the translation unit being processed

registryVars == <<entities, links, scope>>

Entity == [type : Types, id : Ids, home : Files \cup {Global}]

Named(t, i) == {e \in 1..Len(entities) : entities[e].type = t /\ entities[e].id = i}

InScope(t, i) == {e \in Named(t, i) : entities[e].home \in scope}

Resolve(t, i) == IF InScope(t, i) # {} THEN InScope(t, i)
                 ELSE {e \in Named(t, i) : entities[e].home = Global}

Init == entities = <<>> /\ links = {} /\ scope = {}

(* A translation unit begins with its main file, or ends.                  *)
Begin(f) == scope = {} /\ scope' = {f} /\ UNCHANGED <<entities, links>>
End == scope' = {} /\ UNCHANGED <<entities, links>>

Enter(f) == scope' = scope \cup {f} /\ UNCHANGED <<entities, links>>

New(t, i, h) == entities' = Append(entities, [type |-> t, id |-> i, home |-> h])

(* A new entity is made only for a name that does not resolve.             *)
DeclareLocal(t, i, f) ==
  /\ f \in scope /\ InScope(t, i) = {}
  /\ New(t, i, f)
  /\ UNCHANGED <<links, scope>>

DeclareGlobal(t, i) ==
  /\ Resolve(t, i) = {}
  /\ New(t, i, Global)
  /\ UNCHANGED <<links, scope>>

(* A reference leads to an entity its name resolves to.                    *)
Link(e, d) ==
  /\ e \in 1..Len(entities) /\ d \in Resolve(entities[d].type, entities[d].id)
  /\ links' = links \cup {<<e, d>>}
  /\ UNCHANGED <<entities, scope>>

Next ==
  \/ \E f \in Files : Begin(f) \/ Enter(f)
  \/ End
  \/ \E t \in Types, i \in Ids, f \in Files : DeclareLocal(t, i, f)
  \/ \E t \in Types, i \in Ids : DeclareGlobal(t, i)
  \/ \E e, d \in 1..Len(entities) : Link(e, d)

Spec == Init /\ [][Next]_registryVars

-----------------------------------------------------------------------------
(* An identifier of a scope has one entity, and so one document.           *)
EntityOnce == \A e, d \in 1..Len(entities) : entities[e] = entities[d] => e = d

=============================================================================
