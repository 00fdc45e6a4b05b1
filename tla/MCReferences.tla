---------------------------- MODULE MCReferences ----------------------------
(* The two sets of a component.  Eight references: two arguments, two      *)
(* kinds, two targets; declarations at four places of two files.  The two  *)
(* sets do not meet, so each is filled while the other is empty.           *)
EXTENDS ReferenceSet, DeclarationSet

Two == {0, 1}
TwoFiles == {"a.h", "b.h"}
OneTwo == {1, 2}

ComponentInit == RefInit /\ DeclInit
ComponentNext == \/ DeclInit /\ RefNext /\ UNCHANGED declVars
                 \/ RefInit /\ DeclNext /\ UNCHANGED refVars
ComponentSpec == ComponentInit /\ [][ComponentNext]_<<refVars, declVars>>
=============================================================================
