--------------------------- MODULE DeclarationSet ---------------------------
(***************************************************************************)
(* set<Location> Component::declarations and Component::definition, as the *)
(* visitors fill them.  Location::operator< orders by file first, but the  *)
(* file of a Location is only looked up - by Location::file(), for output  *)
(* - in copies of the members of the set: their _file stays NULL, and the  *)
(* set tells line and column apart and nothing else.                       *)
(***************************************************************************)
EXTENDS Naturals

CONSTANTS Files, Lines, Columns

ASSUME DeclarationAssumption == Lines \subseteq Nat /\ Columns \subseteq Nat

Location == [filename : Files, line : Lines, column : Columns]

VARIABLES
  declarations,
  definition,   \* {} or the Location in it
  declared      \* history: what was inserted into declarations

declVars == <<declarations, definition, declared>>

(* Slip: the columns of one line are not compared.                         *)
Before_Line(a, b) == a.line < b.line

(* Location::operator<, where _file is NULL in both                        *)
Before(a, b) == a.line < b.line \/ (a.line = b.line /\ a.column < b.column)

Equivalent(a, b) == ~Before(a, b) /\ ~Before(b, a)

DeclInit == declarations = {} /\ definition = {} /\ declared = {}

(* A visitor comes to a declaration of the component that is no definition *)
Declare(l) ==
  /\ declarations' = IF \E k \in declarations : Equivalent(k, l)
                     THEN declarations ELSE declarations \cup {l}
  /\ declared' = declared \cup {l}
  /\ UNCHANGED definition

(* or to a definition, which takes the place of one of another unit.       *)
Define(l) ==
  /\ definition' = {l}
  /\ UNCHANGED <<declarations, declared>>

DeclNext == \E l \in Location : Declare(l) \/ Define(l)

DeclSpec == DeclInit /\ [][DeclNext]_declVars

-----------------------------------------------------------------------------
(* A declaration is in the set, which is exported with its file, unless    *)
(* there is another one at the same line and column of another file; of    *)
(* these, one is.                                                          *)
DeclarationsKept ==
  /\ declarations \subseteq declared
  /\ \A l \in declared : \E k \in declarations :
       /\ k.line = l.line /\ k.column = l.column
       /\ (\A m \in declared : m.line = l.line /\ m.column = l.column => m = l) => k = l
=============================================================================
