------------------------------ MODULE MCExport ------------------------------
(* Two main files and a header, one identifier: at most four components, *)
(* enough for references and parents to form chains and cycles.           *)
EXTENDS DocumentExport

MCTypes == {"function"}
MCMapped == {"function", "struct"}
MCIds == {"f"}
MCKinds == {"bodyenc"}
MCPaths == {"a.c", "b.c", "h.h"}
MCRealPath == [p \in MCPaths |-> p]
MCMains == <<"a.c", "b.c">>
MCHeaders == {"h.h"}
NoRemap == {}
(* sources that are not separate: a main file that another one includes,   *)
(* and declarations that a #line directive moves to a header               *)
Reentrant == {"a.c", "b.c"}
MCRemapped == {"h.h"}
=============================================================================
