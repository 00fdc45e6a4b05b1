------------------------------ MODULE MCStore ------------------------------
(* Small invocations of inquiry for the component store: two main files    *)
(* and a header reached under two spellings.                               *)
EXTENDS StoreRefinement

MCTypes == {"function"}
MCIds == {"f", "g"}
MCKinds == {"bodyenc"}
MCPaths == {"a.c", "b.c", "h.h", "./h.h", "gen.y"}
MCRealPath == [p \in MCPaths |-> IF p = "./h.h" THEN "h.h" ELSE p]
MCMains == <<"a.c", "b.c">>
MCHeaders == {"h.h", "./h.h"}
NoRemap == {}
=============================================================================
