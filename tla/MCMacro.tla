------------------------------ MODULE MCMacro ------------------------------
(* Two macros and a function; definitions that stand for the function, for *)
(* one of the macros, or mention one of them in a longer body.             *)
EXTENDS MacroTable

MCTypes == {FUNCTION_REG, FUNCTION_MACRO, DATA_MACRO}
MCNames == {"M", "N"}
MCIds == {"M", "N", "f", "g"}
OneFunction == {"f"}
TwoFunctions == {"f", "g"}
MCKinds == {REF_BODYENC, REF_SUBSTITUTION}
MCPaths == {"a.c", "b.c", "h.h"}
MCRealPath == [p \in MCPaths |-> p]
OneMain == <<"a.c">>
TwoMains == <<"a.c", "b.c">>
MCHeaders == {"h.h"}
NoHeaders == {}
NoRemap == {}

Object(body) == [objlike |-> TRUE, args |-> <<>>, body |-> body]
Call(f) == [objlike |-> FALSE, args |-> <<"x">>, body |-> <<f, "(", "x", ")">>]

(* Few enough definitions for two translation units that share a header,   *)
SharedDefinitions == {Object(<<"f">>), Object(<<"M">>), Call("f")}
OneName == {"M"}

(* and all of them.                                                        *)
MCDefinitions == {Object(<<"f">>), Object(<<"M">>), Object(<<"1", "N">>), Call("f")}
=============================================================================
