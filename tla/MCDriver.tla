------------------------------ MODULE MCDriver ------------------------------
(* Short command lines of any words, long ones as in the manual.           *)
EXTENDS Driver

MCWords == {"-cc", "-collection", "-d", "7", "ns"}
MCatoi == [w \in MCWords |-> IF w = "7" THEN 7 ELSE 0]

Anything == UNION {[1..n -> MCWords] : n \in 0..3}
Synopsis == {Option("-collection", n) \o Option("-d", v) \o <<"-cc">> \o rest :
               n \in {"ns", "7", "-d", NoWord}, v \in {"7", "ns", "-d", "-collection", NoWord},
               rest \in {<<"ns">>, <<"-d", "7">>, <<"-cc", "ns">>, <<"-collection", "ns">>}}
MCCommands == Anything \cup Synopsis
=============================================================================
