--------------------------- MODULE MCNativeServer ---------------------------
(* Instances of NativeServer for TLC.                                      *)
EXTENDS NativeServer

CONSTANTS c1, c2, t1, t2

OneCall == {c1}
TwoCalls == {c1, c2}
TwoTries == {t1, t2}

(* With and without forceShutdown(). *)
BothWays == {TRUE, FALSE}
=============================================================================
