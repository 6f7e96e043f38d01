--------------------------- MODULE MCHttp2Channel ---------------------------
(* Instances of Http2Channel for TLC.                                      *)
EXTENDS Http2Channel

CONSTANTS c1, c2, w1, s1, s2, s3

OneCall == {c1}
TwoCalls == {c1, c2}
MCWaiters == {w1}
TwoSessions == {s1, s2}
ThreeSessions == {s1, s2, s3}

NoFaults == {}
OnlyClose == {"close"}
OnlyIdleConnecting == {"idleConnecting"}
=============================================================================
