---------------------------- MODULE MCNativeCall ----------------------------
(* Instances of NativeCall and NativeCredentials for TLC.  The two share   *)
(* no state, so a behaviour is one of either, the other at rest.           *)
EXTENDS NativeCall, NativeCredentials

CONSTANTS c1, t1, t2, t3, r1, r2, r3

OneCall == {c1}
ThreeTags == {t1, t2, t3}
ThreeRequests == {r1, r2, r3}

VARIABLE part   \* which of the two the behaviour is about

MCInit == part \in {"NativeCall", "NativeCredentials"} /\ Init /\ createFromPlugin

MCNext ==
    /\ UNCHANGED part
    /\ \/ part = "NativeCall" /\ Next /\ UNCHANGED credVars
       \/ part = "NativeCredentials" /\ CredNext /\ UNCHANGED vars

MCSpec ==
    MCInit /\ [][MCNext]_<<part, vars, credVars>> /\ Fairness /\ CredFairness
=============================================================================
