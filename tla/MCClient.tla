------------------------------ MODULE MCClient ------------------------------
(* Instances of JsClient and OutgoingMetadata for TLC.  The two share no   *)
(* state, so a behaviour is one of either, the other at rest.              *)
(*                                                                         *)
(* JsClient: answers of none, one and two messages, with and without one   *)
(* that does not parse; a response stream longer than the buffer; request  *)
(* streams with a message that does not serialize.  OutgoingMetadata: a    *)
(* call whose timeout fits each of the units or none, and two calls that   *)
(* share a Metadata object.                                                *)
EXTENDS JsClient, OutgoingMetadata, TLC

CONSTANTS c1, c2, o1

MCCodes == {"OK", "INTERNAL", "CANCELLED", "UNAVAILABLE"}

MCRequests ==
    [kind : {"unary"}, n : 0..2, bad : {{}, {1}, {2}}, m : {1}, badOut : {{}, {1}}]
    \cup [kind : {"client_stream"}, n : {1}, bad : {{}}, m : {2}, badOut : {{}, {2}}]
    \cup [kind : {"server_stream"}, n : {4}, bad : {{}, {3}}, m : {1}, badOut : {{}, {1}}]
    \cup [kind : {"bidi"}, n : {1}, bad : {{}}, m : {2}, badOut : {{}, {1}}]

MCCalls == {c1, c2}
MCObjects == {o1}
MCFactors == <<1, 2, 4>>

ACall(d) == [obj |-> o1, deadline |-> d, credentials |-> <<"call">>,
             channel |-> <<"channel">>]
MCPlans ==
    {c1 :> ACall(d) : d \in {2, 7, 20, Infinity}}
    \cup {c1 :> ACall(3) @@ c2 :> ACall(Infinity)}

VARIABLE part   \* which of the two the behaviour is about

MCInit ==
    /\ part \in {"JsClient", "OutgoingMetadata"}
    /\ JsInit
    /\ part # "JsClient" => request = CHOOSE r \in Requests : TRUE
    /\ OmInit
    /\ part # "OutgoingMetadata" => plan = CHOOSE p \in Plans : TRUE

MCNext ==
    /\ UNCHANGED part
    /\ \/ part = "JsClient" /\ JsNext /\ UNCHANGED omVars
       \/ part = "OutgoingMetadata" /\ OmNext /\ UNCHANGED jsVars

MCSpec == MCInit /\ [][MCNext]_<<part, jsVars, omVars>> /\ JsFairness
=============================================================================
