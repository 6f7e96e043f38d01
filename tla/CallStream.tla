----------------------------- MODULE CallStream -----------------------------
(***************************************************************************)
(* What a CallStream of the pure JavaScript client promises to the code    *)
(* above it about the answer to a call (the CallStream type and its events *)
(* 'data', 'end' and 'status', grpc-js-core/src/call-stream.ts 36-64):     *)
(* messages one by one to a consumer that flows, then 'end', and one       *)
(* status, which may overtake both when the consumer pauses.               *)
(*                                                                         *)
(* Http2CallStream implements it (checked as its property Implements);     *)
(* JsClient is built on it.                                                *)
(***************************************************************************)
EXTENDS Naturals

CONSTANTS Codes, NULL

VARIABLES
    total,      \* messages of the server's answer; it never changes
    flowing,    \* the consumer takes messages
    steady,     \* it has done so all along
    delivered,  \* 'data' events
    ended,      \* the 'end' event
    status,     \* the status of the 'status' event
    broken      \* the underlying stream was reset or failed

csVars == <<total, flowing, steady, delivered, ended, status, broken>>

CSInit ==
    /\ total \in Nat
    /\ flowing \in BOOLEAN
    /\ steady = TRUE /\ delivered = 0 /\ ended = FALSE
    /\ status = NULL /\ broken = FALSE

Deliver ==
    /\ flowing /\ ~ended /\ delivered < total
    /\ delivered' = delivered + 1

(* An answer that was cut short may end without an error.                  *)
EmitEnd ==
    /\ flowing /\ ~ended
    /\ delivered = total \/ broken
    /\ ended' = TRUE

(* endCall and cancelWithStatus: the first status counts.  A consumer that *)
(* never paused has been given the 'end' before an OK.                     *)
SetStatus(code) ==
    /\ status = NULL
    /\ code = "OK" /\ steady => ended
    /\ status' = code

(* A stream is given up only when the call has its status.                 *)
Break ==
    /\ status' # NULL
    /\ broken' = TRUE

Pause == flowing /\ flowing' = FALSE

Resume == ~flowing /\ flowing' = TRUE

CSNext ==
    \/ Deliver /\ UNCHANGED <<total, flowing, steady, ended, status, broken>>
    \/ EmitEnd /\ UNCHANGED <<total, flowing, steady, delivered, status, broken>>
    \/ /\ \E code \in Codes : SetStatus(code)
       /\ Break \/ UNCHANGED broken
       /\ UNCHANGED <<total, flowing, steady, delivered, ended>>
    \/ /\ Break
       /\ UNCHANGED <<total, flowing, steady, delivered, ended, status>>
    \/ /\ Pause \/ Resume \/ UNCHANGED flowing
       /\ steady' \in {steady, FALSE}
       /\ UNCHANGED <<total, delivered, ended, status, broken>>

CSSpec == CSInit /\ [][CSNext]_csVars
=============================================================================
