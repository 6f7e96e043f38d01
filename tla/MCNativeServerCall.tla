------------------------- MODULE MCNativeServerCall -------------------------
(* Instances of NativeServerCall for TLC: one call of every kind, with     *)
(* more requests than the readable side buffers, and two responses.        *)
EXTENDS NativeServerCall

AllKinds ==
    {[kind |-> "unary", n |-> 1, w |-> 0],
     [kind |-> "unknown", n |-> 0, w |-> 0],
     [kind |-> "server_stream", n |-> 1, w |-> 2],
     [kind |-> "client_stream", n |-> 3, w |-> 0],
     [kind |-> "bidi", n |-> 3, w |-> 2]}
=============================================================================
