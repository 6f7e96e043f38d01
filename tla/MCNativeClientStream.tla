------------------------ MODULE MCNativeClientStream ------------------------
(* Instances of NativeClientStream for TLC.                                *)
EXTENDS NativeClientStream

OKOrError == {"OK", "NOT_FOUND"}

(* Every kind of call: more messages than the buffer holds, and writes.    *)
AllKinds ==
    {[kind |-> "unary", n |-> 1, m |-> 0],
     [kind |-> "client_stream", n |-> 1, m |-> 2],
     [kind |-> "server_stream", n |-> 3, m |-> 0],
     [kind |-> "bidi", n |-> 1, m |-> 1]}
=============================================================================
