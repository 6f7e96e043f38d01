------------------------- MODULE MCHttp2CallStream -------------------------
(* Instances of Http2CallStream for TLC.                                   *)
EXTENDS Http2CallStream

(* Reads and writes with a proper server and an application that may       *)
(* cancel; writes to a server that stops reading; and statuses, responses  *)
(* and close codes of every origin.                                        *)
Mixed ==
    {[n |-> 4, m |-> 0, http |-> {"200"}, grpc |-> {"OK"},
      close |-> {"NO_ERROR"}, mayCancel |-> TRUE, mayFail |-> FALSE,
      mayStall |-> FALSE],
     [n |-> 0, m |-> 3, http |-> {"200"}, grpc |-> {"OK"},
      close |-> {"NO_ERROR"}, mayCancel |-> TRUE, mayFail |-> FALSE,
      mayStall |-> FALSE],
     [n |-> 1, m |-> 2, http |-> {"200"}, grpc |-> {"OK"},
      close |-> {"NO_ERROR"}, mayCancel |-> FALSE, mayFail |-> FALSE,
      mayStall |-> TRUE],
     [n |-> 0, m |-> 0,
      http |-> {"200", "401", "503"},
      grpc |-> {"OK", "UNAVAILABLE", "absent", "invalid"},
      close |-> {"NO_ERROR", "CANCEL", "ENHANCE_YOUR_CALM", "PROTOCOL_ERROR"},
      mayCancel |-> TRUE, mayFail |-> TRUE,
      mayStall |-> FALSE]}
=============================================================================
