------------------------- MODULE NativeCredentials -------------------------
(***************************************************************************)
(* Call credentials of the native client made from a metadata generator:   *)
(* the plugin of grpc-native-core/ext/call_credentials.cc, and what        *)
(* grpc-native-core/src/credentials.js puts around the generator.          *)
(*                                                                         *)
(* The core asks the plugin on any of its threads.  The plugin queues the  *)
(* request under a mutex and then wakes the event loop; wake-ups coalesce. *)
(* The loop takes the whole queue and calls the generator once for each.   *)
(*                                                                         *)
(* External, modelled from its use: the core, which keeps the plugin until *)
(* its requests are answered; libuv; the generators, each of which calls   *)
(* back once.                                                              *)
(***************************************************************************)
EXTENDS Naturals, Sequences

CONSTANTS Requests   \* the core's requests for the metadata of a call

(* How a generator calls back: its error, if any, by its code (0, another  *)
(* Uint32, some other finite number, or none), an error without a message, *)
(* and whether there is metadata.                                          *)
Outcome == [error : {"none", "zero", "uint", "finite", "other", "silent"},
            metadata : BOOLEAN]

VARIABLES
    google,     \* the generator is a Google credential's; it never changes
    pending_callbacks, \* queued under plugin_mutex
    sending,    \* requests queued whose uv_async_send is still to come
    signalled,  \* plugin_async
    callbacks,  \* the local queue of SendPluginCallback
    generating, \* requests the generator was called for
    outcome,    \* how it called back (history)
    answers,    \* what the core was told for each request
    refused,    \* requests for which calling back threw an exception
    closed      \* plugin_destroy_state

credVars == <<google, pending_callbacks, sending, signalled, callbacks, generating,
              outcome, answers, refused, closed>>

Asked == {r \in Requests : outcome[r] # <<>>} \cup generating
         \cup {pending_callbacks[i] : i \in 1..Len(pending_callbacks)}
         \cup {callbacks[i] : i \in 1..Len(callbacks)}

createFromPlugin ==
    /\ google \in BOOLEAN
    /\ pending_callbacks = <<>> /\ sending = {} /\ signalled = FALSE /\ callbacks = <<>>
    /\ generating = {} /\ refused = {} /\ closed = FALSE
    /\ outcome = [r \in Requests |-> <<>>]
    /\ answers = [r \in Requests |-> <<>>]

-----------------------------------------------------------------------------
(* Any thread of the core: the queue first, under the mutex, and then the  *)
(* wake-up.                                                                *)
plugin_get_metadata(r) ==
    /\ r \notin Asked /\ ~closed
    /\ pending_callbacks' = Append(pending_callbacks, r) /\ sending' = sending \cup {r}
    /\ UNCHANGED <<google, signalled, callbacks, generating, outcome, answers,
                   refused, closed>>

uv_async_send(r) ==
    /\ r \in sending
    /\ signalled' = TRUE /\ sending' = sending \ {r}
    /\ UNCHANGED <<google, pending_callbacks, callbacks, generating, outcome, answers,
                   refused, closed>>

-----------------------------------------------------------------------------
(* The event loop.                                                         *)

(* Bug: one request for each wake-up.                                      *)
SendPluginCallbackOne ==
    /\ signalled /\ callbacks = <<>> /\ ~closed
    /\ signalled' = FALSE
    /\ callbacks' = SubSeq(pending_callbacks, 1, 1)
    /\ pending_callbacks' = SubSeq(pending_callbacks, 2, Len(pending_callbacks))
    /\ UNCHANGED <<google, sending, generating, outcome, answers, refused, closed>>

(* The queues are swapped: a request that comes now has its own wake-up.   *)
SendPluginCallback ==
    /\ signalled /\ callbacks = <<>> /\ ~closed
    /\ signalled' = FALSE
    /\ callbacks' = pending_callbacks /\ pending_callbacks' = <<>>
    /\ UNCHANGED <<google, sending, generating, outcome, answers, refused, closed>>

CallGenerator ==
    /\ callbacks # <<>>
    /\ callbacks' = Tail(callbacks)
    /\ generating' = generating \cup {Head(callbacks)}
    /\ UNCHANGED <<google, pending_callbacks, sending, signalled, outcome, answers,
                   refused, closed>>

(* A Google credential: an error alone, or metadata alone.                 *)
createFromGoogleCredential == {o \in Outcome : o.metadata = (o.error = "none")}

(* The status code a generator's error becomes: any finite number is used. *)
statusCode(o) ==
    CASE o.error \in {"none", "zero"}    -> "OK"
      [] o.error = "uint"                -> "ERROR"
      [] o.error = "finite"              -> "NOT_UINT32"
      [] o.error \in {"other", "silent"} -> "UNAUTHENTICATED"

(* What createFromMetadataGenerator gives the generator to call back:      *)
(* PluginCallback refuses a code that is no Uint32 and a message that is   *)
(* no string, and without an error metadata must be there.                 *)
Accepted(o) ==
    /\ statusCode(o) # "NOT_UINT32" /\ o.error # "silent"
    /\ o.error = "none" => o.metadata

PluginCallback(r) ==
    /\ r \in generating
    /\ \E o \in IF google THEN createFromGoogleCredential ELSE Outcome :
          /\ outcome' = [outcome EXCEPT ![r] = <<o>>]
          /\ IF Accepted(o)
             THEN /\ answers' = [answers EXCEPT ![r] = Append(@, statusCode(o))]
                  /\ UNCHANGED refused
             ELSE refused' = refused \cup {r} /\ UNCHANGED answers
    /\ generating' = generating \ {r}
    /\ UNCHANGED <<google, pending_callbacks, sending, signalled, callbacks, closed>>

(* The core lets go of the plugin.                                         *)
plugin_destroy_state ==
    /\ ~closed /\ sending = {}
    /\ \A r \in Asked : answers[r] # <<>>
    /\ closed' = TRUE
    /\ UNCHANGED <<google, pending_callbacks, sending, signalled, callbacks, generating,
                   outcome, answers, refused>>

CredNext ==
    \/ \E r \in Requests : plugin_get_metadata(r) \/ uv_async_send(r) \/ PluginCallback(r)
    \/ SendPluginCallback \/ CallGenerator \/ plugin_destroy_state

CredFairness ==
    /\ \A r \in Requests : /\ WF_credVars(uv_async_send(r))
                           /\ WF_credVars(PluginCallback(r))
    /\ WF_credVars(SendPluginCallback) /\ WF_credVars(CallGenerator)

CredSpec == createFromPlugin /\ [][CredNext]_credVars /\ CredFairness

-----------------------------------------------------------------------------
(* Every request the core makes is answered, and is told OK only where     *)
(* the generator had no error or an error whose code is 0, though wake-ups *)
(* coalesce and a request may be taken before its own wake-up              *)
(* (call_credentials.cc 215-255, credentials.js 118-138).  Left without an *)
(* answer are only the requests whose callback throws: an error with no    *)
(* message or a code that is finite and no Uint32, or no error and no      *)
(* metadata.                                                               *)
PluginAnswered ==
    \A r \in Requests :
        r \in Asked ~>
            \/ /\ Len(answers[r]) = 1
               /\ (answers[r][1] = "OK") <=> (outcome[r][1].error \in {"none", "zero"})
            \/ /\ r \in refused
               /\ \/ outcome[r][1].error \in {"finite", "silent"}
                  \/ outcome[r][1] = [error |-> "none", metadata |-> FALSE]
=============================================================================
