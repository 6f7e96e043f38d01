---------------------------- MODULE NativeServer ----------------------------
(***************************************************************************)
(* The native server: the Server of src/server.js, which accepts calls one *)
(* request at a time and can be shut down in two ways, and the extension's *)
(* Server object (ext/server.cc), which decides when the core's server may *)
(* be destroyed.                                                           *)
(*                                                                         *)
(* JavaScript runs only in the event loop or inside the callback of the    *)
(* event being completed.  A callback runs BEFORE OnComplete of its tag,   *)
(* so a tryShutdown callback still sees the old Server object.             *)
(*                                                                         *)
(* External, modelled from its use: the grpc core.  Its completion queue   *)
(* is first in, first out.  grpc_server_shutdown_and_notify fails the      *)
(* outstanding request, refuses calls from then on, and posts its tags     *)
(* once every call has ended.  A NULL server makes the core crash.         *)
(***************************************************************************)
EXTENDS Naturals, Sequences, FiniteSets

CONSTANTS
    Calls,       \* the calls clients may make
    Tries,       \* the tryShutdown() calls the application may make
    Forcing      \* whether the application may call forceShutdown(): a
                 \* set of alternatives

ASSUME ServerAssumption ==
    /\ Forcing \subseteq BOOLEAN
    /\ {"force", "none", "new_call", "failed"} \cap (Tries \cup Calls) = {}

VARIABLES
    started,     \* Server.started of server.js
    registered,  \* Server.handlers has the method the clients call
    held,        \* the application still refers to the Server
    wrapped,     \* Server::wrapped_server != NULL
    tries,       \* each tryShutdown(): not made, waiting, or called back
    draining,    \* inside drain_completion_queue
    running,     \* whose callback is on the stack
    core,        \* the state of the grpc_server
    requests,    \* request tags the core holds
    waiting,     \* shutdown tags the core holds
    queue,       \* the events of the completion queue
    call,        \* each call of a client
    cancelled,   \* calls that ended by cancellation
    destroys,    \* calls of grpc_server_destroy (history)
    mayForce,    \* the alternative taken; it never changes
    crashed      \* the operation that was given a NULL server

jsVars == <<started, registered, held, mayForce>>
loopVars == <<draining, running>>
coreVars == <<core, requests, waiting, queue, call, cancelled>>
vars == <<jsVars, wrapped, tries, loopVars, coreVars, destroys, crashed>>

CallState == {"none",
              "pending",   \* reached the core, which has no request for it
              "offered",   \* its new_call event is in the queue
              "open",      \* given to its handler
              "refused",   \* answered with UNIMPLEMENTED
              "closed"}    \* its status was sent

(* An event: what its tag is for, whether it succeeded, whom it is about.  *)
NewCall(c) == [kind |-> "new_call", of |-> c]
FailedRequest == [kind |-> "failed", of |-> "none"]
Shutdown(t) == [kind |-> "shutdown", of |-> t]

Event == {NewCall(c) : c \in Calls} \cup {FailedRequest}
         \cup {Shutdown(t) : t \in Tries \cup {"force"}}

TypeOK ==
    /\ mayForce \in Forcing
    /\ started \in BOOLEAN /\ registered \in BOOLEAN /\ held \in BOOLEAN
    /\ wrapped \in BOOLEAN
    /\ tries \in [Tries -> {"none", "waiting", "called"}]
    /\ draining \in BOOLEAN
    /\ running \in Tries \cup {"none", "new_call"}
    /\ core \in {"created", "running", "shutting", "down", "destroyed"}
    /\ requests \in Nat
    /\ waiting \in Seq(Tries \cup {"force"})
    /\ queue \in Seq(Event)
    /\ call \in [Calls -> CallState]
    /\ cancelled \subseteq Calls
    /\ destroys \in Nat
    /\ crashed \in {"no", "start", "requestCall"}

(* new Server(): nothing started.                                          *)
Init ==
    /\ mayForce \in Forcing
    /\ started = FALSE /\ registered = FALSE /\ held = TRUE /\ wrapped = TRUE
    /\ tries = [t \in Tries |-> "none"]
    /\ draining = FALSE /\ running = "none"
    /\ core = "created" /\ requests = 0 /\ waiting = <<>> /\ queue = <<>>
    /\ call = [c \in Calls |-> "none"] /\ cancelled = {}
    /\ destroys = 0 /\ crashed = "no"

-----------------------------------------------------------------------------
(* The process has not been ended by a NULL server.                        *)
Alive == crashed = "no"

InJS == Alive /\ (draining => running # "none")

(* A call has completed, whether or not its handler knows.                 *)
Ended(c) == call[c] \in {"none", "closed"} \/ c \in cancelled

(* grpc_server_shutdown_and_notify.                                        *)
ShutdownAndNotify(t) ==
    IF core = "down"
    THEN /\ queue' = Append(queue, Shutdown(t))
         /\ UNCHANGED <<core, requests, waiting>>
    ELSE /\ core' = "shutting"
         /\ waiting' = Append(waiting, t)
         /\ requests' = 0
         /\ queue' = queue \o [i \in 1..requests |-> FailedRequest]

(* The calls nobody had asked for are dropped with it.                     *)
Unasked(calls) ==
    [c \in Calls |-> IF calls[c] = "pending" THEN "closed" ELSE calls[c]]

(* grpc_server_request_call, given the queue and the calls as the event    *)
(* being handled leaves them: a pending call is handed out at once.        *)
RequestCall(q, calls) ==
    \/ /\ core # "running"
       /\ queue' = Append(q, FailedRequest) /\ call' = calls
       /\ UNCHANGED requests
    \/ /\ core = "running"
       /\ \E c \in Calls :
             /\ calls[c] = "pending"
             /\ call' = [calls EXCEPT ![c] = "offered"]
             /\ queue' = Append(q, NewCall(c))
       /\ UNCHANGED requests
    \/ /\ core = "running"
       /\ \A c \in Calls : calls[c] # "pending"
       /\ requests' = requests + 1
       /\ queue' = q /\ call' = calls

-----------------------------------------------------------------------------
(* The application.                                                        *)

(* Server.register: FALSE, and no change, if there already is a handler.   *)
register ==
    /\ InJS /\ held
    /\ registered' = TRUE
    /\ UNCHANGED <<started, held, mayForce, wrapped, tries, loopVars, coreVars,
                   destroys, crashed>>

(* Server.start: throws if called twice.                                   *)
start ==
    /\ InJS /\ held /\ ~started
    /\ started' = TRUE
    /\ \/ /\ ~wrapped                                \* grpc_server_start(NULL)
          /\ crashed' = "start"
          /\ UNCHANGED coreVars
       \/ /\ wrapped /\ core = "created"
          /\ core' = "running" /\ requests' = requests + 1
          /\ UNCHANGED <<waiting, queue, call, cancelled, crashed>>
       \/ /\ wrapped /\ core # "created"
          /\ queue' = Append(queue, FailedRequest)
          /\ UNCHANGED <<core, requests, waiting, call, cancelled, crashed>>
    /\ UNCHANGED <<registered, held, mayForce, wrapped, tries, loopVars, destroys>>

(* Bug: a server already shutting down has nothing more to be told.        *)
tryShutdownOnce(t) ==
    /\ InJS /\ held /\ tries[t] = "none"
    /\ IF ~wrapped
       THEN tries' = [tries EXCEPT ![t] = "called"] /\ UNCHANGED coreVars
       ELSE /\ tries' = [tries EXCEPT ![t] = "waiting"]
            /\ IF core = "shutting"
               THEN UNCHANGED <<core, requests, waiting, queue>>
               ELSE ShutdownAndNotify(t)
            /\ call' = Unasked(call)
            /\ UNCHANGED cancelled
    /\ UNCHANGED <<jsVars, wrapped, loopVars, destroys, crashed>>

(* Bug: the Server object lets go of the server it has told to shut down.  *)
tryShutdownReleases(t) ==
    /\ InJS /\ held /\ tries[t] = "none"
    /\ IF ~wrapped
       THEN tries' = [tries EXCEPT ![t] = "called"] /\ UNCHANGED coreVars
       ELSE /\ tries' = [tries EXCEPT ![t] = "waiting"]
            /\ ShutdownAndNotify(t)
            /\ call' = Unasked(call)
            /\ UNCHANGED cancelled
    /\ wrapped' = FALSE
    /\ UNCHANGED <<jsVars, loopVars, destroys, crashed>>

(* Server::TryShutdown: the callback is called at once on a Server that    *)
(* has let go of its grpc_server.                                          *)
tryShutdown(t) ==
    /\ InJS /\ held /\ tries[t] = "none"
    /\ IF ~wrapped
       THEN tries' = [tries EXCEPT ![t] = "called"] /\ UNCHANGED coreVars
       ELSE /\ tries' = [tries EXCEPT ![t] = "waiting"]
            /\ ShutdownAndNotify(t)
            /\ call' = Unasked(call)
            /\ UNCHANGED cancelled
    /\ UNCHANGED <<jsVars, wrapped, loopVars, destroys, crashed>>

(* Bug: the calls are left to end by themselves.                           *)
ShutdownServerGracefully ==
    /\ wrapped
    /\ ShutdownAndNotify("force")
    /\ call' = Unasked(call)
    /\ wrapped' = FALSE
    /\ UNCHANGED <<jsVars, tries, loopVars, cancelled, destroys, crashed>>

(* Server::ShutdownServer: silent on a Server that has let go.             *)
ShutdownServer ==
    /\ wrapped
    /\ ShutdownAndNotify("force")
    /\ call' = Unasked(call)
    /\ cancelled' = {c \in Calls : call'[c] \notin {"none", "closed"}}
    /\ wrapped' = FALSE
    /\ UNCHANGED <<jsVars, tries, loopVars, destroys, crashed>>

forceShutdown == InJS /\ held /\ mayForce /\ ShutdownServer

(* A handler sends its status.                                             *)
HandlerEnds(c) ==
    /\ InJS /\ call[c] = "open"
    /\ call' = [call EXCEPT ![c] = "closed"]
    /\ UNCHANGED <<jsVars, wrapped, tries, loopVars, core, requests, waiting,
                   queue, cancelled, destroys, crashed>>

Drop ==
    /\ InJS /\ held
    /\ held' = FALSE
    /\ UNCHANGED <<started, registered, mayForce, wrapped, tries, loopVars,
                   coreVars, destroys, crashed>>

(* ~Server: nothing refers to the object, neither the application nor the  *)
(* callback of a request (through handleNewCall), nor a TryShutdownOp.     *)
Collect ==
    /\ InJS /\ ~held /\ running = "none"
    /\ requests = 0 /\ \A c \in Calls : call[c] # "offered"
    /\ FailedRequest \notin {queue[i] : i \in DOMAIN queue}
    /\ \A t \in Tries : tries[t] # "waiting"
    /\ ShutdownServer

-----------------------------------------------------------------------------
(* The event loop: CompleteTag, event by event.                            *)

DrainBegin ==
    /\ Alive /\ ~draining /\ queue # <<>>
    /\ draining' = TRUE
    /\ UNCHANGED <<jsVars, wrapped, tries, running, coreVars, destroys, crashed>>

DrainEnd ==
    /\ Alive /\ draining /\ running = "none" /\ queue = <<>>
    /\ draining' = FALSE
    /\ UNCHANGED <<jsVars, wrapped, tries, running, coreVars, destroys, crashed>>

(* The event that drain_completion_queue completes next.                   *)
IsNext(kind) ==
    /\ Alive /\ draining /\ running = "none"
    /\ queue # <<>> /\ Head(queue).kind = kind

(* What handleNewCall makes of the call: its handler, or UNIMPLEMENTED.    *)
Answered(c) == [call EXCEPT ![c] = IF registered THEN "open" ELSE "refused"]

(* Bug: the next call is not asked for.                                    *)
handleNewCallOnce ==
    /\ IsNext("new_call")
    /\ call' = Answered(Head(queue).of) /\ queue' = Tail(queue)
    /\ running' = "new_call"
    /\ UNCHANGED <<jsVars, wrapped, tries, draining, core, requests, waiting,
                   cancelled, destroys, crashed>>

(* handleNewCall: ask for the next call, then find the handler.  It would  *)
(* return before that for a method that is null, but the extension makes a *)
(* string of the core's method for every call it hands over.               *)
handleNewCall ==
    /\ IsNext("new_call")
    /\ running' = "new_call"
    /\ \/ /\ ~wrapped                        \* grpc_server_request_call(NULL)
          /\ crashed' = "requestCall" /\ queue' = Tail(queue)
          /\ UNCHANGED <<requests, call>>
       \/ /\ wrapped
          /\ RequestCall(Tail(queue), Answered(Head(queue).of))
          /\ UNCHANGED crashed
    /\ UNCHANGED <<jsVars, wrapped, tries, draining, core, waiting, cancelled,
                   destroys>>

(* handleNewCall(err): returns, and nothing is asked for any more.         *)
handleFailedRequest ==
    /\ IsNext("failed")
    /\ running' = "new_call" /\ queue' = Tail(queue)
    /\ UNCHANGED <<jsVars, wrapped, tries, draining, core, requests, waiting,
                   call, cancelled, destroys, crashed>>

(* The callback of a tryShutdown is called ...                             *)
TryCallback ==
    /\ IsNext("shutdown") /\ Head(queue).of # "force"
    /\ running' = Head(queue).of
    /\ tries' = [tries EXCEPT ![running'] = "called"]
    /\ queue' = Tail(queue)
    /\ UNCHANGED <<jsVars, wrapped, draining, core, requests, waiting, call,
                   cancelled, destroys, crashed>>

(* Bug: wrapped_server is left dangling.                                   *)
DestroyWrappedServerKeeps ==
    /\ IF wrapped
       THEN core' = "destroyed" /\ destroys' = destroys + 1
       ELSE UNCHANGED <<core, destroys>>
    /\ UNCHANGED wrapped

(* Bug: the server of a finished tryShutdown is left to the collector.     *)
DestroyWrappedServerNever == UNCHANGED <<core, destroys, wrapped>>

DestroyWrappedServer ==
    /\ IF wrapped
       THEN core' = "destroyed" /\ destroys' = destroys + 1
       ELSE UNCHANGED <<core, destroys>>
    /\ wrapped' = FALSE

(* ... and returns: TryShutdownOp::OnComplete.  The other callbacks that   *)
(* run application code have an OnComplete that does nothing.              *)
CallbackReturns ==
    /\ Alive /\ running # "none"
    /\ running' = "none"
    /\ IF running \in Tries THEN DestroyWrappedServer
       ELSE UNCHANGED <<core, destroys, wrapped>>
    /\ UNCHANGED <<jsVars, tries, draining, requests, waiting, queue, call,
                   cancelled, crashed>>

(* ServerShutdownOp::OnComplete: it has its own pointer to the server.     *)
ForceCompletes ==
    /\ IsNext("shutdown") /\ Head(queue).of = "force"
    /\ core' = "destroyed" /\ destroys' = destroys + 1
    /\ queue' = Tail(queue)
    /\ UNCHANGED <<jsVars, wrapped, tries, loopVars, requests, waiting, call,
                   cancelled, crashed>>

-----------------------------------------------------------------------------
(* The core and the clients: external.                                     *)

CallArrives(c) ==
    /\ Alive /\ core = "running" /\ call[c] = "none"
    /\ IF requests > 0
       THEN /\ call' = [call EXCEPT ![c] = "offered"]
            /\ queue' = Append(queue, NewCall(c))
            /\ requests' = requests - 1
       ELSE /\ call' = [call EXCEPT ![c] = "pending"]
            /\ UNCHANGED <<queue, requests>>
    /\ UNCHANGED <<jsVars, wrapped, tries, loopVars, core, waiting, cancelled,
                   destroys, crashed>>

ClientCancels(c) ==
    /\ ~Ended(c)
    /\ IF call[c] = "pending"
       THEN call' = [call EXCEPT ![c] = "closed"] /\ UNCHANGED cancelled
       ELSE cancelled' = cancelled \cup {c} /\ UNCHANGED call
    /\ UNCHANGED <<jsVars, wrapped, tries, loopVars, core, requests, waiting,
                   queue, destroys, crashed>>

RefusalSent(c) ==
    /\ call[c] = "refused"
    /\ call' = [call EXCEPT ![c] = "closed"]
    /\ UNCHANGED <<jsVars, wrapped, tries, loopVars, core, requests, waiting,
                   queue, cancelled, destroys, crashed>>

CoreShutsDown ==
    /\ Alive /\ core = "shutting" /\ \A c \in Calls : Ended(c)
    /\ core' = "down"
    /\ queue' = queue \o [i \in DOMAIN waiting |-> Shutdown(waiting[i])]
    /\ waiting' = <<>>
    /\ UNCHANGED <<jsVars, wrapped, tries, loopVars, requests, call, cancelled,
                   destroys, crashed>>

-----------------------------------------------------------------------------
Application ==
    \/ register \/ start \/ forceShutdown \/ Drop \/ Collect
    \/ \E t \in Tries : tryShutdown(t)
    \/ \E c \in Calls : HandlerEnds(c)

Loop ==
    \/ DrainBegin \/ DrainEnd \/ handleNewCall \/ handleFailedRequest
    \/ TryCallback \/ CallbackReturns \/ ForceCompletes

Environment ==
    \/ \E c \in Calls : CallArrives(c) \/ ClientCancels(c) \/ RefusalSent(c)
    \/ CoreShutsDown

Next == Application \/ Loop \/ Environment

(* The loop drains, callbacks return and the core completes its shutdown.  *)
LoopFairness ==
    /\ WF_vars(Loop)
    /\ WF_vars(CoreShutsDown)
    /\ \A c \in Calls : WF_vars(RefusalSent(c))

(* The handlers send their statuses: the application's own duty, which is  *)
(* not relied upon where it may force the shutdown.                        *)
HandlerFairness == \A c \in Calls : SF_vars(~mayForce /\ HandlerEnds(c))

Spec == Init /\ [][Next]_vars

FairSpec == Spec /\ LoopFairness /\ HandlerFairness

-----------------------------------------------------------------------------
(* Safety.                                                                 *)

(* The grpc_server is destroyed at most once and never while the Server    *)
(* object would still use it, however the two shutdowns, their callbacks   *)
(* (which run before OnComplete) and the collector interleave              *)
(* (server.cc 77-81, 145-149, 185-222).                           *)
DestroyedOnce == destroys <= 1 /\ (wrapped => core # "destroyed")

(* A started server that is not shutting down always has exactly one       *)
(* request for a call, with the core or answered in the queue: no call     *)
(* waits for ever, and calls are taken one at a time (server.js 752-787).  *)
AlwaysListening ==
    core = "running" =>
        requests + Cardinality({c \in Calls : call[c] = "offered"}) = 1

(* "The callback will be called when all pending calls have completed and  *)
(* the server is fully shut down" (server.js 825-826), for a server that   *)
(* is not shut down forcibly: that lets go of it at once.                  *)
CallbackMeansDown ==
    ~mayForce => \A t \in Tries : tries[t] = "called" =>
        core \in {"down", "destroyed"} /\ \A c \in Calls : Ended(c)

(* handleNewCall never asks a server for a call that the Server object has *)
(* let go of: the core would be given NULL (server.js 766, server.cc       *)
(* 263-267).                                                               *)
RequestNeedsServer == crashed # "requestCall"

-----------------------------------------------------------------------------
(* Liveness.                                                               *)

(* Every tryShutdown callback is called once the handlers have ended their *)
(* calls, repeated tryShutdowns and ones from inside a callback included   *)
(* (test/server_test.js 125-128).                                          *)
TryShutdownCallsBack ==
    \A t \in Tries :
        ~mayForce /\ tries[t] = "waiting" ~> tries[t] = "called" \/ ~Alive

(* forceShutdown triggers the outstanding tryShutdown callbacks without    *)
(* any help from the handlers (server.js 837-838).                         *)
ForceTriggersTry ==
    \A t \in Tries :
        ~wrapped /\ tries[t] = "waiting" ~> tries[t] = "called" \/ ~Alive

(* A server that the Server object has let go of, or whose tryShutdown was *)
(* answered, is destroyed.                                                 *)
ServerReleased ==
    ~wrapped \/ (\E t \in Tries : tries[t] = "called")
        ~> core = "destroyed" \/ ~Alive
=============================================================================
