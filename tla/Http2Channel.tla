---------------------------- MODULE Http2Channel ----------------------------
(***************************************************************************)
(* The connectivity state machine of the pure JavaScript client:           *)
(* Http2Channel (grpc-js-core/src/channel.ts), the part of DeadlineFilter  *)
(* that uses the channel and the clock (deadline-filter.ts), and           *)
(* Client#waitForReady (client.ts).                                        *)
(*                                                                         *)
(* One JavaScript thread runs everything, so an action is one turn of the  *)
(* event loop, or one piece of application code, which may run inside any  *)
(* turn.  Three kinds of continuation outlive a turn and are state:        *)
(*   - `once' listeners on connectivityStateChanged  (phase "listening"),  *)
(*   - setImmediate callbacks                 (phases "immediate","retry"),*)
(*   - promise reactions, which run at the end of the turn (phase "then"). *)
(* A call with a deadline registers two callbacks through connect(), one   *)
(* from DeadlineFilter#sendMetadata and one from startHttp2Stream.  Both   *)
(* are registered in the same turn and in the same connectivity state, so  *)
(* they share their fate and are one phase here.                           *)
(*                                                                         *)
(* External and modelled from its use: http2.ClientHttp2Session.  Not      *)
(* modelled: a session 'error' event, for which the code has no listener   *)
(* and which ends the process.                                             *)
(***************************************************************************)
EXTENDS Naturals

CONSTANTS
    Calls,       \* the call streams the application may create
    Waiters,     \* the waitForReady() invocations it may make
    Sessions,    \* the http2 sessions the model may open: a bound
    Faults,      \* which of the events of AllFaults the environment produces
    NULL,        \* JavaScript's null
    Undefined    \* JavaScript's undefined

AllFaults == {"idleConnecting", "close", "peerClose"}

ASSUME ChannelAssumption ==
    /\ NULL # Undefined
    /\ NULL \notin {"CANCELLED", "DEADLINE_EXCEEDED", "received", "open"}
    /\ {NULL, Undefined} \cap Sessions = {}
    /\ Calls \cap Waiters = {}
    /\ Faults \subseteq AllFaults

VARIABLES
    connectivityState,  \* Http2Channel#connectivityState
    subChannel,         \* Http2Channel#subChannel
    conn,               \* the sessions: what became of each connection
    closing,            \* the sessions on which shutdown({graceful}) was called
    idleTimer,          \* the sessions whose setTimeout callback may still run
    phase,              \* calls and waiters: where their connect() callback is
    deadlineTimer,      \* calls and waiters: the setTimeout of their deadline
    finalStatus,        \* Http2CallStream#finalStatus, as seen by the channel
    http2Stream,        \* Http2CallStream#http2Stream of every call
    onSession,          \* the session each call's http2 stream was opened on
    waitResult          \* what waitForReady's callback was called with

chanVars == <<connectivityState, subChannel>>
sessVars == <<conn, closing, idleTimer>>
callVars == <<finalStatus, http2Stream, onSession>>
vars == <<chanVars, sessVars, phase, deadlineTimer, callVars, waitResult>>

Users == Calls \cup Waiters

(* The reachable members of the enum: nothing enters TRANSIENT_FAILURE.    *)
ConnectivityState == {"CONNECTING", "READY", "IDLE", "SHUTDOWN"}

Phase == {"new", "listening", "immediate", "then", "retry",
          "over",     \* attached, finished, or called back
          "dropped",  \* its once listener was consumed by another state
          "threw"}    \* session.request threw inside the promise reaction

TypeOK ==
    /\ connectivityState \in ConnectivityState
    /\ subChannel \in Sessions \cup {NULL, Undefined}
    /\ conn \in [Sessions -> {"unused", "connecting", "connected", "destroyed"}]
    /\ closing \in [Sessions -> BOOLEAN]
    /\ idleTimer \in [Sessions -> BOOLEAN]
    /\ phase \in [Users -> Phase]
    /\ deadlineTimer \in [Users -> {"none", "armed", "fired"}]
    /\ finalStatus \in
          [Calls -> {NULL, "CANCELLED", "DEADLINE_EXCEEDED", "received"}]
    /\ http2Stream \in [Calls -> {NULL, "open", "reset", "closed"}]
    /\ onSession \in [Calls -> Sessions \cup {NULL}]
    /\ waitResult \in [Waiters -> {"none", "ready", "error"}]

Init ==
    /\ connectivityState = "IDLE"
    /\ subChannel = Undefined        \* declared without an initialiser
    /\ conn = [s \in Sessions |-> "unused"]
    /\ closing = [s \in Sessions |-> FALSE]
    /\ idleTimer = [s \in Sessions |-> FALSE]
    /\ phase = [u \in Users |-> "new"]
    /\ deadlineTimer = [u \in Users |-> "none"]
    /\ finalStatus = [c \in Calls |-> NULL]
    /\ http2Stream = [c \in Calls |-> NULL]
    /\ onSession = [c \in Calls |-> NULL]
    /\ waitResult = [w \in Waiters |-> "none"]

-----------------------------------------------------------------------------
(* The event loop.                                                         *)

(* Promise reactions run before the loop takes its next event.             *)
TurnEnded == \A c \in Calls : phase[c] # "then"

(* emit('connectivityStateChanged', newState) consumes every once listener *)
(* whatever the new state is, and calls back only for READY.  A call's     *)
(* callback attaches a reaction to finalMetadata; a waiter's is its own.   *)
AfterEmit(ph, newState) ==
    [u \in Users |->
        IF ph[u] # "listening" THEN ph[u]
        ELSE IF newState # "READY" THEN "dropped"
        ELSE IF u \in Calls THEN "then" ELSE "over"]

WaitResultAfterEmit(newState) ==
    [w \in Waiters |->
        IF phase[w] = "listening" /\ newState = "READY"
           /\ waitResult[w] = "none"
        THEN "ready" ELSE waitResult[w]]

(* Bug: the state is assigned and the event forgotten.                     *)
transitionWithoutEmit(newState) ==
    /\ connectivityState' = newState
    /\ UNCHANGED <<phase, waitResult>>

transitionToState(newState) ==
    IF newState = connectivityState
    THEN UNCHANGED <<connectivityState, phase, waitResult>>
    ELSE /\ connectivityState' = newState
         /\ phase' = AfterEmit(phase, newState)
         /\ waitResult' = WaitResultAfterEmit(newState)

-----------------------------------------------------------------------------
(* connect(): the state after kickConnectivityState() and where the        *)
(* callback of user u was put.  http2.connect() makes session s.           *)

(* Bug: a new session is made while the first attempt is under way.        *)
kicksWhileConnecting == connectivityState \in {"IDLE", "CONNECTING"}

kicks == connectivityState = "IDLE"

startConnecting(s) ==
    /\ conn[s] = "unused"
    /\ connectivityState' = "CONNECTING"   \* nobody listens in IDLE
    /\ subChannel' = s
    /\ conn' = [conn EXCEPT ![s] = "connecting"]
    /\ idleTimer' = [idleTimer EXCEPT ![s] = TRUE]
    /\ UNCHANGED closing

kickConnectivityState ==
    \/ kicks /\ \E s \in Sessions : startConnecting(s)
    \/ ~kicks /\ UNCHANGED <<chanVars, sessVars>>

connect(u) ==
    /\ kickConnectivityState
    /\ phase' = [phase EXCEPT ![u] =
          IF connectivityState = "READY" THEN "immediate" ELSE "listening"]

-----------------------------------------------------------------------------
(* Application code.                                                       *)

(* createStream(): a finite deadline arms DeadlineFilter's timer.          *)
CreateStream(c) ==
    /\ phase[c] = "new"
    /\ connectivityState # "SHUTDOWN"      \* else it throws
    /\ connect(c)
    /\ \E t \in {"none", "armed"} :
          deadlineTimer' = [deadlineTimer EXCEPT ![c] = t]
    /\ UNCHANGED <<callVars, waitResult>>

WaitForReady(w) ==
    /\ phase[w] = "new"
    /\ connect(w)
    /\ \E t \in {"none", "armed"} :
          deadlineTimer' = [deadlineTimer EXCEPT ![w] = t]
    /\ UNCHANGED <<callVars, waitResult>>

(* cancelWithStatus() on call c: the first status wins, an open http2      *)
(* stream is reset.                                                        *)
cancelWithStatus(c, code) ==
    /\ finalStatus' = [finalStatus EXCEPT ![c] = IF @ = NULL THEN code ELSE @]
    /\ http2Stream' = [http2Stream EXCEPT ![c] =
                          IF @ = "open" THEN "reset" ELSE @]
    /\ UNCHANGED onSession

Cancel(c) ==
    /\ phase[c] # "new"
    /\ finalStatus[c] = NULL               \* bound: one cancellation per call
    /\ cancelWithStatus(c, "CANCELLED")
    /\ UNCHANGED <<chanVars, sessVars, phase, deadlineTimer, waitResult>>

(* close(): the undefined of a channel that never connected passes the     *)
(* `!== null' test, and close() then throws with the state already set.    *)
Close ==
    /\ "close" \in Faults
    /\ connectivityState # "SHUTDOWN"      \* else it throws
    /\ transitionToState("SHUTDOWN")
    /\ IF subChannel \in Sessions
       THEN closing' = [closing EXCEPT ![subChannel] = TRUE]
       ELSE UNCHANGED closing
    /\ UNCHANGED <<subChannel, conn, idleTimer, deadlineTimer, callVars>>

-----------------------------------------------------------------------------
(* Continuations of connect().                                             *)

(* setImmediate(callback) of connect() in READY.                           *)
RunImmediate(u) ==
    /\ phase[u] = "immediate"
    /\ phase' = [phase EXCEPT ![u] = IF u \in Calls THEN "then" ELSE "over"]
    /\ waitResult' = [w \in Waiters |->
          IF w = u /\ waitResult[w] = "none" THEN "ready" ELSE waitResult[w]]
    /\ UNCHANGED <<chanVars, sessVars, deadlineTimer, callVars>>

(* session.request(headers) throws when there is no live session.          *)
CanRequest == subChannel \in Sessions /\ conn[subChannel] = "connected"

(* Bug: no look at the call's status before the request.                   *)
MetadataFinalUnguarded(c) ==
    /\ phase[c] = "then"
    /\ connectivityState = "READY" /\ CanRequest
    /\ phase' = [phase EXCEPT ![c] = "over"]
    /\ http2Stream' = [http2Stream EXCEPT ![c] = "open"]
    /\ onSession' = [onSession EXCEPT ![c] = subChannel]
    /\ UNCHANGED <<finalStatus, chanVars, sessVars, deadlineTimer, waitResult>>

(* Bug: a connection lost while the metadata was made is not retried.      *)
MetadataFinalNoRetry(c) ==
    /\ phase[c] = "then"
    /\ phase' = [phase EXCEPT ![c] = "over"]
    /\ IF finalStatus[c] = NULL /\ connectivityState = "READY" /\ CanRequest
       THEN /\ http2Stream' = [http2Stream EXCEPT ![c] = "open"]
            /\ onSession' = [onSession EXCEPT ![c] = subChannel]
            /\ UNCHANGED finalStatus
       ELSE UNCHANGED callVars
    /\ UNCHANGED <<chanVars, sessVars, deadlineTimer, waitResult>>

(* The reaction to finalMetadata in startHttp2Stream.  Its rejection       *)
(* handler is left out: none of the three filters of a channel rejects.    *)
MetadataFinal(c) ==
    /\ phase[c] = "then"
    /\ \/ /\ finalStatus[c] # NULL
          /\ phase' = [phase EXCEPT ![c] = "over"]
          /\ UNCHANGED callVars
       \/ /\ finalStatus[c] = NULL
          /\ connectivityState = "READY" /\ CanRequest
          /\ phase' = [phase EXCEPT ![c] = "over"]
          /\ http2Stream' = [http2Stream EXCEPT ![c] = "open"]
          /\ onSession' = [onSession EXCEPT ![c] = subChannel]
          /\ UNCHANGED finalStatus
       \/ /\ finalStatus[c] = NULL
          /\ connectivityState = "READY" /\ ~CanRequest
          /\ phase' = [phase EXCEPT ![c] = "threw"]
          /\ UNCHANGED callVars
       \/ /\ finalStatus[c] = NULL
          /\ connectivityState # "READY"
          /\ phase' = [phase EXCEPT ![c] = "retry"]
          /\ UNCHANGED callVars
    /\ UNCHANGED <<chanVars, sessVars, deadlineTimer, waitResult>>

(* setImmediate(() => this.startHttp2Stream(...)): no look at the status.  *)
Retry(c) ==
    /\ phase[c] = "retry"
    /\ connect(c)
    /\ UNCHANGED <<deadlineTimer, callVars, waitResult>>

-----------------------------------------------------------------------------
(* Timers.                                                                 *)

(* Bug: the timer forgets a waiter whose listener was consumed.            *)
DeadlineFiresUnlessDropped(u) ==
    /\ TurnEnded
    /\ deadlineTimer[u] = "armed"
    /\ deadlineTimer' = [deadlineTimer EXCEPT ![u] = "fired"]
    /\ IF u \in Calls
       THEN cancelWithStatus(u, "DEADLINE_EXCEEDED") /\ UNCHANGED waitResult
       ELSE /\ waitResult' = [waitResult EXCEPT ![u] =
                  IF @ = "none" /\ phase[u] # "dropped" THEN "error" ELSE @]
            /\ UNCHANGED callVars
    /\ UNCHANGED <<chanVars, sessVars, phase>>

DeadlineFires(u) ==
    /\ TurnEnded
    /\ deadlineTimer[u] = "armed"
    /\ deadlineTimer' = [deadlineTimer EXCEPT ![u] = "fired"]
    /\ \/ /\ u \in Calls
          /\ cancelWithStatus(u, "DEADLINE_EXCEEDED")
          /\ UNCHANGED waitResult
       \/ /\ u \in Waiters
          /\ waitResult' = [waitResult EXCEPT ![u] =
                               IF @ = "none" THEN "error" ELSE @]
          /\ UNCHANGED callVars
    /\ UNCHANGED <<chanVars, sessVars, phase>>

(* Bug: the session is forgotten and not shut down.                        *)
goIdleWithoutShutdown ==
    /\ subChannel' = NULL
    /\ UNCHANGED closing
    /\ transitionToState("IDLE")

(* Bug: the session is given up and the state left as it was.              *)
goIdleWithoutTransition ==
    /\ closing' = [s \in Sessions |-> closing[s] \/ s = subChannel]
    /\ subChannel' = NULL
    /\ UNCHANGED <<connectivityState, phase, waitResult>>

goIdle ==
    /\ closing' = [s \in Sessions |-> closing[s] \/ s = subChannel]
    /\ subChannel' = IF subChannel = Undefined THEN Undefined ELSE NULL
    /\ transitionToState("IDLE")

(* The session's inactivity timeout, registered once.  The bound: one more *)
(* session must be left for the channel to reconnect with.                 *)
SessionTimeout(s) ==
    /\ TurnEnded
    /\ idleTimer[s]
    /\ conn[s] = "connecting" => "idleConnecting" \in Faults
    /\ \E t \in Sessions : conn[t] = "unused"
    /\ idleTimer' = [idleTimer EXCEPT ![s] = FALSE]
    /\ goIdle
    /\ UNCHANGED <<conn, deadlineTimer, callVars>>

-----------------------------------------------------------------------------
(* Sessions and streams: external, from the events the code listens to.    *)

(* once('connect'): also for a session the channel no longer wants.        *)
SessionConnect(s) ==
    /\ TurnEnded
    /\ conn[s] = "connecting"
    /\ conn' = [conn EXCEPT ![s] = "connected"]
    /\ transitionToState("READY")
    /\ UNCHANGED <<subChannel, closing, idleTimer, deadlineTimer, callVars>>

(* A session ends after a graceful shutdown once its streams are closed,   *)
(* or when the peer closes the connection.  The channel has no listener.   *)
SessionDestroyed(s) ==
    /\ TurnEnded
    /\ conn[s] = "connected"
    /\ \/ "peerClose" \in Faults
       \/ /\ closing[s]
          /\ \A c \in Calls :
                onSession[c] = s => http2Stream[c] \notin {"open", "reset"}
    /\ conn' = [conn EXCEPT ![s] = "destroyed"]
    /\ idleTimer' = [idleTimer EXCEPT ![s] = FALSE]
    /\ UNCHANGED <<chanVars, closing, phase, deadlineTimer, callVars,
                   waitResult>>

(* The stream of call c ends: trailers, streamClosed or error set a status *)
(* unless the call has one.                                                *)
StreamEnds(c) ==
    /\ TurnEnded
    /\ http2Stream[c] \in {"open", "reset"}
    /\ http2Stream' = [http2Stream EXCEPT ![c] = "closed"]
    /\ finalStatus' = [finalStatus EXCEPT ![c] =
                          IF @ = NULL THEN "received" ELSE @]
    /\ UNCHANGED <<chanVars, sessVars, phase, deadlineTimer, onSession,
                   waitResult>>

-----------------------------------------------------------------------------
CallStep(c) ==
    \/ CreateStream(c) \/ Cancel(c) \/ MetadataFinal(c) \/ Retry(c)
    \/ StreamEnds(c)

UserStep(u) == RunImmediate(u) \/ DeadlineFires(u)

SessionStep(s) == SessionTimeout(s) \/ SessionConnect(s) \/ SessionDestroyed(s)

Next ==
    \/ \E c \in Calls : CallStep(c)
    \/ \E w \in Waiters : WaitForReady(w)
    \/ \E u \in Users : UserStep(u)
    \/ \E s \in Sessions : SessionStep(s)
    \/ Close

(* What the runtime owes the program: immediates, promise reactions and    *)
(* timers run, and a connection attempt that is not given up succeeds.     *)
(* The peer owes nothing: streams need not end, sessions need not close.   *)
Fairness ==
    /\ \A c \in Calls : WF_vars(MetadataFinal(c)) /\ WF_vars(Retry(c))
    /\ \A u \in Users : WF_vars(RunImmediate(u)) /\ WF_vars(DeadlineFires(u))
    /\ \A s \in Sessions : WF_vars(SessionConnect(s))

Spec == Init /\ [][Next]_vars

FairSpec == Spec /\ Fairness

-----------------------------------------------------------------------------
(* Safety.                                                                 *)

(* A once listener on connectivityStateChanged is a promise that the state *)
(* will change: it is registered only while a connection attempt of the    *)
(* current subchannel is under way, or after close().  Were a listener     *)
(* left in IDLE or READY, or CONNECTING without an attempt, its call would *)
(* wait for an event nobody is going to emit (connect(), lines 176-187).   *)
NoListenerStranded ==
    \A u \in Users : phase[u] = "listening" =>
        \/ connectivityState = "SHUTDOWN"
        \/ /\ connectivityState = "CONNECTING"
           /\ subChannel \in Sessions
           /\ conn[subChannel] = "connecting"

(* goIdle() shuts down whatever subChannel points to when any session's    *)
(* inactivity timer fires.  It never hits a newer session: a session with  *)
(* its timer running is the current subchannel, over idle periods,         *)
(* reconnections, disconnects and close() (lines 89-108).                  *)
IdleTimerOwnsSubChannel ==
    \A s \in Sessions : idleTimer[s] => subChannel = s

(* The channel keeps at most one session open that it has not asked to     *)
(* shut down: whatever it replaced was shut down first ("up to one         *)
(* subchannel", line 66).                                                  *)
OneLiveSession ==
    \A s, t \in Sessions :
        (/\ conn[s] \in {"connecting", "connected"} /\ ~closing[s]
         /\ conn[t] \in {"connecting", "connected"} /\ ~closing[t]) => s = t

(* No orphan stream: once a call was cancelled or its deadline passed, its *)
(* request is not open on any session, whether the status came before, in  *)
(* or after the turn that attached the stream (lines 131-143, and          *)
(* cancelWithStatus in call-stream.ts 326-333).                            *)
NoOrphanStream ==
    \A c \in Calls :
        finalStatus[c] \in {"CANCELLED", "DEADLINE_EXCEEDED"}
            => http2Stream[c] # "open"

(* What makes these inductive.  In CONNECTING the current subchannel's     *)
(* attempt is under way; in IDLE there is no subchannel; a session nobody  *)
(* asked to shut down is the subchannel.                                   *)
AttemptIsCurrent ==
    connectivityState = "CONNECTING" =>
        subChannel \in Sessions /\ conn[subChannel] = "connecting"
IdleHasNoSession ==
    connectivityState = "IDLE" => subChannel \in {NULL, Undefined}
LiveIsCurrent ==
    \A s \in Sessions :
        conn[s] \in {"connecting", "connected"} /\ ~closing[s]
            => subChannel = s

(* The inductive invariant: the promises above and the three facts they    *)
(* rest on.                                                                *)
ChannelInv ==
    /\ TypeOK
    /\ AttemptIsCurrent
    /\ IdleHasNoSession
    /\ LiveIsCurrent
    /\ NoListenerStranded
    /\ IdleTimerOwnsSubChannel
    /\ NoOrphanStream

(* While the channel says READY a request can be made.  It holds as long   *)
(* as close() is not used, the idle timer does not fire during a           *)
(* connection attempt, and the peer does not close the connection.         *)
ReadyHasSession == connectivityState = "READY" => CanRequest

(* "Channel has been shut down" (lines 162-164 and 194-196): after close() *)
(* the channel never leaves SHUTDOWN.                                      *)
ShutdownIsFinal ==
    [][connectivityState = "SHUTDOWN" => connectivityState' = "SHUTDOWN"]_vars

-----------------------------------------------------------------------------
(* Liveness.                                                               *)

(* A call with a deadline ends, and a waitForReady() with a deadline calls *)
(* back, whatever happens to the channel: listener dropped, request        *)
(* thrown, channel closed, peer gone.                                      *)
DeadlinesEnd ==
    /\ \A c \in Calls : deadlineTimer[c] = "armed" ~> finalStatus[c] # NULL
    /\ \A w \in Waiters :
          deadlineTimer[w] = "armed" ~> waitResult[w] # "none"

(* As long as nothing ends the connection, every call created reaches the  *)
(* server or has been ended by its own side, and every waitForReady()      *)
(* calls back.                                                             *)
ConnectServesAll ==
    /\ \A c \in Calls : phase[c] # "new" ~>
          (http2Stream[c] # NULL \/ finalStatus[c] # NULL)
    /\ \A w \in Waiters : phase[w] # "new" ~> waitResult[w] # "none"
=============================================================================
