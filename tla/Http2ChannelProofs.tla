------------------------- MODULE Http2ChannelProofs -------------------------
(***************************************************************************)
(* ChannelInv is an invariant of Http2Channel for every set of calls,      *)
(* waiters and sessions and every set of faults.                           *)
(***************************************************************************)
EXTENDS Http2Channel, TLAPS

(* The connection part of the invariant and the call part are disturbed by *)
(* different actions, and are proved apart.                                *)
ConnInv ==
    /\ AttemptIsCurrent
    /\ IdleHasNoSession
    /\ LiveIsCurrent
    /\ IdleTimerOwnsSubChannel

-----------------------------------------------------------------------------
(* Lemmas about the building blocks of the actions.                        *)

(* Emitting an event leaves every phase a phase, and nobody listening.     *)
LEMMA AfterEmitType ==
    ASSUME TypeOK, NEW st
    PROVE  /\ AfterEmit(phase, st) \in [Users -> Phase]
           /\ WaitResultAfterEmit(st) \in [Waiters -> {"none", "ready", "error"}]
           /\ \A u \in Users : AfterEmit(phase, st)[u] # "listening"
  BY DEF TypeOK, AfterEmit, WaitResultAfterEmit, Phase, Users

(* transitionToState keeps the types of what it assigns.                   *)
LEMMA TransitionType ==
    ASSUME TypeOK, NEW st \in ConnectivityState, transitionToState(st)
    PROVE  /\ connectivityState' = st
           /\ phase' \in [Users -> Phase]
           /\ waitResult' \in [Waiters -> {"none", "ready", "error"}]
  BY AfterEmitType DEF TypeOK, transitionToState

(* A listener that survives a transition was there in that state before.   *)
LEMMA TransitionListeners ==
    ASSUME TypeOK, NEW st \in ConnectivityState, transitionToState(st),
           NEW u \in Users, phase'[u] = "listening"
    PROVE  phase[u] = "listening" /\ connectivityState = st
  BY AfterEmitType DEF transitionToState

(* connect(u) in any state: the types, the connection part of the          *)
(* invariant, and the listeners.                                           *)
LEMMA ConnectPreserves ==
    ASSUME TypeOK, ConnInv, NoListenerStranded, NEW u \in Users, connect(u)
    PROVE  /\ connectivityState' \in ConnectivityState
           /\ subChannel' \in Sessions \cup {NULL, Undefined}
           /\ conn' \in
                [Sessions -> {"unused", "connecting", "connected", "destroyed"}]
           /\ closing' \in [Sessions -> BOOLEAN]
           /\ idleTimer' \in [Sessions -> BOOLEAN]
           /\ phase' \in [Users -> Phase]
           /\ ConnInv'
           /\ NoListenerStranded'
  <1>1. phase' \in [Users -> Phase]
    BY DEF TypeOK, connect, Phase
  <1>2. CASE ~kicks /\ UNCHANGED <<chanVars, sessVars>>
    <2> USE <1>2 DEF chanVars, sessVars
    <2>1. ConnInv'
      BY DEF ConnInv, AttemptIsCurrent, IdleHasNoSession, LiveIsCurrent,
             IdleTimerOwnsSubChannel
    <2>2. NoListenerStranded'
      BY DEF NoListenerStranded, ConnInv, AttemptIsCurrent, connect, TypeOK,
             kicks, ConnectivityState
    <2> QED BY <1>1, <2>1, <2>2 DEF TypeOK
  <1>3. ASSUME kicks, NEW s \in Sessions, startConnecting(s)
        PROVE  /\ connectivityState' = "CONNECTING"
               /\ subChannel' = s
               /\ conn' \in
                [Sessions -> {"unused", "connecting", "connected", "destroyed"}]
               /\ conn'[s] = "connecting"
               /\ closing' \in [Sessions -> BOOLEAN]
               /\ idleTimer' \in [Sessions -> BOOLEAN]
               /\ ConnInv'
               /\ NoListenerStranded'
    <2> USE <1>3 DEF startConnecting, kicks
    <2>1. subChannel \notin Sessions
      BY ChannelAssumption DEF ConnInv, IdleHasNoSession
    <2>2. /\ conn' \in
                [Sessions -> {"unused", "connecting", "connected", "destroyed"}]
          /\ conn'[s] = "connecting"
          /\ \A t \in Sessions : t # s => conn'[t] = conn[t]
          /\ idleTimer' \in [Sessions -> BOOLEAN]
          /\ \A t \in Sessions : t # s => idleTimer'[t] = idleTimer[t]
      BY DEF TypeOK
    <2>3. ConnInv'
      BY <2>1, <2>2 DEF ConnInv, AttemptIsCurrent, IdleHasNoSession,
                        LiveIsCurrent, IdleTimerOwnsSubChannel
    <2>4. NoListenerStranded'
      BY <2>2 DEF NoListenerStranded
    <2> QED BY <2>2, <2>3, <2>4 DEF TypeOK
  <1> QED BY <1>1, <1>2, <1>3 DEF connect, kickConnectivityState,
                                  ConnectivityState

(* cancelWithStatus keeps the types, and the promise to reset.             *)
LEMMA CancelPreserves ==
    ASSUME TypeOK, NoOrphanStream, NEW c \in Calls,
           NEW code \in {"CANCELLED", "DEADLINE_EXCEEDED"},
           cancelWithStatus(c, code)
    PROVE  /\ finalStatus' \in
                [Calls -> {NULL, "CANCELLED", "DEADLINE_EXCEEDED", "received"}]
           /\ http2Stream' \in [Calls -> {NULL, "open", "reset", "closed"}]
           /\ onSession' = onSession
           /\ NoOrphanStream'
  BY DEF TypeOK, cancelWithStatus, NoOrphanStream

-----------------------------------------------------------------------------
(* The initial state.                                                      *)
LEMMA InitInv == Init => ChannelInv
  <1> SUFFICES ASSUME Init PROVE ChannelInv
    OBVIOUS
  <1> USE DEF Init
  <1>1. TypeOK
    BY DEF TypeOK, ConnectivityState, Phase
  <1>2. AttemptIsCurrent /\ IdleHasNoSession
    BY DEF AttemptIsCurrent, IdleHasNoSession
  <1>3. LiveIsCurrent /\ NoListenerStranded /\ IdleTimerOwnsSubChannel
    BY DEF LiveIsCurrent, NoListenerStranded, IdleTimerOwnsSubChannel
  <1>4. NoOrphanStream
    BY ChannelAssumption DEF NoOrphanStream
  <1> QED BY <1>1, <1>2, <1>3, <1>4 DEF ChannelInv

-----------------------------------------------------------------------------
(* Every step preserves the invariant: one step per action.                *)
LEMMA NextInv == ChannelInv /\ [Next]_vars => ChannelInv'
  <1> SUFFICES ASSUME ChannelInv, [Next]_vars
               PROVE  ChannelInv'
    OBVIOUS
  <1> USE DEF ChannelInv
  <1>c. ConnInv
    BY DEF ConnInv
  <1>s. \A c \in Calls : c \in Users
    BY DEF Users
  <1>w. \A w \in Waiters : w \in Users
    BY DEF Users
  <1>1. ASSUME NEW c \in Calls, CreateStream(c) PROVE ChannelInv'
    <2>1. connect(c) /\ UNCHANGED <<callVars, waitResult>>
      BY <1>1 DEF CreateStream
    <2>2. deadlineTimer' \in [Users -> {"none", "armed", "fired"}]
      BY <1>1, <1>s DEF CreateStream, TypeOK
    <2>3. TypeOK' /\ ConnInv' /\ NoListenerStranded'
      BY <1>c, <1>s, <2>1, <2>2, ConnectPreserves DEF TypeOK, callVars
    <2>4. NoOrphanStream'
      BY <2>1 DEF NoOrphanStream, callVars
    <2> QED BY <2>3, <2>4 DEF ConnInv
  <1>2. ASSUME NEW w \in Waiters, WaitForReady(w) PROVE ChannelInv'
    <2>1. connect(w) /\ UNCHANGED <<callVars, waitResult>>
      BY <1>2 DEF WaitForReady
    <2>2. deadlineTimer' \in [Users -> {"none", "armed", "fired"}]
      BY <1>2, <1>w DEF WaitForReady, TypeOK
    <2>3. TypeOK' /\ ConnInv' /\ NoListenerStranded'
      BY <1>c, <1>w, <2>1, <2>2, ConnectPreserves DEF TypeOK, callVars
    <2>4. NoOrphanStream'
      BY <2>1 DEF NoOrphanStream, callVars
    <2> QED BY <2>3, <2>4 DEF ConnInv
  <1>3. ASSUME NEW c \in Calls, Retry(c) PROVE ChannelInv'
    <2>1. connect(c) /\ UNCHANGED <<deadlineTimer, callVars, waitResult>>
      BY <1>3 DEF Retry
    <2>2. TypeOK' /\ ConnInv' /\ NoListenerStranded'
      BY <1>c, <1>s, <2>1, ConnectPreserves DEF TypeOK, callVars
    <2>3. NoOrphanStream'
      BY <2>1 DEF NoOrphanStream, callVars
    <2> QED BY <2>2, <2>3 DEF ConnInv
  <1>4. ASSUME NEW c \in Calls, Cancel(c) PROVE ChannelInv'
    <2>1. cancelWithStatus(c, "CANCELLED")
          /\ UNCHANGED <<chanVars, sessVars, phase, deadlineTimer, waitResult>>
      BY <1>4 DEF Cancel
    <2>2. TypeOK' /\ NoOrphanStream'
      BY <2>1, CancelPreserves DEF TypeOK, chanVars, sessVars
    <2>3. ConnInv' /\ NoListenerStranded'
      BY <1>c, <2>1 DEF ConnInv, AttemptIsCurrent, IdleHasNoSession,
         LiveIsCurrent, IdleTimerOwnsSubChannel, NoListenerStranded, chanVars,
         sessVars
    <2> QED BY <2>2, <2>3 DEF ConnInv
  <1>5. ASSUME Close PROVE ChannelInv'
    <2>1. /\ transitionToState("SHUTDOWN")
          /\ UNCHANGED <<subChannel, conn, idleTimer, deadlineTimer, callVars>>
      BY <1>5 DEF Close
    <2>2. /\ connectivityState' = "SHUTDOWN"
          /\ phase' \in [Users -> Phase]
          /\ waitResult' \in [Waiters -> {"none", "ready", "error"}]
      BY <2>1, TransitionType DEF ConnectivityState
    <2>3. /\ closing' \in [Sessions -> BOOLEAN]
          /\ \A s \in Sessions : closing[s] => closing'[s]
      BY <1>5 DEF Close, TypeOK
    <2>4. TypeOK'
      BY <2>1, <2>2, <2>3 DEF TypeOK, ConnectivityState, callVars
    <2>5. ConnInv' /\ NoListenerStranded' /\ NoOrphanStream'
      BY <1>c, <2>1, <2>2, <2>3 DEF ConnInv, AttemptIsCurrent,
         IdleHasNoSession, LiveIsCurrent, IdleTimerOwnsSubChannel,
         NoListenerStranded, NoOrphanStream, callVars
    <2> QED BY <2>4, <2>5 DEF ConnInv
  <1>6. ASSUME NEW u \in Users, RunImmediate(u) PROVE ChannelInv'
    <2>1. /\ phase' \in [Users -> Phase]
          /\ \A v \in Users : phase'[v] = "listening" => phase[v] = "listening"
          /\ waitResult' \in [Waiters -> {"none", "ready", "error"}]
      BY <1>6 DEF RunImmediate, TypeOK, Phase
    <2>2. UNCHANGED <<chanVars, sessVars, deadlineTimer, callVars>>
      BY <1>6 DEF RunImmediate
    <2>3. TypeOK'
      BY <2>1, <2>2 DEF TypeOK, chanVars, sessVars, callVars
    <2>4. ConnInv' /\ NoListenerStranded' /\ NoOrphanStream'
      BY <1>c, <2>1, <2>2 DEF ConnInv, AttemptIsCurrent, IdleHasNoSession,
         LiveIsCurrent, IdleTimerOwnsSubChannel, NoListenerStranded,
         NoOrphanStream, chanVars, sessVars, callVars
    <2> QED BY <2>3, <2>4 DEF ConnInv
  <1>7. ASSUME NEW c \in Calls, MetadataFinal(c) PROVE ChannelInv'
    <2>1. UNCHANGED <<chanVars, sessVars, deadlineTimer, waitResult>>
      BY <1>7 DEF MetadataFinal
    <2>2. /\ phase' \in [Users -> Phase]
          /\ \A v \in Users : phase'[v] = "listening" => phase[v] = "listening"
      BY <1>7, <1>s DEF MetadataFinal, TypeOK, Phase
    <2>3. /\ finalStatus' = finalStatus
          /\ http2Stream' \in [Calls -> {NULL, "open", "reset", "closed"}]
          /\ onSession' \in [Calls -> Sessions \cup {NULL}]
      BY <1>7 DEF MetadataFinal, TypeOK, callVars, CanRequest
    <2>4. \A d \in Calls : \/ http2Stream'[d] = http2Stream[d]
                           \/ finalStatus[d] = NULL
      BY <1>7 DEF MetadataFinal, TypeOK, callVars
    <2>5. TypeOK'
      BY <2>1, <2>2, <2>3 DEF TypeOK, chanVars, sessVars
    <2>6. NoOrphanStream'
      BY <2>3, <2>4, ChannelAssumption DEF NoOrphanStream
    <2>7. ConnInv' /\ NoListenerStranded'
      BY <1>c, <2>1, <2>2 DEF ConnInv, AttemptIsCurrent, IdleHasNoSession,
         LiveIsCurrent, IdleTimerOwnsSubChannel, NoListenerStranded, chanVars,
         sessVars
    <2> QED BY <2>5, <2>6, <2>7 DEF ConnInv
  <1>8. ASSUME NEW u \in Users, DeadlineFires(u) PROVE ChannelInv'
    <2>1. UNCHANGED <<chanVars, sessVars, phase>>
      BY <1>8 DEF DeadlineFires
    <2>2. deadlineTimer' \in [Users -> {"none", "armed", "fired"}]
      BY <1>8 DEF DeadlineFires, TypeOK
    <2>3. CASE u \in Calls /\ cancelWithStatus(u, "DEADLINE_EXCEEDED")
               /\ UNCHANGED waitResult
      BY <2>1, <2>2, <2>3, CancelPreserves
      DEF TypeOK, chanVars, sessVars, AttemptIsCurrent, IdleHasNoSession,
          LiveIsCurrent, IdleTimerOwnsSubChannel, NoListenerStranded
    <2>4. CASE waitResult' \in [Waiters -> {"none", "ready", "error"}]
               /\ UNCHANGED callVars
      BY <2>1, <2>2, <2>4
      DEF TypeOK, chanVars, sessVars, callVars, AttemptIsCurrent,
          IdleHasNoSession, LiveIsCurrent, IdleTimerOwnsSubChannel,
          NoListenerStranded, NoOrphanStream
    <2> QED BY <1>8, <2>3, <2>4 DEF DeadlineFires, TypeOK
  <1>9. ASSUME NEW s \in Sessions, SessionTimeout(s) PROVE ChannelInv'
    <2>1. transitionToState("IDLE") /\ UNCHANGED <<conn, deadlineTimer,
                                                   callVars>>
      BY <1>9 DEF SessionTimeout, goIdle
    <2>2. /\ connectivityState' = "IDLE"
          /\ phase' \in [Users -> Phase]
          /\ waitResult' \in [Waiters -> {"none", "ready", "error"}]
      BY <2>1, TransitionType DEF ConnectivityState
    <2>3. subChannel = s
      BY <1>9 DEF SessionTimeout, IdleTimerOwnsSubChannel
    <2>4. /\ subChannel' = NULL
          /\ closing' \in [Sessions -> BOOLEAN]
          /\ closing'[s]
          /\ \A t \in Sessions : closing[t] => closing'[t]
          /\ idleTimer' \in [Sessions -> BOOLEAN]
          /\ ~idleTimer'[s]
          /\ \A t \in Sessions : idleTimer'[t] => idleTimer[t]
      BY <1>9, <2>3, ChannelAssumption DEF SessionTimeout, goIdle, TypeOK
    <2>5. TypeOK'
      BY <2>1, <2>2, <2>4 DEF TypeOK, callVars, ConnectivityState
    <2>6. AttemptIsCurrent' /\ IdleHasNoSession' /\ NoOrphanStream'
      BY <2>1, <2>2, <2>4 DEF AttemptIsCurrent, IdleHasNoSession,
         NoOrphanStream, callVars
    <2>7. LiveIsCurrent' /\ IdleTimerOwnsSubChannel'
      BY <2>1, <2>3, <2>4 DEF LiveIsCurrent, IdleTimerOwnsSubChannel
    <2>8. \A u \in Users : phase'[u] # "listening"
      BY <2>1, TransitionListeners DEF NoListenerStranded, ConnectivityState
    <2>9. NoListenerStranded'
      BY <2>8 DEF NoListenerStranded
    <2> QED BY <2>5, <2>6, <2>7, <2>9
  <1>10. ASSUME NEW s \in Sessions, SessionConnect(s) PROVE ChannelInv'
    <2>1. /\ transitionToState("READY")
          /\ UNCHANGED <<subChannel, closing, idleTimer, deadlineTimer,
                         callVars>>
      BY <1>10 DEF SessionConnect
    <2>2. /\ connectivityState' = "READY"
          /\ phase' \in [Users -> Phase]
          /\ waitResult' \in [Waiters -> {"none", "ready", "error"}]
      BY <2>1, TransitionType DEF ConnectivityState
    <2>3. /\ conn' \in
                [Sessions -> {"unused", "connecting", "connected", "destroyed"}]
          /\ conn[s] = "connecting"
          /\ \A t \in Sessions : t # s => conn'[t] = conn[t]
      BY <1>10 DEF SessionConnect, TypeOK
    <2>4. TypeOK'
      BY <2>1, <2>2, <2>3 DEF TypeOK, callVars, ConnectivityState
    <2>5. AttemptIsCurrent' /\ IdleHasNoSession' /\ NoOrphanStream'
      BY <2>1, <2>2 DEF AttemptIsCurrent, IdleHasNoSession, NoOrphanStream,
         callVars
    <2>6. LiveIsCurrent' /\ IdleTimerOwnsSubChannel'
      BY <2>1, <2>3 DEF LiveIsCurrent, IdleTimerOwnsSubChannel
    <2>7. \A u \in Users : phase'[u] # "listening"
      BY <2>1, TransitionListeners DEF NoListenerStranded, ConnectivityState
    <2>8. NoListenerStranded'
      BY <2>7 DEF NoListenerStranded
    <2> QED BY <2>4, <2>5, <2>6, <2>8
  <1>11. ASSUME NEW s \in Sessions, SessionDestroyed(s) PROVE ChannelInv'
    <2>1. UNCHANGED <<chanVars, closing, phase, deadlineTimer, callVars,
                      waitResult>>
      BY <1>11 DEF SessionDestroyed
    <2>2. /\ conn' \in
                [Sessions -> {"unused", "connecting", "connected", "destroyed"}]
          /\ conn[s] = "connected" /\ conn'[s] = "destroyed"
          /\ \A t \in Sessions : t # s => conn'[t] = conn[t]
          /\ idleTimer' \in [Sessions -> BOOLEAN]
          /\ \A t \in Sessions : idleTimer'[t] => idleTimer[t]
      BY <1>11 DEF SessionDestroyed, TypeOK
    <2>3. TypeOK'
      BY <2>1, <2>2 DEF TypeOK, chanVars, callVars
    <2>4. ConnInv' /\ NoListenerStranded' /\ NoOrphanStream'
      BY <1>c, <2>1, <2>2 DEF ConnInv, AttemptIsCurrent, IdleHasNoSession,
         LiveIsCurrent, IdleTimerOwnsSubChannel, NoListenerStranded,
         NoOrphanStream, chanVars, callVars
    <2> QED BY <2>3, <2>4 DEF ConnInv
  <1>12. ASSUME NEW c \in Calls, StreamEnds(c) PROVE ChannelInv'
    <2>1. UNCHANGED <<chanVars, sessVars, phase, deadlineTimer, onSession,
                      waitResult>>
      BY <1>12 DEF StreamEnds
    <2>2. /\ finalStatus' \in
                [Calls -> {NULL, "CANCELLED", "DEADLINE_EXCEEDED", "received"}]
          /\ http2Stream' \in [Calls -> {NULL, "open", "reset", "closed"}]
          /\ NoOrphanStream'
      BY <1>12 DEF StreamEnds, TypeOK, NoOrphanStream
    <2>3. TypeOK'
      BY <2>1, <2>2 DEF TypeOK, chanVars, sessVars
    <2>4. ConnInv' /\ NoListenerStranded'
      BY <1>c, <2>1 DEF ConnInv, AttemptIsCurrent, IdleHasNoSession,
         LiveIsCurrent, IdleTimerOwnsSubChannel, NoListenerStranded, chanVars,
         sessVars
    <2> QED BY <2>2, <2>3, <2>4 DEF ConnInv
  <1>13. ASSUME UNCHANGED vars PROVE ChannelInv'
    BY <1>13 DEF vars, chanVars, sessVars, callVars, TypeOK, AttemptIsCurrent,
       IdleHasNoSession, LiveIsCurrent, NoListenerStranded,
       IdleTimerOwnsSubChannel, NoOrphanStream
  <1> QED
    BY <1>1, <1>2, <1>3, <1>4, <1>5, <1>6, <1>7, <1>8, <1>9, <1>10, <1>11,
       <1>12, <1>13 DEF Next, CallStep, UserStep, SessionStep

-----------------------------------------------------------------------------
(* The state machine of Http2Channel keeps the inductive invariant.        *)
THEOREM ChannelInvariant == Spec => []ChannelInv
  BY InitInv, NextInv, PTL DEF Spec

(* Type correctness of the channel's state.                                *)
THEOREM TypeCorrect == Spec => []TypeOK
  <1>1. ChannelInv => TypeOK
    BY DEF ChannelInv
  <1> QED BY <1>1, ChannelInvariant, PTL

(* connect() never leaves a callback waiting for an event that nobody is   *)
(* going to emit: however sessions, timers and close() interleave.         *)
THEOREM ListenersServed == Spec => []NoListenerStranded
  <1>1. ChannelInv => NoListenerStranded
    BY DEF ChannelInv
  <1> QED BY <1>1, ChannelInvariant, PTL

(* goIdle() never shuts down a session other than the one whose timer      *)
(* fired.                                                                  *)
THEOREM IdleTimerSafe == Spec => []IdleTimerOwnsSubChannel
  <1>1. ChannelInv => IdleTimerOwnsSubChannel
    BY DEF ChannelInv
  <1> QED BY <1>1, ChannelInvariant, PTL

(* The channel holds at most one session it has not asked to shut down.    *)
THEOREM SingleSession == Spec => []OneLiveSession
  <1>1. ChannelInv => OneLiveSession
    BY DEF ChannelInv, LiveIsCurrent, OneLiveSession
  <1> QED BY <1>1, ChannelInvariant, PTL

(* A cancelled or expired call has no request open on any session.         *)
THEOREM CancelledCallsHaveNoStream == Spec => []NoOrphanStream
  <1>1. ChannelInv => NoOrphanStream
    BY DEF ChannelInv
  <1> QED BY <1>1, ChannelInvariant, PTL

-----------------------------------------------------------------------------
(* A quiet environment: nothing is closed but sessions given up after they *)
(* have connected.                                                         *)

(* What READY rests on then: a session that was asked to shut down has     *)
(* connected and is not the subchannel, and a running inactivity timer     *)
(* belongs to a session that was opened.                                   *)
GivenUp ==
    \A s \in Sessions :
        closing[s] => subChannel # s /\ conn[s] \in {"connected", "destroyed"}
TimerOfOpened == \A s \in Sessions : idleTimer[s] => conn[s] # "unused"
QuietInv == ReadyHasSession /\ GivenUp /\ TimerOfOpened

(* The channel and its sessions are all that QuietInv is about.            *)
LEMMA QuietFrame ==
    ASSUME QuietInv, UNCHANGED <<chanVars, sessVars>> PROVE QuietInv'
  BY DEF QuietInv, ReadyHasSession, CanRequest, GivenUp, TimerOfOpened,
         chanVars, sessVars

(* connect() opens a session only in IDLE.                                 *)
LEMMA QuietConnect ==
    ASSUME ChannelInv, QuietInv, NEW u \in Users, connect(u) PROVE QuietInv'
  <1>1. ASSUME NEW s \in Sessions, startConnecting(s) PROVE QuietInv'
    <2>1. /\ conn[s] = "unused" /\ connectivityState' = "CONNECTING"
          /\ subChannel' = s /\ UNCHANGED closing
          /\ conn'[s] = "connecting" /\ idleTimer'[s]
          /\ \A t \in Sessions : t # s => /\ conn'[t] = conn[t]
                                          /\ idleTimer'[t] = idleTimer[t]
      BY <1>1 DEF startConnecting, ChannelInv, TypeOK
    <2> QED BY <2>1 DEF QuietInv, ReadyHasSession, GivenUp, TimerOfOpened
  <1> QED BY <1>1, QuietFrame DEF connect, kickConnectivityState

(* Without faults the invariant of the quiet channel is inductive.         *)
LEMMA QuietNext ==
    ASSUME Faults = {}, ChannelInv, QuietInv, [Next]_vars PROVE QuietInv'
  <1>1. ASSUME NEW c \in Calls, CreateStream(c) \/ Retry(c) PROVE QuietInv'
    BY <1>1, QuietConnect DEF CreateStream, Retry, Users
  <1>2. ASSUME NEW w \in Waiters, WaitForReady(w) PROVE QuietInv'
    BY <1>2, QuietConnect DEF WaitForReady, Users
  <1>3. ASSUME NEW c \in Calls, Cancel(c) \/ MetadataFinal(c) \/ StreamEnds(c)
        PROVE  QuietInv'
    BY <1>3, QuietFrame DEF Cancel, MetadataFinal, StreamEnds
  <1>4. ASSUME NEW u \in Users, UserStep(u) PROVE QuietInv'
    BY <1>4, QuietFrame DEF UserStep, RunImmediate, DeadlineFires
  <1>5. ASSUME NEW s \in Sessions, SessionTimeout(s) PROVE QuietInv'
    <2>1. /\ idleTimer[s] /\ subChannel = s /\ conn[s] # "connecting"
          /\ UNCHANGED conn
      BY <1>5 DEF SessionTimeout, ChannelInv, IdleTimerOwnsSubChannel
    <2>2. conn[s] \in {"connected", "destroyed"}
      BY <2>1 DEF QuietInv, TimerOfOpened, ChannelInv, TypeOK
    <2>3. /\ subChannel' = NULL
          /\ closing' = [t \in Sessions |-> closing[t] \/ t = subChannel]
          /\ \A t \in Sessions : idleTimer'[t] => idleTimer[t]
      BY <1>5, <2>1, ChannelAssumption
         DEF SessionTimeout, goIdle, ChannelInv, TypeOK
    <2>4. connectivityState' = "IDLE"
      BY <1>5 DEF SessionTimeout, goIdle, transitionToState
    <2>5. ReadyHasSession' /\ TimerOfOpened'
      BY <2>1, <2>3, <2>4 DEF ReadyHasSession, QuietInv, TimerOfOpened
    <2>6. GivenUp'
      <3> SUFFICES ASSUME NEW t \in Sessions, closing'[t]
                   PROVE  subChannel' # t /\ conn'[t] \in {"connected", "destroyed"}
        BY DEF GivenUp
      <3>1. closing[t] \/ t = s
        BY <2>1, <2>3
      <3> QED BY <2>1, <2>2, <2>3, <3>1, ChannelAssumption DEF QuietInv, GivenUp
    <2> QED BY <2>5, <2>6 DEF QuietInv
  <1>6. ASSUME NEW s \in Sessions, SessionConnect(s) PROVE QuietInv'
    <2>1. /\ conn[s] = "connecting" /\ conn'[s] = "connected"
          /\ \A t \in Sessions : t # s => conn'[t] = conn[t]
          /\ UNCHANGED <<subChannel, closing, idleTimer>>
      BY <1>6 DEF SessionConnect, ChannelInv, TypeOK
    <2>2. ~closing[s]
      BY <2>1 DEF QuietInv, GivenUp
    <2>3. subChannel = s
      BY <2>1, <2>2 DEF ChannelInv, LiveIsCurrent
    <2>4. ReadyHasSession'
      BY <2>1, <2>3 DEF ReadyHasSession, CanRequest
    <2>5. GivenUp' /\ TimerOfOpened'
      BY <2>1, <2>2 DEF QuietInv, GivenUp, TimerOfOpened
    <2> QED BY <2>4, <2>5 DEF QuietInv
  <1>7. ASSUME NEW s \in Sessions, SessionDestroyed(s) PROVE QuietInv'
    <2>1. /\ closing[s] /\ conn[s] = "connected" /\ conn'[s] = "destroyed"
          /\ \A t \in Sessions : t # s => conn'[t] = conn[t]
          /\ \A t \in Sessions : idleTimer'[t] => idleTimer[t]
          /\ UNCHANGED <<connectivityState, subChannel, closing>>
      BY <1>7 DEF SessionDestroyed, ChannelInv, TypeOK, chanVars
    <2>2. subChannel # s
      BY <2>1 DEF QuietInv, GivenUp
    <2>3. ReadyHasSession'
      BY <2>1, <2>2 DEF QuietInv, ReadyHasSession, CanRequest
    <2>4. GivenUp' /\ TimerOfOpened'
      BY <2>1 DEF QuietInv, GivenUp, TimerOfOpened
    <2> QED BY <2>3, <2>4 DEF QuietInv
  <1>8. ASSUME Close PROVE FALSE
    BY <1>8 DEF Close
  <1>9. ASSUME UNCHANGED vars PROVE QuietInv'
    BY <1>9, QuietFrame DEF vars
  <1> QED BY <1>1, <1>2, <1>3, <1>4, <1>5, <1>6, <1>7, <1>8, <1>9
          DEF Next, CallStep, SessionStep

(* As long as close() is not used, no inactivity timer fires during a      *)
(* connection attempt and no peer closes the connection, a channel that    *)
(* says READY has a session on which a request can be made, through any    *)
(* number of idle periods.                                                 *)
THEOREM ReadyIsUsable == ASSUME Faults = {} PROVE Spec => []ReadyHasSession
  <1>1. Init => QuietInv
    BY DEF Init, QuietInv, ReadyHasSession, GivenUp, TimerOfOpened
  <1>2. ChannelInv /\ QuietInv /\ [Next]_vars => QuietInv'
    BY QuietNext
  <1>3. QuietInv => ReadyHasSession
    BY DEF QuietInv
  <1> QED BY <1>1, <1>2, <1>3, ChannelInvariant, PTL DEF Spec
=============================================================================
