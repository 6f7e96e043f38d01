------------------------- MODULE NativeServerProofs -------------------------
(***************************************************************************)
(* ServerInv is an invariant of NativeServer, for any set of calls and any *)
(* number of tryShutdown()s.  It follows that the grpc_server is destroyed *)
(* once, that a running server always listens, and that a tryShutdown      *)
(* callback means what its documentation says.                             *)
(***************************************************************************)
EXTENDS NativeServer, SequenceTheorems, FiniteSetTheorems, TLAPS

-----------------------------------------------------------------------------
(* The inductive invariant.                                                *)

(* The core has completed its shutdown.                                    *)
Gone == core \in {"down", "destroyed"}

(* An event that can be in the queue only once.                            *)
Single(e) == e.kind = "new_call" \/ e.of = "force"

(* What the events in a queue say of the calls and of the server.          *)
QueueOK(q, calls, gone, unforced) ==
    /\ \A i \in 1..Len(q) :
          /\ q[i].kind = "new_call" => calls[q[i].of] = "offered"
          /\ q[i].kind = "shutdown" => gone
          /\ unforced => q[i].of # "force"
    /\ \A i, j \in 1..Len(q) : q[i] = q[j] /\ Single(q[i]) => i = j

ForceWaits == \E i \in 1..Len(waiting) : waiting[i] = "force"

(* No event of a forced shutdown can be in the queue.                      *)
Unforced == wrapped \/ destroys # 0 \/ ForceWaits

EventsOK == QueueOK(queue, call, Gone, Unforced)

(* A forced shutdown waits at most once, and only on behalf of a Server    *)
(* object that has let go of a server not yet destroyed.                   *)
WaitingOK ==
    /\ \A i, j \in 1..Len(waiting) :
          waiting[i] = "force" /\ waiting[j] = "force" => i = j
    /\ wrapped \/ destroys # 0 => ~ForceWaits

Lifetime ==
    /\ destroys \in {0, 1}
    /\ wrapped => destroys = 0
    /\ core = "destroyed" => destroys = 1
    /\ core \in {"created", "running"} => wrapped
    /\ core = "created" => requests = 0 /\ \A c \in Calls : call[c] = "none"

(* Exactly one request, with the core or answered in the queue.            *)
OneRequest ==
    \/ requests = 1 /\ \A c \in Calls : call[c] # "offered"
    \/ /\ requests = 0
       /\ \E c \in Calls : /\ call[c] = "offered"
                           /\ \A d \in Calls : call[d] = "offered" => d = c

Listening == core = "running" => OneRequest

(* Who may conclude that the core is down.                                 *)
DownInv ==
    /\ Gone => \A c \in Calls : Ended(c)
    /\ running \in Tries => Gone
    /\ ~mayForce => \A t \in Tries : tries[t] = "called" => Gone
    /\ ~mayForce /\ held /\ ~wrapped => Gone

ServerInv ==
    TypeOK /\ EventsOK /\ WaitingOK /\ Lifetime /\ Listening /\ DownInv

-----------------------------------------------------------------------------
(* Events and queues of events.                                            *)

(* What an event is for is told by its kind.                               *)
LEMMA EventKinds ==
    /\ FailedRequest \in Event
    /\ \A c \in Calls : NewCall(c) \in Event
    /\ \A t \in Tries \cup {"force"} : Shutdown(t) \in Event
    /\ FailedRequest.kind = "failed" /\ FailedRequest.of = "none"
    /\ \A c : NewCall(c).kind = "new_call" /\ NewCall(c).of = c
    /\ \A t : Shutdown(t).kind = "shutdown" /\ Shutdown(t).of = t
  BY DEF Event, FailedRequest, NewCall, Shutdown

(* An event is a new call, a failed request or the end of a shutdown.      *)
LEMMA EventCases ==
    ASSUME NEW e \in Event
    PROVE  /\ e.kind \in {"new_call", "failed", "shutdown"}
           /\ e.kind = "new_call" => e.of \in Calls /\ e = NewCall(e.of)
           /\ e.kind = "failed" => e = FailedRequest
           /\ e.kind = "shutdown" =>
                 e.of \in Tries \cup {"force"} /\ e = Shutdown(e.of)
           /\ e.of = "force" => e.kind = "shutdown"
  <1>1. CASE \E c \in Calls : e = NewCall(c)
    <2>1. PICK c \in Calls : e = NewCall(c)
      BY <1>1
    <2>2. e.kind = "new_call" /\ e.of = c
      BY <2>1, EventKinds
    <2>3. c # "force"
      BY ServerAssumption
    <2> QED BY <2>1, <2>2, <2>3
  <1>2. CASE e = FailedRequest
    BY <1>2, EventKinds
  <1>3. CASE \E t \in Tries \cup {"force"} : e = Shutdown(t)
    <2>1. PICK t \in Tries \cup {"force"} : e = Shutdown(t)
      BY <1>3
    <2>2. e.kind = "shutdown" /\ e.of = t
      BY <2>1, EventKinds
    <2> QED BY <2>1, <2>2
  <1> QED BY <1>1, <1>2, <1>3 DEF Event

(* The first event may be taken from a queue; if it was a single one, the  *)
(* rest has no other.                                                      *)
LEMMA QueueTail ==
    ASSUME NEW q \in Seq(Event), q # <<>>, NEW calls, NEW gone, NEW unforced,
           QueueOK(q, calls, gone, unforced)
    PROVE  /\ Head(q) \in Event /\ Tail(q) \in Seq(Event)
           /\ QueueOK(Tail(q), calls, gone, unforced)
           /\ Head(q).kind = "new_call" => calls[Head(q).of] = "offered"
           /\ Head(q).kind = "shutdown" => gone
           /\ unforced => Head(q).of # "force"
           /\ Single(Head(q)) =>
                 \A i \in 1..Len(Tail(q)) : Tail(q)[i] # Head(q)
  <1>1. /\ Head(q) \in Event /\ Tail(q) \in Seq(Event) /\ Head(q) = q[1]
        /\ Len(q) \in Nat \ {0} /\ Len(Tail(q)) = Len(q) - 1
        /\ \A i \in 1..Len(Tail(q)) : Tail(q)[i] = q[i + 1]
    BY HeadTailProperties, EmptySeq, LenProperties
  <1>2. 1 \in 1..Len(q)
        /\ \A i \in 1..Len(Tail(q)) : i + 1 \in 1..Len(q) /\ i + 1 # 1
    BY <1>1
  <1>3. QueueOK(Tail(q), calls, gone, unforced)
    <2>1. \A i \in 1..Len(Tail(q)) :
             /\ Tail(q)[i].kind = "new_call" =>
                   calls[Tail(q)[i].of] = "offered"
             /\ Tail(q)[i].kind = "shutdown" => gone
             /\ unforced => Tail(q)[i].of # "force"
      BY <1>1, <1>2 DEF QueueOK
    <2>2. ASSUME NEW i \in 1..Len(Tail(q)), NEW j \in 1..Len(Tail(q)),
                 Tail(q)[i] = Tail(q)[j], Single(Tail(q)[i])
          PROVE  i = j
      <3>1. q[i + 1] = q[j + 1] /\ Single(q[i + 1])
        BY <1>1, <2>2
      <3>2. i + 1 = j + 1
        BY <1>2, <3>1 DEF QueueOK
      <3> QED BY <1>1, <3>2
    <2> QED BY <2>1, <2>2 DEF QueueOK
  <1>4. ASSUME Single(Head(q)), NEW i \in 1..Len(Tail(q))
        PROVE  Tail(q)[i] # Head(q)
    BY <1>1, <1>2, <1>4 DEF QueueOK
  <1> QED BY <1>1, <1>2, <1>3, <1>4 DEF QueueOK

(* An event may be added of which the same can be said.                    *)
LEMMA QueueAppend ==
    ASSUME NEW q \in Seq(Event), NEW e \in Event, NEW calls, NEW gone,
           NEW unforced, QueueOK(q, calls, gone, unforced),
           e.kind = "new_call" => calls[e.of] = "offered",
           e.kind = "shutdown" => gone,
           unforced => e.of # "force",
           Single(e) => \A i \in 1..Len(q) : q[i] # e
    PROVE  /\ Append(q, e) \in Seq(Event)
           /\ QueueOK(Append(q, e), calls, gone, unforced)
  <1>1. /\ Append(q, e) \in Seq(Event) /\ Len(Append(q, e)) = Len(q) + 1
        /\ \A i \in 1..Len(q) : Append(q, e)[i] = q[i]
        /\ Append(q, e)[Len(q) + 1] = e /\ Len(q) \in Nat
    BY AppendProperties, LenProperties
  <1>2. \A i \in 1..Len(Append(q, e)) : i \in 1..Len(q) \/ i = Len(q) + 1
    BY <1>1
  <1>3. ASSUME NEW i \in 1..Len(Append(q, e))
        PROVE  /\ Append(q, e)[i].kind = "new_call" =>
                     calls[Append(q, e)[i].of] = "offered"
               /\ Append(q, e)[i].kind = "shutdown" => gone
               /\ unforced => Append(q, e)[i].of # "force"
    <2>1. CASE i \in 1..Len(q)
      BY <1>1, <2>1 DEF QueueOK
    <2>2. CASE i = Len(q) + 1
      BY <1>1, <2>2
    <2> QED BY <1>2, <2>1, <2>2
  <1>4. ASSUME NEW i \in 1..Len(Append(q, e)), NEW j \in 1..Len(Append(q, e)),
               Append(q, e)[i] = Append(q, e)[j], Single(Append(q, e)[i])
        PROVE  i = j
    <2>1. CASE i \in 1..Len(q) /\ j \in 1..Len(q)
      BY <1>1, <1>4, <2>1 DEF QueueOK
    <2>2. CASE i = Len(q) + 1 /\ j \in 1..Len(q)
      BY <1>1, <1>4, <2>2
    <2>3. CASE j = Len(q) + 1 /\ i \in 1..Len(q)
      BY <1>1, <1>4, <2>3
    <2>4. CASE i = Len(q) + 1 /\ j = Len(q) + 1
      BY <2>4
    <2> QED BY <1>2, <2>1, <2>2, <2>3, <2>4
  <1> QED BY <1>1, <1>3, <1>4 DEF QueueOK

(* A queue may be extended by one whose events differ from its own.        *)
LEMMA QueueConcat ==
    ASSUME NEW p \in Seq(Event), NEW q \in Seq(Event), NEW calls, NEW gone,
           NEW unforced, QueueOK(p, calls, gone, unforced),
           QueueOK(q, calls, gone, unforced),
           \A i \in 1..Len(p), j \in 1..Len(q) : Single(q[j]) => p[i] # q[j]
    PROVE  /\ p \o q \in Seq(Event)
           /\ QueueOK(p \o q, calls, gone, unforced)
  <1>1. /\ p \o q \in Seq(Event) /\ Len(p \o q) = Len(p) + Len(q)
        /\ Len(p) \in Nat /\ Len(q) \in Nat
        /\ \A i \in 1..(Len(p) + Len(q)) :
              (p \o q)[i] = IF i <= Len(p) THEN p[i] ELSE q[i - Len(p)]
    BY ConcatProperties, LenProperties
  <1>2. ASSUME NEW i \in 1..Len(p \o q)
        PROVE  \/ i \in 1..Len(p) /\ (p \o q)[i] = p[i]
               \/ /\ i - Len(p) \in 1..Len(q) /\ i \notin 1..Len(p)
                  /\ (p \o q)[i] = q[i - Len(p)]
    BY <1>1
  <1>3. ASSUME NEW i \in 1..Len(p \o q)
        PROVE  /\ (p \o q)[i].kind = "new_call" =>
                     calls[(p \o q)[i].of] = "offered"
               /\ (p \o q)[i].kind = "shutdown" => gone
               /\ unforced => (p \o q)[i].of # "force"
    <2>1. CASE i \in 1..Len(p) /\ (p \o q)[i] = p[i]
      BY <2>1 DEF QueueOK
    <2>2. CASE i - Len(p) \in 1..Len(q) /\ (p \o q)[i] = q[i - Len(p)]
      BY <2>2 DEF QueueOK
    <2> QED BY <1>2, <2>1, <2>2
  <1>4. ASSUME NEW i \in 1..Len(p \o q), NEW j \in 1..Len(p \o q),
               (p \o q)[i] = (p \o q)[j], Single((p \o q)[i])
        PROVE  i = j
    <2>1. CASE i \in 1..Len(p) /\ j \in 1..Len(p)
      BY <1>2, <1>4, <2>1 DEF QueueOK
    <2>2. CASE i \notin 1..Len(p) /\ j \notin 1..Len(p)
      <3>1. i - Len(p) = j - Len(p)
        BY <1>2, <1>4, <2>2 DEF QueueOK
      <3> QED BY <1>1, <3>1
    <2>3. CASE i \in 1..Len(p) /\ j \notin 1..Len(p)
      BY <1>2, <1>4, <2>3
    <2>4. CASE i \notin 1..Len(p) /\ j \in 1..Len(p)
      BY <1>2, <1>4, <2>4
    <2> QED BY <2>1, <2>2, <2>3, <2>4
  <1> QED BY <1>1, <1>3, <1>4 DEF QueueOK

(* What is said of the calls and the server may change in these ways.      *)
LEMMA QueueWeaken ==
    ASSUME NEW q \in Seq(Event), NEW calls, NEW gone, NEW unforced,
           NEW calls1, NEW gone1, NEW unforced1,
           QueueOK(q, calls, gone, unforced),
           \A i \in 1..Len(q) :
              /\ q[i].kind = "new_call" /\ calls[q[i].of] = "offered" =>
                    calls1[q[i].of] = "offered"
              /\ unforced1 => unforced \/ q[i].of # "force",
           gone => gone1
    PROVE  QueueOK(q, calls1, gone1, unforced1)
  BY DEF QueueOK

-----------------------------------------------------------------------------
(* The start, and stuttering.                                              *)

(* A new Server satisfies the invariant.                                   *)
LEMMA InitInv == Init => ServerInv
  <1> SUFFICES ASSUME Init PROVE ServerInv
    OBVIOUS
  <1> USE DEF Init
  <1>1. TypeOK
    BY EmptySeq DEF TypeOK, CallState
  <1>2. EventsOK
    BY DEF EventsOK, QueueOK
  <1>3. WaitingOK
    BY DEF WaitingOK, ForceWaits
  <1>4. Lifetime /\ Listening
    BY DEF Lifetime, Listening
  <1>5. DownInv
    <2>1. "none" \notin Tries
      BY ServerAssumption
    <2> QED BY <2>1 DEF DownInv, Gone
  <1> QED BY <1>1, <1>2, <1>3, <1>4, <1>5 DEF ServerInv

(* The parts of the invariant that a step preserves by leaving their       *)
(* variables alone.                                                        *)
LEMMA StutterInv == ASSUME ServerInv, UNCHANGED vars PROVE ServerInv'
  <1> USE DEF vars, jsVars, loopVars, coreVars, ServerInv
  <1>1. TypeOK'
    BY DEF TypeOK
  <1>2. EventsOK' /\ WaitingOK'
    BY DEF EventsOK, WaitingOK, QueueOK, Gone, Unforced, ForceWaits, Single
  <1>3. Lifetime' /\ Listening' /\ DownInv'
    BY DEF Lifetime, Listening, OneRequest, DownInv, Gone, Ended
  <1> QED BY <1>1, <1>2, <1>3

-----------------------------------------------------------------------------
(* Shutting down.                                                          *)

(* Unasked() closes the pending calls and leaves the others alone.         *)
LEMMA UnaskedCalls ==
    ASSUME TypeOK
    PROVE  /\ Unasked(call) \in [Calls -> CallState]
           /\ \A c \in Calls :
                 /\ Unasked(call)[c] = "offered" <=> call[c] = "offered"
                 /\ call[c] \in {"none", "closed"} => Unasked(call)[c] = call[c]
                 /\ Unasked(call)[c] # "pending"
  BY DEF TypeOK, Unasked, CallState

(* grpc_server_shutdown_and_notify, for a tag whose forced shutdown lets   *)
(* go of the server in the same step.                                      *)
LEMMA NotifyInv ==
    ASSUME ServerInv, wrapped, NEW t \in Tries \cup {"force"},
           ShutdownAndNotify(t), call' = Unasked(call), UNCHANGED destroys,
           wrapped' \in BOOLEAN, t = "force" => ~wrapped'
    PROVE  /\ queue' \in Seq(Event) /\ requests' \in Nat
           /\ waiting' \in Seq(Tries \cup {"force"})
           /\ core' \in {"shutting", "down"} /\ (Gone' <=> Gone)
           /\ EventsOK' /\ WaitingOK'
  <1>1. /\ queue \in Seq(Event) /\ waiting \in Seq(Tries \cup {"force"})
        /\ destroys = 0 /\ ~ForceWaits /\ Unforced /\ core # "destroyed"
        /\ requests \in Nat /\ TypeOK
    BY DEF ServerInv, TypeOK, Lifetime, WaitingOK, Unforced
  <1>2. /\ \A i \in 1..Len(queue) : queue[i] \in Event /\ queue[i].of # "force"
        /\ QueueOK(queue, call, Gone, Unforced)
    BY <1>1, ElementOfSeq DEF ServerInv, EventsOK, QueueOK
  <1>3. ASSUME NEW u PROVE QueueOK(queue, call', Gone, u)
    <2>1. \A i \in 1..Len(queue) : queue[i].kind = "new_call" =>
             queue[i].of \in Calls
      BY <1>2, EventCases
    <2>2. \A i \in 1..Len(queue) :
             /\ queue[i].kind = "new_call" /\ call[queue[i].of] = "offered" =>
                   call'[queue[i].of] = "offered"
             /\ u => Unforced \/ queue[i].of # "force"
      BY <1>1, <2>1, UnaskedCalls
    <2> QED BY <1>1, <1>2, <2>2 DEF QueueOK
  <1>4. CASE core = "down"
    <2>1. /\ queue' = Append(queue, Shutdown(t))
          /\ UNCHANGED <<core, requests, waiting>>
      BY <1>4 DEF ShutdownAndNotify
    <2>2. Gone /\ Gone' /\ ~ForceWaits'
      BY <1>1, <1>4, <2>1 DEF Gone, ForceWaits
    <2>3. Unforced' => t # "force"
      BY <1>1, <2>2 DEF Unforced
    <2>4. /\ Shutdown(t) \in Event /\ Shutdown(t).kind = "shutdown"
          /\ Shutdown(t).of = t
      BY EventKinds
    <2>5. Single(Shutdown(t)) => \A i \in 1..Len(queue) : queue[i] # Shutdown(t)
      BY <1>2, <2>4 DEF Single
    <2>6. /\ queue' \in Seq(Event)
          /\ QueueOK(queue', call', Gone, Unforced')
      <3>1. QueueOK(queue, call', Gone, Unforced')
        BY <1>3
      <3> QED BY <1>1, <2>1, <2>2, <2>3, <2>4, <2>5, <3>1, QueueAppend
    <2>7. EventsOK'
      BY <2>2, <2>6 DEF EventsOK, Gone
    <2>8. WaitingOK'
      BY <2>1, <2>2 DEF ServerInv, WaitingOK
    <2> QED BY <1>1, <1>4, <2>1, <2>2, <2>6, <2>7, <2>8
  <1>5. CASE core # "down"
    <2> DEFINE F == [i \in 1..requests |-> FailedRequest]
    <2>1. /\ core' = "shutting" /\ waiting' = Append(waiting, t)
          /\ requests' = 0 /\ queue' = queue \o F
      BY <1>5 DEF ShutdownAndNotify
    <2>2. ~Gone /\ ~Gone'
      BY <1>1, <1>5, <2>1 DEF Gone
    <2>3. F \in Seq(Event) /\ Len(F) = requests
      <3>1. F \in [1..requests -> Event]
        BY EventKinds
      <3> QED BY <1>1, <3>1, SeqDef, LenProperties
    <2>4. \A i \in 1..Len(F) : F[i] = FailedRequest /\ ~Single(F[i])
                                /\ F[i].kind = "failed" /\ F[i].of = "none"
      BY <1>1, <2>3, EventKinds DEF Single
    <2>5. QueueOK(F, call', Gone, TRUE)
      BY <2>4 DEF QueueOK
    <2>6. queue' \in Seq(Event) /\ QueueOK(queue', call', Gone, TRUE)
      <3>1. QueueOK(queue, call', Gone, TRUE)
        BY <1>3
      <3> QED BY <1>1, <2>1, <2>3, <2>4, <2>5, <3>1, QueueConcat
    <2>7. EventsOK'
      BY <2>2, <2>6 DEF EventsOK, QueueOK
    <2>8. WaitingOK' /\ waiting' \in Seq(Tries \cup {"force"})
      <3>1. /\ waiting' \in Seq(Tries \cup {"force"})
            /\ Len(waiting') = Len(waiting) + 1 /\ Len(waiting) \in Nat
            /\ \A i \in 1..Len(waiting) : waiting'[i] = waiting[i]
            /\ waiting'[Len(waiting) + 1] = t
        BY <1>1, <2>1, AppendProperties, LenProperties
      <3>2. \A i \in 1..Len(waiting') : waiting'[i] = "force" =>
               i = Len(waiting) + 1 /\ t = "force"
        BY <1>1, <3>1 DEF ForceWaits
      <3>3. wrapped' \/ destroys' # 0 => ~ForceWaits'
        BY <1>1, <3>2 DEF ForceWaits
      <3> QED BY <3>1, <3>2, <3>3 DEF WaitingOK
    <2> QED BY <1>1, <2>1, <2>2, <2>6, <2>7, <2>8
  <1> QED BY <1>4, <1>5

(* tryShutdown() keeps the invariant.                                      *)
LEMMA TryShutdownInv ==
    ASSUME ServerInv, NEW t \in Tries, tryShutdown(t)
    PROVE  ServerInv'
  <1>0. /\ InJS /\ held /\ TypeOK
        /\ UNCHANGED <<jsVars, wrapped, loopVars, destroys, crashed>>
    BY DEF tryShutdown, ServerInv
  <1>1. CASE ~wrapped
    <2>1. /\ tries' = [tries EXCEPT ![t] = "called"] /\ UNCHANGED coreVars
      BY <1>1 DEF tryShutdown
    <2>2. TypeOK'
      BY <1>0, <2>1 DEF TypeOK, jsVars, loopVars, coreVars
    <2>3. EventsOK' /\ WaitingOK'
      BY <1>0, <2>1 DEF ServerInv, EventsOK, WaitingOK, QueueOK, Gone, Unforced,
         ForceWaits, Single, coreVars
    <2>4. Lifetime' /\ Listening'
      BY <1>0, <2>1 DEF ServerInv, Lifetime, Listening, OneRequest, coreVars
    <2>5. DownInv'
      BY <1>0, <1>1, <2>1
      DEF ServerInv, DownInv, Gone, Ended, coreVars, jsVars, loopVars, TypeOK
    <2> QED BY <2>2, <2>3, <2>4, <2>5 DEF ServerInv
  <1>2. CASE wrapped
    <2>1. /\ tries' = [tries EXCEPT ![t] = "waiting"]
          /\ ShutdownAndNotify(t) /\ call' = Unasked(call)
          /\ UNCHANGED cancelled
      BY <1>2 DEF tryShutdown
    <2>2. t # "force"
      BY ServerAssumption
    <2>3. /\ queue' \in Seq(Event) /\ requests' \in Nat
          /\ waiting' \in Seq(Tries \cup {"force"})
          /\ core' \in {"shutting", "down"} /\ (Gone' <=> Gone)
          /\ EventsOK' /\ WaitingOK'
      BY <1>0, <1>2, <2>1, <2>2, NotifyInv DEF TypeOK
    <2>4. TypeOK'
      BY <1>0, <2>1, <2>3, UnaskedCalls DEF TypeOK, jsVars, loopVars
    <2>5. Lifetime' /\ Listening'
      BY <1>0, <2>3 DEF ServerInv, Lifetime, Listening
    <2>6. DownInv'
      <3>1. Gone' => \A c \in Calls : Ended(c)'
        BY <1>0, <2>1, <2>3, UnaskedCalls DEF ServerInv, DownInv, Ended
      <3> QED BY <1>0, <1>2, <2>1, <2>3, <3>1
          DEF ServerInv, DownInv, jsVars, loopVars, TypeOK
    <2> QED BY <2>3, <2>4, <2>5, <2>6 DEF ServerInv
  <1> QED BY <1>1, <1>2

(* ShutdownServer() keeps it, called by forceShutdown() or the collector.  *)
LEMMA ShutdownServerInv ==
    ASSUME ServerInv, ShutdownServer, mayForce \/ ~held
    PROVE  ServerInv'
  <1>1. /\ wrapped /\ ~wrapped' /\ wrapped' \in BOOLEAN
        /\ ShutdownAndNotify("force") /\ call' = Unasked(call)
        /\ cancelled' = {c \in Calls : call'[c] \notin {"none", "closed"}}
        /\ UNCHANGED <<jsVars, tries, loopVars, destroys, crashed>> /\ TypeOK
    BY DEF ShutdownServer, ServerInv
  <1>2. /\ queue' \in Seq(Event) /\ requests' \in Nat
        /\ waiting' \in Seq(Tries \cup {"force"})
        /\ core' \in {"shutting", "down"} /\ (Gone' <=> Gone)
        /\ EventsOK' /\ WaitingOK'
    BY <1>1, NotifyInv
  <1>3. TypeOK'
    BY <1>1, <1>2, UnaskedCalls DEF TypeOK, jsVars, loopVars
  <1>4. Lifetime' /\ Listening'
    BY <1>1, <1>2 DEF ServerInv, Lifetime, Listening
  <1>5. \A c \in Calls : Ended(c)'
    BY <1>1 DEF Ended
  <1>6. DownInv'
    BY <1>1, <1>2, <1>5 DEF ServerInv, DownInv, jsVars, loopVars
  <1> QED BY <1>2, <1>3, <1>4, <1>6 DEF ServerInv

-----------------------------------------------------------------------------
(* Steps that leave the queue alone.                                       *)

(* A step that changes neither the server nor its calls can disturb only   *)
(* what is said of the application.                                        *)
LEMMA SameServer ==
    ASSUME ServerInv,
           UNCHANGED <<wrapped, core, requests, waiting, queue, call, destroys>>
    PROVE  EventsOK' /\ WaitingOK' /\ Lifetime' /\ Listening'
  <1>1. EventsOK' /\ WaitingOK'
    BY DEF ServerInv, EventsOK, WaitingOK, QueueOK, Gone, Unforced, ForceWaits,
       Single
  <1>2. Lifetime' /\ Listening'
    BY DEF ServerInv, Lifetime, Listening, OneRequest
  <1> QED BY <1>1, <1>2

(* register(), Drop and the loop's own bookkeeping.                        *)
LEMMA BookkeepingInv ==
    ASSUME ServerInv, register \/ Drop \/ DrainBegin \/ DrainEnd
    PROVE  ServerInv'
  <1> USE DEF register, Drop, DrainBegin, DrainEnd, jsVars, loopVars, coreVars
  <1>1. EventsOK' /\ WaitingOK' /\ Lifetime' /\ Listening'
    BY SameServer
  <1>2. TypeOK'
    <2>1. TypeOK
      BY DEF ServerInv
    <2>2. UNCHANGED <<started, mayForce, wrapped, tries, running, core, requests,
                      waiting, queue, call, cancelled, destroys, crashed>>
      OBVIOUS
    <2>3. /\ registered' \in BOOLEAN /\ held' \in BOOLEAN
          /\ draining' \in BOOLEAN
      BY <2>1 DEF TypeOK
    <2> QED BY ONLY <2>1, <2>2, <2>3 DEF TypeOK
  <1>3. DownInv'
    BY DEF ServerInv, DownInv, Gone, Ended
  <1> QED BY <1>1, <1>2, <1>3 DEF ServerInv

(* Calls that move on without being offered, or ceasing to be.             *)
LEMMA CallsInv ==
    ASSUME ServerInv,
           UNCHANGED <<jsVars, wrapped, tries, loopVars, core, requests,
                       waiting, queue, destroys, crashed>>,
           call' \in [Calls -> CallState], cancelled' \subseteq Calls,
           \A c \in Calls : call'[c] = "offered" <=> call[c] = "offered",
           core # "created",
           Gone => \A c \in Calls : Ended(c)'
    PROVE  ServerInv'
  <1>1. TypeOK'
    BY DEF ServerInv, TypeOK, jsVars, loopVars
  <1>2. EventsOK'
    <2>1. queue \in Seq(Event) /\ QueueOK(queue, call, Gone, Unforced)
          /\ queue' = queue
      BY DEF ServerInv, TypeOK, EventsOK
    <2>2. \A i \in 1..Len(queue) : queue[i] \in Event
      BY <2>1, ElementOfSeq
    <2>3. \A i \in 1..Len(queue) : queue[i].kind = "new_call" =>
             queue[i].of \in Calls
      BY <2>2, EventCases
    <2>4. QueueOK(queue, call', Gone, Unforced)
      BY <2>1, <2>3 DEF QueueOK
    <2>5. (Gone' <=> Gone) /\ (Unforced' <=> Unforced)
      BY DEF Gone, Unforced, ForceWaits
    <2> QED BY <2>1, <2>4, <2>5 DEF EventsOK, QueueOK
  <1>3. WaitingOK' /\ Lifetime' /\ Listening'
    BY DEF ServerInv, WaitingOK, ForceWaits, Lifetime, Listening, OneRequest
  <1>4. DownInv'
    BY DEF ServerInv, DownInv, Gone, jsVars, loopVars
  <1> QED BY <1>1, <1>2, <1>3, <1>4 DEF ServerInv

(* A handler ends its call, a client cancels one, a refusal is sent.       *)
LEMMA CallEndsInv ==
    ASSUME ServerInv, NEW c \in Calls,
           HandlerEnds(c) \/ ClientCancels(c) \/ RefusalSent(c)
    PROVE  ServerInv'
  <1>1. TypeOK /\ (Gone => \A d \in Calls : Ended(d))
        /\ (core = "created" => \A d \in Calls : call[d] = "none")
    BY DEF ServerInv, DownInv, Lifetime
  <1>2. CASE HandlerEnds(c) \/ RefusalSent(c)
    <2>1. /\ call[c] \in {"open", "refused"}
          /\ call' = [call EXCEPT ![c] = "closed"]
          /\ UNCHANGED <<jsVars, wrapped, tries, loopVars, core, requests,
                         waiting, queue, cancelled, destroys, crashed>>
      BY <1>2 DEF HandlerEnds, RefusalSent
    <2>2. /\ call' \in [Calls -> CallState] /\ cancelled' \subseteq Calls
          /\ \A d \in Calls : call'[d] = "offered" <=> call[d] = "offered"
          /\ core # "created"
      BY <1>1, <2>1 DEF TypeOK, CallState
    <2>3. Gone => \A d \in Calls : Ended(d)'
      BY <1>1, <2>1 DEF TypeOK, Ended
    <2> QED BY <2>1, <2>2, <2>3, CallsInv
  <1>3. CASE ClientCancels(c)
    <2>1. /\ ~Ended(c)
          /\ UNCHANGED <<jsVars, wrapped, tries, loopVars, core, requests,
                         waiting, queue, destroys, crashed>>
          /\ \/ /\ call[c] = "pending"
                /\ call' = [call EXCEPT ![c] = "closed"]
                /\ UNCHANGED cancelled
             \/ cancelled' = cancelled \cup {c} /\ UNCHANGED call
      BY <1>3 DEF ClientCancels
    <2>2. /\ call' \in [Calls -> CallState] /\ cancelled' \subseteq Calls
          /\ \A d \in Calls : call'[d] = "offered" <=> call[d] = "offered"
      BY <1>1, <2>1 DEF TypeOK, CallState
    <2>3. core # "created" /\ ~Gone
      BY <1>1, <2>1 DEF Ended
    <2> QED BY <2>1, <2>2, <2>3, CallsInv
  <1> QED BY <1>2, <1>3

(* start(), on a server in whatever state.                                 *)
LEMMA StartInv == ASSUME ServerInv, start PROVE ServerInv'
  <1>1. /\ started' = TRUE /\ TypeOK
        /\ UNCHANGED <<registered, held, mayForce, wrapped, tries, loopVars,
                       destroys>>
    BY DEF start, ServerInv
  <1>2. CASE crashed' = "start" /\ UNCHANGED coreVars
    <2>1. EventsOK' /\ WaitingOK' /\ Lifetime' /\ Listening'
      BY <1>1, <1>2, SameServer DEF coreVars
    <2>2. TypeOK'
      BY <1>1, <1>2 DEF TypeOK, coreVars, loopVars
    <2>3. DownInv'
      BY <1>1, <1>2 DEF ServerInv, DownInv, Gone, Ended, coreVars, loopVars
    <2> QED BY <2>1, <2>2, <2>3 DEF ServerInv
  <1>3. CASE /\ core = "created" /\ core' = "running"
             /\ requests' = requests + 1 /\ wrapped
             /\ UNCHANGED <<waiting, queue, call, cancelled, crashed>>
    <2>1. requests = 0 /\ (\A c \in Calls : call[c] = "none") /\ destroys = 0
      BY <1>3 DEF ServerInv, Lifetime
    <2>2. TypeOK'
      BY <1>1, <1>3 DEF TypeOK, loopVars
    <2>3. ~Gone /\ ~Gone' /\ (Unforced' <=> Unforced)
      BY <1>1, <1>3 DEF Gone, Unforced, ForceWaits
    <2>4. EventsOK' /\ WaitingOK'
      BY <1>1, <1>3, <2>3
      DEF ServerInv, EventsOK, QueueOK, Single, WaitingOK, ForceWaits
    <2>5. Lifetime' /\ Listening'
      BY <1>1, <1>3, <2>1
      DEF ServerInv, Lifetime, Listening, OneRequest
    <2>6. DownInv'
      BY <1>1, <2>3 DEF ServerInv, DownInv, loopVars
    <2> QED BY <2>2, <2>4, <2>5, <2>6 DEF ServerInv
  <1>4. CASE /\ queue' = Append(queue, FailedRequest)
             /\ UNCHANGED <<core, requests, waiting, call, cancelled, crashed>>
    <2>1. /\ queue \in Seq(Event) /\ QueueOK(queue, call, Gone, Unforced)
          /\ FailedRequest \in Event /\ FailedRequest.kind = "failed"
          /\ FailedRequest.of = "none"
      BY EventKinds DEF ServerInv, TypeOK, EventsOK
    <2>2. /\ queue' \in Seq(Event) /\ QueueOK(queue', call, Gone, Unforced)
      BY <1>4, <2>1, QueueAppend DEF Single
    <2>3. (Gone' <=> Gone) /\ (Unforced' <=> Unforced)
      BY <1>1, <1>4 DEF Gone, Unforced, ForceWaits
    <2>4. EventsOK'
      BY <1>4, <2>2, <2>3 DEF EventsOK, QueueOK
    <2>5. TypeOK'
      BY <1>1, <1>4, <2>2 DEF TypeOK, loopVars
    <2>6. WaitingOK' /\ Lifetime' /\ Listening'
      BY <1>1, <1>4
      DEF ServerInv, WaitingOK, ForceWaits, Lifetime, Listening, OneRequest
    <2>7. DownInv'
      BY <1>1, <1>4, <2>3 DEF ServerInv, DownInv, Ended, loopVars
    <2> QED BY <2>4, <2>5, <2>6, <2>7 DEF ServerInv
  <1> QED BY <1>2, <1>3, <1>4 DEF start

-----------------------------------------------------------------------------
(* Calls that arrive.                                                      *)

(* A call is offered to the request that waits for it, or waits for one.   *)
LEMMA CallArrivesInv ==
    ASSUME ServerInv, NEW c \in Calls, CallArrives(c)
    PROVE  ServerInv'
  <1>1. /\ core = "running" /\ call[c] = "none" /\ TypeOK /\ OneRequest /\ ~Gone
        /\ UNCHANGED <<jsVars, wrapped, tries, loopVars, core, waiting,
                       cancelled, destroys, crashed>>
    BY DEF CallArrives, ServerInv, Listening, Gone
  <1>2. CASE requests > 0
    <2>1. /\ call' = [call EXCEPT ![c] = "offered"]
          /\ queue' = Append(queue, NewCall(c)) /\ requests' = requests - 1
      BY <1>2 DEF CallArrives
    <2>2. requests = 1 /\ \A d \in Calls : call[d] # "offered"
      BY <1>1, <1>2 DEF OneRequest
    <2>3. /\ queue \in Seq(Event) /\ QueueOK(queue, call, Gone, Unforced)
          /\ NewCall(c) \in Event /\ NewCall(c).kind = "new_call"
          /\ NewCall(c).of = c /\ c # "force"
      BY <1>1, EventKinds, ServerAssumption DEF ServerInv, TypeOK, EventsOK
    <2>4. \A i \in 1..Len(queue) :
             queue[i] \in Event /\ queue[i].kind # "new_call"
      <3>1. \A i \in 1..Len(queue) : queue[i] \in Event
        BY <2>3, ElementOfSeq
      <3> QED BY <2>2, <2>3, <3>1, EventCases DEF QueueOK
    <2>5. QueueOK(queue, call', Gone, Unforced)
      BY <2>3, <2>4 DEF QueueOK
    <2>6. call'[c] = "offered"
      BY <1>1, <2>1 DEF TypeOK
    <2>7. queue' \in Seq(Event) /\ QueueOK(queue', call', Gone, Unforced)
      BY <2>1, <2>3, <2>4, <2>5, <2>6, QueueAppend
    <2>8. ~Gone' /\ (Unforced' <=> Unforced)
      BY <1>1 DEF Gone, Unforced, ForceWaits
    <2>9. EventsOK'
      BY <1>1, <2>7, <2>8 DEF EventsOK, QueueOK
    <2>10. TypeOK'
      BY <1>1, <2>1, <2>2, <2>7 DEF TypeOK, CallState, jsVars, loopVars
    <2>11. WaitingOK'
      BY <1>1 DEF ServerInv, WaitingOK, ForceWaits
    <2>12. Lifetime' /\ Listening'
      BY <1>1, <2>1, <2>2 DEF ServerInv, Lifetime, Listening, OneRequest, TypeOK
    <2>13. DownInv'
      BY <1>1, <2>8 DEF ServerInv, DownInv, jsVars, loopVars, Gone
    <2> QED BY <2>9, <2>10, <2>11, <2>12, <2>13 DEF ServerInv
  <1>3. CASE ~(requests > 0)
    <2>1. /\ call' = [call EXCEPT ![c] = "pending"]
          /\ UNCHANGED <<queue, requests>>
      BY <1>3 DEF CallArrives
    <2>2. /\ call' \in [Calls -> CallState] /\ cancelled' \subseteq Calls
          /\ \A d \in Calls : call'[d] = "offered" <=> call[d] = "offered"
      BY <1>1, <2>1 DEF TypeOK, CallState
    <2> QED BY <1>1, <2>1, <2>2, CallsInv
  <1> QED BY <1>2, <1>3

(* The core completes its shutdown and posts the tags that waited.         *)
LEMMA CoreShutsDownInv == ASSUME ServerInv, CoreShutsDown PROVE ServerInv'
  <1> DEFINE S == [i \in DOMAIN waiting |-> Shutdown(waiting[i])]
  <1>1. /\ core = "shutting" /\ (\A c \in Calls : Ended(c)) /\ core' = "down"
        /\ queue' = queue \o S /\ waiting' = <<>>
        /\ UNCHANGED <<jsVars, wrapped, tries, loopVars, requests, call,
                       cancelled, destroys, crashed>>
        /\ TypeOK
    BY DEF CoreShutsDown, ServerInv
  <1>2. /\ waiting \in Seq(Tries \cup {"force"}) /\ Len(waiting) \in Nat
        /\ DOMAIN waiting = 1..Len(waiting)
        /\ \A i \in 1..Len(waiting) : waiting[i] \in Tries \cup {"force"}
    BY <1>1, LenProperties, ElementOfSeq DEF TypeOK
  <1>3. S \in Seq(Event) /\ Len(S) = Len(waiting)
    <2>1. S \in [1..Len(waiting) -> Event]
      BY <1>2, EventKinds
    <2> QED BY <1>2, <2>1, SeqDef, LenProperties
  <1>4. \A i \in 1..Len(S) :
           /\ S[i] = Shutdown(waiting[i]) /\ S[i].kind = "shutdown"
           /\ S[i].of = waiting[i]
    BY <1>2, <1>3, EventKinds
  <1>5. ~Gone /\ Gone' /\ ~ForceWaits'
    BY <1>1 DEF Gone, ForceWaits
  <1>6. Unforced' => ~ForceWaits /\ Unforced
    BY <1>1, <1>5 DEF ServerInv, WaitingOK, Unforced
  <1>7. QueueOK(S, call, TRUE, Unforced')
    <2>1. \A i \in 1..Len(S) :
             S[i].kind # "new_call" /\ (Unforced' => S[i].of # "force")
      BY <1>3, <1>4, <1>6 DEF ForceWaits
    <2>2. ASSUME NEW i \in 1..Len(S), NEW j \in 1..Len(S), S[i] = S[j],
                 Single(S[i])
          PROVE  i = j
      <3>1. waiting[i] = "force" /\ waiting[j] = "force"
        BY <1>4, <2>2 DEF Single
      <3> QED BY <1>3, <3>1 DEF ServerInv, WaitingOK
    <2> HIDE DEF S
    <2> QED BY <2>1, <2>2 DEF QueueOK
  <1>8. /\ queue \in Seq(Event) /\ QueueOK(queue, call, Gone, Unforced)
    BY <1>1 DEF ServerInv, EventsOK, TypeOK
  <1>9. QueueOK(queue, call, TRUE, Unforced')
    BY <1>6, <1>8 DEF QueueOK
  <1>10. \A i \in 1..Len(queue), j \in 1..Len(S) :
            Single(S[j]) => queue[i] # S[j]
    <2> SUFFICES ASSUME NEW i \in 1..Len(queue), NEW j \in 1..Len(S),
                        Single(S[j]), queue[i] = S[j]
                 PROVE  FALSE
      OBVIOUS
    <2>1. waiting[j] = "force" /\ S[j].of = "force"
      BY <1>4 DEF Single
    <2>2. ForceWaits
      BY <1>3, <2>1 DEF ForceWaits
    <2>3. Unforced
      BY <2>2 DEF Unforced
    <2> QED BY <1>8, <2>1, <2>3 DEF QueueOK
  <1>11. queue' \in Seq(Event) /\ QueueOK(queue', call, TRUE, Unforced')
    <2> HIDE DEF S
    <2> QED BY <1>1, <1>3, <1>7, <1>8, <1>9, <1>10, QueueConcat
  <1>12. EventsOK'
    BY <1>1, <1>5, <1>11 DEF EventsOK, QueueOK
  <1>13. TypeOK'
    BY <1>1, <1>11, EmptySeq DEF TypeOK, jsVars, loopVars
  <1>14. WaitingOK'
    BY <1>1, <1>5 DEF WaitingOK
  <1>15. Lifetime' /\ Listening'
    BY <1>1 DEF ServerInv, Lifetime, Listening
  <1>16. DownInv'
    BY <1>1, <1>5 DEF ServerInv, DownInv, Ended, jsVars, loopVars
  <1> QED BY <1>12, <1>13, <1>14, <1>15, <1>16 DEF ServerInv

-----------------------------------------------------------------------------
(* The event loop.                                                         *)

(* A failed request, and the callback of a tryShutdown().                  *)
LEMMA EventInv ==
    ASSUME ServerInv, handleFailedRequest \/ TryCallback
    PROVE  ServerInv'
  <1>1. /\ queue # <<>> /\ queue' = Tail(queue) /\ TypeOK
        /\ UNCHANGED <<jsVars, wrapped, draining, core, requests, waiting,
                       call, cancelled, destroys, crashed>>
    BY DEF handleFailedRequest, TryCallback, IsNext, ServerInv
  <1>2. /\ Head(queue) \in Event /\ Tail(queue) \in Seq(Event)
        /\ QueueOK(Tail(queue), call, Gone, Unforced)
        /\ Head(queue).kind = "shutdown" => Gone
    BY <1>1, QueueTail DEF ServerInv, TypeOK, EventsOK
  <1>3. (Gone' <=> Gone) /\ (Unforced' <=> Unforced)
    BY <1>1 DEF Gone, Unforced, ForceWaits
  <1>4. EventsOK'
    BY <1>1, <1>2, <1>3 DEF EventsOK, QueueOK
  <1>5. WaitingOK' /\ Lifetime' /\ Listening'
    BY <1>1
    DEF ServerInv, WaitingOK, ForceWaits, Lifetime, Listening, OneRequest
  <1>6. CASE handleFailedRequest
    <2>1. running' = "new_call" /\ UNCHANGED tries /\ "new_call" \notin Tries
      BY <1>6, ServerAssumption DEF handleFailedRequest
    <2>2. TypeOK'
      BY <1>1, <1>2, <2>1 DEF TypeOK, jsVars
    <2>3. DownInv'
      BY <1>1, <1>3, <2>1 DEF ServerInv, DownInv, Ended, jsVars
    <2> QED BY <1>4, <1>5, <2>2, <2>3 DEF ServerInv
  <1>7. CASE TryCallback
    <2>1. /\ running' = Head(queue).of /\ Head(queue).of # "force"
          /\ tries' = [tries EXCEPT ![running'] = "called"]
          /\ Head(queue).kind = "shutdown"
      BY <1>7 DEF TryCallback, IsNext
    <2>2. running' \in Tries /\ Gone
      BY <1>2, <2>1, EventCases
    <2>3. TypeOK'
      BY <1>1, <1>2, <2>1, <2>2 DEF TypeOK, jsVars
    <2>4. DownInv'
      BY <1>1, <1>3, <2>2 DEF ServerInv, DownInv, Ended, jsVars
    <2> QED BY <1>4, <1>5, <2>3, <2>4 DEF ServerInv
  <1> QED BY <1>6, <1>7

(* A callback returns; that of a tryShutdown() destroys the server.        *)
LEMMA CallbackReturnsInv == ASSUME ServerInv, CallbackReturns PROVE ServerInv'
  <1>1. /\ running' = "none" /\ "none" \notin Tries /\ TypeOK
        /\ UNCHANGED <<jsVars, tries, draining, requests, waiting, queue, call,
                       cancelled, crashed>>
    BY ServerAssumption DEF CallbackReturns, ServerInv
  <1>2. CASE UNCHANGED <<core, destroys, wrapped>>
    <2>1. EventsOK' /\ WaitingOK' /\ Lifetime' /\ Listening'
      BY <1>1, <1>2, SameServer
    <2>2. TypeOK'
      BY <1>1, <1>2 DEF TypeOK, jsVars
    <2>3. DownInv'
      BY <1>1, <1>2 DEF ServerInv, DownInv, Gone, Ended, jsVars
    <2> QED BY <2>1, <2>2, <2>3 DEF ServerInv
  <1>3. CASE /\ running \in Tries /\ wrapped /\ ~wrapped'
             /\ core' = "destroyed" /\ destroys' = destroys + 1
             /\ wrapped' \in BOOLEAN
    <2>1. destroys = 0 /\ destroys' = 1 /\ Gone /\ Gone' /\ Unforced /\ Unforced'
      BY <1>3 DEF ServerInv, Lifetime, DownInv, Gone, Unforced
    <2>2. TypeOK'
      BY <1>1, <1>3, <2>1 DEF TypeOK, jsVars
    <2>3. EventsOK'
      BY <1>1, <2>1 DEF ServerInv, EventsOK, QueueOK, Single
    <2>4. WaitingOK'
      BY <1>1, <1>3 DEF ServerInv, WaitingOK, ForceWaits
    <2>5. Lifetime' /\ Listening'
      BY <1>3, <2>1 DEF Lifetime, Listening
    <2>6. DownInv'
      BY <1>1, <2>1 DEF ServerInv, DownInv, Ended
    <2> QED BY <2>2, <2>3, <2>4, <2>5, <2>6 DEF ServerInv
  <1> QED
    <2>1. wrapped \in BOOLEAN
      BY <1>1 DEF TypeOK
    <2>2. \/ UNCHANGED <<core, destroys, wrapped>>
          \/ running \in Tries /\ DestroyWrappedServer
      BY DEF CallbackReturns
    <2>3. ASSUME running \in Tries, DestroyWrappedServer, ~wrapped
          PROVE  UNCHANGED <<core, destroys, wrapped>>
      BY <2>1, <2>3 DEF DestroyWrappedServer
    <2>4. ASSUME running \in Tries, DestroyWrappedServer, wrapped
          PROVE  ServerInv'
      BY <1>3, <2>4 DEF DestroyWrappedServer
    <2> QED BY <1>2, <2>2, <2>3, <2>4

(* The forced shutdown is complete: the server is destroyed, for the first *)
(* time, and no event of a forced shutdown is left.                        *)
LEMMA ForceCompletesInv == ASSUME ServerInv, ForceCompletes PROVE ServerInv'
  <1>1. /\ queue # <<>> /\ queue' = Tail(queue) /\ TypeOK
        /\ Head(queue).kind = "shutdown" /\ Head(queue).of = "force"
        /\ core' = "destroyed" /\ destroys' = destroys + 1
        /\ UNCHANGED <<jsVars, wrapped, tries, loopVars, requests, waiting,
                       call, cancelled, crashed>>
    BY DEF ForceCompletes, IsNext, ServerInv
  <1>2. /\ Head(queue) \in Event /\ Tail(queue) \in Seq(Event)
        /\ QueueOK(Tail(queue), call, Gone, Unforced)
        /\ Head(queue).kind = "shutdown" => Gone
        /\ Unforced => Head(queue).of # "force"
        /\ Single(Head(queue)) =>
              \A i \in 1..Len(Tail(queue)) : Tail(queue)[i] # Head(queue)
    BY <1>1, QueueTail DEF ServerInv, TypeOK, EventsOK
  <1>3. /\ ~wrapped /\ destroys = 0 /\ destroys' = 1 /\ ~ForceWaits
        /\ Gone /\ Gone'
    BY <1>1, <1>2 DEF Unforced, Gone
  <1>4. \A i \in 1..Len(Tail(queue)) : Tail(queue)[i].of # "force"
    <2> SUFFICES ASSUME NEW i \in 1..Len(Tail(queue)),
                        Tail(queue)[i].of = "force"
                 PROVE  FALSE
      OBVIOUS
    <2>1. Tail(queue)[i] \in Event
      BY <1>2, ElementOfSeq
    <2>2. Tail(queue)[i] = Shutdown("force") /\ Head(queue) = Shutdown("force")
      BY <1>1, <1>2, <2>1, EventCases
    <2> QED BY <1>1, <1>2, <2>2 DEF Single
  <1>5. QueueOK(Tail(queue), call, TRUE, TRUE)
    BY <1>2, <1>4 DEF QueueOK
  <1>6. EventsOK'
    BY <1>1, <1>3, <1>5 DEF EventsOK, QueueOK
  <1>7. TypeOK'
    BY <1>1, <1>2, <1>3 DEF TypeOK, jsVars, loopVars
  <1>8. WaitingOK'
    BY <1>1, <1>3 DEF ServerInv, WaitingOK, ForceWaits
  <1>9. Lifetime' /\ Listening'
    BY <1>1, <1>3 DEF Lifetime, Listening
  <1>10. DownInv'
    BY <1>1, <1>3 DEF ServerInv, DownInv, Ended, jsVars, loopVars
  <1> QED BY <1>6, <1>7, <1>8, <1>9, <1>10 DEF ServerInv

(* A new call is answered and the next one is asked for.                   *)
LEMMA NewCallInv == ASSUME ServerInv, handleNewCall PROVE ServerInv'
  <1> DEFINE c == Head(queue).of
             q == Tail(queue)
             calls == Answered(c)
  <1>1. /\ queue # <<>> /\ Head(queue).kind = "new_call" /\ TypeOK
        /\ running' = "new_call" /\ "new_call" \notin Tries
        /\ UNCHANGED <<jsVars, wrapped, tries, draining, core, waiting,
                       cancelled, destroys>>
    BY ServerAssumption DEF handleNewCall, IsNext, ServerInv
  <1>2. /\ Head(queue) \in Event /\ q \in Seq(Event)
        /\ QueueOK(q, call, Gone, Unforced) /\ call[c] = "offered"
        /\ \A i \in 1..Len(q) : q[i] # Head(queue)
    BY <1>1, QueueTail DEF ServerInv, TypeOK, EventsOK, Single
  <1>3. c \in Calls /\ Head(queue) = NewCall(c)
    BY <1>1, <1>2, EventCases
  <1>4. (Gone' <=> Gone) /\ (Unforced' <=> Unforced) /\ WaitingOK'
    BY <1>1 DEF ServerInv, Gone, Unforced, ForceWaits, WaitingOK
  <1>5. core # "created"
    BY <1>2, <1>3 DEF ServerInv, Lifetime
  <1>6. CASE ~wrapped /\ crashed' = "requestCall" /\ queue' = q
             /\ UNCHANGED <<requests, call>>
    <2>1. EventsOK'
      BY <1>2, <1>4, <1>6 DEF EventsOK, QueueOK
    <2>2. TypeOK'
      BY <1>1, <1>2, <1>6 DEF TypeOK, jsVars
    <2>3. Lifetime' /\ Listening'
      BY <1>1, <1>6 DEF ServerInv, Lifetime, Listening
    <2>4. DownInv'
      BY <1>1, <1>4, <1>6 DEF ServerInv, DownInv, Ended, jsVars
    <2> QED BY <1>4, <2>1, <2>2, <2>3, <2>4 DEF ServerInv
  <1>7. CASE wrapped /\ RequestCall(q, calls) /\ UNCHANGED crashed
    <2>1. /\ calls \in [Calls -> CallState] /\ calls[c] \in {"open", "refused"}
          /\ \A d \in Calls : d # c => calls[d] = call[d]
      BY <1>1, <1>3 DEF TypeOK, CallState, Answered
    <2>2. \A i \in 1..Len(q) :
             q[i].kind = "new_call" =>
                q[i].of \in Calls /\ q[i].of # c /\ q[i] = NewCall(q[i].of)
      <3>1. \A i \in 1..Len(q) : q[i] \in Event
        BY <1>2, ElementOfSeq
      <3> QED BY <1>2, <1>3, <3>1, EventCases
    <2>3. QueueOK(q, calls, Gone, Unforced)
      BY <1>2, <2>1, <2>2 DEF QueueOK
    <2>4. core = "running" => requests = 0
                              /\ \A d \in Calls : calls[d] # "offered"
      BY <1>2, <1>3, <2>1 DEF ServerInv, Listening, OneRequest
    <2>5. Gone => \A d \in Calls : calls[d] \in {"none", "closed"}
                                   \/ d \in cancelled
      BY <1>2, <1>3, <2>1 DEF ServerInv, DownInv, Ended
    <2>6. Lifetime'
      BY <1>1, <1>5 DEF ServerInv, Lifetime
    <2> HIDE DEF q, calls, c
    <2>7. CASE /\ core # "running" /\ queue' = Append(q, FailedRequest)
               /\ call' = calls /\ UNCHANGED requests
      <3>1. /\ FailedRequest \in Event /\ FailedRequest.kind = "failed"
            /\ FailedRequest.of = "none"
        BY EventKinds
      <3>2. queue' \in Seq(Event) /\ QueueOK(queue', calls, Gone, Unforced)
        BY <1>2, <2>3, <2>7, <3>1, QueueAppend DEF Single
      <3>3. EventsOK'
        BY <1>4, <2>7, <3>2 DEF EventsOK, QueueOK
      <3>4. TypeOK'
        BY <1>1, <1>7, <2>1, <2>7, <3>2 DEF TypeOK, jsVars
      <3>5. Listening'
        BY <1>1, <2>7 DEF Listening
      <3>6. DownInv'
        BY <1>1, <1>4, <2>5, <2>7 DEF ServerInv, DownInv, Ended, jsVars
      <3> QED BY <1>4, <2>6, <3>3, <3>4, <3>5, <3>6 DEF ServerInv
    <2>8. ASSUME core = "running", NEW d \in Calls, calls[d] = "pending",
                 call' = [calls EXCEPT ![d] = "offered"],
                 queue' = Append(q, NewCall(d)), UNCHANGED requests
          PROVE  ServerInv'
      <3>1. /\ NewCall(d) \in Event /\ NewCall(d).kind = "new_call"
            /\ NewCall(d).of = d /\ d # "force"
        BY EventKinds, ServerAssumption
      <3>2. /\ call' \in [Calls -> CallState] /\ call'[d] = "offered"
            /\ \A e \in Calls : e # d => call'[e] = calls[e]
        BY <2>1, <2>8 DEF CallState
      <3>3. \A i \in 1..Len(q) : q[i].kind # "new_call"
        BY <2>2, <2>3, <2>4, <2>8 DEF QueueOK
      <3>4. QueueOK(q, call', Gone, Unforced)
        BY <2>3, <3>3 DEF QueueOK
      <3>5. queue' \in Seq(Event) /\ QueueOK(queue', call', Gone, Unforced)
        BY <1>2, <2>8, <3>1, <3>2, <3>3, <3>4, QueueAppend
      <3>6. EventsOK'
        BY <1>4, <3>5 DEF EventsOK, QueueOK
      <3>7. TypeOK'
        BY <1>1, <1>7, <2>8, <3>2, <3>5 DEF TypeOK, jsVars
      <3>8. Listening'
        BY <1>1, <2>4, <2>8, <3>2 DEF Listening, OneRequest
      <3>9. DownInv'
        BY <1>1, <1>4, <2>8 DEF ServerInv, DownInv, Gone, jsVars
      <3> QED BY <1>4, <2>6, <3>6, <3>7, <3>8, <3>9 DEF ServerInv
    <2>9. CASE /\ core = "running" /\ requests' = requests + 1
               /\ queue' = q /\ call' = calls
      <3>1. EventsOK'
        BY <1>4, <2>3, <2>9 DEF EventsOK, QueueOK
      <3>2. TypeOK'
        BY <1>1, <1>2, <1>7, <2>1, <2>9 DEF TypeOK, jsVars
      <3>3. Listening'
        BY <2>4, <2>9 DEF Listening, OneRequest
      <3>4. DownInv'
        BY <1>1, <1>4, <2>9 DEF ServerInv, DownInv, Gone, jsVars
      <3> QED BY <1>4, <2>6, <3>1, <3>2, <3>3, <3>4 DEF ServerInv
    <2> QED BY <1>7, <2>7, <2>8, <2>9 DEF RequestCall
  <1> QED BY <1>6, <1>7 DEF handleNewCall

-----------------------------------------------------------------------------
(* The theorems.                                                           *)

(* Every step keeps the invariant.                                         *)
LEMMA NextInv == ServerInv /\ [Next]_vars => ServerInv'
  <1> SUFFICES ASSUME ServerInv, [Next]_vars PROVE ServerInv'
    OBVIOUS
  <1>1. CASE Application
    <2>1. ASSUME forceShutdown \/ Collect PROVE ServerInv'
      BY <2>1, ShutdownServerInv DEF forceShutdown, Collect
    <2> QED BY <1>1, <2>1, BookkeepingInv, StartInv, TryShutdownInv,
               CallEndsInv DEF Application
  <1>2. CASE Loop
    BY <1>2, BookkeepingInv, NewCallInv, EventInv, CallbackReturnsInv,
       ForceCompletesInv DEF Loop
  <1>3. CASE Environment
    BY <1>3, CallArrivesInv, CallEndsInv, CoreShutsDownInv DEF Environment
  <1>4. CASE UNCHANGED vars
    BY <1>4, StutterInv
  <1> QED BY <1>1, <1>2, <1>3, <1>4 DEF Next

(* The inductive invariant holds in every reachable state.                 *)
THEOREM ServerInvariant == Spec => []ServerInv
  BY InitInv, NextInv, PTL DEF Spec

(* The variables keep their types.                                         *)
THEOREM TypeCorrect == Spec => []TypeOK
  <1>1. ServerInv => TypeOK
    BY DEF ServerInv
  <1> QED BY <1>1, ServerInvariant, PTL

(* The grpc_server is destroyed at most once, and never while the Server   *)
(* object still refers to it, however many tryShutdown()s, forced          *)
(* shutdowns, callbacks and collections there are (server.cc 77-81,        *)
(* 145-149, 185-222).                                                      *)
THEOREM ServerDestroyedOnce == Spec => []DestroyedOnce
  <1>1. ServerInv => DestroyedOnce
    BY DEF ServerInv, Lifetime, DestroyedOnce
  <1> QED BY <1>1, ServerInvariant, PTL

(* A running server has exactly one request for a call, with the core or   *)
(* answered in the queue, for any number of clients (server.js 752-787).   *)
THEOREM ServerAlwaysListening == Spec => []AlwaysListening
  <1>1. ASSUME ServerInv PROVE AlwaysListening
    <2> DEFINE O == {c \in Calls : call[c] = "offered"}
    <2> SUFFICES ASSUME core = "running" PROVE requests + Cardinality(O) = 1
      BY DEF AlwaysListening
    <2>1. OneRequest
      BY <1>1 DEF ServerInv, Listening
    <2>2. CASE requests = 1 /\ \A c \in Calls : call[c] # "offered"
      <3>1. O = {}
        BY <2>2
      <3> QED BY <2>2, <3>1, FS_EmptySet
    <2>3. CASE /\ requests = 0
               /\ \E c \in Calls :
                     /\ call[c] = "offered"
                     /\ \A d \in Calls : call[d] = "offered" => d = c
      <3>1. PICK c \in Calls : /\ call[c] = "offered"
                               /\ \A d \in Calls : call[d] = "offered" => d = c
        BY <2>3
      <3>2. O = {c}
        BY <3>1
      <3> QED BY <2>3, <3>2, FS_Singleton
    <2> QED BY <2>1, <2>2, <2>3 DEF OneRequest
  <1> QED BY <1>1, ServerInvariant, PTL

(* Unless the server is shut down by force, a tryShutdown callback that    *)
(* was called means that every call has ended and that the core is down    *)
(* (server.js 825-826).                                                    *)
THEOREM CallbackIsTrue == Spec => []CallbackMeansDown
  <1>1. ServerInv => CallbackMeansDown
    BY DEF ServerInv, DownInv, Gone, CallbackMeansDown
  <1> QED BY <1>1, ServerInvariant, PTL
=============================================================================
