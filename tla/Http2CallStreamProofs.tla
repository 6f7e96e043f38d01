----------------------- MODULE Http2CallStreamProofs -----------------------
(***************************************************************************)
(* StreamInv is an invariant of Http2CallStream, for any set of scenarios, *)
(* any highWaterMark and any size of a 'data' event.  The safety           *)
(* properties of the call follow from it, and so does the refinement of    *)
(* CallStream.                                                             *)
(***************************************************************************)
EXTENDS Http2CallStream, SequenceTheorems, TLAPS

-----------------------------------------------------------------------------
(* The inductive invariant.                                                *)

(* s holds the messages a+1, a+2, and so on.                               *)
Run(s, a) == \A i \in 1..Len(s) : s[i] = a + i

(* The messages received lie, in order, with the application, in Node's    *)
(* buffer, in unpushedReadMessages and in the 'data' handler.              *)
Stages ==
    /\ Run(delivered, 0)
    /\ Run(rbuf, Len(delivered))
    /\ Run(unpushed, Len(delivered) + Len(rbuf))
    /\ Run(chunk, Len(delivered) + Len(rbuf) + Len(unpushed))
    /\ received = Len(delivered) + Len(rbuf) + Len(unpushed) + Len(chunk)

(* Nothing happens on a stream that is not there.                          *)
BeforeAttach ==
    attached # "yes" => /\ received = 0 /\ ~responded /\ h2Ended = "no"
                        /\ ~h2Flow /\ trailers = NULL /\ closeCode = NULL

(* Who has seen the end of the http2 stream.                               *)
EndSeen ==
    /\ h2Ended = "scheduled" => received = N
    /\ h2Ended = "emitted" => chunk = <<>> /\ (received = N \/ Broken)
    /\ unpushedEnd => h2Ended = "emitted"
    /\ rEnded => h2Ended = "emitted" /\ unpushed = <<>> /\ ~unpushedEnd
    /\ endEmitted => rEnded /\ rbuf = <<>>

(* While the handler runs, and after it, the http2 stream flows only into  *)
(* a buffer with room and past nothing that was kept back.                 *)
Backpressure ==
    /\ Len(rbuf) <= HighWaterMark
    /\ Len(unpushed) < MaxChunk
    /\ h2Flow => Len(rbuf) < HighWaterMark /\ unpushed = <<>>
    /\ chunk # <<>> /\ canPush =>
          /\ Len(rbuf) < HighWaterMark /\ unpushed = <<>>
          /\ Len(chunk) <= MaxChunk
    /\ chunk # <<>> /\ ~canPush =>
          ~h2Flow /\ Len(unpushed) + Len(chunk) < MaxChunk

(* Where a status can come from.                                           *)
StatusInv ==
    /\ mappedStatusCode # "OK"
    /\ trailersThen = "OK" => trailers = "OK"
    /\ OKOnlyFromServer
    /\ endedBy \in {"cancel", "metadata"} => finalStatus # NULL
    /\ Broken => finalStatus # NULL
    /\ attached = "refused" => rst
    /\ CancelledIsReset
    /\ attached = "no" => steady

(* The messages written: on the wire, and in Node's buffer.                *)
Acked == written - Len(wq)
WriteInv ==
    /\ Len(wq) <= written /\ Run(wq, Acked)
    /\ Run(wire, 0)
    /\ writing => wq # <<>>
    /\ attached = "yes" => /\ writing => Len(wire) = Acked + 1
                           /\ ~writing => Len(wire) = Acked
    /\ attached # "yes" => /\ Acked = 0 /\ wire = <<>> /\ ~wireEnd
                           /\ writing => pendingWrite = 1
                           /\ ~writing => pendingWrite = 0
    /\ finalCalled => ending /\ wq = <<>>
    /\ wireEnd \/ pendingFinal => finalCalled

StreamInv ==
    /\ TypeOK
    /\ Stages /\ BeforeAttach /\ EndSeen /\ Backpressure
    /\ StatusInv /\ WriteInv
-----------------------------------------------------------------------------
(* Runs of messages.                                                       *)

(* The next message extends a run.                                         *)
LEMMA RunAppend ==
    ASSUME NEW S, NEW s \in Seq(S), NEW a \in Nat, NEW m \in S, Run(s, a),
           m = a + Len(s) + 1
    PROVE  /\ Append(s, m) \in Seq(S) /\ Len(Append(s, m)) = Len(s) + 1
           /\ Run(Append(s, m), a)
  BY AppendProperties DEF Run

(* Its first message may be taken from a run.                              *)
LEMMA RunHeadTail ==
    ASSUME NEW S, NEW s \in Seq(S), NEW a \in Nat, Run(s, a), s # <<>>
    PROVE  /\ Head(s) \in S /\ Tail(s) \in Seq(S)
           /\ Head(s) = a + 1
           /\ Len(Tail(s)) = Len(s) - 1 /\ Len(s) \in Nat \ {0}
           /\ Run(Tail(s), a + 1)
  <1>1. /\ Head(s) \in S /\ Tail(s) \in Seq(S) /\ Len(Tail(s)) = Len(s) - 1
        /\ Len(s) \in Nat \ {0} /\ Head(s) = s[1]
        /\ \A i \in 1..Len(Tail(s)) : Tail(s)[i] = s[i + 1]
    BY HeadTailProperties, EmptySeq, LenProperties
  <1>2. Run(Tail(s), a + 1)
    BY <1>1 DEF Run
  <1> QED BY <1>1, <1>2 DEF Run

(* A run can be cut in two.                                                *)
LEMMA RunCut ==
    ASSUME NEW S, NEW s \in Seq(S), NEW a \in Nat, Run(s, a),
           NEW k \in Nat, k <= Len(s)
    PROVE  /\ SubSeq(s, 1, k) \in Seq(S) /\ Len(SubSeq(s, 1, k)) = k
           /\ Run(SubSeq(s, 1, k), a)
           /\ SubSeq(s, k + 1, Len(s)) \in Seq(S)
           /\ Len(SubSeq(s, k + 1, Len(s))) = Len(s) - k
           /\ Run(SubSeq(s, k + 1, Len(s)), a + k)
  <1>1. Len(s) \in Nat /\ \A i \in 1..Len(s) : s[i] \in S
    BY LenProperties, ElementOfSeq
  <1>2. \A i \in 1..k : s[i] \in S
    BY <1>1
  <1>3. /\ SubSeq(s, 1, k) \in Seq(S)
        /\ Len(SubSeq(s, 1, k)) = IF 1 <= k THEN k - 1 + 1 ELSE 0
        /\ \A i \in 1..(k - 1 + 1) : SubSeq(s, 1, k)[i] = s[1 + i - 1]
    BY <1>1, <1>2, SubSeqProperties
  <1>4. \A i \in (k + 1)..Len(s) : s[i] \in S
    BY <1>1
  <1>5. /\ SubSeq(s, k + 1, Len(s)) \in Seq(S)
        /\ Len(SubSeq(s, k + 1, Len(s))) =
              IF k + 1 <= Len(s) THEN Len(s) - (k + 1) + 1 ELSE 0
        /\ \A i \in 1..(Len(s) - (k + 1) + 1) :
              SubSeq(s, k + 1, Len(s))[i] = s[k + 1 + i - 1]
    BY <1>1, <1>4, SubSeqProperties
  <1>6. Len(SubSeq(s, 1, k)) = k /\ Len(SubSeq(s, k + 1, Len(s))) = Len(s) - k
    BY <1>1, <1>3, <1>5
  <1>7. Run(SubSeq(s, 1, k), a)
    BY <1>1, <1>3, <1>6 DEF Run
  <1>8. Run(SubSeq(s, k + 1, Len(s)), a + k)
    BY <1>1, <1>5, <1>6 DEF Run
  <1> QED BY <1>3, <1>5, <1>6, <1>7, <1>8

(* Adjacent runs make a run.                                               *)
LEMMA RunConcat ==
    ASSUME NEW S, NEW s \in Seq(S), NEW t \in Seq(S), NEW a \in Nat,
           Run(s, a), Run(t, a + Len(s))
    PROVE  /\ s \o t \in Seq(S) /\ Len(s \o t) = Len(s) + Len(t)
           /\ Run(s \o t, a)
  <1>1. Len(s) \in Nat /\ Len(t) \in Nat
    BY LenProperties
  <1>2. /\ s \o t \in Seq(S) /\ Len(s \o t) = Len(s) + Len(t)
        /\ \A i \in 1..(Len(s) + Len(t)) :
              (s \o t)[i] = IF i <= Len(s) THEN s[i] ELSE t[i - Len(s)]
    BY ConcatProperties
  <1>3. ASSUME NEW i \in 1..(Len(s) + Len(t)) PROVE (s \o t)[i] = a + i
    <2>1. CASE i <= Len(s)
      BY <1>1, <1>2, <2>1 DEF Run
    <2>2. CASE i > Len(s)
      <3>1. i - Len(s) \in 1..Len(t)
        BY <1>1, <2>2
      <3>2. t[i - Len(s)] = (a + Len(s)) + (i - Len(s))
        BY <3>1 DEF Run
      <3> QED BY <1>1, <1>2, <2>2, <3>2
    <2> QED BY <1>1, <2>1, <2>2
  <1> QED BY <1>2, <1>3 DEF Run

(* A run from the first message on is all of them up to its last.          *)
LEMMA RunUpto ==
    ASSUME NEW S, NEW s \in Seq(S), Run(s, 0)
    PROVE  s = Upto(Len(s))
  BY LenProperties DEF Run, Upto
-----------------------------------------------------------------------------
(* What the scenario of a call is.                                         *)
LEMMA ScenarioType ==
    ASSUME scenario \in Scenarios
    PROVE  /\ N \in Nat /\ M \in Nat
           /\ scenario.grpc \subseteq Status \cup {"absent", "invalid"}
           /\ \A g \in scenario.grpc : g # NULL
           /\ \A e \in scenario.close : e # NULL
  <1>1. scenario \in Scenario
    BY StreamAssumption
  <1>2. /\ N \in Nat /\ M \in Nat
        /\ scenario.grpc \subseteq Status \cup {"absent", "invalid"}
    BY <1>1 DEF Scenario, N, M
  <1> QED BY <1>2, StreamAssumption

(* A new call satisfies it.                                                *)
LEMMA InitInv == Init => StreamInv
  <1> SUFFICES ASSUME Init PROVE StreamInv
    OBVIOUS
  <1> USE DEF Init
  <1>0. N \in Nat /\ M \in Nat
    BY ScenarioType
  <1>1. TypeOK
    <2>1. \A S : <<>> \in Seq(S)
      BY EmptySeq
    <2>2. "UNKNOWN" \in Status
      BY DEF Status
    <2>3. /\ received \in 0..N /\ written \in 0..M /\ pendingWrite \in 0..M
      BY <1>0
    <2> QED BY <2>1, <2>2, <2>3, Zenon DEF TypeOK
  <1>2. Stages
    BY DEF Stages, Run
  <1>3. BeforeAttach /\ EndSeen /\ StatusInv
    BY StreamAssumption
    DEF BeforeAttach, EndSeen, StatusInv, OKOnlyFromServer, CancelledIsReset,
        Broken
  <1>4. Backpressure
    BY StreamAssumption DEF Backpressure
  <1>5. WriteInv
    <2>0. Len(wq) = 0 /\ Len(wire) = 0
      OBVIOUS
    <2>1. Acked = 0
      <3>1. written = 0
        OBVIOUS
      <3> HIDE DEF Init
      <3> QED BY <2>0, <3>1 DEF Acked
    <2>2. Run(wq, Acked) /\ Run(wire, 0)
      BY <2>0 DEF Run
    <2>3. Len(wq) <= written
      BY <2>0
    <2> QED BY <2>1, <2>2, <2>3, Zenon DEF WriteInv
  <1> QED BY <1>1, <1>2, <1>3, <1>4, <1>5 DEF StreamInv

-----------------------------------------------------------------------------
(* The steps of the call's end.                                            *)

EndStep ==
    Cancel \/ Response \/ Trailers \/ TrailersThen \/ StreamClosed \/ StreamError

(* The codes the handlers map to are codes, and none is OK.                *)
LEMMA CodesNotOK ==
    /\ \A h : mapHttpStatus(h) \in Status \ {"OK"}
    /\ \A e : mapCloseCode(e) \in Status \ {"OK"}
    /\ NULL \notin Status
  <1>1. \A h : mapHttpStatus(h) \in Status \ {"OK"}
    BY DEF mapHttpStatus, Status
  <1>2. \A e : mapCloseCode(e) \in Status \ {"OK"}
    BY DEF mapCloseCode, Status
  <1> QED BY <1>1, <1>2, StreamAssumption

(* They leave both sides of the stream alone, and what is broken stays so. *)
LEMMA EndStepFrame ==
    ASSUME StreamInv, EndStep
    PROVE  /\ UNCHANGED <<fixed, attached, readVars, writeVars>>
           /\ Broken => Broken'
           /\ attached # "yes" =>
                 UNCHANGED <<responded, trailers, closeCode>>
  <1> USE DEF Broken, TurnEnded, Open, StreamInv
  <1>1. CASE Cancel
    BY <1>1 DEF Cancel, cancelWithStatus
  <1>2. CASE Response
    <2>1. UNCHANGED rst \/ rst' = (rst \/ attached = "yes")
      BY <1>2 DEF Response, cancelWithStatus
    <2>2. Broken => Broken'
      BY <1>2, <2>1 DEF Response
    <2> QED BY <1>2, <2>2 DEF Response
  <1>3. CASE Trailers
    BY <1>3 DEF Trailers
  <1>4. CASE TrailersThen
    BY <1>4 DEF TrailersThen
  <1>5. CASE StreamClosed
    BY <1>5 DEF StreamClosed
  <1>6. CASE StreamError
    BY <1>6 DEF StreamError
  <1> QED BY <1>1, <1>2, <1>3, <1>4, <1>5, <1>6 DEF EndStep

(* They keep the types and the provenance of the status.                   *)
LEMMA EndStepStatus ==
    ASSUME StreamInv, EndStep
    PROVE  TypeOK' /\ StatusInv'
  <1> USE DEF StreamInv, StatusInv, OKOnlyFromServer, CancelledIsReset, Broken,
              statusVars, endCall
  <1>0. UNCHANGED <<fixed, attached, readVars, writeVars>> /\ TypeOK
    BY EndStepFrame
  <1>t. ASSUME finalStatus' \in Status \cup {NULL},
               endedBy' \in {NULL, "trailers", "closed", "error", "cancel",
                             "metadata"},
               mappedStatusCode' \in Status,
               trailers' \in scenario.grpc \cup {NULL},
               trailersThen' \in Status \cup {NULL},
               closeCode' \in scenario.close \cup {NULL},
               rst' \in BOOLEAN, responded' \in BOOLEAN
        PROVE  TypeOK'
    BY <1>0, <1>t DEF TypeOK, N, M, fixed, readVars, bufVars, writeVars
  <1>n. /\ NULL \notin Status /\ NULL # "OK"
        /\ "UNKNOWN" \in Status /\ "INTERNAL" \in Status
    BY CodesNotOK DEF Status
  <1>s. /\ steady' = steady /\ attached' = attached
    BY <1>0 DEF fixed
  <1>1. CASE Cancel
    <2>1. PICK code \in {"CANCELLED", "DEADLINE_EXCEEDED"} :
             cancelWithStatus(code, "cancel")
      BY <1>1 DEF Cancel
    <2>2. /\ finalStatus = NULL
          /\ UNCHANGED <<mappedStatusCode, responded, trailers, trailersThen,
                         closeCode>>
      BY <1>1 DEF Cancel
    <2>3. finalStatus' = code /\ endedBy' = "cancel" /\ code \in Status
      BY <2>1, <2>2 DEF cancelWithStatus, Status
    <2>4. rst' = (rst \/ attached = "yes")
      BY <2>1 DEF cancelWithStatus
    <2>5. TypeOK'
      BY <1>0, <1>t, <2>2, <2>3, <2>4 DEF TypeOK
    <2>6. StatusInv'
      BY <1>n, <1>s, <1>0, <2>2, <2>3, <2>4 DEF TypeOK
    <2> QED BY <2>5, <2>6
  <1>2. CASE Response
    <2>1. PICK h \in scenario.http : mappedStatusCode' = mapHttpStatus(h)
      BY <1>2 DEF Response
    <2>2. /\ responded' = TRUE
          /\ UNCHANGED <<trailers, trailersThen, closeCode>>
          /\ \/ UNCHANGED <<statusVars, rst>>
             \/ cancelWithStatus("UNKNOWN", "metadata")
      BY <1>2 DEF Response
    <2>3. mappedStatusCode' \in Status \ {"OK"}
      BY <2>1, CodesNotOK
    <2>4. CASE UNCHANGED <<statusVars, rst>>
      <3>1. TypeOK'
        BY <1>0, <1>t, <2>2, <2>3, <2>4 DEF TypeOK
      <3>2. StatusInv'
        BY <1>n, <1>s, <2>2, <2>3, <2>4
      <3> QED BY <3>1, <3>2
    <2>5. CASE cancelWithStatus("UNKNOWN", "metadata")
      <3>0. rst' = (rst \/ attached = "yes")
        BY <2>5 DEF cancelWithStatus
      <3>1. TypeOK'
        BY <1>0, <1>t, <1>n, <2>2, <2>3, <2>5, <3>0
        DEF TypeOK, cancelWithStatus
      <3>2. StatusInv'
        BY <1>0, <1>n, <1>s, <2>2, <2>3, <2>5, <3>0
        DEF TypeOK, cancelWithStatus
      <3> QED BY <3>1, <3>2
    <2> QED BY <2>2, <2>4, <2>5
  <1>3. CASE Trailers
    <2>1. PICK g \in scenario.grpc :
             /\ trailers' = g
             /\ \/ trailersThen' = trailersCode(g)
                \/ UNCHANGED trailersThen
      BY <1>3 DEF Trailers
    <2>2. /\ UNCHANGED <<rst, statusVars, mappedStatusCode, responded, closeCode>>
          /\ trailersThen = NULL /\ trailers = NULL
      BY <1>3 DEF Trailers, TurnEnded
    <2>3. g \in Status \cup {"absent", "invalid"}
      BY <1>0, ScenarioType DEF TypeOK
    <2>4. /\ trailersCode(g) \in Status
          /\ trailersCode(g) = "OK" => g = "OK"
      BY <1>0, <1>n, <2>3 DEF trailersCode, TypeOK
    <2>5. TypeOK'
      BY <1>0, <1>t, <2>1, <2>2, <2>4 DEF TypeOK
    <2>6. StatusInv'
      BY <1>n, <1>s, <2>1, <2>2, <2>4
    <2> QED BY <2>5, <2>6
  <1>4. CASE TrailersThen
    <2>1. /\ UNCHANGED <<rst, mappedStatusCode, responded, trailers, closeCode>>
          /\ trailersThen # NULL /\ trailersThen' = NULL
          /\ endCall(trailersThen, "trailers")
      BY <1>4 DEF TrailersThen
    <2>5. TypeOK'
      BY <1>0, <1>t, <2>1 DEF TypeOK
    <2>6. StatusInv'
      BY <1>n, <1>s, <2>1
    <2> QED BY <2>5, <2>6
  <1>5. CASE StreamClosed
    <2>1. PICK e \in scenario.close :
             closeCode' = e /\ endCall(mapCloseCode(e), "closed")
      BY <1>5 DEF StreamClosed, closeEndsCall
    <2>2. UNCHANGED <<rst, mappedStatusCode, responded, trailers, trailersThen>>
      BY <1>5 DEF StreamClosed
    <2>3. mapCloseCode(e) \in Status \ {"OK"}
      BY CodesNotOK
    <2>5. TypeOK'
      BY <1>0, <1>t, <2>1, <2>2, <2>3 DEF TypeOK
    <2>6. StatusInv'
      BY <1>n, <1>s, <2>1, <2>2, <2>3
    <2> QED BY <2>5, <2>6
  <1>6. CASE StreamError
    <2>1. /\ UNCHANGED <<rst, mappedStatusCode, responded, trailers,
                         trailersThen, closeCode>>
          /\ finalStatus' = "INTERNAL" /\ endedBy' = "error"
      BY <1>6 DEF StreamError
    <2>5. TypeOK'
      BY <1>0, <1>t, <1>n, <2>1 DEF TypeOK
    <2>6. StatusInv'
      BY <1>n, <1>s, <2>1
    <2> QED BY <2>5, <2>6
  <1> QED BY <1>1, <1>2, <1>3, <1>4, <1>5, <1>6 DEF EndStep

(* The steps of the call's end keep the invariant.                         *)
LEMMA EndStepInv ==
    ASSUME StreamInv, EndStep
    PROVE  StreamInv'
  <1>1. /\ UNCHANGED <<fixed, attached, readVars, writeVars>>
        /\ Broken => Broken'
        /\ attached # "yes" => UNCHANGED <<responded, trailers, closeCode>>
    BY EndStepFrame
  <1>2. Stages' /\ Backpressure'
    BY <1>1 DEF StreamInv, Stages, Backpressure, readVars, bufVars, Run
  <1>3. EndSeen'
    BY <1>1 DEF StreamInv, EndSeen, readVars, bufVars, N, fixed
  <1>4. BeforeAttach'
    BY <1>1 DEF StreamInv, BeforeAttach, readVars, bufVars
  <1>5. WriteInv'
    BY <1>1 DEF StreamInv, WriteInv, Acked, writeVars, Run
  <1> QED BY <1>2, <1>3, <1>4, <1>5, EndStepStatus DEF StreamInv

-----------------------------------------------------------------------------
(* The steps of the writable side.                                         *)

WriteStep == Write \/ EndWrites \/ _write \/ WriteCallback \/ _final

(* They keep the types and the order of what is written.                   *)
LEMMA WriteStepQueue ==
    ASSUME StreamInv, WriteStep
    PROVE  TypeOK' /\ WriteInv'
  <1>0. /\ UNCHANGED <<fixed, endVars, readVars>> /\ TypeOK /\ M \in Nat
        /\ UNCHANGED attached /\ M' = M
    BY ScenarioType DEF WriteStep, Write, EndWrites, _write, WriteCallback,
       _final, StreamInv, TypeOK, endVars, fixed, M
  <1>t. ASSUME written' \in 0..M, pendingWrite' \in 0..M, wq' \in Seq(1..M),
               wire' \in Seq(1..M), writing' \in BOOLEAN,
               pendingFinal' \in BOOLEAN, ending' \in BOOLEAN,
               finalCalled' \in BOOLEAN, wireEnd' \in BOOLEAN
        PROVE  TypeOK'
    BY <1>0, <1>t DEF TypeOK, N, M, fixed, readVars, bufVars, endVars
  <1>w. /\ written \in Nat /\ wq \in Seq(1..M) /\ wire \in Seq(1..M)
        /\ Len(wq) \in Nat /\ Len(wire) \in Nat /\ Acked \in Nat
        /\ Len(wq) <= written /\ Run(wq, Acked) /\ Run(wire, 0)
        /\ written <= M
    BY <1>0, LenProperties DEF TypeOK, StreamInv, WriteInv, Acked
  <1>1. CASE Write
    <2>0. /\ written < M /\ ~ending /\ written' = written + 1
          /\ wq' = Append(wq, written + 1)
          /\ UNCHANGED <<writing, pendingWrite, pendingFinal, ending,
                         finalCalled, wire, wireEnd>>
      BY <1>1 DEF Write
    <2>1. written + 1 = Acked + Len(wq) + 1 /\ written + 1 \in 1..M
      BY <1>0, <1>w, <2>0 DEF Acked
    <2>2. /\ wq' \in Seq(1..M) /\ Len(wq') = Len(wq) + 1
          /\ Run(wq', Acked) /\ wq' # <<>>
      <3>1. /\ Append(wq, written + 1) \in Seq(1..M)
            /\ Len(Append(wq, written + 1)) = Len(wq) + 1
            /\ Run(Append(wq, written + 1), Acked)
        <4> DEFINE S == 1..M
                   m == written + 1
        <4>1. /\ wq \in Seq(S) /\ Acked \in Nat /\ m \in S /\ Run(wq, Acked)
              /\ m = Acked + Len(wq) + 1
          BY ONLY <1>w, <2>1
        <4> HIDE DEF S, m
        <4>2. /\ Append(wq, m) \in Seq(S) /\ Len(Append(wq, m)) = Len(wq) + 1
              /\ Run(Append(wq, m), Acked)
          BY ONLY <4>1, RunAppend
        <4> QED BY ONLY <4>2 DEF S, m
      <3>2. Len(Append(wq, written + 1)) # 0
        BY <1>w, <3>1
      <3>3. Append(wq, written + 1) # <<>>
        BY <3>2, EmptySeq
      <3> QED BY <2>0, <3>1, <3>3
    <2>3. Acked' = Acked
      BY <1>w, <2>0, <2>2 DEF Acked
    <2>4. WriteInv'
      <3>1. Len(wq') <= written' /\ Run(wq', Acked')
        BY <1>w, <2>0, <2>2, <2>3
      <3>2. ~finalCalled /\ ~wireEnd /\ ~pendingFinal
        BY <2>0 DEF StreamInv, WriteInv
      <3> QED BY <1>0, <1>w, <2>0, <2>2, <2>3, <3>1, <3>2
          DEF StreamInv, WriteInv
    <2> QED BY <1>0, <1>t, <2>0, <2>1, <2>2, <2>4 DEF TypeOK
  <1>2. CASE EndWrites
    <2>0. ending' = TRUE /\ UNCHANGED <<written, wq, writing, pendingWrite,
                               pendingFinal, finalCalled, wire, wireEnd>>
      BY <1>2 DEF EndWrites
    <2>1. TypeOK'
      BY <1>0, <1>t, <2>0 DEF TypeOK
    <2>2. WriteInv'
      BY <1>0, <2>0 DEF StreamInv, WriteInv, Acked, Run
    <2> QED BY <2>1, <2>2
  <1>3. CASE _write
    <2>0. /\ wq # <<>> /\ ~writing /\ writing' = TRUE
          /\ UNCHANGED <<written, wq, pendingFinal, ending, finalCalled,
                         wireEnd>>
      BY <1>3 DEF _write
    <2>1. /\ Head(wq) \in 1..M /\ Head(wq) = Acked + 1
      BY <1>w, <2>0, RunHeadTail
    <2>2. Acked' = Acked /\ UNCHANGED attached
      BY <1>0, <2>0 DEF Acked
    <2>3. CASE attached = "yes"
      <3>1. wire' = Append(wire, Head(wq)) /\ UNCHANGED pendingWrite
        BY <1>3, <2>3 DEF _write, toWire
      <3>2. Len(wire) = Acked
        BY <2>0, <2>3 DEF StreamInv, WriteInv
      <3>3. /\ wire' \in Seq(1..M) /\ Len(wire') = Acked + 1 /\ Run(wire', 0)
        <4>1. Head(wq) = 0 + Len(wire) + 1
          BY <1>w, <2>1, <3>2
        <4>2. /\ Append(wire, Head(wq)) \in Seq(1..M)
              /\ Len(Append(wire, Head(wq))) = Len(wire) + 1
              /\ Run(Append(wire, Head(wq)), 0)
          BY <1>w, <2>1, <4>1, AppendProperties DEF Run
        <4> QED BY <3>1, <3>2, <4>2
      <3>4. WriteInv'
        BY <2>0, <2>2, <2>3, <3>3 DEF StreamInv, WriteInv
      <3> QED BY <1>0, <1>t, <2>0, <3>1, <3>3, <3>4 DEF TypeOK
    <2>4. CASE attached # "yes"
      <3>1. pendingWrite' = Head(wq) /\ UNCHANGED wire
        BY <1>3, <2>4 DEF _write
      <3>2. WriteInv'
        BY <2>0, <2>1, <2>2, <2>4, <3>1 DEF StreamInv, WriteInv
      <3>3. pendingWrite' \in 0..M
        BY <1>0, <2>1, <3>1
      <3> QED BY <1>0, <1>t, <2>0, <3>1, <3>2, <3>3 DEF TypeOK
    <2> QED BY <2>3, <2>4
  <1>4. CASE WriteCallback
    <2>0. /\ writing /\ attached = "yes" /\ writing' = FALSE /\ wq' = Tail(wq)
          /\ UNCHANGED <<written, pendingWrite, pendingFinal, ending,
                         finalCalled, wire, wireEnd>>
      BY <1>4 DEF WriteCallback
    <2>1. wq # <<>> /\ Len(wire) = Acked + 1
      BY <2>0 DEF StreamInv, WriteInv
    <2>2. /\ wq' \in Seq(1..M) /\ Len(wq') = Len(wq) - 1
          /\ Run(wq', Acked + 1) /\ Len(wq) \in Nat \ {0}
      BY <1>w, <2>0, <2>1, RunHeadTail
    <2>3. Acked' = Acked + 1 /\ Len(wq') <= written'
      BY <1>w, <2>0, <2>2 DEF Acked
    <2>4. WriteInv'
      <3>1. ~finalCalled /\ Run(wire', 0)
        BY <1>w, <2>0, <2>1 DEF StreamInv, WriteInv
      <3> QED BY <1>0, <2>0, <2>1, <2>2, <2>3, <3>1 DEF StreamInv, WriteInv
    <2> QED BY <1>0, <1>t, <2>0, <2>2, <2>4 DEF TypeOK
  <1>5. CASE _final
    <2>0. /\ ending /\ wq = <<>> /\ finalCalled' = TRUE
          /\ UNCHANGED <<written, wq, writing, pendingWrite, ending, wire>>
          /\ \/ attached = "yes" /\ wireEnd' = TRUE /\ UNCHANGED pendingFinal
             \/ attached # "yes" /\ pendingFinal' = TRUE /\ UNCHANGED wireEnd
      BY <1>5 DEF _final
    <2>1. TypeOK'
      BY <1>0, <1>t, <2>0 DEF TypeOK
    <2>2. Acked' = Acked
      BY <2>0 DEF Acked
    <2>3. WriteInv'
      BY <1>0, <2>0, <2>2 DEF StreamInv, WriteInv
    <2> QED BY <2>1, <2>3
  <1> QED BY <1>1, <1>2, <1>3, <1>4, <1>5 DEF WriteStep

(* The steps of the writable side keep the invariant.                      *)
LEMMA WriteStepInv ==
    ASSUME StreamInv, WriteStep
    PROVE  StreamInv'
  <1>1. UNCHANGED <<fixed, endVars, readVars>>
    BY DEF WriteStep, Write, EndWrites, _write, WriteCallback, _final
  <1>2. Stages' /\ Backpressure'
    BY <1>1 DEF StreamInv, Stages, Backpressure, readVars, bufVars, Run
  <1>3. EndSeen' /\ BeforeAttach'
    BY <1>1 DEF StreamInv, EndSeen, BeforeAttach, readVars, bufVars, endVars,
       N, fixed, Broken
  <1>4. StatusInv'
    BY <1>1 DEF StreamInv, StatusInv, OKOnlyFromServer, CancelledIsReset,
       Broken, endVars, fixed
  <1> QED BY <1>2, <1>3, <1>4, WriteStepQueue DEF StreamInv

-----------------------------------------------------------------------------
(* attachHttp2Stream().                                                    *)

(* Facts about lengths, which every step below needs.                      *)
LEMMA Lengths ==
    ASSUME StreamInv
    PROVE  /\ TypeOK /\ N \in Nat /\ M \in Nat
           /\ Len(delivered) \in Nat /\ Len(rbuf) \in Nat
           /\ Len(unpushed) \in Nat /\ Len(chunk) \in Nat
           /\ received =
                 Len(delivered) + Len(rbuf) + Len(unpushed) + Len(chunk)
           /\ received \in 0..N
           /\ rbuf = <<>> <=> Len(rbuf) = 0
           /\ unpushed = <<>> <=> Len(unpushed) = 0
           /\ chunk = <<>> <=> Len(chunk) = 0
  <1>1. TypeOK
    BY DEF StreamInv
  <1>2. \A q \in Seq(1..N) : Len(q) \in Nat /\ (q = <<>> <=> Len(q) = 0)
    BY EmptySeq, LenProperties
  <1>3. received = Len(delivered) + Len(rbuf) + Len(unpushed) + Len(chunk)
    BY DEF StreamInv, Stages
  <1>4. N \in Nat /\ M \in Nat
    BY <1>1, ScenarioType DEF TypeOK
  <1>5. /\ delivered \in Seq(1..N) /\ rbuf \in Seq(1..N)
        /\ unpushed \in Seq(1..N) /\ chunk \in Seq(1..N) /\ received \in 0..N
    BY <1>1 DEF TypeOK
  <1> QED BY <1>1, <1>2, <1>3, <1>4, <1>5

(* attachHttp2Stream() keeps the invariant.                                *)
LEMMA AttachInv ==
    ASSUME StreamInv, attachHttp2Stream
    PROVE  StreamInv'
  <1>0. /\ attached = "no"
        /\ UNCHANGED <<scenario, statusVars, mappedStatusCode, responded,
              trailers, trailersThen, closeCode, received, chunk, canPush,
              bufVars, pendingRead, flowing, h2Ended, delivered, endEmitted,
              written, wq, writing, pendingWrite, pendingFinal, ending,
              finalCalled>>
    BY DEF attachHttp2Stream
  <1>1. Stages'
    BY <1>0 DEF StreamInv, Stages, bufVars, Run
  <1>w. /\ Acked = 0 /\ wire = <<>> /\ ~wireEnd /\ Run(wq, Acked)
        /\ writing => pendingWrite = 1
        /\ ~writing => pendingWrite = 0
        /\ wireEnd \/ pendingFinal => finalCalled
        /\ finalCalled => ending /\ wq = <<>>
        /\ Acked' = Acked /\ Len(wq) <= written
        /\ writing => wq # <<>>
    BY <1>0 DEF StreamInv, WriteInv, Acked
  <1>2. CASE finalStatus # NULL
    <2>0. /\ attached' = "refused" /\ rst' = TRUE
          /\ UNCHANGED <<steady, h2Flow, wire, wireEnd>>
      BY <1>2 DEF attachHttp2Stream
    <2>1. TypeOK'
      BY <1>0, <2>0 DEF StreamInv, TypeOK, statusVars, bufVars, N, M
    <2>2. EndSeen' /\ BeforeAttach'
      BY <1>0, <2>0 DEF StreamInv, EndSeen, BeforeAttach, bufVars, N, Broken
    <2>3. Backpressure'
      BY <1>0, <2>0 DEF StreamInv, Backpressure, bufVars
    <2>4. StatusInv'
      BY <1>0, <1>2, <2>0 DEF StreamInv, StatusInv, OKOnlyFromServer,
         CancelledIsReset, Broken, statusVars
    <2>5. WriteInv'
      BY <1>0, <1>w, <2>0 DEF StreamInv, WriteInv, Run
    <2> QED BY <1>1, <2>1, <2>2, <2>3, <2>4, <2>5 DEF StreamInv
  <1>3. CASE finalStatus = NULL
    <2>0. /\ attached' = "yes" /\ UNCHANGED rst
          /\ h2Flow' = pendingRead
          /\ wire' = IF pendingWrite # 0 THEN <<pendingWrite>> ELSE <<>>
          /\ wireEnd' = pendingFinal
          /\ steady' = (flowing /\ pendingRead)
      BY <1>3 DEF attachHttp2Stream, attachFlow, pendingFirst
    <2>1. /\ wire' \in Seq(1..M) /\ Run(wire', 0)
          /\ writing => Len(wire') = 1
          /\ ~writing => Len(wire') = 0
      <3>1. CASE writing
        <4>1. wire' = <<1>> /\ 1 \in 1..M
          BY <1>w, <2>0, <3>1 DEF StreamInv, TypeOK
        <4> QED BY <3>1, <4>1 DEF Run
      <3>2. CASE ~writing
        <4>1. wire' = <<>>
          BY <1>w, <2>0, <3>2
        <4> QED BY <3>2, <4>1 DEF Run
      <3> QED BY <3>1, <3>2
    <2>2. TypeOK'
      <3>1. /\ h2Flow' \in BOOLEAN /\ wireEnd' \in BOOLEAN
            /\ steady' \in BOOLEAN
        BY <2>0 DEF StreamInv, TypeOK
      <3> QED BY <1>0, <2>0, <2>1, <3>1
          DEF StreamInv, TypeOK, statusVars, bufVars, N, M
    <2>3. EndSeen' /\ BeforeAttach'
      BY <1>0, <2>0 DEF StreamInv, EndSeen, BeforeAttach, bufVars, N, Broken
    <2>4. Backpressure'
      <3>1. received = 0
        BY <1>0 DEF StreamInv, BeforeAttach
      <3>2. Len(rbuf) = 0 /\ unpushed = <<>> /\ chunk = <<>>
        BY <3>1, Lengths
      <3> QED BY <1>0, <3>2, StreamAssumption
          DEF StreamInv, Backpressure, bufVars
    <2>5. StatusInv'
      BY <1>0, <1>3, <2>0 DEF StreamInv, StatusInv, OKOnlyFromServer,
         CancelledIsReset, Broken, statusVars
    <2>6. WriteInv'
      BY <1>0, <1>w, <2>0, <2>1 DEF WriteInv
    <2> QED BY <1>1, <2>2, <2>3, <2>4, <2>5, <2>6 DEF StreamInv
  <1> QED BY <1>2, <1>3

-----------------------------------------------------------------------------
(* The steps of the readable side.                                         *)

ReadStep ==
    Data \/ DataMessage \/ End \/ Flow \/ ReadMore \/ FlowEnd \/ Pause \/ Resume

(* They leave the rest alone.                                              *)
LEMMA ReadStepFrame ==
    ASSUME StreamInv, ReadStep
    PROVE  /\ UNCHANGED <<scenario, endVars, writeVars>>
           /\ StatusInv' /\ WriteInv'
           /\ Broken' = Broken /\ N' = N /\ M' = M
           /\ steady' \in BOOLEAN
  <1>1. /\ UNCHANGED <<scenario, endVars, writeVars>>
        /\ UNCHANGED steady \/ steady' = (steady /\ attached = "no")
    BY DEF ReadStep, Data, DataMessage, End, Flow, ReadMore, FlowEnd, Pause,
       Resume, fixed
  <1>2. StatusInv'
    BY <1>1 DEF StreamInv, StatusInv, OKOnlyFromServer, CancelledIsReset,
       Broken, endVars
  <1>3. WriteInv'
    BY <1>1 DEF StreamInv, WriteInv, Acked, writeVars, endVars, Run
  <1> QED BY <1>1, <1>2, <1>3 DEF StreamInv, TypeOK, Broken, N, M, endVars

(* What the types of the readable side amount to.                          *)
LEMMA ReadTypes ==
    ASSUME StreamInv, ReadStep, received' \in 0..N, chunk' \in Seq(1..N),
           rbuf' \in Seq(1..N), unpushed' \in Seq(1..N),
           delivered' \in Seq(1..N),
           h2Ended' \in {"no", "scheduled", "emitted"},
           canPush' \in BOOLEAN, unpushedEnd' \in BOOLEAN,
           reading' \in BOOLEAN, pendingRead' \in BOOLEAN,
           rEnded' \in BOOLEAN, flowing' \in BOOLEAN, h2Flow' \in BOOLEAN,
           endEmitted' \in BOOLEAN
    PROVE  TypeOK'
  <1>1. /\ UNCHANGED <<scenario, endVars, writeVars>> /\ N' = N /\ M' = M
        /\ steady' \in BOOLEAN
    BY ReadStepFrame
  <1> QED BY <1>1 DEF StreamInv, TypeOK, endVars, writeVars

(* A 'data' event keeps the invariant.                                     *)
LEMMA DataInv ==
    ASSUME StreamInv, Data
    PROVE  StreamInv'
  <1>f. ReadStep /\ StatusInv' /\ WriteInv' /\ Broken' = Broken /\ N' = N
        /\ UNCHANGED endVars
    BY ReadStepFrame DEF ReadStep
  <1>0. /\ chunk = <<>> /\ attached = "yes" /\ h2Flow /\ h2Ended = "no"
        /\ canPush' = TRUE
        /\ UNCHANGED <<rbuf, unpushed, unpushedEnd, reading, rEnded,
                       pendingRead, flowing, h2Flow, delivered, endEmitted>>
    BY DEF Data, TurnEnded, HandlerDone, bufVars
  <1>1. PICK k \in 1..MaxChunk :
          /\ received + k <= N
          /\ received' = received + k
          /\ chunk' = [i \in 1..k |-> received + i]
          /\ \/ UNCHANGED h2Ended
             \/ received + k = N /\ h2Ended' = "scheduled"
    BY DEF Data
  <1>2. k \in Nat \ {0} /\ k <= MaxChunk /\ received' \in 0..N
    BY <1>1, StreamAssumption, Lengths
  <1>3. chunk' \in Seq(1..N) /\ Len(chunk') = k /\ chunk' # <<>>
    <2>1. \A i \in 1..k : received + i \in 1..N
      BY <1>1, <1>2, Lengths
    <2>2. chunk' \in [1..k -> 1..N]
      BY <1>1, <2>1
    <2>3. chunk' \in Seq(1..N)
      BY <1>2, <2>2, SeqDef
    <2> QED BY <1>1, <1>2, <2>3, EmptySeq
  <1>4. TypeOK'
    BY <1>f, <1>0, <1>1, <1>2, <1>3, ReadTypes DEF StreamInv, TypeOK
  <1>5. Stages'
    <2>1. received = Len(delivered) + Len(rbuf) + Len(unpushed)
      BY <1>0, Lengths
    <2>2. Run(chunk', received)
      BY <1>1, <1>3 DEF Run
    <2> QED BY <1>0, <1>1, <1>2, <1>3, <2>1, <2>2, Lengths
        DEF StreamInv, Stages, Run
  <1>6. BeforeAttach' /\ EndSeen'
    <2>1. ~unpushedEnd /\ ~rEnded /\ ~endEmitted
      BY <1>0 DEF StreamInv, EndSeen
    <2> QED BY <1>f, <1>0, <1>1, <2>1 DEF BeforeAttach, EndSeen, endVars
  <1>7. Backpressure'
    BY <1>0, <1>2, <1>3 DEF StreamInv, Backpressure
  <1> QED BY <1>f, <1>4, <1>5, <1>6, <1>7 DEF StreamInv

(* So does each message of it, wherever tryPush() puts it.                 *)
LEMMA DataMessageInv ==
    ASSUME StreamInv, DataMessage
    PROVE  StreamInv'
  <1>f. ReadStep /\ StatusInv' /\ WriteInv' /\ Broken' = Broken /\ N' = N
        /\ UNCHANGED endVars
    BY ReadStepFrame DEF ReadStep
  <1> DEFINE m == Head(chunk)
             d == Len(delivered)  r == Len(rbuf)  u == Len(unpushed)
  <1>0. /\ chunk # <<>> /\ tryPush(m) /\ chunk' = Tail(chunk)
        /\ UNCHANGED <<received, unpushedEnd, pendingRead, rEnded, flowing,
                       h2Ended, endEmitted>>
    BY DEF DataMessage
  <1>1. /\ delivered \in Seq(1..N) /\ rbuf \in Seq(1..N)
        /\ unpushed \in Seq(1..N) /\ chunk \in Seq(1..N)
        /\ d \in Nat /\ r \in Nat /\ u \in Nat /\ Len(chunk) \in Nat
        /\ received = d + r + u + Len(chunk)
        /\ Run(delivered, 0) /\ Run(rbuf, d) /\ Run(unpushed, d + r)
        /\ Run(chunk, d + r + u)
        /\ h2Flow \in BOOLEAN
    BY Lengths DEF StreamInv, Stages, TypeOK
  <1>2. /\ m \in 1..N /\ m = d + r + u + 1
        /\ chunk' \in Seq(1..N) /\ Len(chunk') = Len(chunk) - 1
        /\ Run(chunk', d + r + u + 1) /\ Len(chunk) \in Nat \ {0}
    <2> DEFINE a == d + r + u
    <2>1. /\ a \in Nat /\ Run(chunk, a) /\ chunk \in Seq(1..N) /\ chunk # <<>>
          /\ N \in Nat
      BY <1>0, <1>1, Lengths
    <2> HIDE DEF a
    <2>2. /\ Head(chunk) \in 1..N /\ Head(chunk) = a + 1
          /\ Tail(chunk) \in Seq(1..N) /\ Len(Tail(chunk)) = Len(chunk) - 1
          /\ Run(Tail(chunk), a + 1) /\ Len(chunk) \in Nat \ {0}
      BY <2>1, RunHeadTail
    <2> QED BY <1>0, <2>2 DEF a
  <1>3. ~rEnded /\ ~unpushedEnd /\ h2Ended # "emitted" /\ ~endEmitted
        /\ attached = "yes"
    BY <1>0, <1>2, Lengths DEF StreamInv, EndSeen, BeforeAttach
  <1>4. BeforeAttach' /\ EndSeen'
    BY <1>f, <1>0, <1>3 DEF StreamInv, BeforeAttach, EndSeen, endVars
  <1>b. /\ Len(unpushed) < MaxChunk /\ Len(rbuf) <= HighWaterMark
        /\ canPush => /\ r < HighWaterMark /\ unpushed = <<>> /\ u = 0
                      /\ Len(chunk) <= MaxChunk
        /\ ~canPush => ~h2Flow /\ u + Len(chunk) < MaxChunk
        /\ HighWaterMark \in Nat /\ HighWaterMark > 0 /\ MaxChunk \in Nat
    BY <1>0, Lengths, StreamAssumption DEF StreamInv, Backpressure
  <1>t. ASSUME rbuf' \in Seq(1..N), unpushed' \in Seq(1..N),
               delivered' \in Seq(1..N), canPush' \in BOOLEAN,
               reading' \in BOOLEAN, h2Flow' \in BOOLEAN
        PROVE  TypeOK'
    BY <1>f, <1>0, <1>2, <1>t, ReadTypes DEF StreamInv, TypeOK
  <1>5. CASE canPush /\ pushDelivers
    <2>1. /\ delivered' = Append(delivered, m) /\ reading' = TRUE
          /\ h2Flow' = TRUE /\ UNCHANGED <<rbuf, unpushed, canPush>>
          /\ r = 0 /\ u = 0 /\ m = 0 + d + 1
      BY <1>0, <1>1, <1>2, <1>5, <1>b DEF tryPush, pushDelivers
    <2>2. /\ delivered' \in Seq(1..N) /\ Len(delivered') = d + 1
          /\ Run(delivered', 0)
      BY <1>1, <1>2, <2>1, AppendProperties DEF Run
    <2>3. TypeOK'
      BY <1>t, <2>1, <2>2 DEF StreamInv, TypeOK
    <2>4. Stages'
      BY <1>0, <1>1, <1>2, <2>1, <2>2 DEF Stages, Run
    <2>5. Backpressure'
      BY <1>0, <1>1, <1>2, <1>5, <1>b, <2>1 DEF StreamInv, Backpressure
    <2> QED BY <1>f, <1>4, <2>3, <2>4, <2>5 DEF StreamInv
  <1>6. CASE canPush /\ ~pushDelivers
    <2>1. /\ rbuf' = Append(rbuf, m) /\ reading' = FALSE
          /\ UNCHANGED <<delivered, unpushed>>
      BY <1>0, <1>6, Zenon DEF tryPush
    <2>f. /\ canPush' = (Len(rbuf') < HighWaterMark)
          /\ h2Flow' = (h2Flow /\ canPush')
      BY <1>0, <1>6, Zenon DEF tryPush
    <2>a. u = 0 /\ m = d + r + 1
      BY <1>1, <1>2, <1>6, <1>b
    <2>2. /\ rbuf' \in Seq(1..N) /\ Len(rbuf') = r + 1 /\ Run(rbuf', d)
      <3>1. /\ Append(rbuf, m) \in Seq(1..N) /\ Len(Append(rbuf, m)) = r + 1
            /\ Run(Append(rbuf, m), d)
        BY <1>1, <1>2, <2>a, RunAppend
      <3> QED BY <2>1, <3>1
    <2>b. /\ canPush' \in BOOLEAN /\ h2Flow' \in BOOLEAN
          /\ canPush' => Len(rbuf') < HighWaterMark
          /\ h2Flow' => canPush'
      <3>0. Len(rbuf') \in Nat /\ HighWaterMark \in Nat
        BY <1>1, <1>b, <2>2
      <3>1. canPush' \in BOOLEAN
        BY <2>f, <3>0
      <3>2. canPush' => Len(rbuf') < HighWaterMark
        BY <2>f, Zenon
      <3>3. h2Flow' \in BOOLEAN /\ (h2Flow' => canPush')
        BY <1>1, <2>f, <3>1, Zenon
      <3> QED BY <3>1, <3>2, <3>3
    <2>3. TypeOK'
      BY <1>t, <2>1, <2>b, <2>2 DEF StreamInv, TypeOK
    <2>4. Stages'
      BY <1>0, <1>1, <1>2, <2>1, <2>a, <2>2, SMTT(30)
      DEF Stages, Run
    <2>5. Backpressure'
      <3>1. /\ Len(rbuf') <= HighWaterMark /\ unpushed' = <<>>
            /\ Len(unpushed') < MaxChunk /\ Len(unpushed') = 0
            /\ Len(chunk') < MaxChunk
        BY <1>1, <1>2, <1>6, <1>b, <2>1, <2>2
      <3> QED BY <1>2, <1>b, <2>b, <3>1 DEF Backpressure
    <2> QED BY <1>f, <1>4, <2>3, <2>4, <2>5 DEF StreamInv
  <1>7. CASE ~canPush
    <2>1. /\ unpushed' = Append(unpushed, m)
          /\ UNCHANGED <<rbuf, delivered, reading, canPush, h2Flow>>
          /\ m = d + r + u + 1
      BY <1>0, <1>2, <1>7 DEF tryPush
    <2>2. /\ unpushed' \in Seq(1..N) /\ Len(unpushed') = u + 1
          /\ Run(unpushed', d + r)
      <3>0. d + r \in Nat
        BY <1>1
      <3>1. /\ Append(unpushed, m) \in Seq(1..N)
            /\ Len(Append(unpushed, m)) = u + 1
            /\ Run(Append(unpushed, m), d + r)
        BY <1>1, <1>2, <2>1, <3>0, RunAppend
      <3> QED BY <2>1, <3>1
    <2>3. TypeOK'
      BY <1>t, <2>1, <2>2 DEF StreamInv, TypeOK
    <2>4. Stages'
      BY <1>0, <1>1, <1>2, <2>1, <2>2, SMTT(30)
      DEF Stages, Run
    <2>5. Backpressure'
      BY <1>0, <1>1, <1>2, <1>7, <1>b, <2>1, <2>2, SMTT(30)
      DEF StreamInv, Backpressure
    <2> QED BY <1>f, <1>4, <2>3, <2>4, <2>5 DEF StreamInv
  <1> QED BY <1>5, <1>6, <1>7

(* So does the 'end' of the http2 stream.                                  *)
LEMMA EndInv ==
    ASSUME StreamInv, End
    PROVE  StreamInv'
  <1>f. ReadStep /\ StatusInv' /\ WriteInv' /\ Broken' = Broken /\ N' = N
        /\ UNCHANGED endVars
    BY ReadStepFrame DEF ReadStep
  <1>0. /\ chunk = <<>> /\ attached = "yes" /\ (received = N \/ Broken)
        /\ h2Ended # "emitted" /\ h2Ended' = "emitted"
        /\ UNCHANGED <<received, chunk, canPush, rbuf, unpushed, pendingRead,
                       flowing, h2Flow, delivered, endEmitted>>
        /\ \/ /\ unpushed = <<>> /\ rEnded' = TRUE /\ reading' = FALSE
              /\ UNCHANGED unpushedEnd
           \/ /\ unpushed # <<>> /\ unpushedEnd' = TRUE
              /\ UNCHANGED <<rEnded, reading>>
    BY DEF End, HandlerDone, pushEnd
  <1>1. TypeOK'
    <2>1. /\ unpushedEnd' \in BOOLEAN /\ rEnded' \in BOOLEAN
          /\ reading' \in BOOLEAN /\ h2Ended' \in {"no", "scheduled", "emitted"}
      BY <1>0 DEF StreamInv, TypeOK
    <2> QED BY <1>f, <1>0, <2>1, ReadTypes DEF StreamInv, TypeOK
  <1>2. Stages' /\ Backpressure'
    BY <1>0 DEF StreamInv, Stages, Backpressure
  <1>3. BeforeAttach' /\ EndSeen'
    <2>1. ~unpushedEnd /\ ~rEnded /\ ~endEmitted
      BY <1>0 DEF StreamInv, EndSeen
    <2> QED BY <1>f, <1>0, <2>1 DEF BeforeAttach, EndSeen, endVars
  <1> QED BY <1>f, <1>1, <1>2, <1>3 DEF StreamInv

(* So do the call's own 'end', pause() and resume().                       *)
LEMMA FlowSwitchInv ==
    ASSUME StreamInv, FlowEnd \/ Pause \/ Resume
    PROVE  StreamInv'
  <1>f. ReadStep /\ StatusInv' /\ WriteInv' /\ Broken' = Broken /\ N' = N
        /\ UNCHANGED endVars
    BY ReadStepFrame DEF ReadStep
  <1>0. /\ UNCHANGED <<received, chunk, canPush, rbuf, unpushed, unpushedEnd,
                       reading, rEnded, pendingRead, h2Flow, h2Ended,
                       delivered>>
        /\ flowing' \in BOOLEAN
        /\ UNCHANGED endEmitted \/ (endEmitted' = TRUE /\ rEnded /\ rbuf = <<>>)
    BY DEF FlowEnd, Pause, Resume, bufVars, StreamInv, TypeOK
  <1>1. TypeOK'
    <2>1. endEmitted' \in BOOLEAN
      BY <1>0 DEF StreamInv, TypeOK
    <2> QED BY <1>f, <1>0, <2>1, ReadTypes DEF StreamInv, TypeOK
  <1>2. Stages' /\ Backpressure'
    BY <1>0 DEF StreamInv, Stages, Backpressure
  <1>3. BeforeAttach' /\ EndSeen'
    BY <1>f, <1>0 DEF StreamInv, BeforeAttach, EndSeen, endVars
  <1> QED BY <1>f, <1>1, <1>2, <1>3 DEF StreamInv

(* How much _read() pushes: at least one message, all of them unless it    *)
(* stops at the highWaterMark.                                             *)
LEMMA ReadPushes ==
    ASSUME StreamInv
    PROVE  /\ _readPushes \in 0..Len(unpushed)
           /\ Len(rbuf) < HighWaterMark =>
                 Len(rbuf) + _readPushes <= HighWaterMark
           /\ Len(rbuf) = HighWaterMark => _readPushes <= 1
           /\ ~_readStops => /\ _readPushes = Len(unpushed)
                             /\ \/ unpushed = <<>>
                                \/ Len(rbuf) + Len(unpushed) < HighWaterMark
  <1>1. /\ Len(rbuf) \in Nat /\ Len(unpushed) \in Nat
        /\ HighWaterMark \in Nat \ {0}
        /\ unpushed = <<>> <=> Len(unpushed) = 0
    BY Lengths, StreamAssumption
  <1> QED BY <1>1 DEF _readPushes, _readStops

(* Node's part of a read(): what _read() leaves in the buffer, before the  *)
(* application takes a message, and what it leaves kept back.              *)
LEMMA ReadFills ==
    ASSUME StreamInv,
           IF WantsRead THEN _read
           ELSE UNCHANGED <<unpushed, unpushedEnd, reading, rEnded, h2Flow,
                            pendingRead>>
    PROVE  /\ readBuf \in Seq(1..N) /\ unpushed' \in Seq(1..N)
           /\ Len(readBuf) \in Nat /\ Len(unpushed') \in Nat
           /\ Run(readBuf, Len(delivered))
           /\ Run(unpushed', Len(delivered) + Len(readBuf))
           /\ Len(readBuf) + Len(unpushed') = Len(rbuf) + Len(unpushed)
           /\ Len(unpushed') < MaxChunk
           /\ unpushedEnd' \in BOOLEAN /\ reading' \in BOOLEAN
           /\ rEnded' \in BOOLEAN /\ h2Flow' \in BOOLEAN
           /\ pendingRead' \in BOOLEAN
           /\ unpushedEnd' => h2Ended = "emitted"
           /\ rEnded' => /\ h2Ended = "emitted" /\ unpushed' = <<>>
                         /\ ~unpushedEnd'
           /\ rEnded => rEnded' /\ readBuf = rbuf
           /\ attached # "yes" => h2Flow' = h2Flow
           /\ Len(readBuf) <= HighWaterMark + 1
           /\ Len(rbuf) < HighWaterMark => Len(readBuf) <= HighWaterMark
           /\ h2Flow' => unpushed' = <<>> /\ Len(readBuf) <= HighWaterMark
           /\ h2Flow' /\ Len(rbuf) < HighWaterMark =>
                 Len(readBuf) < HighWaterMark
  <1>0. /\ delivered \in Seq(1..N) /\ rbuf \in Seq(1..N)
        /\ unpushed \in Seq(1..N) /\ N \in Nat
        /\ Len(delivered) \in Nat /\ Len(rbuf) \in Nat /\ Len(unpushed) \in Nat
        /\ Run(rbuf, Len(delivered))
        /\ Run(unpushed, Len(delivered) + Len(rbuf))
        /\ HighWaterMark \in Nat \ {0} /\ MaxChunk \in Nat
        /\ unpushed = <<>> <=> Len(unpushed) = 0
        /\ Len(unpushed) < MaxChunk /\ Len(rbuf) <= HighWaterMark
        /\ h2Flow => Len(rbuf) < HighWaterMark /\ unpushed = <<>>
    BY Lengths, StreamAssumption DEF StreamInv, Stages, TypeOK, Backpressure
  <1>e. /\ unpushedEnd => h2Ended = "emitted"
        /\ rEnded => h2Ended = "emitted" /\ unpushed = <<>> /\ ~unpushedEnd
        /\ unpushedEnd \in BOOLEAN /\ rEnded \in BOOLEAN /\ h2Flow \in BOOLEAN
        /\ pendingRead \in BOOLEAN /\ reading \in BOOLEAN
    BY DEF StreamInv, EndSeen, TypeOK
  <1>1. CASE ~(WantsRead /\ attached = "yes")
    <2>1. readBuf = rbuf
      BY <1>1 DEF readBuf
    <2>2. /\ UNCHANGED <<unpushed, unpushedEnd, rEnded, h2Flow>>
          /\ reading' \in BOOLEAN /\ pendingRead' \in BOOLEAN
      BY <1>1, <1>e DEF _read
    <2> QED BY <1>0, <1>e, <2>1, <2>2
  <1>2. CASE WantsRead /\ attached = "yes"
    <2> DEFINE k == _readPushes
    <2>0. _readAttached /\ UNCHANGED pendingRead /\ readBuf = _readBuf
          /\ ~rEnded
      BY <1>2 DEF _read, readBuf, WantsRead
    <2>1. /\ k \in 0..Len(unpushed)
          /\ Len(rbuf) < HighWaterMark => Len(rbuf) + k <= HighWaterMark
          /\ Len(rbuf) = HighWaterMark => k <= 1
          /\ ~_readStops => /\ k = Len(unpushed)
                            /\ \/ unpushed = <<>>
                               \/ Len(rbuf) + Len(unpushed) < HighWaterMark
      BY ReadPushes
    <2> HIDE DEF k
    <2> DEFINE first == SubSeq(unpushed, 1, k)
               rest == SubSeq(unpushed, k + 1, Len(unpushed))
               base == Len(delivered) + Len(rbuf)
    <2>2. /\ base \in Nat /\ Run(unpushed, base) /\ unpushed \in Seq(1..N)
          /\ N \in Nat /\ k \in Nat /\ k <= Len(unpushed)
      BY <1>0, <2>1
    <2> HIDE DEF base
    <2>3. /\ first \in Seq(1..N) /\ Len(first) = k /\ Run(first, base)
          /\ rest \in Seq(1..N) /\ Len(rest) = Len(unpushed) - k
          /\ Run(rest, base + k)
      <3> DEFINE S == 1..N
      <3>1. unpushed \in Seq(S)
        BY <2>2
      <3> HIDE DEF S
      <3>2. /\ SubSeq(unpushed, 1, k) \in Seq(S)
            /\ Len(SubSeq(unpushed, 1, k)) = k
            /\ Run(SubSeq(unpushed, 1, k), base)
            /\ SubSeq(unpushed, k + 1, Len(unpushed)) \in Seq(S)
            /\ Len(SubSeq(unpushed, k + 1, Len(unpushed))) = Len(unpushed) - k
            /\ Run(SubSeq(unpushed, k + 1, Len(unpushed)), base + k)
        BY ONLY <2>2, <3>1, RunCut
      <3> QED BY <3>2, Zenon DEF S
    <2> HIDE DEF first, rest
    <2>4. readBuf = rbuf \o first /\ unpushed' = rest
      BY <2>0 DEF _readBuf, _readAttached, first, rest, k
    <2>5. Run(first, Len(delivered) + Len(rbuf))
      BY <2>3 DEF base
    <2>6. /\ readBuf \in Seq(1..N) /\ Len(readBuf) = Len(rbuf) + k
          /\ Run(readBuf, Len(delivered))
      <3>1. /\ rbuf \o first \in Seq(1..N)
            /\ Len(rbuf \o first) = Len(rbuf) + Len(first)
            /\ Run(rbuf \o first, Len(delivered))
        BY ONLY <1>0, <2>3, <2>5, RunConcat, Zenon
      <3> QED BY <2>3, <2>4, <3>1
    <2>7. Run(unpushed', Len(delivered) + Len(readBuf))
      <3>1. base + k = Len(delivered) + Len(readBuf)
        BY <1>0, <2>1, <2>6 DEF base
      <3> QED BY <2>3, <2>4, <3>1
    <2>8. /\ Len(unpushed') = Len(unpushed) - k /\ unpushed' \in Seq(1..N)
          /\ unpushed' = <<>> <=> Len(unpushed') = 0
      BY <1>0, <2>3, <2>4, EmptySeq
    <2>9. /\ Len(readBuf) \in Nat /\ Len(unpushed') \in Nat
          /\ Len(readBuf) + Len(unpushed') = Len(rbuf) + Len(unpushed)
          /\ Len(unpushed') < MaxChunk
          /\ Len(readBuf) <= HighWaterMark + 1
          /\ Len(rbuf) < HighWaterMark => Len(readBuf) <= HighWaterMark
      <3>1. k \in Nat /\ k <= Len(unpushed) /\ Len(readBuf) = Len(rbuf) + k
            /\ Len(unpushed') = Len(unpushed) - k
        BY <1>0, <2>1, <2>6, <2>8
      <3>2. /\ Len(rbuf) \in Nat /\ Len(unpushed) \in Nat
            /\ Len(unpushed) < MaxChunk /\ Len(rbuf) <= HighWaterMark
            /\ HighWaterMark \in Nat /\ MaxChunk \in Nat
        BY <1>0
      <3>3. /\ Len(rbuf) < HighWaterMark => Len(rbuf) + k <= HighWaterMark
            /\ Len(rbuf) = HighWaterMark => k <= 1
        BY <2>1
      <3> QED BY ONLY <3>1, <3>2, <3>3
    <2>10. CASE _readStops
      <3>1. UNCHANGED <<unpushedEnd, rEnded, h2Flow>> /\ reading' = FALSE
            /\ unpushed # <<>>
        BY <2>0, <2>10 DEF _readAttached, _readStops
      <3> QED BY <1>0, <1>e, <2>0, <2>4, <2>6, <2>7, <2>8, <2>9, <3>1
    <2>11. CASE ~_readStops
      <3>1. unpushed' = <<>>
        BY <1>0, <2>1, <2>8, <2>11
      <3>2. \/ /\ unpushedEnd /\ unpushedEnd' = FALSE /\ rEnded' = TRUE
               /\ reading' = FALSE /\ UNCHANGED h2Flow
            \/ /\ h2Flow' = TRUE /\ UNCHANGED <<unpushedEnd, rEnded>>
               /\ reading' \in BOOLEAN
        BY <2>0, <2>11 DEF _readAttached
      <3>3. /\ Len(readBuf) <= HighWaterMark
            /\ Len(rbuf) < HighWaterMark => Len(readBuf) < HighWaterMark
        <4>1. /\ Len(rbuf) \in Nat /\ Len(rbuf) <= HighWaterMark
              /\ HighWaterMark \in Nat /\ Len(readBuf) = Len(rbuf) + k
              /\ k = Len(unpushed)
              /\ Len(unpushed) = 0 \/ Len(rbuf) + Len(unpushed) < HighWaterMark
          BY <1>0, <2>1, <2>6, <2>11, EmptySeq
        <4> QED BY ONLY <4>1
      <3>4. /\ unpushedEnd' \in BOOLEAN /\ reading' \in BOOLEAN
            /\ rEnded' \in BOOLEAN /\ h2Flow' \in BOOLEAN
            /\ pendingRead' \in BOOLEAN
            /\ unpushedEnd' => h2Ended = "emitted"
            /\ rEnded' => h2Ended = "emitted" /\ ~unpushedEnd'
        <4>1. CASE unpushedEnd' = FALSE /\ rEnded' = TRUE /\ unpushedEnd
          BY <1>e, <2>0, <3>2, <4>1
        <4>2. CASE UNCHANGED <<unpushedEnd, rEnded>>
          BY <1>e, <2>0, <3>2, <4>2
        <4> QED BY <3>2, <4>1, <4>2
      <3> QED BY <1>2, <2>0, <2>6, <2>7, <2>8, <2>9, <3>1, <3>3, <3>4
    <2> QED BY <2>10, <2>11
  <1> QED BY <1>1, <1>2

(* So does a read(), by the application or by Node.                        *)
LEMMA ReadInv ==
    ASSUME StreamInv, Flow \/ ReadMore
    PROVE  StreamInv'
  <1>f. ReadStep /\ StatusInv' /\ WriteInv' /\ Broken' = Broken /\ N' = N
        /\ UNCHANGED endVars
    BY ReadStepFrame DEF ReadStep
  <1> DEFINE b == readBuf
  <1>0. /\ chunk = <<>>
        /\ UNCHANGED <<received, chunk, canPush, flowing, h2Ended, endEmitted>>
        /\ IF WantsRead THEN _read
           ELSE UNCHANGED <<unpushed, unpushedEnd, reading, rEnded, h2Flow,
                            pendingRead>>
        /\ \/ /\ b # <<>> /\ rbuf' = Tail(b)
              /\ delivered' = Append(delivered, Head(b))
           \/ /\ rbuf' = b /\ UNCHANGED delivered
              /\ b = <<>> \/ Len(rbuf) < HighWaterMark
    BY DEF Flow, ReadMore, read, HandlerDone
  <1>1. /\ b \in Seq(1..N) /\ unpushed' \in Seq(1..N)
        /\ Len(b) \in Nat /\ Len(unpushed') \in Nat
        /\ Run(b, Len(delivered)) /\ Run(unpushed', Len(delivered) + Len(b))
        /\ Len(b) + Len(unpushed') = Len(rbuf) + Len(unpushed)
    BY <1>0, ReadFills
  <1>2. /\ Len(unpushed') < MaxChunk
        /\ Len(b) <= HighWaterMark + 1
        /\ Len(rbuf) < HighWaterMark => Len(b) <= HighWaterMark
        /\ h2Flow' => unpushed' = <<>> /\ Len(b) <= HighWaterMark
        /\ h2Flow' /\ Len(rbuf) < HighWaterMark => Len(b) < HighWaterMark
    BY <1>0, ReadFills
  <1>3. /\ unpushedEnd' \in BOOLEAN /\ reading' \in BOOLEAN
        /\ rEnded' \in BOOLEAN /\ h2Flow' \in BOOLEAN
        /\ pendingRead' \in BOOLEAN
        /\ unpushedEnd' => h2Ended = "emitted"
        /\ rEnded' => /\ h2Ended = "emitted" /\ unpushed' = <<>>
                      /\ ~unpushedEnd'
        /\ rEnded => rEnded' /\ b = rbuf
        /\ attached # "yes" => h2Flow' = h2Flow
    BY <1>0, ReadFills
  <1> HIDE DEF b
  <1>4. /\ delivered \in Seq(1..N) /\ Len(delivered) \in Nat
        /\ Len(rbuf) \in Nat /\ Len(unpushed) \in Nat
        /\ received = Len(delivered) + Len(rbuf) + Len(unpushed)
        /\ HighWaterMark \in Nat /\ HighWaterMark > 0 /\ N \in Nat
        /\ MaxChunk \in Nat
        /\ Run(delivered, 0) /\ chunk = <<>> /\ Len(chunk) = 0
    BY <1>0, Lengths, StreamAssumption DEF StreamInv, Stages, TypeOK
  <1>u. received' = Len(delivered) + Len(b) + Len(unpushed') /\ Len(chunk') = 0
    <2>1. received' = received /\ Len(chunk') = 0
      BY <1>0, <1>4
    <2>2. /\ Len(b) \in Nat /\ Len(unpushed') \in Nat /\ Len(delivered) \in Nat
          /\ Len(rbuf) \in Nat /\ Len(unpushed) \in Nat
          /\ Len(b) + Len(unpushed') = Len(rbuf) + Len(unpushed)
      BY <1>1, <1>4, Zenon
    <2>3. Len(delivered) + Len(rbuf) + Len(unpushed)
             = Len(delivered) + Len(b) + Len(unpushed')
      BY ONLY <2>2
    <2> QED BY <1>4, <2>1, <2>3, Zenon
  <1>t. ASSUME rbuf' \in Seq(1..N), delivered' \in Seq(1..N)
        PROVE  TypeOK'
    BY <1>f, <1>t, <1>0, <1>1, <1>3, ReadTypes DEF StreamInv, TypeOK
  <1>e. ASSUME endEmitted => rbuf' = <<>>
        PROVE  BeforeAttach' /\ EndSeen'
    BY <1>f, <1>e, <1>0, <1>3 DEF StreamInv, BeforeAttach, EndSeen, endVars
  <1>n. endEmitted => rEnded /\ rbuf = <<>>
    BY DEF StreamInv, EndSeen
  <1>5. CASE /\ b # <<>> /\ rbuf' = Tail(b)
             /\ delivered' = Append(delivered, Head(b))
    <2>1. /\ Head(b) \in 1..N /\ Head(b) = Len(delivered) + 1
          /\ rbuf' \in Seq(1..N) /\ Len(rbuf') = Len(b) - 1
          /\ Run(rbuf', Len(delivered) + 1) /\ Len(b) \in Nat \ {0}
      <3> DEFINE S == 1..N
      <3>1. b \in Seq(S) /\ Len(delivered) \in Nat /\ Run(b, Len(delivered))
            /\ b # <<>>
        BY <1>1, <1>4, <1>5, Zenon
      <3> HIDE DEF S
      <3>2. /\ Head(b) \in S /\ Tail(b) \in Seq(S)
            /\ Head(b) = Len(delivered) + 1
            /\ Len(Tail(b)) = Len(b) - 1 /\ Len(b) \in Nat \ {0}
            /\ Run(Tail(b), Len(delivered) + 1)
        BY ONLY <3>1, RunHeadTail, Zenon
      <3> QED BY <1>5, <3>2, Zenon DEF S
    <2>2. /\ delivered' \in Seq(1..N) /\ Len(delivered') = Len(delivered) + 1
          /\ Run(delivered', 0)
      BY <1>4, <1>5, <2>1, AppendProperties DEF Run
    <2>3. TypeOK'
      BY <1>t, <2>1, <2>2
    <2>4. Stages'
      <3>1. /\ Len(delivered') + Len(rbuf') = Len(delivered) + Len(b)
            /\ received' = Len(delivered') + Len(rbuf') + Len(unpushed')
                              + Len(chunk')
        <4>1. Len(delivered') + Len(rbuf') = Len(delivered) + Len(b)
          BY <1>1, <1>4, <2>1, <2>2
        <4> QED BY <1>1, <1>u, <4>1
      <3>2. Run(unpushed', Len(delivered') + Len(rbuf'))
        BY <1>1, <3>1
      <3>3. Run(rbuf', Len(delivered'))
        BY <2>1, <2>2
      <3>4. Run(chunk', Len(delivered') + Len(rbuf') + Len(unpushed'))
        BY <1>0, <1>4 DEF Run
      <3> QED BY <2>2, <3>1, <3>2, <3>3, <3>4 DEF Stages
    <2>5. BeforeAttach' /\ EndSeen'
      BY <1>e, <1>n, <1>3, <1>5
    <2>6. Backpressure'
      BY <1>0, <1>1, <1>2, <1>4, <2>1 DEF Backpressure
    <2> QED BY <1>f, <2>3, <2>4, <2>5, <2>6 DEF StreamInv
  <1>6. CASE /\ rbuf' = b /\ UNCHANGED delivered
             /\ b = <<>> \/ Len(rbuf) < HighWaterMark
    <2>1. TypeOK'
      BY <1>t, <1>1, <1>4, <1>6
    <2>2. Stages'
      <3>1. Run(chunk', Len(delivered') + Len(rbuf') + Len(unpushed'))
        BY <1>0, <1>4 DEF Run
      <3>2. received' = Len(delivered') + Len(rbuf') + Len(unpushed')
                           + Len(chunk')
        BY <1>1, <1>4, <1>6, <1>u
      <3> QED BY <1>1, <1>4, <1>6, <3>1, <3>2 DEF Stages, Run
    <2>3. BeforeAttach' /\ EndSeen'
      BY <1>e, <1>n, <1>3, <1>6
    <2>4. Backpressure'
      <3>1. b = <<>> => Len(b) = 0
        OBVIOUS
      <3> QED BY <1>0, <1>1, <1>2, <1>4, <1>6, <3>1, SMTT(30)
          DEF Backpressure
    <2> QED BY <1>f, <2>1, <2>2, <2>3, <2>4 DEF StreamInv
  <1> QED BY <1>0, <1>5, <1>6

-----------------------------------------------------------------------------
(* Every step keeps the invariant.                                         *)
LEMMA NextInv == StreamInv /\ [Next]_vars => StreamInv'
  <1> SUFFICES ASSUME StreamInv, [Next]_vars PROVE StreamInv'
    OBVIOUS
  <1>1. ASSUME UNCHANGED vars PROVE StreamInv'
    <2> USE <1>1 DEF vars, fixed, endVars, readVars, bufVars, writeVars
    <2>1. TypeOK'
      BY DEF StreamInv, TypeOK, N, M
    <2>2. Stages' /\ BeforeAttach' /\ Backpressure'
      BY DEF StreamInv, Stages, BeforeAttach, Backpressure, Run
    <2>3. EndSeen' /\ StatusInv'
      BY DEF StreamInv, EndSeen, StatusInv, OKOnlyFromServer,
         CancelledIsReset, Broken, N
    <2>4. WriteInv'
      BY DEF StreamInv, WriteInv, Acked, Run
    <2> QED BY <2>1, <2>2, <2>3, <2>4 DEF StreamInv
  <1> QED
    BY <1>1, EndStepInv, WriteStepInv, AttachInv, DataInv, DataMessageInv,
       EndInv, FlowSwitchInv, ReadInv
    DEF Next, EndStep, WriteStep

(* The state machine of Http2CallStream keeps the inductive invariant.     *)
THEOREM StreamInvariant == Spec => []StreamInv
  BY InitInv, NextInv, PTL DEF Spec

(* Type correctness of the call's state.                                   *)
THEOREM TypeCorrect == Spec => []TypeOK
  <1>1. StreamInv => TypeOK
    BY DEF StreamInv
  <1> QED BY <1>1, StreamInvariant, PTL

(* The application is handed every message once and in order, however it   *)
(* pauses and resumes inside and outside the 'data' handler, and push() is *)
(* never called after push(null).                                          *)
THEOREM ReadsInOrder == Spec => []DeliveryInOrder
  <1>1. ASSUME StreamInv PROVE DeliveryInOrder
    <2>1. /\ delivered \in Seq(1..N) /\ rbuf \in Seq(1..N)
          /\ unpushed \in Seq(1..N) /\ chunk \in Seq(1..N) /\ N \in Nat
          /\ Run(delivered, 0) /\ Run(rbuf, Len(delivered))
          /\ Run(unpushed, Len(delivered) + Len(rbuf))
          /\ Run(chunk, Len(delivered) + Len(rbuf) + Len(unpushed))
          /\ Len(delivered) \in Nat /\ Len(rbuf) \in Nat
          /\ Len(unpushed) \in Nat
      BY <1>1, Lengths DEF StreamInv, Stages, TypeOK
    <2> DEFINE q1 == delivered \o rbuf
               q2 == q1 \o unpushed
               q3 == q2 \o chunk
    <2>2. /\ q1 \in Seq(1..N) /\ Len(q1) = Len(delivered) + Len(rbuf)
          /\ Run(q1, 0)
      <3>1. Run(rbuf, 0 + Len(delivered))
        BY <2>1
      <3> QED BY <2>1, <3>1, RunConcat
    <2> HIDE DEF q1
    <2>3. /\ q2 \in Seq(1..N) /\ Len(q2) = Len(q1) + Len(unpushed)
          /\ Run(q2, 0)
      <3>1. Run(unpushed, 0 + Len(q1))
        BY <2>1, <2>2
      <3> QED BY <2>1, <2>2, <3>1, RunConcat
    <2> HIDE DEF q2
    <2>4. /\ q3 \in Seq(1..N) /\ Len(q3) = Len(q2) + Len(chunk)
          /\ Run(q3, 0)
      <3>1. Run(chunk, 0 + Len(q2))
        BY <2>1, <2>2, <2>3
      <3> QED BY <2>1, <2>3, <3>1, RunConcat
    <2> HIDE DEF q3
    <2>5. q3 = Upto(received)
      <3>1. Len(q3) = received
        BY <1>1, <2>1, <2>2, <2>3, <2>4, Lengths
      <3> QED BY <2>1, <2>4, <3>1, RunUpto
    <2> QED BY <1>1, <2>5 DEF DeliveryInOrder, q1, q2, q3, StreamInv, EndSeen
  <1> QED BY <1>1, StreamInvariant, PTL

(* Backpressure: what the call keeps back and what Node buffers for it is  *)
(* bounded by the size of one 'data' event and by the highWaterMark.       *)
THEOREM ReadsBounded == Spec => []BacklogBounded
  <1>1. StreamInv => BacklogBounded
    BY DEF StreamInv, Backpressure, BacklogBounded, HandlerDone
  <1> QED BY <1>1, StreamInvariant, PTL

(* What reaches the http2 stream is what was written, in order and once,   *)
(* and the half-close comes last, whenever the stream is attached.         *)
THEOREM WritesInOrder == Spec => []WireInOrder
  <1>1. ASSUME StreamInv PROVE WireInOrder
    <2>1. /\ wire \in Seq(1..M) /\ M \in Nat /\ Run(wire, 0)
          /\ Len(wire) \in Nat /\ Len(wq) \in Nat /\ written \in Nat
          /\ wq = <<>> <=> Len(wq) = 0
      BY <1>1, Lengths, LenProperties, EmptySeq DEF StreamInv, WriteInv, TypeOK
    <2>2. wire = Upto(Len(wire))
      BY <2>1, RunUpto
    <2>3. Len(wire) \in 0..written
      <3>1. CASE attached = "yes"
        BY <1>1, <2>1, <3>1 DEF StreamInv, WriteInv, Acked
      <3>2. CASE attached # "yes"
        BY <1>1, <2>1, <3>2 DEF StreamInv, WriteInv
      <3> QED BY <3>1, <3>2
    <2>4. ASSUME wireEnd PROVE ending /\ Len(wire) = written
      <3>1. ending /\ wq = <<>> /\ attached = "yes" /\ ~writing
        BY <1>1, <2>4 DEF StreamInv, WriteInv
      <3> QED BY <1>1, <2>1, <3>1 DEF StreamInv, WriteInv, Acked
    <2> QED BY <2>2, <2>3, <2>4 DEF WireInOrder
  <1> QED BY <1>1, StreamInvariant, PTL

(* No handler, local failure or close code turns into an OK.               *)
THEOREM OKIsTheServers == Spec => []OKOnlyFromServer
  <1>1. StreamInv => OKOnlyFromServer
    BY DEF StreamInv, StatusInv
  <1> QED BY <1>1, StreamInvariant, PTL

(* A cancelled call leaves no stream behind that was not reset, whether    *)
(* the stream came before the cancellation or after.                       *)
THEOREM CancelledCallsReset == Spec => []CancelledIsReset
  <1>1. StreamInv => CancelledIsReset
    BY DEF StreamInv, StatusInv
  <1> QED BY <1>1, StreamInvariant, PTL

-----------------------------------------------------------------------------
(* The refinement of CallStream.                                           *)

(* The abstract state: what client.ts and call.ts can see of a call.       *)
Visible == <<N, flowing, steady, Len(delivered), endEmitted, finalStatus,
             Broken>>

(* A call starts as a CallStream starts.                                   *)
LEMMA InitRefines == Init => Abstract!CSInit
  <1> SUFFICES ASSUME Init PROVE Abstract!CSInit
    OBVIOUS
  <1>1. N \in Nat
    BY ScenarioType DEF Init
  <1>2. ~Broken
    BY DEF Init, Broken
  <1>3. Len(delivered) = 0
    BY DEF Init
  <1> QED BY <1>1, <1>2, <1>3 DEF Init, Abstract!CSInit, Broken

(* A step that sets the status is the abstract step that does; if it       *)
(* resets or closes the stream as well, that step breaks the stream.       *)
LEMMA StatusRefines ==
    ASSUME StreamInv, NEW code \in Status, NEW by, endCall(code, by),
           code = "OK" => (steady => endEmitted),
           Broken => Broken', Broken' \in BOOLEAN, Broken \in BOOLEAN,
           UNCHANGED <<N, flowing, steady, Len(delivered), endEmitted>>
    PROVE  Abstract!CSNext \/ UNCHANGED Visible
  <1>0. NULL \notin Status
    BY CodesNotOK
  <1>1. CASE finalStatus = NULL
    <2>1. finalStatus' = code
      BY <1>1 DEF endCall
    <2>2. Abstract!SetStatus(code)
      BY <1>1, <2>1 DEF Abstract!SetStatus
    <2>3. Abstract!Break \/ UNCHANGED Broken
      BY <1>0, <2>1 DEF Abstract!Break
    <2> QED BY <2>2, <2>3 DEF Abstract!CSNext
  <1>2. CASE finalStatus # NULL
    <2>1. finalStatus' = finalStatus
      BY <1>2 DEF endCall, statusVars
    <2>2. CASE Broken' = Broken
      BY <2>1, <2>2 DEF Visible
    <2>3. CASE Broken' # Broken
      <3>1. Abstract!Break
        BY <1>2, <2>1, <2>3 DEF Abstract!Break
      <3> QED BY <2>1, <3>1 DEF Abstract!CSNext
    <2> QED BY <2>2, <2>3
  <1> QED BY <1>1, <1>2

(* The steps of the call's end.                                            *)
LEMMA EndStepRefines ==
    ASSUME StreamInv, EndStep
    PROVE  Abstract!CSNext \/ UNCHANGED Visible
  <1>0. /\ UNCHANGED <<fixed, attached, readVars, writeVars>>
        /\ Broken => Broken'
    BY EndStepFrame
  <1>1. UNCHANGED <<N, flowing, steady, Len(delivered), endEmitted>>
    BY <1>0 DEF N, fixed, readVars
  <1>2. Broken \in BOOLEAN /\ Broken' \in BOOLEAN
    BY EndStepStatus DEF Broken, StreamInv, TypeOK
  <1>3. /\ "UNKNOWN" \in Status /\ "INTERNAL" \in Status
        /\ "CANCELLED" \in Status /\ "DEADLINE_EXCEEDED" \in Status
    BY DEF Status
  <1>s. ASSUME NEW code \in Status, NEW by, endCall(code, by),
               code = "OK" => (steady => endEmitted)
        PROVE  Abstract!CSNext \/ UNCHANGED Visible
    BY <1>s, <1>0, <1>1, <1>2, StatusRefines
  <1>4. CASE Cancel
    <2>1. PICK code \in {"CANCELLED", "DEADLINE_EXCEEDED"} :
             endCall(code, "cancel")
      BY <1>4 DEF Cancel, cancelWithStatus
    <2> QED BY <1>3, <1>s, <2>1
  <1>5. CASE Response
    <2>1. CASE UNCHANGED <<statusVars, rst>>
      BY <1>1, <1>5, <2>1 DEF Response, statusVars, Broken, Visible
    <2>2. CASE cancelWithStatus("UNKNOWN", "metadata")
      <3>1. endCall("UNKNOWN", "metadata")
        BY <2>2 DEF cancelWithStatus
      <3> QED BY <1>3, <1>s, <3>1
    <2> QED BY <1>5, <2>1, <2>2 DEF Response
  <1>6. CASE Trailers
    BY <1>1, <1>6 DEF Trailers, statusVars, Broken, Visible
  <1>7. CASE TrailersThen
    <2>1. /\ trailersThen \in Status
          /\ steady => endEmitted
          /\ endCall(trailersThen, "trailers")
      BY <1>7 DEF TrailersThen, StreamInv, TypeOK
    <2> QED BY <1>s, <2>1
  <1>8. CASE StreamClosed
    <2>1. PICK e \in scenario.close : endCall(mapCloseCode(e), "closed")
      BY <1>8 DEF StreamClosed, closeEndsCall
    <2>2. mapCloseCode(e) \in Status /\ mapCloseCode(e) # "OK"
      BY CodesNotOK
    <2> QED BY <1>s, <2>1, <2>2
  <1>9. CASE StreamError
    <2>1. endCall("INTERNAL", "error")
      BY <1>9 DEF StreamError
    <2> QED BY <1>3, <1>s, <2>1
  <1> QED BY <1>4, <1>5, <1>6, <1>7, <1>8, <1>9 DEF EndStep

(* The steps of the readable side: a message handed over, the 'end', a     *)
(* pause or a resumption, or nothing that can be seen.                     *)
LEMMA ReadStepRefines ==
    ASSUME StreamInv, ReadStep
    PROVE  Abstract!CSNext \/ UNCHANGED Visible
  <1>0. /\ Broken' = Broken /\ N' = N /\ UNCHANGED <<finalStatus, attached>>
    BY ReadStepFrame DEF endVars
  <1>1. /\ Len(delivered) \in Nat /\ N \in Nat /\ delivered \in Seq(1..N)
        /\ endEmitted => rEnded /\ rbuf = <<>>
        /\ rEnded => /\ received = N \/ Broken
                     /\ chunk = <<>> /\ unpushed = <<>>
    BY Lengths DEF StreamInv, EndSeen, TypeOK
  <1>d. ASSUME flowing, ~endEmitted, Len(delivered) < N,
               Len(delivered') = Len(delivered) + 1,
               UNCHANGED <<flowing, steady, endEmitted>>
        PROVE  Abstract!CSNext
    <2>1. Abstract!Deliver
      BY <1>d DEF Abstract!Deliver
    <2> QED BY <1>0, <1>d, <2>1 DEF Abstract!CSNext
  <1>2. CASE Data \/ End
    BY <1>0, <1>2 DEF Data, End, fixed, Visible
  <1>3. CASE DataMessage
    <2>1. UNCHANGED <<flowing, steady, endEmitted>> /\ chunk # <<>>
          /\ tryPush(Head(chunk))
      BY <1>3 DEF DataMessage, fixed
    <2>2. CASE UNCHANGED delivered
      BY <1>0, <2>1, <2>2 DEF Visible
    <2>3. CASE flowing /\ delivered' = Append(delivered, Head(chunk))
      <3>1. ~endEmitted
        BY <1>1, <2>1
      <3>2. Len(delivered) < N
        BY <2>1, Lengths
      <3>3. Len(delivered') = Len(delivered) + 1
        BY <1>1, <2>3
      <3> QED BY <1>d, <2>1, <2>3, <3>1, <3>2, <3>3
    <2> QED BY <2>1, <2>2, <2>3 DEF tryPush, pushDelivers
  <1>4. CASE Flow \/ ReadMore
    <2>1. /\ UNCHANGED <<flowing, steady, endEmitted>>
          /\ IF WantsRead THEN _read
             ELSE UNCHANGED <<unpushed, unpushedEnd, reading, rEnded, h2Flow,
                              pendingRead>>
          /\ \/ UNCHANGED delivered
             \/ /\ flowing /\ readBuf # <<>>
                /\ delivered' = Append(delivered, Head(readBuf))
      BY <1>4 DEF Flow, ReadMore, read, fixed
    <2>2. CASE UNCHANGED delivered
      BY <1>0, <2>1, <2>2 DEF Visible
    <2>3. CASE /\ flowing /\ readBuf # <<>>
               /\ delivered' = Append(delivered, Head(readBuf))
      <3>1. /\ rEnded => readBuf = rbuf
            /\ readBuf \in Seq(1..N) /\ Len(unpushed') \in Nat
            /\ Len(readBuf) + Len(unpushed') = Len(rbuf) + Len(unpushed)
        BY <2>1, ReadFills
      <3>2. Len(readBuf) > 0 /\ Len(readBuf) \in Nat
        BY <1>1, <2>3, <3>1, EmptySeq
      <3>3. ~endEmitted
        BY <1>1, <2>3, <3>1
      <3>4. Len(delivered) < N
        <4>1. Len(rbuf) + Len(unpushed) > 0
          BY <3>1, <3>2
        <4> QED BY <4>1, Lengths
      <3>5. Len(delivered') = Len(delivered) + 1
        BY <1>1, <2>3
      <3> QED BY <1>d, <2>1, <2>3, <3>3, <3>4, <3>5
    <2> QED BY <2>1, <2>2, <2>3
  <1>5. CASE FlowEnd
    <2>1. /\ flowing /\ rEnded /\ rbuf = <<>> /\ ~endEmitted
          /\ endEmitted' = TRUE /\ UNCHANGED <<flowing, steady, delivered>>
      BY <1>5 DEF FlowEnd, fixed
    <2>2. Len(delivered) = N \/ Broken
      BY <1>1, <2>1, Lengths
    <2>3. Abstract!EmitEnd
      BY <2>1, <2>2 DEF Abstract!EmitEnd
    <2> QED BY <1>0, <2>1, <2>3 DEF Abstract!CSNext
  <1>6. CASE Pause
    <2>1. /\ flowing /\ flowing' = FALSE
          /\ steady' = (steady /\ attached = "no")
          /\ UNCHANGED <<delivered, endEmitted>>
      BY <1>6 DEF Pause
    <2>2. steady' \in {steady, FALSE}
      BY <2>1 DEF StreamInv, TypeOK
    <2> QED BY <1>0, <2>1, <2>2 DEF Abstract!CSNext, Abstract!Pause
  <1>7. CASE Resume
    <2>1. /\ ~flowing /\ flowing' = TRUE
          /\ UNCHANGED <<steady, delivered, endEmitted>>
      BY <1>7 DEF Resume, fixed
    <2> QED BY <1>0, <2>1 DEF Abstract!CSNext, Abstract!Resume
  <1> QED BY <1>2, <1>3, <1>4, <1>5, <1>6, <1>7 DEF ReadStep

(* Attaching breaks the stream of a call that is over, and otherwise only  *)
(* settles whether the consumer has flowed all along.                      *)
LEMMA AttachRefines ==
    ASSUME StreamInv, attachHttp2Stream
    PROVE  Abstract!CSNext \/ UNCHANGED Visible
  <1>1. /\ UNCHANGED <<N, flowing, Len(delivered), endEmitted, finalStatus>>
        /\ UNCHANGED closeCode /\ attached = "no" /\ steady
    BY DEF attachHttp2Stream, N, statusVars, StreamInv, StatusInv
  <1>2. CASE finalStatus # NULL
    <2>1. rst' = TRUE /\ UNCHANGED steady
      BY <1>2 DEF attachHttp2Stream
    <2>2. Broken' = TRUE
      BY <2>1 DEF Broken
    <2>3. Abstract!Break
      BY <1>1, <1>2, <2>2 DEF Abstract!Break
    <2> QED BY <1>1, <2>1, <2>3 DEF Abstract!CSNext
  <1>3. CASE finalStatus = NULL
    <2>1. UNCHANGED rst /\ steady' = (flowing /\ pendingRead)
      BY <1>3 DEF attachHttp2Stream
    <2>2. Broken' = Broken
      BY <1>1, <2>1 DEF Broken
    <2>3. steady' \in {steady, FALSE}
      BY <1>1, <2>1 DEF StreamInv, TypeOK
    <2> QED BY <1>1, <2>2, <2>3 DEF Abstract!CSNext
  <1> QED BY <1>2, <1>3

(* Every step of the call is a step of its CallStream or cannot be seen.   *)
LEMMA NextRefines ==
    StreamInv /\ [Next]_vars => [Abstract!CSNext]_(Abstract!csVars)
  <1> SUFFICES ASSUME StreamInv, [Next]_vars
               PROVE  Abstract!CSNext \/ UNCHANGED Abstract!csVars
    OBVIOUS
  <1>1. Visible = Abstract!csVars /\ Visible' = Abstract!csVars'
    BY DEF Visible, Abstract!csVars
  <1>2. CASE UNCHANGED vars \/ WriteStep
    BY <1>1, <1>2
    DEF vars, fixed, endVars, readVars, Visible, N, Broken, WriteStep, Write,
        EndWrites, _write, WriteCallback, _final
  <1> QED
    BY <1>1, <1>2, EndStepRefines, ReadStepRefines, AttachRefines
    DEF Next, EndStep, ReadStep, WriteStep

(* Http2CallStream implements CallStream: whatever the server, the http2   *)
(* stream, the application's pauses and cancellations and the write side   *)
(* do, the code above sees messages, 'end' and one status in the order the *)
(* abstract specification allows.                                          *)
THEOREM StreamRefinesCallStream == Spec => Implements
  <1>1. Init => Abstract!CSInit
    BY InitRefines
  <1>2. StreamInv /\ [Next]_vars => [Abstract!CSNext]_(Abstract!csVars)
    BY NextRefines
  <1> QED
    BY <1>1, <1>2, StreamInvariant, PTL DEF Spec, Implements, Abstract!CSSpec
=============================================================================
