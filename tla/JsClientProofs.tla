--------------------------- MODULE JsClientProofs ---------------------------
(***************************************************************************)
(* JsInv is an invariant of JsClient, for requests and answers of any      *)
(* length.  It follows that a unary callback gets the right answer, that a *)
(* request stream is half-closed when it is complete, and that a response  *)
(* stream hands on the messages in order through a buffer that is bounded. *)
(***************************************************************************)
EXTENDS JsClient, SequenceTheorems, TLAPS

-----------------------------------------------------------------------------
(* The inductive invariant.                                                *)

(* What handleUnaryResponse has seen, while the call has no status: no     *)
(* message, or the first one, which parsed.                                *)
Answer ==
    /\ steady
    /\ \/ delivered = 0 /\ responseMessage = 0
       \/ delivered = 1 /\ responseMessage = 1 /\ 1 \notin request.bad
    /\ ended => delivered = total /\ responseMessage # 0

(* The callback was given what the answer was.                             *)
RightCallback ==
    callbacks # <<>> /\ callbacks[1].code = "OK" =>
        total = 1 /\ 1 \notin request.bad /\ callbacks[1].value = 1

AnswerInv ==
    /\ broken => status # NULL
    /\ begun \in {"no", "threw"} => status = NULL /\ ~ended /\ delivered = 0
    /\ Unary => Len(callbacks) = IF begun = "yes" /\ status # NULL THEN 1 ELSE 0
    /\ ~Unary => callbacks = <<>>
    /\ Unary => steady
    /\ Unary /\ status = NULL => Answer
    /\ RightCallback

(* The two halves of the messages a response stream was given: those with  *)
(* the application, and those in the buffer behind them.                   *)
InOrder ==
    /\ delivered = Len(appGot) + Len(obuf)
    /\ \A i \in 1..Len(appGot) : appGot[i] = i
    /\ \A i \in 1..Len(obuf) : obuf[i] = Len(appGot) + i

(* The buffer has its bound, and room for a message while the call flows.  *)
OuterBounded ==
    /\ Len(obuf) <= OuterMark
    /\ ~Unary /\ flowing => Len(obuf) < OuterMark

ReadInv ==
    /\ ~Unary /\ ~broken => InOrder
    /\ Unary => obuf = <<>> /\ appGot = <<>>
    /\ OuterBounded

(* The messages of a request stream: sent, then waiting in Node's buffer,  *)
(* whose first one has been sent while its write is under way.             *)
Writing ==
    /\ Len(wq) <= written
    /\ \A i \in 1..Len(wq) : wq[i] = (written - Len(wq)) + i
    /\ wBusy => Len(sent) = (written - Len(wq)) + 1
    /\ ~wBusy => Len(sent) = written - Len(wq)
    /\ \A i \in 1..Len(sent) : sent[i] = i

WriteInv ==
    /\ ~SendsOne /\ status = NULL => Writing
    /\ wBusy => wq # <<>>
    /\ halfClosed /\ ~SendsOne => wEnding /\ wq = <<>>
    /\ begun # "yes" => ~wEnding /\ wq = <<>> /\ ~halfClosed

JsInv == JsTypeOK /\ AnswerInv /\ ReadInv /\ WriteInv

-----------------------------------------------------------------------------
(* Requests, the start and the frames.                                     *)

(* The numbers of messages are natural numbers.                            *)
LEMMA RequestType ==
    ASSUME JsTypeOK
    PROVE  /\ total \in Nat /\ request.m \in Nat /\ delivered \in Nat
           /\ written \in Nat /\ responseMessage \in Nat
           /\ Len(obuf) \in Nat /\ Len(appGot) \in Nat /\ Len(wq) \in Nat
           /\ Len(sent) \in Nat /\ Len(callbacks) \in Nat
  <1>1. request \in Request
    BY JsClientAssumption DEF JsTypeOK
  <1>2. total \in Nat /\ request.m \in Nat
    BY <1>1 DEF Request, JsTypeOK
  <1>3. delivered \in Nat /\ written \in Nat /\ responseMessage \in Nat
    BY <1>2 DEF JsTypeOK
  <1>4. /\ Len(obuf) \in Nat /\ Len(appGot) \in Nat /\ Len(wq) \in Nat
        /\ Len(sent) \in Nat /\ Len(callbacks) \in Nat
    BY LenProperties DEF JsTypeOK
  <1> QED BY <1>2, <1>3, <1>4

(* No request was made yet.                                                *)
LEMMA InitInv == JsInit => JsInv
  <1> SUFFICES ASSUME JsInit PROVE JsInv
    OBVIOUS
  <1>1. request \in Request /\ request.n \in Nat /\ request.m \in Nat
    BY JsClientAssumption DEF JsInit, Request
  <1>2. Unary \in BOOLEAN
    BY DEF Unary
  <1>3. JsTypeOK
    <2>1. /\ callbacks \in Seq([code : Codes, value : 0..total])
          /\ appStatus \in Seq(AppStatus) /\ obuf \in Seq(1..total)
          /\ appGot \in Seq(1..total) /\ wq \in Seq(1..request.m)
          /\ sent \in Seq(Nat)
      BY EmptySeq DEF JsInit
    <2>2. /\ request \in Requests /\ begun \in {"no", "yes", "threw", "leaked"}
          /\ used = <<>> /\ total = request.n /\ status = NULL
      BY DEF JsInit, CSInit
    <2>3. responseMessage \in 0..total /\ delivered \in 0..total
          /\ written \in 0..request.m
      BY <1>1, <2>2 DEF JsInit, CSInit
    <2>4. /\ oReading \in BOOLEAN /\ oEnded \in BOOLEAN /\ oFlow \in BOOLEAN
          /\ appEnd \in BOOLEAN /\ wBusy \in BOOLEAN
          /\ wEnding \in BOOLEAN /\ halfClosed \in BOOLEAN
          /\ flowing \in BOOLEAN /\ steady \in BOOLEAN /\ ended \in BOOLEAN
          /\ broken \in BOOLEAN
      BY <1>2 DEF JsInit, CSInit
    <2> QED BY <2>1, <2>2, <2>3, <2>4 DEF JsTypeOK
  <1>4. AnswerInv
    BY DEF JsInit, CSInit, AnswerInv, Answer, RightCallback
  <1>5. ReadInv
    BY JsClientAssumption
    DEF JsInit, CSInit, ReadInv, InOrder, OuterBounded
  <1>6. WriteInv
    <2>1. /\ written = 0 /\ wq = <<>> /\ sent = <<>> /\ ~wBusy
          /\ ~wEnding /\ ~halfClosed /\ Len(wq) = 0 /\ Len(sent) = 0
      BY EmptySeq DEF JsInit
    <2>2. Writing
      <3>0. written = 0 /\ Len(wq) = 0 /\ Len(sent) = 0
        BY <2>1
      <3>1. Len(wq) <= written /\ Len(sent) = written - Len(wq)
        BY ONLY <3>0
      <3>2. 1..Len(wq) = {} /\ 1..Len(sent) = {}
        BY ONLY <2>1
      <3> QED BY <2>1, <3>1, <3>2, Zenon DEF Writing
    <2> QED BY <2>1, <2>2 DEF WriteInv
  <1> QED BY <1>3, <1>4, <1>5, <1>6 DEF JsInv

(* Steps that are not about the answer.                                    *)
LEMMA AnswerFrame ==
    ASSUME AnswerInv,
           UNCHANGED <<request, begun, responseMessage, callbacks, total,
                       steady, delivered, ended, status, broken>>
    PROVE  AnswerInv'
  BY DEF AnswerInv, Answer, RightCallback, Unary

(* Steps that are not about the returned Readable.                         *)
LEMMA ReadFrame ==
    ASSUME ReadInv, broken => broken',
           UNCHANGED <<request, obuf, appGot, delivered, flowing>>
    PROVE  ReadInv'
  BY DEF ReadInv, InOrder, OuterBounded, Unary

(* Steps that are not about the returned Writable.                         *)
LEMMA WriteFrame ==
    ASSUME WriteInv, status # NULL => status' # NULL,
           UNCHANGED <<request, begun, written, wq, wBusy, wEnding,
                       sent, halfClosed>>
    PROVE  WriteInv'
  BY DEF WriteInv, Writing, SendsOne

-----------------------------------------------------------------------------
(* The status.                                                             *)

(* The first status of a call is handed on once, and OK only with the one  *)
(* message of the answer.                                                  *)
LEMMA StatusInv ==
    ASSUME JsInv, NEW code \in Codes, begun = "yes", status = NULL,
           code = "OK" /\ Unary => ended,
           status' = code, onStatus(code), UNCHANGED <<request, total>>
    PROVE  /\ callbacks' \in Seq([code : Codes, value : 0..total])
           /\ appStatus' \in Seq(AppStatus) /\ status' # NULL
           /\ Unary => Len(callbacks') = 1
           /\ ~Unary => callbacks' = <<>>
           /\ RightCallback'
  <1>1. /\ JsTypeOK /\ AnswerInv /\ code # NULL /\ total \in Nat
        /\ responseMessage \in 0..total
    BY JsClientAssumption, RequestType DEF JsInv, JsTypeOK
  <1>2. CASE Unary
    <2> DEFINE r == [code |-> code, value |->
                        IF code = "OK" THEN responseMessage ELSE 0]
    <2>1. callbacks' = Append(callbacks, r) /\ UNCHANGED appStatus
      BY <1>2 DEF onStatus
    <2>2. Len(callbacks) = 0 /\ callbacks = <<>>
      BY <1>1, <1>2, EmptySeq DEF AnswerInv, JsTypeOK
    <2>3. r \in [code : Codes, value : 0..total]
      BY <1>1
    <2>4. /\ callbacks' \in Seq([code : Codes, value : 0..total])
          /\ Len(callbacks') = 1 /\ callbacks'[1] = r
      <3> HIDE DEF r
      <3> QED BY <1>1, <2>1, <2>2, <2>3, AppendProperties DEF JsTypeOK
    <2>5. r.code = code /\ (code = "OK" => r.value = responseMessage)
      OBVIOUS
    <2>6. code = "OK" => total = 1 /\ 1 \notin request.bad
                         /\ responseMessage = 1
      BY <1>1, <1>2 DEF AnswerInv, Answer
    <2>7. RightCallback'
      <3> HIDE DEF r
      <3> QED BY <2>4, <2>5, <2>6 DEF RightCallback
    <2> QED BY <1>1, <1>2, <2>1, <2>4, <2>7 DEF JsTypeOK
  <1>3. CASE ~Unary
    <2> DEFINE r == [code |-> code, error |-> code # "OK"]
    <2>1. appStatus' = Append(appStatus, r) /\ UNCHANGED callbacks
      BY <1>3 DEF onStatus
    <2>2. callbacks' = <<>> /\ callbacks' = callbacks
      BY <1>1, <1>3, <2>1 DEF AnswerInv
    <2>3. appStatus' \in Seq(AppStatus)
      <3>1. r \in AppStatus
        BY DEF AppStatus
      <3> HIDE DEF r
      <3> QED BY <1>1, <2>1, <3>1, AppendProperties DEF JsTypeOK
    <2> QED BY <1>1, <1>3, <2>2, <2>3 DEF RightCallback, JsTypeOK
  <1> QED BY <1>2, <1>3

(* After cancelWithStatus() nothing more is asked of the answer.           *)
LEMMA CancelInv ==
    ASSUME JsInv, NEW code \in Codes, code # "OK", begun = "yes",
           cancelWithStatus(code), UNCHANGED <<request, begun, total, steady>>
    PROVE  /\ callbacks' \in Seq([code : Codes, value : 0..total])
           /\ appStatus' \in Seq(AppStatus)
           /\ status' \in Codes /\ status' # NULL /\ broken' = TRUE
           /\ AnswerInv'
  <1>1. JsTypeOK /\ AnswerInv /\ broken' = TRUE
    BY DEF JsInv, cancelWithStatus
  <1>2. /\ callbacks' \in Seq([code : Codes, value : 0..total])
        /\ appStatus' \in Seq(AppStatus) /\ status' # NULL /\ status' \in Codes
        /\ Unary => Len(callbacks') = 1
        /\ ~Unary => callbacks' = <<>>
        /\ RightCallback'
    <2>1. CASE status = NULL
      <3>1. status' = code /\ onStatus(code)
        BY <2>1 DEF cancelWithStatus
      <3> QED BY <2>1, <3>1, StatusInv
    <2>2. CASE status # NULL
      BY <1>1, <2>2
      DEF cancelWithStatus, AnswerInv, RightCallback, JsTypeOK
    <2> QED BY <2>1, <2>2
  <1>3. AnswerInv'
    BY <1>1, <1>2 DEF AnswerInv, Unary
  <1> QED BY <1>1, <1>2, <1>3

-----------------------------------------------------------------------------
(* Making the request, and its answer.                                     *)

(* What make...Request() understands of its arguments.                     *)
LEMMA ArgumentsType ==
    ASSUME NEW f
    PROVE  /\ checkOptionalUnaryResponseArguments(f) \in
                 {<<>>} \cup {"new", "arg1"} \X {"new", "arg1", "arg2"}
           /\ checkMetadataAndOptions(f) \in
                 {"new", "arg1"} \X {"new", "arg1", "arg2"}
  BY DEF checkOptionalUnaryResponseArguments, checkMetadataAndOptions

(* make...Request() keeps the invariant.                                   *)
LEMMA MakeInv == ASSUME JsInv, NEW f \in Form, make(f) PROVE JsInv'
  <1>1. /\ JsTypeOK /\ begun = "no" /\ begun' \in {"yes", "threw", "leaked"}
        /\ steady' = Unary
        /\ UNCHANGED <<request, responseVars, readVars, written, wq, wBusy,
                       wEnding, total, flowing, delivered, ended,
                       status, broken>>
    BY DEF make, JsInv
  <1>2. /\ begun' # "yes" => UNCHANGED <<sent, halfClosed>>
        /\ ~SendsOne => UNCHANGED <<sent, halfClosed>>
        /\ \/ UNCHANGED <<sent, halfClosed>>
           \/ sent' = <<1>> /\ halfClosed' = TRUE
    BY DEF make
  <1>3. used' \in {<<>>} \cup {"new", "arg1"} \X {"new", "arg1", "arg2"}
    BY ArgumentsType DEF make
  <1>4. JsTypeOK'
    <2>1. sent' \in Seq(Nat) /\ halfClosed' \in BOOLEAN
      <3>1. <<1>> \in Seq(Nat)
        OBVIOUS
      <3> QED BY <1>1, <1>2, <3>1, Zenon DEF JsTypeOK
    <2>2. steady' \in BOOLEAN
      BY <1>1 DEF Unary
    <2> QED BY <1>1, <1>3, <2>1, <2>2
        DEF JsTypeOK, responseVars, readVars, outerVars
  <1>5. AnswerInv'
    <2>1. status = NULL /\ ~ended /\ delivered = 0 /\ AnswerInv
      BY <1>1 DEF JsInv, AnswerInv
    <2>2. Unary' <=> Unary
      BY <1>1 DEF Unary
    <2> QED BY <1>1, <2>1, <2>2
        DEF AnswerInv, Answer, RightCallback, responseVars
  <1>6. ReadInv'
    BY <1>1, ReadFrame DEF JsInv, readVars, outerVars
  <1>7. WriteInv'
    BY <1>1, <1>2 DEF JsInv, WriteInv, Writing, SendsOne
  <1> QED BY <1>4, <1>5, <1>6, <1>7 DEF JsInv

(* A message of a request without a response stream.                       *)
LEMMA UnaryDataInv == ASSUME JsInv, Data, Unary PROVE JsInv'
  <1>1. /\ JsTypeOK /\ AnswerInv /\ ReadInv /\ WriteInv /\ begun = "yes"
        /\ ~ended /\ delivered < total /\ delivered' = delivered + 1
        /\ unaryData(delivered + 1)
        /\ UNCHANGED <<request, begun, used, oFlow, appEnd, writeVars, total,
                       steady, ended>>
    BY DEF JsInv, Data, Deliver
  <1>2. /\ responseMessage' = IF delivered + 1 \in request.bad
                              THEN responseMessage ELSE delivered + 1
        /\ UNCHANGED <<flowing, outerVars>>
    BY <1>1 DEF unaryData
  <1>3. /\ total \in Nat /\ delivered' \in 0..total
        /\ responseMessage' \in 0..total
    BY <1>1, <1>2, RequestType DEF JsTypeOK
  <1>4. /\ callbacks' \in Seq([code : Codes, value : 0..total])
        /\ appStatus' \in Seq(AppStatus) /\ status' \in Codes \cup {NULL}
        /\ broken' \in BOOLEAN /\ (status # NULL => status' # NULL)
        /\ AnswerInv'
    <2>1. CASE responseMessage # 0 \/ delivered + 1 \in request.bad
      <3>1. cancelWithStatus("INTERNAL")
        BY <1>1, <2>1 DEF unaryData
      <3> QED BY <1>1, <3>1, CancelInv, JsClientAssumption
    <2>2. CASE responseMessage = 0 /\ delivered + 1 \notin request.bad
      <3>1. noCancel /\ responseMessage' = delivered + 1
        BY <1>1, <1>2, <2>2 DEF unaryData
      <3>2. status = NULL => delivered = 0
        BY <1>1, <2>2 DEF AnswerInv, Answer
      <3>3. status' = NULL => Answer'
        BY <1>1, <2>2, <3>1, <3>2 DEF AnswerInv, Answer, noCancel
      <3>4. AnswerInv'
        BY <1>1, <3>1, <3>3 DEF AnswerInv, RightCallback, noCancel, Unary
      <3> QED BY <1>1, <3>1, <3>4 DEF noCancel, JsTypeOK
    <2> QED BY <2>1, <2>2
  <1>5. JsTypeOK'
    BY <1>1, <1>2, <1>3, <1>4 DEF JsTypeOK, outerVars, writeVars
  <1>6. ReadInv'
    BY <1>1, <1>2 DEF ReadInv, OuterBounded, Unary, outerVars
  <1>7. WriteInv'
    BY <1>1, <1>4, WriteFrame DEF writeVars
  <1> QED BY <1>4, <1>5, <1>6, <1>7 DEF JsInv

(* A message of a response stream.                                         *)
LEMMA StreamDataInv == ASSUME JsInv, Data, ~Unary PROVE JsInv'
  <1> DEFINE k == delivered + 1
  <1>1. /\ JsTypeOK /\ AnswerInv /\ ReadInv /\ WriteInv /\ begun = "yes"
        /\ flowing /\ ~ended /\ delivered < total /\ delivered' = k
        /\ streamData(k)
        /\ UNCHANGED <<request, begun, used, oFlow, appEnd, writeVars, total,
                       steady, ended>>
    BY DEF JsInv, Data, Deliver
  <1>2. UNCHANGED <<oEnded, responseMessage>>
    BY <1>1 DEF streamData
  <1>3. k \in 1..total /\ k \in 0..total /\ Len(obuf) \in Nat
        /\ Len(appGot) \in Nat /\ delivered \in Nat
    BY <1>1, RequestType DEF JsTypeOK
  <1>4. (Unary' <=> Unary) /\ Len(obuf) < OuterMark /\ OuterMark \in Nat \ {0}
    BY <1>1, JsClientAssumption DEF Unary, ReadInv, OuterBounded
  <1>5. CASE k \in request.bad
    <2>1. cancelWithStatus("INTERNAL")
          /\ UNCHANGED <<flowing, obuf, oReading, appGot>>
      BY <1>1, <1>5 DEF streamData
    <2>2. /\ callbacks' \in Seq([code : Codes, value : 0..total])
          /\ appStatus' \in Seq(AppStatus) /\ status' \in Codes
          /\ broken' = TRUE /\ status' # NULL /\ AnswerInv'
      BY <1>1, <2>1, CancelInv, JsClientAssumption
    <2>3. JsTypeOK'
      BY <1>1, <1>2, <1>3, <2>1, <2>2 DEF JsTypeOK, writeVars
    <2>4. ReadInv'
      BY <1>1, <1>4, <2>1, <2>2 DEF ReadInv, OuterBounded
    <2>5. WriteInv'
      BY <1>1, <2>2, WriteFrame DEF writeVars
    <2> QED BY <2>2, <2>3, <2>4, <2>5 DEF JsInv
  <1>6. CASE k \notin request.bad
    <2>1. noCancel /\ push(k) /\ flowing' = pushSaysMore
      BY <1>1, <1>6 DEF streamData
    <2>2. AnswerInv'
      BY <1>1, <1>2, <1>4, <2>1
      DEF AnswerInv, Answer, RightCallback, noCancel
    <2>3. WriteInv'
      BY <1>1, <2>1, WriteFrame DEF writeVars, noCancel
    <2>4. flowing' \in BOOLEAN
      BY <2>1 DEF pushSaysMore
    <2>5. CASE oFlow /\ obuf = <<>>
      <3>1. appGot' = Append(appGot, k) /\ oReading' = TRUE /\ UNCHANGED obuf
        BY <2>1, <2>5 DEF push
      <3>2. /\ appGot' \in Seq(1..total) /\ Len(appGot') = Len(appGot) + 1
            /\ \A i \in 1..Len(appGot) : appGot'[i] = appGot[i]
            /\ appGot'[Len(appGot) + 1] = k
        <4> HIDE DEF k
        <4> QED BY <1>1, <1>3, <3>1, AppendProperties DEF JsTypeOK
      <3>3. Len(obuf) = 0 /\ Len(obuf') = 0
        BY <1>1, <2>5, <3>1, EmptySeq DEF JsTypeOK
      <3>4. ~broken' => InOrder'
        <4> SUFFICES ASSUME ~broken PROVE InOrder'
          BY <2>1 DEF noCancel
        <4>1. delivered = Len(appGot) /\ \A i \in 1..Len(appGot) : appGot[i] = i
          BY <1>1, <1>3, <3>3 DEF ReadInv, InOrder
        <4> QED BY <1>1, <1>3, <3>2, <3>3, <4>1 DEF InOrder
      <3>5. ReadInv'
        BY <1>4, <3>3, <3>4 DEF ReadInv, OuterBounded
      <3>6. JsTypeOK'
        <4>1. oReading' \in BOOLEAN /\ obuf' \in Seq(1..total)
          BY <1>1, <3>1 DEF JsTypeOK
        <4> QED BY <1>1, <1>2, <1>3, <2>1, <2>4, <3>2, <4>1
            DEF JsTypeOK, writeVars, noCancel
      <3> QED BY <2>2, <2>3, <3>5, <3>6 DEF JsInv
    <2>6. CASE ~(oFlow /\ obuf = <<>>)
      <3>1. /\ obuf' = Append(obuf, k) /\ oReading' = FALSE /\ UNCHANGED appGot
            /\ flowing' => Len(obuf) + 1 < OuterMark
        BY <2>1, <2>6 DEF push, pushSaysMore
      <3>2. /\ obuf' \in Seq(1..total) /\ Len(obuf') = Len(obuf) + 1
            /\ \A i \in 1..Len(obuf) : obuf'[i] = obuf[i]
            /\ obuf'[Len(obuf) + 1] = k
        <4> HIDE DEF k
        <4> QED BY <1>1, <1>3, <3>1, AppendProperties DEF JsTypeOK
      <3>3. ~broken' => InOrder'
        <4> SUFFICES ASSUME ~broken PROVE InOrder'
          BY <2>1 DEF noCancel
        <4>1. InOrder
          BY <1>1 DEF ReadInv
        <4>2. delivered' = Len(appGot') + Len(obuf')
          BY <1>1, <1>3, <3>1, <3>2, <4>1 DEF InOrder
        <4>3. \A i \in 1..Len(appGot') : appGot'[i] = i
          BY <3>1, <4>1 DEF InOrder
        <4>4. ASSUME NEW i \in 1..Len(obuf') PROVE obuf'[i] = Len(appGot') + i
          <5>1. CASE i \in 1..Len(obuf)
            BY <3>1, <3>2, <4>1, <5>1 DEF InOrder
          <5>2. CASE i = Len(obuf) + 1
            <6>1. obuf'[i] = k /\ k = Len(appGot) + i
              BY <1>3, <3>2, <4>1, <5>2 DEF InOrder
            <6> QED BY <3>1, <6>1
          <5> QED BY <1>3, <3>2, <5>1, <5>2
        <4> QED BY <4>2, <4>3, <4>4 DEF InOrder
      <3>4. OuterBounded'
        BY <1>3, <1>4, <3>1, <3>2 DEF OuterBounded
      <3>5. ReadInv'
        BY <1>4, <3>3, <3>4 DEF ReadInv
      <3>6. JsTypeOK'
        <4>1. oReading' \in BOOLEAN /\ appGot' \in Seq(1..total)
          BY <1>1, <3>1 DEF JsTypeOK
        <4> QED BY <1>1, <1>2, <1>3, <2>1, <2>4, <3>2, <4>1
            DEF JsTypeOK, writeVars, noCancel
      <3> QED BY <2>2, <2>3, <3>5, <3>6 DEF JsInv
    <2> QED BY <2>5, <2>6
  <1> QED BY <1>5, <1>6

(* The end of the answer.                                                  *)
LEMMA EndInv == ASSUME JsInv, End PROVE JsInv'
  <1>1. /\ JsTypeOK /\ AnswerInv /\ ReadInv /\ WriteInv /\ begun = "yes"
        /\ ended' = TRUE /\ (delivered = total \/ broken)
        /\ UNCHANGED <<request, begun, used, responseMessage, obuf, appGot,
                       oFlow, appEnd, writeVars, total, flowing, steady,
                       delivered>>
    BY DEF JsInv, End, EmitEnd
  <1>2. /\ \/ UNCHANGED <<oEnded, oReading>>
           \/ oEnded' = TRUE /\ oReading' = FALSE
        /\ \/ cancelWithStatus("INTERNAL")
           \/ noCancel /\ (Unary => responseMessage # 0)
    BY DEF End, unaryEnd
  <1>3. oEnded' \in BOOLEAN /\ oReading' \in BOOLEAN
    BY <1>1, <1>2, Zenon DEF JsTypeOK
  <1>4. /\ callbacks' \in Seq([code : Codes, value : 0..total])
        /\ appStatus' \in Seq(AppStatus) /\ status' \in Codes \cup {NULL}
        /\ broken' \in BOOLEAN /\ (status # NULL => status' # NULL)
        /\ (broken => broken') /\ AnswerInv'
    <2>1. CASE cancelWithStatus("INTERNAL")
      BY <1>1, <2>1, CancelInv, JsClientAssumption
    <2>2. CASE noCancel /\ (Unary => responseMessage # 0)
      <3>1. Unary /\ status = NULL => Answer'
        BY <1>1, <2>2 DEF AnswerInv, Answer
      <3>2. AnswerInv'
        BY <1>1, <2>2, <3>1 DEF AnswerInv, RightCallback, noCancel, Unary
      <3> QED BY <1>1, <2>2, <3>2 DEF noCancel, JsTypeOK
    <2> QED BY <1>2, <2>1, <2>2
  <1>5. JsTypeOK'
    BY <1>1, <1>3, <1>4 DEF JsTypeOK, writeVars
  <1>6. ReadInv'
    BY <1>1, <1>4, ReadFrame
  <1>7. WriteInv'
    BY <1>1, <1>4, WriteFrame DEF writeVars
  <1> QED BY <1>4, <1>5, <1>6, <1>7 DEF JsInv

(* A status from below, and cancel().                                      *)
LEMMA StatusEventInv ==
    ASSUME JsInv, cancel \/ \E code \in Codes : StatusEvent(code)
    PROVE  JsInv'
  <1>1. /\ JsTypeOK /\ AnswerInv /\ ReadInv /\ WriteInv
        /\ begun \in {"yes", "leaked"}
        /\ UNCHANGED <<request, begun, used, responseMessage, readVars,
                       writeVars, total, flowing, steady, delivered, ended>>
    BY DEF JsInv, cancel, StatusEvent
  <1>2. /\ callbacks' \in Seq([code : Codes, value : 0..total])
        /\ appStatus' \in Seq(AppStatus) /\ status' \in Codes /\ status' # NULL
        /\ broken' \in BOOLEAN /\ (broken => broken') /\ AnswerInv'
    <2>1. CASE cancel
      BY <1>1, <2>1, CancelInv, JsClientAssumption DEF cancel
    <2>2. ASSUME NEW code \in Codes, StatusEvent(code)
          PROVE  /\ callbacks' \in Seq([code : Codes, value : 0..total])
                 /\ appStatus' \in Seq(AppStatus)
                 /\ status' \in Codes /\ status' # NULL
                 /\ broken' \in BOOLEAN /\ (broken => broken') /\ AnswerInv'
      <3>1. /\ status = NULL /\ status' = code /\ code # NULL
            /\ code = "OK" /\ steady => ended
        BY <2>2, JsClientAssumption DEF StatusEvent, SetStatus
      <3>2. ~broken
        BY <1>1, <3>1 DEF AnswerInv
      <3>3. broken' \in BOOLEAN
        BY <1>1, <2>2 DEF StatusEvent, JsTypeOK
      <3>4. CASE begun = "yes"
        <4>1. onStatus(code) /\ (code = "OK" /\ Unary => ended)
          BY <1>1, <2>2, <3>1, <3>4 DEF StatusEvent, AnswerInv
        <4>2. /\ callbacks' \in Seq([code : Codes, value : 0..total])
              /\ appStatus' \in Seq(AppStatus)
              /\ Unary => Len(callbacks') = 1
              /\ ~Unary => callbacks' = <<>>
              /\ RightCallback'
          BY <1>1, <3>1, <3>4, <4>1, StatusInv
        <4>3. AnswerInv'
          BY <1>1, <3>1, <3>4, <4>2 DEF AnswerInv, Unary
        <4> QED BY <3>1, <3>2, <3>3, <4>2, <4>3
      <3>5. CASE begun = "leaked"
        <4>1. UNCHANGED <<callbacks, appStatus>>
          BY <2>2, <3>5 DEF StatusEvent
        <4>2. AnswerInv'
          BY <1>1, <3>1, <3>5, <4>1 DEF AnswerInv, RightCallback, Unary
        <4> QED BY <1>1, <3>1, <3>2, <3>3, <4>1, <4>2 DEF JsTypeOK
      <3> QED BY <1>1, <3>4, <3>5
    <2> QED BY <2>1, <2>2
  <1>3. JsTypeOK'
    BY <1>1, <1>2 DEF JsTypeOK, writeVars, readVars, outerVars
  <1>4. ReadInv'
    BY <1>1, <1>2, ReadFrame DEF readVars, outerVars
  <1>5. WriteInv'
    BY <1>1, <1>2, WriteFrame DEF writeVars
  <1> QED BY <1>2, <1>3, <1>4, <1>5 DEF JsInv

-----------------------------------------------------------------------------
(* The returned streams.                                                   *)

(* The returned Readable: Node and the application.                        *)
LEMMA ReadableInv ==
    ASSUME JsInv, _read \/ Flow \/ PauseOrResume
    PROVE  JsInv'
  <1>1. /\ JsTypeOK /\ AnswerInv /\ ReadInv /\ WriteInv
        /\ UNCHANGED <<request, begun, used, responseVars, writeVars, total,
                       steady, delivered, ended, status, broken>>
    BY DEF JsInv, _read, Flow, PauseOrResume, csVars
  <1>2. AnswerInv' /\ WriteInv'
    BY <1>1, AnswerFrame, WriteFrame DEF responseVars, writeVars
  <1>3. CASE _read
    <2>1. /\ ~Unary /\ Len(obuf) < OuterMark
          /\ oReading' = TRUE /\ flowing' = TRUE
          /\ UNCHANGED <<obuf, oEnded, appGot, oFlow, appEnd>>
      BY <1>3 DEF _read
    <2>2. oReading' \in BOOLEAN /\ flowing' \in BOOLEAN
      BY <2>1
    <2>3. JsTypeOK'
      BY <1>1, <2>1, <2>2 DEF JsTypeOK, responseVars, writeVars
    <2>4. ReadInv'
      BY <1>1, <2>1 DEF ReadInv, InOrder, OuterBounded, Unary
    <2> QED BY <1>2, <2>3, <2>4 DEF JsInv
  <1>4. CASE PauseOrResume
    <2>1. oFlow' \in BOOLEAN /\ UNCHANGED <<outerVars, appEnd, csVars>>
      BY <1>4 DEF PauseOrResume
    <2>2. JsTypeOK'
      BY <1>1, <2>1 DEF JsTypeOK, responseVars, writeVars, outerVars, csVars
    <2>3. ReadInv'
      BY <1>1, <2>1, ReadFrame DEF outerVars, csVars
    <2> QED BY <1>2, <2>2, <2>3 DEF JsInv
  <1>5. CASE Flow /\ obuf = <<>>
    <2>1. appEnd' \in BOOLEAN
          /\ UNCHANGED <<appGot, obuf, oReading, oEnded, oFlow, csVars>>
      BY <1>5 DEF Flow
    <2>2. JsTypeOK'
      BY <1>1, <2>1 DEF JsTypeOK, responseVars, writeVars, csVars
    <2>3. ReadInv'
      BY <1>1, <2>1, ReadFrame DEF csVars
    <2> QED BY <1>2, <2>2, <2>3 DEF JsInv
  <1>6. CASE Flow /\ obuf # <<>>
    <2>1. /\ appGot' = Append(appGot, Head(obuf)) /\ obuf' = Tail(obuf)
          /\ UNCHANGED <<appEnd, oReading, oEnded, oFlow, csVars>>
      BY <1>6 DEF Flow
    <2>2. /\ Head(obuf) \in 1..total /\ obuf' \in Seq(1..total)
          /\ Head(obuf) = obuf[1] /\ Len(obuf') = Len(obuf) - 1
          /\ \A i \in 1..Len(obuf') : obuf'[i] = obuf[i + 1]
          /\ Len(obuf) \in Nat \ {0} /\ Len(appGot) \in Nat
      <3>1. /\ obuf \in Seq(1..total) /\ obuf # <<>> /\ Len(appGot) \in Nat
        BY <1>1, <1>6, LenProperties DEF JsTypeOK
      <3>2. Len(obuf) \in Nat \ {0}
        BY <3>1, LenProperties, EmptySeq
      <3>3. /\ Head(obuf) \in 1..total /\ Tail(obuf) \in Seq(1..total)
            /\ Len(Tail(obuf)) = Len(obuf) - 1
            /\ \A i \in 1..Len(Tail(obuf)) : Tail(obuf)[i] = obuf[i + 1]
        BY ONLY <3>1, HeadTailProperties, Zenon
      <3>4. Head(obuf) = obuf[1]
        BY ONLY <3>1, <3>2
      <3> QED BY <2>1, <3>1, <3>2, <3>3, <3>4
    <2>3. /\ appGot' \in Seq(1..total) /\ Len(appGot') = Len(appGot) + 1
          /\ \A i \in 1..Len(appGot) : appGot'[i] = appGot[i]
          /\ appGot'[Len(appGot) + 1] = obuf[1]
      BY <1>1, <2>1, <2>2, AppendProperties DEF JsTypeOK
    <2>4. JsTypeOK'
      BY <1>1, <2>1, <2>2, <2>3 DEF JsTypeOK, responseVars, writeVars, csVars
    <2>5. InOrder => InOrder'
      <3> SUFFICES ASSUME InOrder PROVE InOrder'
        OBVIOUS
      <3>1. delivered' = Len(appGot') + Len(obuf')
        BY <1>1, <2>2, <2>3 DEF InOrder
      <3>2. obuf[1] = Len(appGot) + 1
        BY <2>2 DEF InOrder
      <3>3. \A i \in 1..Len(appGot') : appGot'[i] = i
        BY <2>2, <2>3, <3>2 DEF InOrder
      <3>4. \A i \in 1..Len(obuf') : obuf'[i] = Len(appGot') + i
        BY <2>2, <2>3 DEF InOrder
      <3> QED BY <3>1, <3>3, <3>4 DEF InOrder
    <2>6. OuterBounded'
      BY <1>1, <2>1, <2>2, JsClientAssumption
      DEF ReadInv, OuterBounded, Unary, csVars
    <2>7. ReadInv'
      BY <1>1, <1>6, <2>5, <2>6 DEF ReadInv, Unary
    <2> QED BY <1>2, <2>4, <2>7 DEF JsInv
  <1> QED BY <1>3, <1>4, <1>5, <1>6

(* write() and end() of the application.                                   *)
LEMMA WriteStepInv == ASSUME JsInv, Write PROVE JsInv'
  <1>1. /\ JsTypeOK /\ AnswerInv /\ ReadInv /\ WriteInv
        /\ ~SendsOne /\ begun = "yes" /\ ~wEnding
        /\ UNCHANGED <<request, begun, used, responseVars, readVars, wBusy,
                       sent, halfClosed, csVars>>
    BY DEF JsInv, Write
  <1>2. AnswerInv' /\ ReadInv' /\ (SendsOne' <=> SendsOne)
    BY <1>1, AnswerFrame, ReadFrame
    DEF responseVars, readVars, outerVars, csVars, SendsOne
  <1>3. CASE wEnding' = TRUE /\ UNCHANGED <<written, wq>>
    <2>1. JsTypeOK'
      BY <1>1, <1>3 DEF JsTypeOK, responseVars, readVars, outerVars, csVars
    <2>2. WriteInv'
      BY <1>1, <1>2, <1>3 DEF WriteInv, Writing, csVars
    <2> QED BY <1>2, <2>1, <2>2 DEF JsInv
  <1>4. CASE /\ written < request.m /\ written' = written + 1
             /\ wq' = Append(wq, written + 1) /\ UNCHANGED wEnding
    <2>1. /\ request.m \in Nat /\ written \in Nat /\ Len(wq) \in Nat
          /\ Len(sent) \in Nat /\ written + 1 \in 1..request.m
          /\ written' \in 0..request.m
      BY <1>1, <1>4, RequestType
    <2>2. /\ wq' \in Seq(1..request.m) /\ Len(wq') = Len(wq) + 1
          /\ \A i \in 1..Len(wq) : wq'[i] = wq[i]
          /\ wq'[Len(wq) + 1] = written + 1
      BY <1>1, <1>4, <2>1, AppendProperties DEF JsTypeOK
    <2>3. wq' # <<>>
      BY <2>1, <2>2, EmptySeq
    <2>4. JsTypeOK'
      BY <1>1, <1>4, <2>1, <2>2
      DEF JsTypeOK, responseVars, readVars, outerVars, csVars
    <2>5. ASSUME status = NULL PROVE Writing'
      <3>1. Writing
        BY <1>1, <2>5 DEF WriteInv
      <3>2. /\ Len(wq') <= written' /\ written' - Len(wq') = written - Len(wq)
            /\ \A i \in 1..Len(wq') : wq'[i] = (written' - Len(wq')) + i
        BY <1>4, <2>1, <2>2, <3>1 DEF Writing
      <3> QED BY <1>1, <3>1, <3>2 DEF Writing
    <2>6. WriteInv'
      BY <1>1, <1>2, <2>3, <2>5 DEF WriteInv, csVars
    <2> QED BY <1>2, <2>4, <2>6 DEF JsInv
  <1> QED BY <1>3, <1>4 DEF Write

(* _write(): the first message of the buffer is sent, or does not          *)
(* serialize, which cancels the call.                                      *)
LEMMA TryWriteInv == ASSUME JsInv, tryWrite PROVE JsInv'
  <1>1. /\ JsTypeOK /\ AnswerInv /\ ReadInv /\ WriteInv
        /\ wq # <<>> /\ ~wBusy
        /\ UNCHANGED <<request, begun, used, responseMessage, readVars, written,
                       wEnding, halfClosed, total, flowing, steady, delivered,
                       ended>>
    BY DEF JsInv, tryWrite
  <1>2. begun = "yes" /\ (SendsOne' <=> SendsOne) /\ (~SendsOne => ~halfClosed)
    BY <1>1 DEF WriteInv, SendsOne
  <1>3. CASE /\ serializationFailure /\ wq' = Tail(wq)
             /\ UNCHANGED <<sent, wBusy>>
    <2>1. /\ callbacks' \in Seq([code : Codes, value : 0..total])
          /\ appStatus' \in Seq(AppStatus) /\ status' \in Codes
          /\ broken' = TRUE /\ status' # NULL /\ AnswerInv'
      BY <1>1, <1>2, <1>3, CancelInv, JsClientAssumption
      DEF serializationFailure
    <2>2. wq' \in Seq(1..request.m)
      BY <1>1, <1>3, HeadTailProperties DEF JsTypeOK
    <2>3. JsTypeOK'
      BY <1>1, <1>3, <2>1, <2>2 DEF JsTypeOK, readVars, outerVars
    <2>4. ReadInv'
      BY <1>1, <2>1, ReadFrame DEF readVars, outerVars
    <2>5. WriteInv'
      BY <1>1, <1>2, <1>3, <2>1 DEF WriteInv
    <2> QED BY <2>1, <2>3, <2>4, <2>5 DEF JsInv
  <1>4. CASE /\ sent' = Append(sent, Head(wq)) /\ wBusy' = TRUE
             /\ UNCHANGED wq /\ noCancel
    <2>1. AnswerInv' /\ ReadInv'
      BY <1>1, <1>4, AnswerFrame, ReadFrame DEF readVars, outerVars, noCancel
    <2>2. /\ request.m \in Nat /\ written \in Nat /\ Len(wq) \in Nat \ {0}
          /\ Len(sent) \in Nat
          /\ Head(wq) \in 1..request.m /\ Head(wq) = wq[1]
      <3>1. /\ request.m \in Nat /\ wq \in Seq(1..request.m) /\ wq # <<>>
            /\ sent \in Seq(Nat) /\ written \in Nat
        BY <1>1, RequestType DEF JsTypeOK
      <3>2. Len(wq) \in Nat \ {0} /\ Len(sent) \in Nat
        BY <3>1, LenProperties, EmptySeq
      <3>3. Head(wq) \in 1..request.m
        BY ONLY <3>1, HeadTailProperties, Zenon
      <3>4. Head(wq) = wq[1]
        BY ONLY <3>1, <3>2
      <3> QED BY <3>1, <3>2, <3>3, <3>4
    <2>3. /\ sent' \in Seq(Nat) /\ Len(sent') = Len(sent) + 1
          /\ \A i \in 1..Len(sent) : sent'[i] = sent[i]
          /\ sent'[Len(sent) + 1] = wq[1]
      <3>1. sent \in Seq(Nat) /\ Head(wq) \in Nat
        BY <1>1, <2>2 DEF JsTypeOK
      <3>2. /\ Append(sent, Head(wq)) \in Seq(Nat)
            /\ Len(Append(sent, Head(wq))) = Len(sent) + 1
            /\ \A i \in 1..Len(sent) : Append(sent, Head(wq))[i] = sent[i]
            /\ Append(sent, Head(wq))[Len(sent) + 1] = Head(wq)
        BY ONLY <3>1, AppendProperties
      <3> QED BY <1>4, <2>2, <3>2
    <2>4. JsTypeOK'
      <3>1. wBusy' \in BOOLEAN
        BY <1>4
      <3> QED BY <1>1, <1>4, <2>3, <3>1
          DEF JsTypeOK, readVars, outerVars, noCancel
    <2>5. ASSUME ~SendsOne, status = NULL PROVE Writing'
      <3>1. Writing
        BY <1>1, <2>5 DEF WriteInv
      <3>2. Len(sent) = written - Len(wq) /\ wq[1] = (written - Len(wq)) + 1
            /\ Len(wq) <= written
        BY <1>1, <2>2, <3>1 DEF Writing
      <3>3. Len(sent') = (written - Len(wq)) + 1
        BY <2>2, <2>3, <3>2
      <3>4. \A i \in 1..Len(sent') : sent'[i] = i
        <4>1. sent'[Len(sent) + 1] = Len(sent) + 1
          BY <2>3, <3>2
        <4>2. \A i \in 1..Len(sent) : sent'[i] = i
          BY <2>3, <3>1 DEF Writing
        <4>3. Len(sent) \in Nat /\ Len(sent') = Len(sent) + 1
          BY <2>2, <2>3
        <4> QED BY ONLY <4>1, <4>2, <4>3
      <3> QED BY <1>1, <1>4, <3>1, <3>3, <3>4 DEF Writing
    <2>6. WriteInv'
      BY <1>1, <1>2, <1>4, <2>5 DEF WriteInv, noCancel
    <2> QED BY <2>1, <2>4, <2>6 DEF JsInv
  <1> QED BY <1>3, <1>4 DEF tryWrite

(* The write calls back; and _final().                                     *)
LEMMA WritableInv == ASSUME JsInv, WriteDone \/ _final PROVE JsInv'
  <1>1. /\ JsTypeOK /\ AnswerInv /\ ReadInv /\ WriteInv
        /\ UNCHANGED <<request, begun, used, responseVars, readVars, written,
                       wEnding, sent, csVars>>
    BY DEF JsInv, WriteDone, _final
  <1>2. AnswerInv' /\ ReadInv' /\ (SendsOne' <=> SendsOne)
    BY <1>1, AnswerFrame, ReadFrame
    DEF responseVars, readVars, outerVars, csVars, SendsOne
  <1>3. CASE WriteDone
    <2>1. /\ wBusy /\ ~wBusy' /\ wBusy' \in BOOLEAN /\ wq' = Tail(wq)
          /\ UNCHANGED halfClosed /\ wq # <<>>
      BY <1>1, <1>3 DEF WriteDone, WriteInv
    <2>2. /\ request.m \in Nat /\ written \in Nat /\ Len(wq) \in Nat \ {0}
          /\ Len(sent) \in Nat /\ wq' \in Seq(1..request.m)
          /\ Len(wq') = Len(wq) - 1
          /\ \A i \in 1..Len(wq') : wq'[i] = wq[i + 1]
      BY <1>1, <2>1, RequestType, HeadTailProperties, EmptySeq DEF JsTypeOK
    <2>3. JsTypeOK'
      BY <1>1, <2>1, <2>2
      DEF JsTypeOK, responseVars, readVars, outerVars, csVars
    <2>4. ASSUME ~SendsOne, status = NULL PROVE Writing'
      <3>1. Writing
        BY <1>1, <2>1, <2>4 DEF WriteInv
      <3>2. /\ Len(wq) <= written /\ Len(sent) = (written - Len(wq)) + 1
            /\ \A i \in 1..Len(wq) : wq[i] = (written - Len(wq)) + i
        BY <2>1, <3>1 DEF Writing
      <3>3. /\ Len(wq') <= written /\ Len(sent) = written - Len(wq')
            /\ \A i \in 1..Len(wq') : wq'[i] = (written - Len(wq')) + i
        BY ONLY <2>2, <3>2
      <3> QED BY <1>1, <2>1, <3>1, <3>3 DEF Writing
    <2>5. WriteInv'
      BY <1>1, <1>2, <2>1, <2>4 DEF WriteInv, csVars
    <2> QED BY <1>2, <2>3, <2>5 DEF JsInv
  <1>4. CASE _final
    <2>1. /\ wEnding /\ wq = <<>> /\ halfClosed' = TRUE
          /\ UNCHANGED <<wq, wBusy>>
      BY <1>4 DEF _final
    <2>2. JsTypeOK'
      BY <1>1, <2>1 DEF JsTypeOK, responseVars, readVars, outerVars, csVars
    <2>3. WriteInv'
      BY <1>1, <1>2, <2>1 DEF WriteInv, Writing, csVars
    <2> QED BY <1>2, <2>2, <2>3 DEF JsInv
  <1> QED BY <1>3, <1>4

-----------------------------------------------------------------------------
(* The theorems.                                                           *)

(* Every step keeps the invariant.                                         *)
LEMMA NextInv == JsInv /\ [JsNext]_jsVars => JsInv'
  <1> SUFFICES ASSUME JsInv, [JsNext]_jsVars PROVE JsInv'
    OBVIOUS
  <1>1. CASE UNCHANGED jsVars
    <2> USE <1>1 DEF JsInv, jsVars, responseVars, readVars, outerVars,
        writeVars, csVars
    <2>1. JsTypeOK'
      BY DEF JsTypeOK
    <2>2. AnswerInv' /\ ReadInv' /\ WriteInv'
      BY AnswerFrame, ReadFrame, WriteFrame
    <2> QED BY <2>1, <2>2
  <1>2. CASE Data
    BY <1>2, UnaryDataInv, StreamDataInv
  <1> QED BY <1>1, <1>2, MakeInv, EndInv, StatusEventInv, ReadableInv,
             WriteStepInv, TryWriteInv, WritableInv DEF JsNext

(* The inductive invariant holds in every reachable state.                 *)
THEOREM JsInvariant == JsSpec => []JsInv
  BY InitInv, NextInv, PTL DEF JsSpec

(* The variables keep their types.                                         *)
THEOREM JsTypeCorrect == JsSpec => []JsTypeOK
  <1>1. JsInv => JsTypeOK
    BY DEF JsInv
  <1> QED BY <1>1, JsInvariant, PTL

(* A unary callback is called once, with the status, and with OK only for  *)
(* the one message of the answer, which parsed, for answers of any length  *)
(* and any statuses (client.ts 58-92).                                     *)
THEOREM UnaryAnswered == JsSpec => []UnaryAnswer
  <1>1. JsInv => UnaryAnswer
    BY DEF JsInv, AnswerInv, RightCallback, UnaryAnswer
  <1> QED BY <1>1, JsInvariant, PTL

(* A request stream that is half-closed while the call has no status has   *)
(* sent everything that was written (call.ts 165-182, 207-210).            *)
THEOREM RequestComplete == JsSpec => []HalfCloseComplete
  <1>1. ASSUME JsInv PROVE HalfCloseComplete
    <2> SUFFICES ASSUME halfClosed, status = NULL, ~SendsOne
                 PROVE  sent = Upto(written)
      BY DEF HalfCloseComplete
    <2>1. wq = <<>> /\ ~wBusy /\ Writing /\ JsTypeOK
      BY <1>1 DEF JsInv, WriteInv
    <2>2. Len(sent) = written /\ written \in Nat
      <3>1. Len(wq) = 0 /\ written \in Nat /\ Len(sent) = written - Len(wq)
        BY <2>1, EmptySeq, RequestType DEF Writing
      <3> QED BY ONLY <3>1
    <2>3. /\ sent \in Seq(Nat) /\ DOMAIN sent = 1..written
          /\ \A i \in 1..written : sent[i] = i
      BY <2>1, <2>2, LenProperties DEF JsTypeOK, Writing
    <2>4. sent = [i \in 1..written |-> sent[i]]
      BY <2>3, LenProperties
    <2> QED BY <2>3, <2>4 DEF Upto
  <1> QED BY <1>1, JsInvariant, PTL

(* Every overload of the make...Request methods is understood: the         *)
(* Metadata and the options are the ones passed (client.ts 94-117,         *)
(* 196-217).                                                               *)
THEOREM OverloadsUnderstood == JsSpec => ArgumentsUsed
  <1> DEFINE A(f, a) ==
        LET i == IF a = "metadata" THEN 1 ELSE 2
        IN  IF \E p \in 1..3 : f[p] = a
            THEN used'[i] = (IF f[1] = a THEN "arg1" ELSE "arg2")
            ELSE used'[i] = "new"
  <1>1. ASSUME NEW f \in Overloads, make(f), NEW a \in {"metadata", "options"}
        PROVE  A(f, a)
    <2>1. CASE Unary
      <3>1. used' = checkOptionalUnaryResponseArguments(f)
        BY <1>1, <2>1 DEF make
      <3> QED BY <1>1, <2>1, <3>1
          DEF Overloads, checkOptionalUnaryResponseArguments
    <2>2. CASE ~Unary
      <3>1. used' = checkMetadataAndOptions(f)
        BY <1>1, <2>2 DEF make
      <3> QED BY <1>1, <2>2, <3>1 DEF Overloads, checkMetadataAndOptions
    <2> QED BY <2>1, <2>2
  <1>2. \A f \in Overloads : make(f) => \A a \in {"metadata", "options"} : A(f, a)
    BY <1>1
  <1> QED BY <1>2, PTL DEF ArgumentsUsed

(* While its call is not broken, a response stream has handed on or holds  *)
(* every message it was given, in order; and it never holds more than its  *)
(* highWaterMark, although the CallStream below delivers by itself until   *)
(* it is paused (call.ts 110-138, 160-162).                                *)
THEOREM ResponsesInOrder ==
    JsSpec => [](OuterBounded /\ (~Unary /\ ~broken => InOrder))
  <1>1. JsInv => OuterBounded /\ (~Unary /\ ~broken => InOrder)
    BY DEF JsInv, ReadInv
  <1> QED BY <1>1, JsInvariant, PTL
=============================================================================
