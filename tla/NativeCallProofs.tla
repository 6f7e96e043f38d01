-------------------------- MODULE NativeCallProofs --------------------------
(***************************************************************************)
(* CallInv is an invariant of NativeCall, for any set of calls and any     *)
(* finite set of tags.  The counters of the queue and of every call are    *)
(* exact, and from that follows that a call is destroyed neither under a   *)
(* pending batch nor later than its last one.                              *)
(***************************************************************************)
EXTENDS NativeCall, FiniteSetTheorems, TLAPS

-----------------------------------------------------------------------------
(* Counting.                                                               *)

(* The sets that are counted are finite.                                   *)
LEMMA CountedFinite ==
    ASSUME TypeOK
    PROVE  /\ IsFiniteSet(Outstanding)
           /\ Cardinality(Outstanding) \in Nat
           /\ \A c : IsFiniteSet(BatchesOf(c))
           /\ \A c : Cardinality(BatchesOf(c)) \in Nat
           /\ \A c : Cardinality(BatchesOf(c)) = 0 <=> BatchesOf(c) = {}
           /\ Cardinality(Outstanding) = 0 <=> Outstanding = {}
  <1>1. Outstanding \subseteq Tags
    BY DEF Outstanding
  <1>2. IsFiniteSet(Outstanding)
    BY <1>1, CallAssumption, FS_Subset
  <1>3. \A c : BatchesOf(c) \subseteq Outstanding
    BY DEF BatchesOf
  <1>4. \A c : IsFiniteSet(BatchesOf(c))
    BY <1>2, <1>3, FS_Subset
  <1> QED BY <1>2, <1>4, FS_CardinalityType, FS_EmptySet

(* The same of the state after a step.                                     *)
LEMMA NextCountedFinite ==
    ASSUME TypeOK'
    PROVE  \A c : /\ Cardinality(BatchesOf(c)') \in Nat
                  /\ Cardinality(BatchesOf(c)') = 0 <=> BatchesOf(c)' = {}
  <1>1. \A c : BatchesOf(c)' \subseteq Tags
    BY DEF BatchesOf, Outstanding
  <1>2. \A c : IsFiniteSet(BatchesOf(c)')
    BY <1>1, CallAssumption, FS_Subset
  <1> QED BY <1>2, FS_CardinalityType, FS_EmptySet

(* A tag given to the core is one more outstanding tag, and one more batch *)
(* of its call and of no other.                                            *)
LEMMA SubmitCounts ==
    ASSUME TypeOK, NEW t \in Tags, NEW c \in Calls \cup {NoCall},
           NEW final \in BOOLEAN, SubmitTag(t, c, final)
    PROVE  /\ tagState' \in [Tags -> TagState]
           /\ tagCall' \in [Tags -> Calls \cup {NoCall}]
           /\ tagFinal' \in [Tags -> BOOLEAN]
           /\ Outstanding' = Outstanding \cup {t}
           /\ Cardinality(Outstanding') = Cardinality(Outstanding) + 1
           /\ Cardinality(BatchesOf(c)') = Cardinality(BatchesOf(c)) + 1
           /\ \A d \in Calls : d # c => BatchesOf(d)' = BatchesOf(d)
  <1> USE DEF SubmitTag
  <1>1. t \notin Outstanding
    BY DEF Outstanding
  <1>2. Outstanding' = Outstanding \cup {t}
    BY DEF Outstanding, TypeOK
  <1>3. BatchesOf(c)' = BatchesOf(c) \cup {t}
    BY <1>1, <1>2 DEF BatchesOf, TypeOK, Outstanding
  <1>4. ASSUME NEW d \in Calls, d # c PROVE BatchesOf(d)' = BatchesOf(d)
    BY <1>1, <1>2, <1>4 DEF BatchesOf, TypeOK, Outstanding
  <1>5. Cardinality(Outstanding \cup {t}) = Cardinality(Outstanding) + 1
    BY <1>1, CountedFinite, FS_AddElement
  <1>6. t \notin BatchesOf(c)
    BY <1>1 DEF BatchesOf
  <1>7. Cardinality(BatchesOf(c) \cup {t}) = Cardinality(BatchesOf(c)) + 1
    BY <1>6, CountedFinite, FS_AddElement
  <1>8. /\ tagState' \in [Tags -> TagState]
        /\ tagCall' \in [Tags -> Calls \cup {NoCall}]
        /\ tagFinal' \in [Tags -> BOOLEAN]
    BY DEF TypeOK, TagState
  <1> QED BY <1>2, <1>3, <1>4, <1>5, <1>7, <1>8

(* The tag whose callback returns is one less.                             *)
LEMMA ReturnCounts ==
    ASSUME TypeOK, RunningTag, CallbackReturns, NEW c, c = tagCall[running]
    PROVE  /\ running \in Outstanding
           /\ tagState' \in [Tags -> TagState]
           /\ Outstanding' = Outstanding \ {running}
           /\ Cardinality(Outstanding') = Cardinality(Outstanding) - 1
           /\ Cardinality(BatchesOf(c)') = Cardinality(BatchesOf(c)) - 1
           /\ \A d \in Calls : d # c => BatchesOf(d)' = BatchesOf(d)
           /\ running \in BatchesOf(c)
  <1> USE DEF CallbackReturns
  <1>0. running \in Tags
    BY DEF TypeOK
  <1>1. running \in Outstanding
    BY <1>0 DEF RunningTag, Outstanding
  <1>2. /\ tagState' \in [Tags -> TagState]
        /\ Outstanding' = Outstanding \ {running}
    BY <1>0 DEF TypeOK, TagState, Outstanding
  <1>3. BatchesOf(c)' = BatchesOf(c) \ {running}
    BY <1>2 DEF BatchesOf
  <1>4. \A d \in Calls : d # c => BatchesOf(d)' = BatchesOf(d)
    BY <1>2 DEF BatchesOf
  <1>5. Cardinality(Outstanding \ {running}) = Cardinality(Outstanding) - 1
    BY <1>1, CountedFinite, FS_RemoveElement
  <1>6. running \in BatchesOf(c)
    BY <1>1 DEF BatchesOf
  <1>7. Cardinality(BatchesOf(c) \ {running}) = Cardinality(BatchesOf(c)) - 1
    BY <1>6, CountedFinite, FS_RemoveElement
  <1> QED BY <1>1, <1>2, <1>3, <1>4, <1>5, <1>6, <1>7

(* Steps that neither submit nor finish a tag leave what is counted alone. *)
LEMMA SameCounts ==
    ASSUME TypeOK, Outstanding' = Outstanding, UNCHANGED tagCall
    PROVE  \A c : BatchesOf(c)' = BatchesOf(c)
  BY DEF BatchesOf

-----------------------------------------------------------------------------
LEMMA InitInv == Init => CallInv
  <1> SUFFICES ASSUME Init PROVE CallInv
    OBVIOUS
  <1> USE DEF Init
  <1>1. TypeOK
    BY DEF TypeOK, TagState
  <1>2. Outstanding = {} /\ \A c : BatchesOf(c) = {}
    BY DEF Outstanding, BatchesOf
  <1>3. QueueCountExact /\ CallCountExact
    BY <1>2, FS_EmptySet DEF QueueCountExact, CallCountExact
  <1>4. RunningTag /\ PrepareActiveIffPending /\ PendingBatchKeepsCall
        /\ FinishedCallDestroyed
    BY <1>2 DEF RunningTag, PrepareActiveIffPending, PendingBatchKeepsCall,
                FinishedCallDestroyed
  <1> QED BY <1>1, <1>3, <1>4 DEF CallInv

LEMMA NextInv == CallInv /\ [Next]_vars => CallInv'
  <1> SUFFICES ASSUME CallInv, [Next]_vars PROVE CallInv'
    OBVIOUS
  <1> USE DEF CallInv
  <1>f. \A c : /\ Cardinality(BatchesOf(c)) \in Nat
               /\ Cardinality(BatchesOf(c)) = 0 <=> BatchesOf(c) = {}
    BY CountedFinite
  (* A step that touches no tag, no counter and no running callback.       *)
  <1>u. ASSUME UNCHANGED <<tagVars, callPending, finalDone, queueVars, running>>,
               \A c \in Calls : wrapped'[c] # wrapped[c] =>
                   BatchesOf(c) = {} /\ (wrapped'[c] = "destroyed" \/ ~finalDone[c])
        PROVE  /\ RunningTag' /\ QueueCountExact' /\ CallCountExact'
               /\ PrepareActiveIffPending' /\ PendingBatchKeepsCall'
               /\ FinishedCallDestroyed'
    <2>1. Outstanding' = Outstanding /\ UNCHANGED tagCall
      BY <1>u DEF tagVars, Outstanding
    <2>2. \A c : BatchesOf(c)' = BatchesOf(c)
      BY <2>1, SameCounts
    <2>3. RunningTag' /\ QueueCountExact' /\ CallCountExact'
          /\ PrepareActiveIffPending'
      BY <1>u, <2>1, <2>2 DEF tagVars, queueVars, RunningTag, QueueCountExact,
         CallCountExact, PrepareActiveIffPending
    <2>4. PendingBatchKeepsCall'
      <3> SUFFICES ASSUME NEW t \in Outstanding, tagCall[t] # NoCall
                   PROVE  wrapped'[tagCall[t]] = "live"
        BY <2>1 DEF PendingBatchKeepsCall
      <3>1. tagCall[t] \in Calls /\ t \in BatchesOf(tagCall[t])
        BY DEF TypeOK, BatchesOf, Outstanding
      <3> QED BY <1>u, <3>1 DEF PendingBatchKeepsCall
    <2>5. FinishedCallDestroyed'
      BY <1>u, <2>2 DEF FinishedCallDestroyed
    <2> QED BY <2>3, <2>4, <2>5
  <1>1. ASSUME NEW c \in Calls, New(c) PROVE CallInv'
    <2>1. TypeOK'
      BY <1>1 DEF New, TypeOK, tagVars, queueVars, loopVars
    <2>2. BatchesOf(c) = {} /\ ~finalDone[c]
      BY <1>1, CallAssumption
      DEF New, PendingBatchKeepsCall, BatchesOf, FinishedCallDestroyed
    <2> QED
      BY <1>1, <1>u, <2>1, <2>2 DEF New, TypeOK, loopVars
  <1>2. ASSUME NEW c \in Calls, NEW t \in Tags, NEW final \in BOOLEAN,
               StartBatch(c, t, final)
        PROVE CallInv'
    <2>1. /\ SubmitTag(t, c, final) /\ wrapped[c] = "live"
          /\ callPending' = [callPending EXCEPT ![c] = @ + 1]
          /\ UNCHANGED <<wrapped, finalDone, held, cancelled, loopVars,
                         channelOpen>>
      BY <1>2 DEF StartBatch
    <2>2. /\ prepare' = (pending = 0 \/ prepare) /\ pending' = pending + 1
          /\ tagState[t] = "free" /\ \A s \in Tags : s # t =>
                tagState'[s] = tagState[s] /\ tagCall'[s] = tagCall[s]
          /\ tagCall'[t] = c
      BY <2>1 DEF SubmitTag, CompletionQueueNext, TypeOK
    <2>3. TypeOK'
      BY <2>1, <2>2, SubmitCounts DEF TypeOK, loopVars
    <2>4. QueueCountExact' /\ PrepareActiveIffPending' /\ RunningTag'
      <3>1. QueueCountExact'
        BY <2>1, <2>2, SubmitCounts DEF QueueCountExact
      <3>2. pending' # 0
        BY <2>2 DEF TypeOK
      <3>4. prepare'
        BY <2>2, Zenon DEF PrepareActiveIffPending
      <3>3. RunningTag'
        BY <2>1, <2>2 DEF RunningTag, TypeOK, loopVars
      <3> QED BY <3>1, <3>2, <3>3, <3>4 DEF PrepareActiveIffPending
    <2>5. CallCountExact'
      BY <2>1, SubmitCounts DEF CallCountExact, TypeOK
    <2>6. PendingBatchKeepsCall'
      BY <2>1, <2>2, SubmitCounts DEF PendingBatchKeepsCall, Outstanding
    <2>7. FinishedCallDestroyed'
      <3>1. BatchesOf(c)' # {}
        BY <2>1, <2>2, SubmitCounts DEF BatchesOf
      <3> QED BY <2>1, <3>1, SubmitCounts DEF FinishedCallDestroyed
    <2> QED BY <2>3, <2>4, <2>5, <2>6, <2>7
  <1>3. ASSUME NEW c \in Calls, NEW t \in Tags, StartBatchRefused(c, t)
        PROVE CallInv'
    <2>1. /\ tagState[t] = "free"
          /\ tagState' = [tagState EXCEPT ![t] = "leaked"]
          /\ UNCHANGED <<callVars, queueVars, loopVars, channelOpen>>
      BY <1>3 DEF StartBatchRefused
    <2>2. TypeOK'
      BY <1>3 DEF StartBatchRefused, TypeOK, TagState, callVars, queueVars,
                  loopVars
    <2>3. /\ Outstanding' = Outstanding /\ t \notin Outstanding
          /\ \A s \in Outstanding : tagCall'[s] = tagCall[s]
      BY <1>3 DEF StartBatchRefused, Outstanding, TypeOK
    <2>4. \A d : BatchesOf(d)' = BatchesOf(d)
      BY <2>3 DEF BatchesOf
    <2> QED
      BY <2>1, <2>2, <2>3, <2>4 DEF callVars, queueVars, loopVars, RunningTag,
         QueueCountExact, CallCountExact, PrepareActiveIffPending,
         PendingBatchKeepsCall, FinishedCallDestroyed, TypeOK
  <1>4. ASSUME NEW c \in Calls, Cancel(c) PROVE CallInv'
    <2>1. TypeOK'
      BY <1>4 DEF Cancel, TypeOK, tagVars, queueVars, loopVars
    <2> QED BY <1>4, <1>u, <2>1 DEF Cancel, loopVars
  <1>5. ASSUME NEW c \in Calls, Drop(c) PROVE CallInv'
    <2>1. TypeOK'
      BY <1>5 DEF Drop, TypeOK, tagVars, queueVars, loopVars
    <2> QED BY <1>5, <1>u, <2>1 DEF Drop, loopVars
  <1>6. ASSUME NEW c \in Calls, Collect(c) PROVE CallInv'
    <2>1. TypeOK'
      BY <1>6 DEF Collect, TypeOK, tagVars, queueVars, loopVars
    <2>2. BatchesOf(c) = {}
      BY <1>6 DEF Collect, BatchesOf, Outstanding
    <2> QED BY <1>6, <1>u, <2>1, <2>2 DEF Collect, TypeOK, loopVars
  <1>7. ASSUME NEW t \in Tags, WatchConnectivityState(t) PROVE CallInv'
    <2>1. /\ SubmitTag(t, NoCall, FALSE)
          /\ UNCHANGED <<callVars, loopVars, channelOpen>>
      BY <1>7 DEF WatchConnectivityState
    <2>2. /\ prepare' = (pending = 0 \/ prepare) /\ pending' = pending + 1
          /\ tagState[t] = "free" /\ \A s \in Tags : s # t =>
                tagState'[s] = tagState[s] /\ tagCall'[s] = tagCall[s]
          /\ tagCall'[t] = NoCall
      BY <2>1 DEF SubmitTag, CompletionQueueNext, TypeOK
    <2>3. /\ Outstanding' = Outstanding \cup {t}
          /\ Cardinality(Outstanding') = Cardinality(Outstanding) + 1
          /\ \A d \in Calls : BatchesOf(d)' = BatchesOf(d)
          /\ tagState' \in [Tags -> TagState]
          /\ tagCall' \in [Tags -> Calls \cup {NoCall}]
          /\ tagFinal' \in [Tags -> BOOLEAN]
      BY <2>1, SubmitCounts, CallAssumption
    <2>4. TypeOK'
      BY <2>1, <2>2, <2>3 DEF TypeOK, callVars, loopVars
    <2>5. QueueCountExact' /\ PrepareActiveIffPending' /\ RunningTag'
      <3>1. QueueCountExact'
        BY <2>2, <2>3 DEF QueueCountExact
      <3>2. pending' # 0
        BY <2>2 DEF TypeOK
      <3>4. prepare'
        BY <2>2, Zenon DEF PrepareActiveIffPending
      <3>3. RunningTag'
        BY <2>1, <2>2 DEF RunningTag, TypeOK, loopVars
      <3> QED BY <3>1, <3>2, <3>3, <3>4 DEF PrepareActiveIffPending
    <2>6. CallCountExact' /\ FinishedCallDestroyed'
      BY <2>1, <2>3 DEF CallCountExact, FinishedCallDestroyed, callVars
    <2>7. PendingBatchKeepsCall'
      BY <2>1, <2>2, <2>3 DEF PendingBatchKeepsCall, callVars, Outstanding
    <2> QED BY <2>4, <2>5, <2>6, <2>7
  <1>8. ASSUME Close PROVE CallInv'
    <2>1. TypeOK'
      BY <1>8 DEF Close, TypeOK, tagVars, callVars, queueVars, loopVars
    <2> QED BY <1>8, <1>u, <2>1 DEF Close, callVars, loopVars
  <1>9. ASSUME NEW t \in Tags, CoreComplete(t) \/ CompleteTag(t) PROVE CallInv'
    <2>1. /\ tagState[t] \in {"core", "queued"}
          /\ tagState' \in [Tags -> TagState]
          /\ \A s \in Tags : s # t => tagState'[s] = tagState[s]
          /\ tagState'[t] \in {"queued", "running"}
          /\ running' \in Tags \cup {NoTag}
          /\ RunningTag'
      BY <1>9 DEF CoreComplete, CompleteTag, TypeOK, TagState, RunningTag,
                  loopVars
    <2>2. UNCHANGED <<tagCall, tagFinal, callVars, queueVars, draining,
                      channelOpen>>
      BY <1>9 DEF CoreComplete, CompleteTag, loopVars
    <2>3. Outstanding' = Outstanding
      BY <2>1 DEF Outstanding, TypeOK
    <2>4. \A c : BatchesOf(c)' = BatchesOf(c)
      BY <2>2, <2>3, SameCounts
    <2>5. TypeOK'
      BY <2>1, <2>2 DEF TypeOK, callVars, queueVars
    <2> QED
      BY <2>1, <2>2, <2>3, <2>4, <2>5 DEF callVars, queueVars,
         QueueCountExact, CallCountExact, PrepareActiveIffPending,
         PendingBatchKeepsCall, FinishedCallDestroyed
  <1>10. ASSUME CallbackReturns PROVE CallInv'
    <2> PICK c : c = tagCall[running]
      OBVIOUS
    <2>1. /\ pending' = pending - 1 /\ prepare' = (prepare /\ pending' # 0)
          /\ running' = NoTag
          /\ UNCHANGED <<tagCall, tagFinal, held, cancelled, draining,
                         channelOpen>>
      BY <1>10 DEF CallbackReturns
    <2>2. pending \in Nat /\ pending # 0
      BY <1>10, ReturnCounts, CountedFinite DEF QueueCountExact, TypeOK
    <2>3. QueueCountExact' /\ PrepareActiveIffPending' /\ RunningTag'
      BY <1>10, <2>1, <2>2, ReturnCounts DEF QueueCountExact, RunningTag,
         PrepareActiveIffPending, TypeOK
    <2>4. CASE c = NoCall
      <3>1. UNCHANGED <<wrapped, callPending, finalDone>>
        BY <1>10, <2>4 DEF CallbackReturns
      <3>2. \A d \in Calls : BatchesOf(d)' = BatchesOf(d)
        BY <1>10, <2>4, ReturnCounts, CallAssumption
      <3>3. TypeOK'
        BY <1>10, <2>1, <2>2, <3>1, ReturnCounts DEF TypeOK
      <3>4. CallCountExact' /\ FinishedCallDestroyed'
        BY <3>1, <3>2 DEF CallCountExact, FinishedCallDestroyed
      <3>5. PendingBatchKeepsCall'
        BY <1>10, <2>1, <3>1, ReturnCounts DEF PendingBatchKeepsCall
      <3> QED BY <2>3, <3>3, <3>4, <3>5
    <2>5. CASE c # NoCall
      <3>1. CompleteBatch(c, tagFinal[running]) /\ c \in Calls
            /\ running \in Tags
        BY <1>10, <2>5 DEF CallbackReturns, TypeOK
      <3>2. /\ callPending[c] \in Nat /\ callPending[c] # 0
            /\ callPending[c] = Cardinality(BatchesOf(c))
            /\ Cardinality(BatchesOf(c)') = callPending[c] - 1
        BY <1>10, <1>f, <3>1, ReturnCounts DEF CallCountExact, TypeOK
      <3>3. /\ callPending' \in [Calls -> Nat]
            /\ callPending'[c] = callPending[c] - 1
            /\ \A d \in Calls : d # c => callPending'[d] = callPending[d]
            /\ finalDone' \in [Calls -> BOOLEAN]
            /\ finalDone'[c] = (finalDone[c] \/ tagFinal[running])
            /\ \A d \in Calls : d # c => finalDone'[d] = finalDone[d]
            /\ wrapped' \in [Calls -> {"none", "live", "destroyed"}]
            /\ \A d \in Calls : d # c => wrapped'[d] = wrapped[d]
            /\ wrapped'[c] = (IF finalDone'[c] /\ callPending'[c] = 0
                              THEN "destroyed" ELSE wrapped[c])
        BY <3>1, <3>2 DEF CompleteBatch, TypeOK
      <3>4. TypeOK'
        BY <1>10, <2>1, <2>2, <3>3, ReturnCounts DEF TypeOK
      <3>5. CallCountExact'
        BY <1>10, <3>2, <3>3, ReturnCounts DEF CallCountExact
      <3>6. callPending'[c] = 0 <=> BatchesOf(c)' = {}
        BY <3>2, <3>3, <3>4, NextCountedFinite
      <3>7. FinishedCallDestroyed'
        BY <1>10, <3>3, <3>6, ReturnCounts DEF FinishedCallDestroyed
      <3>8. PendingBatchKeepsCall'
        <4> SUFFICES ASSUME NEW t \in Outstanding', tagCall'[t] # NoCall
                     PROVE  wrapped'[tagCall'[t]] = "live"
          BY DEF PendingBatchKeepsCall
        <4>1. t \in Outstanding /\ tagCall'[t] = tagCall[t]
          BY <1>10, <2>1, ReturnCounts
        <4>2. tagCall[t] \in Calls /\ wrapped[tagCall[t]] = "live"
          BY <4>1 DEF PendingBatchKeepsCall, Outstanding, TypeOK
        <4>3. tagCall[t] = c => BatchesOf(c)' # {}
          BY <4>1 DEF BatchesOf
        <4> QED BY <3>3, <3>6, <4>1, <4>2, <4>3
      <3> QED BY <2>3, <3>4, <3>5, <3>7, <3>8
    <2> QED BY <2>4, <2>5
  <1>11. ASSUME DrainBegin \/ DrainEnd PROVE CallInv'
    <2>1. TypeOK'
      BY <1>11 DEF DrainBegin, DrainEnd, TypeOK, tagVars, callVars, queueVars
    <2> QED BY <1>11, <1>u, <2>1 DEF DrainBegin, DrainEnd, callVars
  <1>12. ASSUME UNCHANGED vars PROVE CallInv'
    <2>1. TypeOK'
      BY <1>12 DEF vars, TypeOK, tagVars, callVars, queueVars, loopVars
    <2> QED BY <1>12, <1>u, <2>1 DEF vars, callVars, loopVars
  <1> QED
    BY <1>1, <1>2, <1>3, <1>4, <1>5, <1>6, <1>7, <1>8, <1>9, <1>10, <1>11,
       <1>12 DEF Next, CallStep, TagStep

-----------------------------------------------------------------------------
(* The inductive invariant of the completion queue and its calls.          *)
THEOREM CallInvariant == Spec => []CallInv
  BY InitInv, NextInv, PTL DEF Spec

(* The two counters are exact in every reachable state.                    *)
THEOREM CountersExact == Spec => [](QueueCountExact /\ CallCountExact)
  <1>1. CallInv => QueueCountExact /\ CallCountExact
    BY DEF CallInv
  <1> QED BY <1>1, CallInvariant, PTL

(* The assertion of CompletionQueueNext cannot fail.                       *)
THEOREM PrepareAssertionHolds == Spec => []PrepareActiveIffPending
  <1>1. CallInv => PrepareActiveIffPending
    BY DEF CallInv
  <1> QED BY <1>1, CallInvariant, PTL

(* No batch completes on a call that was destroyed.                        *)
THEOREM NoUseAfterDestroy == Spec => []PendingBatchKeepsCall
  <1>1. CallInv => PendingBatchKeepsCall
    BY DEF CallInv
  <1> QED BY <1>1, CallInvariant, PTL

(* No finished call is left undestroyed.                                   *)
THEOREM NoFinishedCallLeft == Spec => []FinishedCallDestroyed
  <1>1. CallInv => FinishedCallDestroyed
    BY DEF CallInv
  <1> QED BY <1>1, CallInvariant, PTL
=============================================================================
