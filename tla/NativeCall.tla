----------------------------- MODULE NativeCall -----------------------------
(***************************************************************************)
(* The native extension's side of a call: the completion queue drained     *)
(* from the event loop (ext/completion_queue.cc) and the Call object with  *)
(* its batches (ext/call.cc), plus the two operations of a Channel that    *)
(* decide whether calls can be made and that put other tags on the queue   *)
(* (ext/channel.cc).                                                       *)
(*                                                                         *)
(* The grpc core library is external.  It completes tags in any order, at  *)
(* any time; JavaScript runs only in the event loop: outside               *)
(* drain_completion_queue, or in the callback of the tag being completed.  *)
(*                                                                         *)
(* Left out: the contents of a batch, beyond whether it holds a final op,  *)
(* and argument checks that throw before anything is changed.              *)
(***************************************************************************)
EXTENDS Naturals, FiniteSets

CONSTANTS
    Calls,       \* Call objects
    Tags,        \* the struct tag allocations the model may make: a bound
    NoCall,      \* tag->call == NULL: a tag of a channel or a server
    NoTag        \* no callback is running

ASSUME CallAssumption ==
    /\ IsFiniteSet(Tags)
    /\ NoCall \notin Calls
    /\ NoTag \notin Tags

VARIABLES
    tagState,    \* where each tag is
    tagCall,     \* tag::call
    tagFinal,    \* one of tag::ops is a final op
    wrapped,     \* Call::wrapped_call of each object
    callPending, \* Call::pending_batches
    finalDone,   \* Call::has_final_op_completed
    held,        \* JavaScript still refers to the Call object
    cancelled,   \* grpc_call_cancel[_with_status] was called
    pending,     \* pending_batches of the completion queue
    prepare,     \* the uv_prepare handle is active
    draining,    \* inside drain_completion_queue
    running,     \* the tag whose callback is on the stack
    channelOpen  \* Channel::wrapped_channel != NULL

tagVars == <<tagState, tagCall, tagFinal>>
callVars == <<wrapped, callPending, finalDone, held, cancelled>>
queueVars == <<pending, prepare>>
loopVars == <<draining, running>>
vars == <<tagVars, callVars, queueVars, loopVars, channelOpen>>

TagState == {"free",
             "core",      \* given to the core, not completed
             "queued",    \* its event is in the completion queue
             "running",   \* inside CompleteTag
             "deleted",   \* DestroyTag
             "leaked"}    \* allocated, refused by the core, never deleted

Outstanding == {t \in Tags : tagState[t] \in {"core", "queued", "running"}}
BatchesOf(c) == {t \in Outstanding : tagCall[t] = c}

TypeOK ==
    /\ tagState \in [Tags -> TagState]
    /\ tagCall \in [Tags -> Calls \cup {NoCall}]
    /\ tagFinal \in [Tags -> BOOLEAN]
    /\ wrapped \in [Calls -> {"none", "live", "destroyed"}]
    /\ callPending \in [Calls -> Nat]
    /\ finalDone \in [Calls -> BOOLEAN]
    /\ held \in [Calls -> BOOLEAN]
    /\ cancelled \in [Calls -> BOOLEAN]
    /\ pending \in Nat
    /\ prepare \in BOOLEAN
    /\ draining \in BOOLEAN
    /\ running \in Tags \cup {NoTag}
    /\ channelOpen \in BOOLEAN

(* CompletionQueueInit, and nothing allocated.                             *)
Init ==
    /\ tagState = [t \in Tags |-> "free"]
    /\ tagCall = [t \in Tags |-> NoCall]
    /\ tagFinal = [t \in Tags |-> FALSE]
    /\ wrapped = [c \in Calls |-> "none"]
    /\ callPending = [c \in Calls |-> 0]
    /\ finalDone = [c \in Calls |-> FALSE]
    /\ held = [c \in Calls |-> FALSE]
    /\ cancelled = [c \in Calls |-> FALSE]
    /\ pending = 0
    /\ prepare = FALSE
    /\ draining = FALSE
    /\ running = NoTag
    /\ channelOpen = TRUE

-----------------------------------------------------------------------------
(* JavaScript code is running.                                             *)
InJS == draining => running # NoTag

(* CompletionQueueNext: start the prepare handle for the first tag.        *)
CompletionQueueNext ==
    /\ prepare' = (pending = 0 \/ prepare)
    /\ pending' = pending + 1

(* new struct tag(...), accepted by the core.                              *)
SubmitTag(t, c, final) ==
    /\ tagState[t] = "free"
    /\ tagState' = [tagState EXCEPT ![t] = "core"]
    /\ tagCall' = [tagCall EXCEPT ![t] = c]
    /\ tagFinal' = [tagFinal EXCEPT ![t] = final]
    /\ CompletionQueueNext

(* Call::New: throws on a closed channel.                                  *)
New(c) ==
    /\ InJS
    /\ wrapped[c] = "none"
    /\ channelOpen
    /\ wrapped' = [wrapped EXCEPT ![c] = "live"]
    /\ held' = [held EXCEPT ![c] = TRUE]
    /\ UNCHANGED <<tagVars, callPending, finalDone, cancelled, queueVars,
                   loopVars, channelOpen>>

(* The core takes one batch with a final op per call: a second one fails   *)
(* with GRPC_CALL_ERROR_TOO_MANY_OPERATIONS.                               *)
FinalStarted(c) ==
    \/ finalDone[c]
    \/ \E t \in BatchesOf(c) : tagFinal[t]

(* Call::StartBatch on a call that has not been destroyed.  On one that    *)
(* has, the callback is called at once with an error: nothing changes.     *)
StartBatch(c, t, final) ==
    /\ InJS
    /\ held[c] /\ wrapped[c] = "live"
    /\ final => ~FinalStarted(c)
    /\ SubmitTag(t, c, final)
    /\ callPending' = [callPending EXCEPT ![c] = @ + 1]
    /\ UNCHANGED <<wrapped, finalDone, held, cancelled, loopVars, channelOpen>>

(* grpc_call_start_batch fails: StartBatch throws, having counted nothing, *)
(* and the tag, with its persistent handle on the Call, is never deleted.  *)
StartBatchRefused(c, t) ==
    /\ InJS
    /\ held[c] /\ wrapped[c] = "live"
    /\ FinalStarted(c)
    /\ tagState[t] = "free"
    /\ tagState' = [tagState EXCEPT ![t] = "leaked"]
    /\ tagCall' = [tagCall EXCEPT ![t] = c]
    /\ tagFinal' = [tagFinal EXCEPT ![t] = TRUE]
    /\ UNCHANGED <<callVars, queueVars, loopVars, channelOpen>>

(* Call::Cancel and Call::CancelWithStatus: silent on a destroyed call.    *)
Cancel(c) ==
    /\ InJS
    /\ held[c] /\ wrapped[c] = "live"
    /\ cancelled' = [cancelled EXCEPT ![c] = TRUE]
    /\ UNCHANGED <<tagVars, wrapped, callPending, finalDone, held, queueVars,
                   loopVars, channelOpen>>

(* JavaScript lets go of the Call object.                                  *)
Drop(c) ==
    /\ InJS
    /\ held[c]
    /\ held' = [held EXCEPT ![c] = FALSE]
    /\ UNCHANGED <<tagVars, wrapped, callPending, finalDone, cancelled,
                   queueVars, loopVars, channelOpen>>

(* Channel::WatchConnectivityState: a tag that belongs to no call.         *)
WatchConnectivityState(t) ==
    /\ InJS
    /\ channelOpen
    /\ SubmitTag(t, NoCall, FALSE)
    /\ UNCHANGED <<callVars, loopVars, channelOpen>>

(* Channel::Close: calls under way keep the core channel alive.            *)
Close ==
    /\ InJS
    /\ channelOpen
    /\ channelOpen' = FALSE
    /\ UNCHANGED <<tagVars, callVars, queueVars, loopVars>>

-----------------------------------------------------------------------------
(* External: the core completes a tag; V8 collects a Call object.          *)

CoreComplete(t) ==
    /\ tagState[t] = "core"
    /\ tagState' = [tagState EXCEPT ![t] = "queued"]
    /\ UNCHANGED <<tagCall, tagFinal, callVars, queueVars, loopVars,
                   channelOpen>>

(* Bug: the tag does not keep its Call object from being collected.        *)
CollectWithoutPersist(c) ==
    /\ InJS
    /\ ~held[c] /\ wrapped[c] = "live"
    /\ wrapped' = [wrapped EXCEPT ![c] = "destroyed"]
    /\ UNCHANGED <<tagVars, callPending, finalDone, held, cancelled, queueVars,
                   loopVars, channelOpen>>

(* ~Call, once neither JavaScript nor a tag refers to the object.          *)
Collect(c) ==
    /\ InJS
    /\ ~held[c] /\ wrapped[c] = "live"
    /\ \A t \in Tags :
          tagState[t] \in {"core", "queued", "running", "leaked"}
              => tagCall[t] # c
    /\ wrapped' = [wrapped EXCEPT ![c] = "destroyed"]
    /\ UNCHANGED <<tagVars, callPending, finalDone, held, cancelled, queueVars,
                   loopVars, channelOpen>>

-----------------------------------------------------------------------------
(* drain_completion_queue.                                                 *)

DrainBegin ==
    /\ prepare /\ ~draining
    /\ draining' = TRUE
    /\ UNCHANGED <<tagVars, callVars, queueVars, running, channelOpen>>

(* CompleteTag up to the call of the JavaScript callback.                  *)
CompleteTag(t) ==
    /\ draining /\ running = NoTag
    /\ tagState[t] = "queued"
    /\ tagState' = [tagState EXCEPT ![t] = "running"]
    /\ running' = t
    /\ UNCHANGED <<tagCall, tagFinal, callVars, queueVars, draining,
                   channelOpen>>

(* Bug: the call is destroyed only if its final op was the last to end.    *)
CompleteBatchLate(c, is_final_op) ==
    /\ finalDone' = [finalDone EXCEPT ![c] = @ \/ is_final_op]
    /\ callPending' = [callPending EXCEPT ![c] = @ - 1]
    /\ wrapped' = [wrapped EXCEPT ![c] =
          IF is_final_op /\ callPending'[c] = 0 THEN "destroyed" ELSE @]

CompleteBatch(c, is_final_op) ==
    /\ finalDone' = [finalDone EXCEPT ![c] = @ \/ is_final_op]
    /\ callPending' = [callPending EXCEPT ![c] = @ - 1]
    /\ wrapped' = [wrapped EXCEPT ![c] =
          IF finalDone'[c] /\ callPending'[c] = 0 THEN "destroyed" ELSE @]

(* The callback returns: the rest of CompleteTag, DestroyTag, and the      *)
(* queue's own count.                                                      *)
CallbackReturns ==
    /\ running # NoTag
    /\ IF tagCall[running] = NoCall
       THEN UNCHANGED <<wrapped, callPending, finalDone>>
       ELSE CompleteBatch(tagCall[running], tagFinal[running])
    /\ tagState' = [tagState EXCEPT ![running] = "deleted"]
    /\ pending' = pending - 1
    /\ prepare' = (prepare /\ pending' # 0)
    /\ running' = NoTag
    /\ UNCHANGED <<tagCall, tagFinal, held, cancelled, draining, channelOpen>>

(* GRPC_QUEUE_TIMEOUT: nothing is queued.                                  *)
DrainEnd ==
    /\ draining /\ running = NoTag
    /\ \A t \in Tags : tagState[t] # "queued"
    /\ draining' = FALSE
    /\ UNCHANGED <<tagVars, callVars, queueVars, running, channelOpen>>

-----------------------------------------------------------------------------
CallStep(c) ==
    \/ New(c) \/ Cancel(c) \/ Drop(c) \/ Collect(c)
    \/ \E t \in Tags : \/ \E final \in BOOLEAN : StartBatch(c, t, final)
                       \/ StartBatchRefused(c, t)

TagStep(t) == WatchConnectivityState(t) \/ CoreComplete(t) \/ CompleteTag(t)

Next ==
    \/ \E c \in Calls : CallStep(c)
    \/ \E t \in Tags : TagStep(t)
    \/ Close \/ DrainBegin \/ CallbackReturns \/ DrainEnd

(* Callbacks return, the loop keeps draining while the prepare handle is   *)
(* active, and the queue is first in, first out, so that no event is       *)
(* passed over for ever (strong fairness).  The core owes completions      *)
(* for a cancelled call only: a read on a live call may wait for its peer  *)
(* for ever.                                                               *)
Fairness ==
    /\ WF_vars(DrainBegin) /\ WF_vars(CallbackReturns) /\ WF_vars(DrainEnd)
    /\ \A t \in Tags :
          /\ SF_vars(CompleteTag(t))
          /\ WF_vars(tagCall[t] # NoCall /\ cancelled[tagCall[t]]
                     /\ CoreComplete(t))

Spec == Init /\ [][Next]_vars

FairSpec == Spec /\ Fairness

-----------------------------------------------------------------------------
(* Safety.                                                                 *)

(* pending_batches counts the tags on the queue exactly: every CQ          *)
(* operation that succeeds, and no other, is counted, and counted down     *)
(* after its callback (completion_queue.cc 55, 70).                        *)
QueueCountExact == pending = Cardinality(Outstanding)

(* Call::pending_batches counts the call's own batches exactly, however    *)
(* batches are started from inside callbacks and in whatever order they    *)
(* complete (call.cc 552-560, 730).                                        *)
CallCountExact == \A c \in Calls : callPending[c] = Cardinality(BatchesOf(c))

(* GPR_ASSERT(!uv_is_active(&prepare)) of CompletionQueueNext never fails, *)
(* and the loop is watching the queue whenever something is on it.         *)
PrepareActiveIffPending == prepare <=> pending # 0

(* The core call is alive as long as one of its batches is outstanding:    *)
(* neither the last CompleteBatch nor the garbage collector destroys it    *)
(* under a batch whose completion will use it (call.cc 489, 552-560).      *)
PendingBatchKeepsCall ==
    \A t \in Outstanding : tagCall[t] # NoCall => wrapped[tagCall[t]] = "live"

(* A call whose final op completed is destroyed no later than its last     *)
(* batch: it is not left to the garbage collector (call.cc 557-559).       *)
FinishedCallDestroyed ==
    \A c \in Calls :
        finalDone[c] /\ BatchesOf(c) = {} => wrapped[c] = "destroyed"

(* The tag being completed is the one whose callback is on the stack.      *)
RunningTag == running # NoTag => tagState[running] = "running"

(* The inductive invariant: the counts carry the argument.                 *)
CallInv ==
    /\ TypeOK
    /\ RunningTag
    /\ QueueCountExact
    /\ CallCountExact
    /\ PrepareActiveIffPending
    /\ PendingBatchKeepsCall
    /\ FinishedCallDestroyed

-----------------------------------------------------------------------------
(* Liveness.                                                               *)

(* Every batch of a cancelled call gets its callback, and a call that was  *)
(* cancelled after its final op was started is released even if JavaScript *)
(* never drops it.                                                         *)
CancelledCallEnds ==
    \A c \in Calls :
        /\ cancelled[c] ~> BatchesOf(c) = {}
        /\ cancelled[c] /\ FinalStarted(c) ~> wrapped[c] = "destroyed"
=============================================================================
