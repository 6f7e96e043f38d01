----------------------- MODULE OutgoingMetadataProofs -----------------------
(***************************************************************************)
(* HeadersInv is an invariant of OutgoingMetadata, for any number of calls *)
(* and objects, any units of time and any number of retries.  It follows   *)
(* that the headers of a call are exact.                                   *)
(***************************************************************************)
EXTENDS OutgoingMetadata, WellFoundedInduction, SequenceTheorems, TLAPS

-----------------------------------------------------------------------------
(* The inductive invariant.                                                *)

obj(c) == object[plan[c].obj]
Finite(c) == plan[c].deadline # Infinity

(* The text of a timeout was made at its time, in this attempt.            *)
TimeoutInv ==
    \A c \in DOMAIN plan : timeout[c] # Nothing =>
        /\ connected[c] /\ Finite(c) /\ timeout[c].at <= now
        /\ timeout[c].text = timeoutText(plan[c].deadline - timeout[c].at)

(* What the filters have written is there when the headers are made, but   *)
(* for what the application has changed since.  The timeout is the call's  *)
(* own if no other call has the object.                                    *)
Filtered(c) ==
    /\ stage[c] \in {"credentials", "deadline", "final"} =>
          \A k \in Encoding \ late[c] : obj(c)[k] = <<identity>>
    /\ stage[c] = "final" /\ Finite(c) =>
          /\ timeout[c] # Nothing /\ timeout[c].text # Nothing
          /\ "grpc-timeout" \notin late[c] =>
                /\ \E t \in Texts : obj(c)["grpc-timeout"] = <<t>>
                /\ Alone(c) => obj(c)["grpc-timeout"] = <<timeout[c].text>>
    /\ ~Finite(c) /\ Alone(c) => obj(c)["grpc-timeout"] \in Seq(Values)

FilterInv == \A c \in DOMAIN plan : Filtered(c)

(* The headers keep what the object was when they were made.               *)
Sent(c) ==
    LET h == headers[c].sent IN
    /\ c \in DOMAIN plan /\ stage[c] = "done"
    /\ \A k \in Encoding \ late[c] : h[k] = <<identity>>
    /\ Finite(c) =>
          /\ timeout[c] # Nothing /\ timeout[c].text # Nothing
          /\ timeout[c].at <= headers[c].at
          /\ "grpc-timeout" \notin late[c] =>
                /\ \E t \in Texts : h["grpc-timeout"] = <<t>>
                /\ Alone(c) => h["grpc-timeout"] = <<timeout[c].text>>
    /\ ~Finite(c) /\ Alone(c) => h["grpc-timeout"] \in Seq(Values)

SentInv == \A c \in Calls : headers[c] # Nothing => Sent(c)

HeadersInv == OmTypeOK /\ TimeoutInv /\ FilterInv /\ SentInv

-----------------------------------------------------------------------------
(* The text of a timeout.                                                  *)

(* A set of units that is not empty has a first.                           *)
LEMMA FirstUnit ==
    ASSUME NEW S \in SUBSET Nat, S # {}
    PROVE  \E i \in S : \A j \in S : i <= j
  <1>1. PICK i \in S : \A j \in S : ~(<<j, i>> \in OpToRel(<, Nat))
    BY NatLessThanWellFounded, WFMin
  <1>2. ASSUME NEW j \in S PROVE i <= j
    <2>1. <<j, i>> \in Nat \X Nat
      OBVIOUS
    <2>2. ~(j < i)
      BY <1>1, <2>1 DEF OpToRel
    <2> QED BY <2>2
  <1> QED BY <1>2

(* Rounding up, by less than a unit.                                       *)
LEMMA Ceiling ==
    ASSUME NEW ms \in Int, NEW f \in Nat \ {0}
    PROVE  /\ ceil(ms, f) \in Int
           /\ ceil(ms, f) * f >= ms
           /\ ceil(ms, f) * f - f < ms
  <1> DEFINE x == ms + f - 1
             q == x \div f
  <1>1. x \in Int /\ f \in Int /\ f > 0 /\ q \in Int
    OBVIOUS
  <1>2. q * f <= x /\ x < q * f + f
    BY <1>1
  <1>3. ceil(ms, f) = q
    BY DEF ceil
  <1>4. q * f >= ms /\ q * f - f < ms
    BY <1>1, <1>2
  <1> QED BY <1>1, <1>3, <1>4

(* The text that the deadline filter makes, if it makes one.               *)
LEMMA TimeoutText ==
    ASSUME NEW ms \in Int, timeoutText(ms) # Nothing
    PROVE  /\ timeoutText(ms) \in Texts
           /\ LET t == timeoutText(ms)
                  f == Factors[t.unit]
              IN  t.value * f >= ms /\ t.value * f - f < ms
  <1> DEFINE fits == {i \in 1..Len(Factors) : ms < Limit * Factors[i]}
             unit == CHOOSE i \in fits : \A j \in fits : i <= j
  <1>1. /\ fits # {}
        /\ timeoutText(ms) = [unit |-> unit, value |-> ceil(ms, Factors[unit])]
    BY DEF timeoutText
  <1>2. fits \in SUBSET Nat
    OBVIOUS
  <1>3. unit \in fits
    <2> HIDE DEF fits
    <2> QED BY <1>1, <1>2, FirstUnit
  <1> HIDE DEF unit
  <1>4. /\ unit \in 1..Len(Factors) /\ Factors[unit] \in Nat \ {0}
    BY <1>3, MetadataAssumption
  <1>5. /\ ceil(ms, Factors[unit]) \in Int
        /\ ceil(ms, Factors[unit]) * Factors[unit] >= ms
        /\ ceil(ms, Factors[unit]) * Factors[unit] - Factors[unit] < ms
    BY <1>4, Ceiling
  <1> QED BY <1>1, <1>4, <1>5 DEF Texts

-----------------------------------------------------------------------------
(* The start, and what a step leaves alone.                                *)

(* A call that is made has an object and a deadline.                       *)
LEMMA PlanFacts ==
    ASSUME plan \in Plans, NEW c \in DOMAIN plan
    PROVE  /\ c \in Calls /\ plan[c].obj \in Objects
           /\ Finite(c) => plan[c].deadline \in Nat
  <1>1. c \in Calls /\ plan[c] \in Plan
    BY MetadataAssumption
  <1> QED BY <1>1 DEF Plan, Finite

(* The calls and their objects never change.                               *)
LEMMA RigidPlan ==
    ASSUME UNCHANGED plan
    PROVE  /\ DOMAIN plan' = DOMAIN plan
           /\ \A c : /\ plan'[c] = plan[c] /\ (Alone(c)' <=> Alone(c))
                     /\ (Finite(c)' <=> Finite(c))
                     /\ obj(c)' = object'[plan[c].obj]
  BY DEF Alone, Finite, obj

(* No call has headers, no object has contents.                            *)
LEMMA InitInv == OmInit => HeadersInv
  <1> SUFFICES ASSUME OmInit PROVE HeadersInv
    OBVIOUS
  <1> USE DEF OmInit
  <1>1. Empty \in [Keys -> Seq(Entries)] /\ \A k \in Keys : Empty[k] = <<>>
    BY EmptySeq DEF Empty
  <1>2. OmTypeOK
    <2>1. object \in [Objects -> [Keys -> Seq(Entries)]]
      BY <1>1
    <2>2. 0 \in 0..MaxEdits /\ 0 \in 0..MaxNow /\ 0 \in 0..MaxRetries
      BY MetadataAssumption
    <2>3. /\ connected \in [Calls -> BOOLEAN] /\ over \in [Calls -> BOOLEAN]
          /\ retries \in [Calls -> 0..MaxRetries] /\ ready \in BOOLEAN
          /\ stage \in [Calls -> {"new", "compression", "credentials",
                                  "deadline", "final", "done"}]
      BY <2>2
    <2>4. late \in [Calls -> SUBSET Keys]
      OBVIOUS
    <2> QED BY <2>1, <2>2, <2>3, <2>4 DEF OmTypeOK
  <1>3. \A o \in Objects : object[o] = Empty
    OBVIOUS
  <1>4. "grpc-timeout" \in Keys /\ <<>> \in Seq(Values)
    BY EmptySeq DEF Keys
  <1>6. ASSUME NEW c \in DOMAIN plan
        PROVE  /\ c \in Calls /\ stage[c] = "new" /\ timeout[c] = Nothing
               /\ obj(c)["grpc-timeout"] = <<>>
    BY <1>1, <1>2, <1>3, <1>4, PlanFacts DEF obj, OmTypeOK
  <1>7. TimeoutInv /\ FilterInv
    BY <1>4, <1>6 DEF TimeoutInv, FilterInv, Filtered
  <1>8. SentInv
    BY DEF SentInv
  <1> QED BY <1>2, <1>7, <1>8 DEF HeadersInv

(* Headers that were made stay as they are.                                *)
LEMMA SentFrame ==
    ASSUME SentInv, UNCHANGED <<plan, headers>>,
           \A c \in Calls : stage[c] = "done" =>
               /\ stage'[c] = "done" /\ timeout'[c] = timeout[c]
               /\ late'[c] = late[c]
    PROVE  SentInv'
  BY RigidPlan DEF SentInv, Sent

(* Nothing changes but the time, which goes on.                            *)
LEMMA TimeoutFrame ==
    ASSUME OmTypeOK, TimeoutInv, UNCHANGED <<plan, connected, timeout>>,
           now' \in Nat, now <= now'
    PROVE  TimeoutInv'
  <1> SUFFICES ASSUME NEW c \in DOMAIN plan, timeout[c] # Nothing
               PROVE  /\ connected'[c] /\ Finite(c)' /\ timeout'[c].at <= now'
                      /\ timeout'[c].text =
                            timeoutText(plan'[c].deadline - timeout'[c].at)
    BY RigidPlan DEF TimeoutInv
  <1>1. timeout[c].at \in Nat /\ now \in Nat
    BY PlanFacts, MetadataAssumption DEF OmTypeOK
  <1> QED BY <1>1, RigidPlan DEF TimeoutInv

(* The objects and the timeouts stay, and no call comes to a later stage.  *)
LEMMA FilterFrame ==
    ASSUME FilterInv, UNCHANGED <<plan, object, late, timeout>>,
           \A d \in DOMAIN plan : \/ stage'[d] = stage[d]
                                  \/ stage'[d] \in {"compression", "done"}
    PROVE  FilterInv'
  <1> SUFFICES ASSUME NEW d \in DOMAIN plan PROVE Filtered(d)'
    BY RigidPlan DEF FilterInv
  <1>1. obj(d)' = obj(d) /\ (Finite(d)' <=> Finite(d)) /\ (Alone(d)' <=> Alone(d))
    BY RigidPlan DEF obj
  <1> QED BY <1>1 DEF FilterInv, Filtered

(* The object of a call gets new contents.                                 *)
Written(c, md) ==
    /\ object' \in [Objects -> [Keys -> Seq(Entries)]]
    /\ object'[plan[c].obj] = md
    /\ \A o \in Objects : o # plan[c].obj => object'[o] = object[o]

(* What a filter writes.                                                   *)
LEMMA WriteObject ==
    ASSUME OmTypeOK, NEW c \in DOMAIN plan, NEW md \in [Keys -> Seq(Entries)],
           write(c, md)
    PROVE  Written(c, md)
  <1>1. plan[c].obj \in Objects /\ object \in [Objects -> [Keys -> Seq(Entries)]]
    BY PlanFacts DEF OmTypeOK
  <1>2. object' = [object EXCEPT ![plan[c].obj] = md]
    BY DEF write
  <1> QED BY <1>1, <1>2 DEF Written

(* A call that starts.                                                     *)
LEMMA CreateInv ==
    ASSUME HeadersInv, NEW c \in DOMAIN plan, createStream(c) PROVE HeadersInv'
  <1>1. /\ OmTypeOK /\ TimeoutInv /\ FilterInv /\ SentInv
        /\ stage[c] = "new" /\ c \in Calls
        /\ stage' = [stage EXCEPT ![c] = "compression"]
        /\ UNCHANGED <<plan, edits, object, late, now, ready, connected, timeout,
                       retries, over, headers>>
    BY PlanFacts DEF HeadersInv, createStream, Goes, made, OmTypeOK
  <1>2. OmTypeOK'
    BY <1>1 DEF OmTypeOK
  <1>3. TimeoutInv'
    BY <1>1, RigidPlan DEF TimeoutInv
  <1>4. /\ stage'[c] = "compression"
        /\ \A d \in Calls : d # c => stage'[d] = stage[d]
    BY <1>1 DEF OmTypeOK
  <1>5. FilterInv'
    BY <1>1, <1>4, PlanFacts, FilterFrame DEF OmTypeOK
  <1>6. SentInv'
    BY <1>1, <1>4, SentFrame
  <1> QED BY <1>2, <1>3, <1>5, <1>6 DEF HeadersInv

-----------------------------------------------------------------------------
(* The filters.                                                            *)

(* Contents new are old, but for the values under key k.                   *)
Replaced(new, old, k, values) ==
    /\ new \in [Keys -> Seq(Entries)] /\ new[k] = values
    /\ \A l \in Keys : l # k => new[l] = old[l]

(* A value is set under a key.                                             *)
LEMMA SetValue ==
    ASSUME NEW md \in [Keys -> Seq(Entries)], NEW k \in Keys, NEW v \in Entries
    PROVE  Replaced(set(md, k, v), md, k, <<v>>)
  <1>1. <<v>> \in Seq(Entries)
    OBVIOUS
  <1> QED BY <1>1 DEF set, Replaced

(* The encodings are set.                                                  *)
LEMMA CompressionInv ==
    ASSUME HeadersInv, NEW c \in DOMAIN plan, CompressionFilter(c)
    PROVE  HeadersInv'
  <1> DEFINE md1 == set(object[plan[c].obj], "grpc-encoding", identity)
             md == set(md1, "grpc-accept-encoding", identity)
  <1>1. /\ OmTypeOK /\ TimeoutInv /\ FilterInv /\ SentInv
        /\ stage[c] = "compression" /\ c \in Calls
        /\ stage' = [stage EXCEPT ![c] = "credentials"] /\ write(c, md)
        /\ late' = [late EXCEPT ![c] = @ \ Encoding]
        /\ UNCHANGED <<plan, edits, now, ready, connected, timeout, retries,
                       over, headers>>
        /\ plan[c].obj \in Objects
    BY PlanFacts DEF HeadersInv, CompressionFilter, Goes, made, OmTypeOK
  <1>2. /\ identity \in Entries /\ "grpc-encoding" \in Keys
        /\ "grpc-accept-encoding" \in Keys /\ "grpc-timeout" \in Keys
        /\ "grpc-timeout" \notin Encoding
        /\ Encoding = {"grpc-encoding", "grpc-accept-encoding"}
    BY DEF Entries, Keys, Encoding
  <1>3. object[plan[c].obj] \in [Keys -> Seq(Entries)]
    BY <1>1 DEF OmTypeOK
  <1>4. /\ md1 \in [Keys -> Seq(Entries)] /\ md1["grpc-encoding"] = <<identity>>
        /\ md1["grpc-timeout"] = object[plan[c].obj]["grpc-timeout"]
    <2>1. Replaced(md1, object[plan[c].obj], "grpc-encoding", <<identity>>)
      BY <1>2, <1>3, SetValue
    <2> HIDE DEF md1
    <2> QED BY <1>2, <2>1 DEF Replaced
  <1>5. /\ md \in [Keys -> Seq(Entries)]
        /\ \A k \in Encoding : md[k] = <<identity>>
        /\ md["grpc-timeout"] = object[plan[c].obj]["grpc-timeout"]
    <2> HIDE DEF md1
    <2>1. Replaced(md, md1, "grpc-accept-encoding", <<identity>>)
      BY <1>2, <1>4, SetValue
    <2> HIDE DEF md
    <2> QED BY <1>2, <1>4, <2>1 DEF Replaced
  <1> HIDE DEF md
  <1>6. Written(c, md)
    BY <1>1, <1>5, WriteObject
  <1>7. OmTypeOK'
    BY <1>1, <1>6 DEF OmTypeOK, Written
  <1>8. /\ late'[c] = late[c] \ Encoding
        /\ \A d \in Calls : d # c => late'[d] = late[d]
    BY <1>1 DEF OmTypeOK
  <1>9. /\ stage'[c] = "credentials"
        /\ \A d \in Calls : d # c => stage'[d] = stage[d]
    BY <1>1 DEF OmTypeOK
  <1>10. FilterInv'
    <2> SUFFICES ASSUME NEW d \in DOMAIN plan PROVE Filtered(d)'
      BY <1>1, RigidPlan DEF FilterInv
    <2>1. d \in Calls /\ plan[d].obj \in Objects /\ Filtered(d)
      BY <1>1, PlanFacts DEF OmTypeOK, FilterInv
    <2>2. /\ (Finite(d)' <=> Finite(d)) /\ (Alone(d)' <=> Alone(d))
          /\ obj(d)' = object'[plan[d].obj]
      BY <1>1, RigidPlan
    <2>3. CASE plan[d].obj = plan[c].obj
      <3>1. /\ obj(d)' = md
            /\ obj(d)'["grpc-timeout"] = obj(d)["grpc-timeout"]
        BY <1>5, <1>6, <2>2, <2>3 DEF Written, obj
      <3>2. "grpc-timeout" \in late'[d] <=> "grpc-timeout" \in late[d]
        BY <1>2, <1>8, <2>1
      <3> QED BY <1>1, <1>5, <1>9, <2>1, <2>2, <3>1, <3>2 DEF Filtered
    <2>4. CASE plan[d].obj # plan[c].obj
      <3>1. obj(d)' = obj(d) /\ d # c
        BY <1>6, <2>1, <2>2, <2>4 DEF Written, obj
      <3> QED BY <1>1, <1>8, <1>9, <2>1, <2>2, <3>1 DEF Filtered
    <2> QED BY <2>3, <2>4
  <1>11. SentInv'
    BY <1>1, <1>8, <1>9, SentFrame
  <1>12. TimeoutInv'
    BY <1>1, RigidPlan DEF TimeoutInv
  <1> QED BY <1>7, <1>10, <1>11, <1>12 DEF HeadersInv

(* Merging nothing changes nothing.                                        *)
LEMMA MergeEmpty ==
    ASSUME NEW md \in [Keys -> Seq(Entries)] PROVE merge(md, Empty) = md
  <1>1. ASSUME NEW k \in Keys PROVE md[k] \o Empty[k] = md[k]
    BY <1>1, ConcatEmptySeq DEF Empty
  <1> QED BY <1>1 DEF merge

(* The credentials add nothing.                                            *)
LEMMA CredentialsInv ==
    ASSUME HeadersInv, NEW c \in DOMAIN plan, CallCredentialsFilter(c)
    PROVE  HeadersInv'
  <1>1. /\ OmTypeOK /\ TimeoutInv /\ FilterInv /\ SentInv
        /\ stage[c] = "credentials" /\ c \in Calls
        /\ stage' = [stage EXCEPT ![c] = "deadline"]
        /\ write(c, merge(object[plan[c].obj], Empty))
        /\ UNCHANGED <<plan, edits, late, now, ready, connected, timeout, retries,
                       over, headers>>
        /\ plan[c].obj \in Objects
    BY PlanFacts DEF HeadersInv, CallCredentialsFilter, Goes, made, OmTypeOK
  <1>2. object[plan[c].obj] \in [Keys -> Seq(Entries)]
    BY <1>1 DEF OmTypeOK
  <1>3. UNCHANGED object
    <2>1. object' = [object EXCEPT ![plan[c].obj] = object[plan[c].obj]]
      BY <1>1, <1>2, MergeEmpty DEF write
    <2> QED BY <1>1, <2>1 DEF OmTypeOK
  <1>4. OmTypeOK'
    BY <1>1, <1>3 DEF OmTypeOK
  <1>5. TimeoutInv'
    BY <1>1, RigidPlan DEF TimeoutInv
  <1>6. /\ stage'[c] = "deadline"
        /\ \A d \in Calls : d # c => stage'[d] = stage[d]
    BY <1>1 DEF OmTypeOK
  <1>7. FilterInv'
    <2> SUFFICES ASSUME NEW d \in DOMAIN plan PROVE Filtered(d)'
      BY <1>1, RigidPlan DEF FilterInv
    <2>1. d \in Calls /\ Filtered(d)
      BY <1>1, PlanFacts DEF OmTypeOK, FilterInv
    <2>2. /\ (Finite(d)' <=> Finite(d)) /\ (Alone(d)' <=> Alone(d))
          /\ obj(d)' = obj(d)
      BY <1>1, <1>3, RigidPlan DEF obj
    <2> QED BY <1>1, <1>6, <2>1, <2>2 DEF Filtered
  <1>8. SentInv'
    BY <1>1, <1>6, SentFrame
  <1> QED BY <1>4, <1>5, <1>7, <1>8 DEF HeadersInv

(* The timeout is set, if the call has a deadline.                         *)
LEMMA DeadlineFilterInv ==
    ASSUME HeadersInv, NEW c \in DOMAIN plan, DeadlineFilter(c)
    PROVE  HeadersInv'
  <1>1. /\ OmTypeOK /\ TimeoutInv /\ FilterInv /\ SentInv
        /\ stage[c] = "deadline" /\ c \in Calls
        /\ stage' = [stage EXCEPT ![c] = "final"]
        /\ UNCHANGED <<plan, edits, now, ready, connected, timeout, retries,
                       over, headers>>
        /\ plan[c].obj \in Objects
    BY PlanFacts DEF HeadersInv, DeadlineFilter, Goes, made, OmTypeOK
  <1>2. /\ stage'[c] = "final"
        /\ \A d \in Calls : d # c => stage'[d] = stage[d]
    BY <1>1 DEF OmTypeOK
  <1>3. ASSUME \A d \in Calls : d # c => late'[d] = late[d] PROVE SentInv'
    BY <1>1, <1>2, <1>3, SentFrame
  <1>4. TimeoutInv'
    BY <1>1, RigidPlan DEF TimeoutInv
  <1>5. ASSUME NEW d \in DOMAIN plan
        PROVE  /\ d \in Calls /\ plan[d].obj \in Objects /\ Filtered(d)
               /\ (Finite(d)' <=> Finite(d)) /\ (Alone(d)' <=> Alone(d))
               /\ obj(d)' = object'[plan[d].obj]
    BY <1>1, PlanFacts, RigidPlan DEF OmTypeOK, FilterInv
  <1>6. CASE ~Finite(c) /\ UNCHANGED <<object, late>>
    <2>1. OmTypeOK'
      BY <1>1, <1>6 DEF OmTypeOK
    <2>2. ASSUME NEW d \in DOMAIN plan PROVE Filtered(d)'
      <3>1. obj(d)' = obj(d)
        BY <1>5, <1>6 DEF obj
      <3> QED BY <1>1, <1>2, <1>5, <1>6, <3>1 DEF Filtered
    <2>3. FilterInv'
      BY <1>1, <2>2, RigidPlan DEF FilterInv
    <2> QED BY <1>3, <1>4, <1>6, <2>1, <2>3 DEF HeadersInv
  <1>7. CASE /\ Finite(c) /\ timeout[c] # Nothing /\ timeout[c].text # Nothing
             /\ write(c, set(object[plan[c].obj], "grpc-timeout",
                             timeout[c].text))
             /\ late' = [late EXCEPT ![c] = @ \ {"grpc-timeout"}]
    <2> DEFINE md == set(object[plan[c].obj], "grpc-timeout", timeout[c].text)
    <2>1. timeout[c].text \in Texts /\ timeout[c].text \in Entries
      BY <1>1, <1>7 DEF OmTypeOK, Entries
    <2>2. /\ "grpc-timeout" \in Keys
          /\ Encoding \subseteq Keys /\ "grpc-timeout" \notin Encoding
      BY DEF Keys, Encoding
    <2>3. object[plan[c].obj] \in [Keys -> Seq(Entries)]
      BY <1>1 DEF OmTypeOK
    <2>4. /\ md \in [Keys -> Seq(Entries)]
          /\ md["grpc-timeout"] = <<timeout[c].text>>
          /\ \A k \in Encoding : md[k] = object[plan[c].obj][k]
      <3>1. Replaced(md, object[plan[c].obj], "grpc-timeout", <<timeout[c].text>>)
        BY <2>1, <2>2, <2>3, SetValue
      <3> HIDE DEF md
      <3> QED BY <2>2, <3>1 DEF Replaced
    <2>5. Written(c, md)
      BY <1>1, <1>7, <2>4, WriteObject
    <2> HIDE DEF md
    <2>6. OmTypeOK'
      BY <1>1, <1>7, <2>5 DEF OmTypeOK, Written
    <2>7. /\ late'[c] = late[c] \ {"grpc-timeout"}
          /\ \A d \in Calls : d # c => late'[d] = late[d]
      BY <1>1, <1>7 DEF OmTypeOK
    <2>8. \A k \in Encoding : k \in late'[c] <=> k \in late[c]
      BY <2>2, <2>7
    <2>9. ASSUME NEW d \in DOMAIN plan PROVE Filtered(d)'
      <3>1. CASE d = c
        <4>1. obj(d)' = md
          BY <1>5, <2>5, <3>1 DEF Written
        <4>2. \A k \in Encoding \ late'[c] : md[k] = <<identity>>
          BY <1>1, <1>5, <2>4, <2>8 DEF Filtered, obj
        <4> QED BY <1>1, <1>5, <1>7, <2>1, <2>4, <3>1, <4>1, <4>2 DEF Filtered
      <3>2. CASE d # c /\ plan[d].obj = plan[c].obj
        <4>1. obj(d)' = md /\ ~Alone(d)
          BY <1>5, <2>5, <3>2 DEF Written, Alone
        <4>2. \A k \in Encoding : md[k] = obj(d)[k]
          BY <2>4, <3>2 DEF obj
        <4> QED BY <1>1, <1>2, <1>5, <2>1, <2>4, <2>7, <3>2, <4>1, <4>2
                DEF Filtered
      <3>3. CASE plan[d].obj # plan[c].obj
        <4>1. obj(d)' = obj(d) /\ d # c
          BY <1>5, <2>5, <3>3 DEF Written, obj
        <4> QED BY <1>1, <1>2, <1>5, <2>7, <4>1 DEF Filtered
      <3> QED BY <3>1, <3>2, <3>3
    <2>10. FilterInv'
      BY <1>1, <2>9, RigidPlan DEF FilterInv
    <2> QED BY <1>3, <1>4, <2>6, <2>7, <2>10 DEF HeadersInv
  <1> QED BY <1>6, <1>7 DEF DeadlineFilter, Finite

-----------------------------------------------------------------------------
(* The channel, the clock and the application.                             *)

(* The callbacks of connect(): the text is made.                           *)
LEMMA ConnectInv ==
    ASSUME HeadersInv, NEW c \in DOMAIN plan, ConnectCallbacks(c)
    PROVE  HeadersInv'
  <1> DEFINE made_ == IF plan[c].deadline = Infinity THEN Nothing
                      ELSE [text |-> timeoutText(plan[c].deadline - now),
                            at |-> now]
  <1>1. /\ OmTypeOK /\ TimeoutInv /\ FilterInv /\ SentInv
        /\ stage[c] # "done" /\ ~connected[c] /\ c \in Calls
        /\ connected' = [connected EXCEPT ![c] = TRUE]
        /\ timeout' = [timeout EXCEPT ![c] = made_]
        /\ UNCHANGED <<plan, edits, object, late, now, ready, stage, retries,
                       over, headers>>
    BY PlanFacts DEF HeadersInv, ConnectCallbacks, made, OmTypeOK
  <1>2. now \in 0..MaxNow /\ now \in Nat
    BY <1>1, MetadataAssumption DEF OmTypeOK
  <1>3. /\ made_ \in {Nothing} \cup [text : Texts \cup {Nothing}, at : 0..MaxNow]
        /\ made_ # Nothing =>
              /\ Finite(c) /\ made_.at = now
              /\ made_.text = timeoutText(plan[c].deadline - now)
    <2>1. CASE ~Finite(c)
      BY <2>1 DEF Finite
    <2>2. CASE Finite(c)
      <3>1. plan[c].deadline - now \in Int
        BY <1>1, <1>2, <2>2, PlanFacts DEF OmTypeOK
      <3>2. timeoutText(plan[c].deadline - now) \in Texts \cup {Nothing}
        BY <3>1, TimeoutText
      <3> QED BY <1>2, <2>2, <3>2 DEF Finite
    <2> QED BY <2>1, <2>2
  <1> HIDE DEF made_
  <1>4. OmTypeOK'
    BY <1>1, <1>3 DEF OmTypeOK
  <1>5. /\ timeout'[c] = made_ /\ connected'[c]
        /\ \A d \in Calls : d # c => /\ timeout'[d] = timeout[d]
                                     /\ connected'[d] = connected[d]
    BY <1>1 DEF OmTypeOK
  <1>6. TimeoutInv'
    <2> SUFFICES ASSUME NEW d \in DOMAIN plan, timeout'[d] # Nothing
                 PROVE  /\ connected'[d] /\ Finite(d)' /\ timeout'[d].at <= now'
                        /\ timeout'[d].text =
                              timeoutText(plan'[d].deadline - timeout'[d].at)
      BY <1>1, RigidPlan DEF TimeoutInv
    <2>1. CASE d = c
      BY <1>1, <1>2, <1>3, <1>5, <2>1, RigidPlan
    <2>2. CASE d # c
      <3>1. d \in Calls
        BY <1>1, PlanFacts DEF OmTypeOK
      <3> QED BY <1>1, <1>5, <2>2, <3>1, RigidPlan DEF TimeoutInv
    <2> QED BY <2>1, <2>2
  <1>7. FilterInv'
    <2> SUFFICES ASSUME NEW d \in DOMAIN plan PROVE Filtered(d)'
      BY <1>1, RigidPlan DEF FilterInv
    <2>1. /\ d \in Calls /\ Filtered(d)
          /\ (Finite(d)' <=> Finite(d)) /\ (Alone(d)' <=> Alone(d))
          /\ obj(d)' = obj(d)
      BY <1>1, PlanFacts, RigidPlan DEF OmTypeOK, FilterInv, obj
    <2>2. CASE d = c
      <3>1. ~(stage[d] = "final" /\ Finite(d))
        BY <1>1, <2>1, <2>2 DEF Filtered, TimeoutInv
      <3> QED BY <1>1, <2>1, <3>1 DEF Filtered
    <2>3. CASE d # c
      BY <1>1, <1>5, <2>1, <2>3 DEF Filtered
    <2> QED BY <2>2, <2>3
  <1>8. SentInv'
    BY <1>1, <1>5, SentFrame
  <1> QED BY <1>4, <1>6, <1>7, <1>8 DEF HeadersInv

(* The deadline timer, the connection and the clock.                       *)
LEMMA TimeInv ==
    ASSUME HeadersInv, Environment \/ \E c \in DOMAIN plan : DeadlineTimer(c)
    PROVE  HeadersInv'
  <1>1. /\ OmTypeOK /\ TimeoutInv /\ FilterInv /\ SentInv
        /\ UNCHANGED <<plan, edits, object, late, stage, connected, timeout,
                       retries, headers>>
    BY DEF HeadersInv, Environment, DeadlineTimer, made, callVars
  <1>2. now \in Nat /\ MaxNow \in Nat
    BY <1>1, MetadataAssumption DEF OmTypeOK
  <1>3. now' = now \/ (now < MaxNow /\ now' = now + 1)
    BY DEF Environment, DeadlineTimer
  <1>4. now' \in 0..MaxNow /\ now' \in Nat /\ now <= now'
    BY <1>1, <1>2, <1>3 DEF OmTypeOK
  <1>5. ready' \in BOOLEAN /\ over' \in [Calls -> BOOLEAN]
    BY <1>1 DEF OmTypeOK, Environment, DeadlineTimer, callVars
  <1>6. OmTypeOK'
    BY <1>1, <1>4, <1>5 DEF OmTypeOK
  <1>7. TimeoutInv' /\ FilterInv' /\ SentInv'
    BY <1>1, <1>4, TimeoutFrame, FilterFrame, SentFrame
  <1> QED BY <1>6, <1>7 DEF HeadersInv

(* The application has changed the contents old of an object into md, under *)
(* one key, and with its own values.                                       *)
Edited(old, md, k) ==
    /\ md \in [Keys -> Seq(Entries)] /\ \A l \in Keys : l # k => md[l] = old[l]
    /\ old[k] \in Seq(Values) => md[k] \in Seq(Values)

(* New values under a key.                                                 *)
LEMMA EditKey ==
    ASSUME NEW old \in [Keys -> Seq(Entries)], NEW k \in Keys,
           NEW s \in Seq(Entries), old[k] \in Seq(Values) => s \in Seq(Values)
    PROVE  Edited(old, [old EXCEPT ![k] = s], k)
  BY DEF Edited

(* What set, add and remove do with a key and a value that validate.       *)
LEMMA EditValues ==
    ASSUME NEW old \in [Keys -> Seq(Entries)], NEW k \in Keys, NEW v \in Values
    PROVE  /\ Edited(old, set(old, k, v), k) /\ Edited(old, add(old, k, v), k)
           /\ Edited(old, remove(old, k), k)
  <1>1. Edited(old, remove(old, k), k)
    <2>1. <<>> \in Seq(Entries) /\ <<>> \in Seq(Values)
      BY EmptySeq
    <2> QED BY <2>1, EditKey DEF remove
  <1>2. v \in Entries
    BY DEF Entries
  <1>3. Edited(old, set(old, k, v), k)
    <2>1. <<v>> \in Seq(Entries) /\ <<v>> \in Seq(Values)
      BY <1>2
    <2> QED BY <2>1, EditKey DEF set
  <1>4. Edited(old, add(old, k, v), k)
    <2> DEFINE s == Append(old[k], v)
    <2>1. s \in Seq(Entries) /\ (old[k] \in Seq(Values) => s \in Seq(Values))
      BY <1>2, AppendProperties
    <2> HIDE DEF s
    <2>2. Edited(old, [old EXCEPT ![k] = s], k)
      BY <2>1, EditKey
    <2> QED BY <2>2 DEF add, s
  <1> QED BY <1>1, <1>3, <1>4

(* The application edits an object: any key, its own values.               *)
LEMMA EditInv == ASSUME HeadersInv, NEW o \in Objects, Edit(o) PROVE HeadersInv'
  <1>1. /\ OmTypeOK /\ TimeoutInv /\ FilterInv /\ SentInv
        /\ edits < MaxEdits /\ edits' = edits + 1
        /\ UNCHANGED <<plan, now, ready, stage, connected, timeout, retries,
                       over, headers>>
        /\ object[o] \in [Keys -> Seq(Entries)]
    BY DEF HeadersInv, Edit, callVars, OmTypeOK
  <1>2. PICK key \in Spellings :
          LET k == normalizeKey(key) IN
          /\ \/ \E v \in Values :
                   /\ validate(k, v)
                   /\ object' \in {[object EXCEPT ![o] = set(@, k, v)],
                                   [object EXCEPT ![o] = add(@, k, v)]}
             \/ isLegalKey(k) /\ object' = [object EXCEPT ![o] = remove(@, k)]
          /\ late' = [c \in Calls |-> IF c \in Using(o) THEN late[c] \cup {k}
                                     ELSE late[c]]
    BY DEF Edit
  <1> DEFINE k == normalizeKey(key)
  <1>3. k \in Keys
    <2>1. isLegalKey(k)
      BY <1>2 DEF validate
    <2> QED BY <2>1 DEF Spellings, normalizeKey, isLegalKey, Keys, Encoding
  <1>4. PICK md : object' = [object EXCEPT ![o] = md] /\ Edited(object[o], md, k)
    <2>1. [type |-> "Buffer", data |-> "legal"] \in Values
      BY DEF Values
    <2>2. PICK v \in Values :
            \/ object' = [object EXCEPT ![o] = set(object[o], k, v)]
            \/ object' = [object EXCEPT ![o] = add(object[o], k, v)]
            \/ object' = [object EXCEPT ![o] = remove(object[o], k)]
      BY <1>2, <2>1 DEF set, add, remove
    <2>3. /\ Edited(object[o], set(object[o], k, v), k)
          /\ Edited(object[o], add(object[o], k, v), k)
          /\ Edited(object[o], remove(object[o], k), k)
      BY <1>1, <1>3, EditValues
    <2> HIDE DEF k
    <2> QED BY <2>2, <2>3
  <1>5. late' = [c \in Calls |-> IF c \in Using(o) THEN late[c] \cup {k}
                                ELSE late[c]]
    BY <1>2
  <1> HIDE DEF k
  <1>6. /\ object' \in [Objects -> [Keys -> Seq(Entries)]] /\ object'[o] = md
        /\ \A p \in Objects : p # o => object'[p] = object[p]
    BY <1>1, <1>4 DEF OmTypeOK, Edited
  <1>7. OmTypeOK'
    <2>1. edits' \in 0..MaxEdits
      BY <1>1, MetadataAssumption DEF OmTypeOK
    <2>2. late' \in [Calls -> SUBSET Keys]
      BY <1>1, <1>3, <1>5 DEF OmTypeOK
    <2> QED BY <1>1, <1>6, <2>1, <2>2 DEF OmTypeOK
  <1>8. Encoding \subseteq Keys /\ "grpc-timeout" \in Keys
    BY DEF Encoding, Keys
  <1>9. FilterInv'
    <2> SUFFICES ASSUME NEW d \in DOMAIN plan PROVE Filtered(d)'
      BY <1>1, RigidPlan DEF FilterInv
    <2>1. /\ d \in Calls /\ Filtered(d) /\ plan[d].obj \in Objects
          /\ (Finite(d)' <=> Finite(d)) /\ (Alone(d)' <=> Alone(d))
          /\ obj(d)' = object'[plan[d].obj]
      BY <1>1, PlanFacts, RigidPlan DEF OmTypeOK, FilterInv
    <2>2. CASE plan[d].obj # o
      <3>1. obj(d)' = obj(d) /\ d \notin Using(o)
        BY <1>6, <2>1, <2>2 DEF obj, Using
      <3>2. late'[d] = late[d]
        BY <1>5, <2>1, <3>1
      <3> QED BY <1>1, <2>1, <3>1, <3>2 DEF Filtered
    <2>3. CASE plan[d].obj = o
      <3>1. /\ \A l \in Keys : l # k => obj(d)'[l] = obj(d)[l]
            /\ obj(d)["grpc-timeout"] \in Seq(Values) =>
                  obj(d)'["grpc-timeout"] \in Seq(Values)
        BY <1>4, <1>6, <1>8, <2>1, <2>3 DEF obj, Edited
      <3>2. /\ late[d] \subseteq late'[d]
            /\ stage[d] \in {"credentials", "deadline", "final"} => k \in late'[d]
        BY <1>5, <2>1, <2>3 DEF Using
      <3>3. stage[d] \in {"credentials", "deadline", "final"} =>
              /\ \A l \in Encoding \ late'[d] : obj(d)'[l] = <<identity>>
              /\ "grpc-timeout" \notin late'[d] =>
                    /\ "grpc-timeout" \notin late[d]
                    /\ obj(d)'["grpc-timeout"] = obj(d)["grpc-timeout"]
        BY <1>8, <2>1, <3>1, <3>2 DEF Filtered
      <3> QED BY <1>1, <2>1, <3>1, <3>3 DEF Filtered
    <2> QED BY <2>2, <2>3
  <1>10. TimeoutInv'
    BY <1>1, RigidPlan DEF TimeoutInv
  <1>11. SentInv'
    <2>1. \A d \in Calls : stage[d] = "done" => late'[d] = late[d]
      BY <1>5 DEF Using
    <2> QED BY <1>1, <2>1, SentFrame
  <1> QED BY <1>7, <1>9, <1>10, <1>11 DEF HeadersInv

-----------------------------------------------------------------------------
(* The headers of the request.                                             *)

(* Headers are made of the contents of an object: Buffers are encoded.     *)
LEMMA MakeHeaders ==
    ASSUME NEW md \in [Keys -> Seq(Entries)]
    PROVE  LET h == toHttp2Headers(md) IN
           /\ h \in [Keys -> Seq(Entries \cup Encoded)]
           /\ \A k \in Keys : k # "x-user-bin" => h[k] = md[k]
  <1> DEFINE h == toHttp2Headers(md)
             b == md["x-user-bin"]
             e == Mapped(b, encode)
  <1>1. "x-user-bin" \in Keys
    BY DEF Keys
  <1>2. b \in Seq(Entries) /\ Len(b) \in Nat
    BY <1>1, LenProperties
  <1>3. \A i \in 1..Len(b) : b[i] \in Entries
    BY <1>2, ElementOfSeq
  <1>4. e = [i \in 1..Len(b) |-> [type |-> "base64", data |-> b[i]]]
    BY DEF Mapped, encode
  <1>5. \A i \in 1..Len(b) : [type |-> "base64", data |-> b[i]] \in Encoded
    BY <1>3 DEF Encoded
  <1>6. e \in Seq(Entries \cup Encoded)
    <2> HIDE DEF e, b
    <2>1. e \in [1..Len(b) -> Entries \cup Encoded]
      BY <1>4, <1>5
    <2> QED BY <1>2, <2>1, SeqDef
  <1>7. h = [k \in Keys |-> IF k = "x-user-bin" THEN e ELSE md[k]]
    BY DEF toHttp2Headers, isBinaryKey
  <1>8. \A k \in Keys : md[k] \in Seq(Entries \cup Encoded)
    OBVIOUS
  <1>9. /\ h \in [Keys -> Seq(Entries \cup Encoded)]
        /\ \A k \in Keys : k # "x-user-bin" => h[k] = md[k]
    <2> HIDE DEF e, h
    <2> QED BY <1>6, <1>7, <1>8
  <1> QED BY <1>9 DEF h

(* The call is over, its request is made, or it begins again.              *)
LEMMA StartInv ==
    ASSUME HeadersInv, NEW c \in DOMAIN plan, startHttp2Stream(c)
    PROVE  HeadersInv'
  <1>1. /\ OmTypeOK /\ TimeoutInv /\ FilterInv /\ SentInv
        /\ stage[c] = "final" /\ c \in Calls
        /\ UNCHANGED <<plan, edits, object, now, ready, over, late>>
        /\ plan[c].obj \in Objects /\ Filtered(c)
    BY PlanFacts DEF HeadersInv, startHttp2Stream, Goes, made, OmTypeOK, FilterInv
  <1>3. ASSUME NEW to \in {"compression", "done"},
               stage' = [stage EXCEPT ![c] = to]
        PROVE  /\ stage'[c] = to /\ \A d \in Calls : d # c => stage'[d] = stage[d]
               /\ stage' \in [Calls -> {"new", "compression", "credentials",
                                        "deadline", "final", "done"}]
               /\ \A d \in DOMAIN plan : \/ stage'[d] = stage[d]
                                         \/ stage'[d] \in {"compression", "done"}
    <2>1. \A d \in DOMAIN plan : d \in Calls
      BY <1>1, PlanFacts DEF OmTypeOK
    <2> QED BY <1>1, <1>3, <2>1 DEF OmTypeOK
  <1>4. CASE /\ stage' = [stage EXCEPT ![c] = "done"]
             /\ UNCHANGED <<headers, connected, timeout, retries>>
    <2>1. OmTypeOK'
      BY <1>1, <1>3, <1>4 DEF OmTypeOK
    <2>2. TimeoutInv'
      BY <1>1, <1>4, RigidPlan DEF TimeoutInv
    <2>3. FilterInv'
      BY <1>1, <1>3, <1>4, FilterFrame
    <2>4. \A d \in Calls : stage[d] = "done" =>
             stage'[d] = "done" /\ timeout'[d] = timeout[d]
      BY <1>3, <1>4
    <2>5. SentInv'
      BY <1>1, <1>4, <2>4, SentFrame
    <2> QED BY <2>1, <2>2, <2>3, <2>5 DEF HeadersInv
  <1>5. CASE /\ stage' = [stage EXCEPT ![c] = "done"]
             /\ headers' = [headers EXCEPT ![c] =
                   [sent |-> toHttp2Headers(object[plan[c].obj]), at |-> now]]
             /\ UNCHANGED <<connected, timeout, retries>>
    <2> DEFINE md == object[plan[c].obj]
               h == toHttp2Headers(md)
    <2>1. md \in [Keys -> Seq(Entries)]
      BY <1>1 DEF OmTypeOK
    <2>2. /\ h \in [Keys -> Seq(Entries \cup Encoded)]
          /\ \A k \in Keys : k # "x-user-bin" => h[k] = md[k]
      BY <2>1, MakeHeaders
    <2> HIDE DEF h
    <2>3. headers' = [headers EXCEPT ![c] = [sent |-> h, at |-> now]]
      BY <1>5 DEF h
    <2>4. /\ headers'[c] = [sent |-> h, at |-> now]
          /\ \A d \in Calls : d # c => headers'[d] = headers[d]
      BY <1>1, <2>3 DEF OmTypeOK
    <2>5. OmTypeOK'
      <3>1. [sent |-> h, at |-> now] \in
              [sent : [Keys -> Seq(Entries \cup Encoded)], at : 0..MaxNow]
        BY <1>1, <2>2 DEF OmTypeOK
      <3>2. headers' \in [Calls -> {Nothing} \cup
              [sent : [Keys -> Seq(Entries \cup Encoded)], at : 0..MaxNow]]
        BY <1>1, <2>3, <3>1 DEF OmTypeOK
      <3> QED BY <1>1, <1>3, <1>5, <3>2 DEF OmTypeOK
    <2>6. TimeoutInv'
      BY <1>1, <1>5, RigidPlan DEF TimeoutInv
    <2>7. FilterInv'
      BY <1>1, <1>3, <1>5, FilterFrame
    <2>8. /\ headers'[c].sent = h /\ headers'[c].at = now
      BY <2>4
    <2>9. /\ \A k \in Encoding \ late[c] : h[k] = <<identity>>
          /\ h["grpc-timeout"] = obj(c)["grpc-timeout"]
      <3>1. /\ "grpc-timeout" \in Keys /\ "grpc-timeout" # "x-user-bin"
            /\ \A k \in Encoding : k \in Keys /\ k # "x-user-bin"
        BY DEF Keys, Encoding
      <3>2. \A k \in Encoding \ late[c] : obj(c)[k] = <<identity>>
        BY <1>1 DEF Filtered
      <3> QED BY <2>2, <3>1, <3>2 DEF obj
    <2>10. Sent(c)'
      <3>1. (Alone(c)' <=> Alone(c)) /\ (Finite(c)' <=> Finite(c))
        BY <1>1, RigidPlan
      <3>2. c \in DOMAIN plan' /\ stage'[c] = "done" /\ timeout'[c] = timeout[c]
        BY <1>1, <1>3, <1>5
      <3>3. timeout[c] # Nothing => timeout[c].at <= now
        BY <1>1 DEF TimeoutInv
      <3>4. Finite(c) =>
              /\ timeout[c] # Nothing /\ timeout[c].text # Nothing
              /\ "grpc-timeout" \notin late[c] =>
                    /\ \E t \in Texts : h["grpc-timeout"] = <<t>>
                    /\ Alone(c) => h["grpc-timeout"] = <<timeout[c].text>>
        BY <1>1, <2>9 DEF Filtered
      <3>5. ~Finite(c) /\ Alone(c) => h["grpc-timeout"] \in Seq(Values)
        BY <1>1, <2>9 DEF Filtered
      <3>6. late'[c] = late[c]
        BY <1>1
      <3> QED BY <2>8, <2>9, <3>1, <3>2, <3>3, <3>4, <3>5, <3>6 DEF Sent
    <2>11. SentInv'
      <3> SUFFICES ASSUME NEW d \in Calls, d # c, headers'[d] # Nothing
                   PROVE  Sent(d)'
        BY <2>10 DEF SentInv
      <3>1. Sent(d) /\ headers'[d] = headers[d] /\ stage'[d] = stage[d]
        BY <1>1, <1>3, <1>5, <2>4 DEF SentInv
      <3>2. (Alone(d)' <=> Alone(d)) /\ (Finite(d)' <=> Finite(d))
        BY <1>1, RigidPlan
      <3> QED BY <1>1, <1>5, <3>1, <3>2 DEF Sent
    <2> QED BY <2>5, <2>6, <2>7, <2>11 DEF HeadersInv
  <1>6. CASE /\ stage' = [stage EXCEPT ![c] = "compression"]
             /\ retries[c] < MaxRetries
             /\ retries' = [retries EXCEPT ![c] = @ + 1]
             /\ connected' = [connected EXCEPT ![c] = FALSE]
             /\ timeout' = [timeout EXCEPT ![c] = Nothing]
             /\ UNCHANGED headers
    <2>1. OmTypeOK'
      <3>1. retries[c] + 1 \in 0..MaxRetries
        BY <1>1, <1>6, MetadataAssumption DEF OmTypeOK
      <3>2. retries' \in [Calls -> 0..MaxRetries]
        BY <1>1, <1>6, <3>1 DEF OmTypeOK
      <3> QED BY <1>1, <1>3, <1>6, <3>2 DEF OmTypeOK
    <2>2. /\ timeout'[c] = Nothing
          /\ \A d \in Calls : d # c => /\ timeout'[d] = timeout[d]
                                       /\ connected'[d] = connected[d]
                                       /\ stage'[d] = stage[d]
      BY <1>1, <1>3, <1>6 DEF OmTypeOK
    <2>3. ASSUME NEW d \in DOMAIN plan
          PROVE  /\ d \in Calls /\ Filtered(d) /\ obj(d)' = obj(d)
                 /\ (Finite(d)' <=> Finite(d)) /\ (Alone(d)' <=> Alone(d))
      BY <1>1, PlanFacts, RigidPlan DEF OmTypeOK, FilterInv, obj
    <2>4. TimeoutInv'
      <3> SUFFICES ASSUME NEW d \in DOMAIN plan, timeout'[d] # Nothing
                   PROVE  /\ connected'[d] /\ Finite(d)' /\ timeout'[d].at <= now'
                          /\ timeout'[d].text =
                                timeoutText(plan'[d].deadline - timeout'[d].at)
        BY <1>1, RigidPlan DEF TimeoutInv
      <3>1. d # c /\ d \in Calls
        BY <2>2, <2>3
      <3> QED BY <1>1, <2>2, <2>3, <3>1 DEF TimeoutInv
    <2>5. FilterInv'
      <3> SUFFICES ASSUME NEW d \in DOMAIN plan PROVE Filtered(d)'
        BY <1>1, RigidPlan DEF FilterInv
      <3>1. CASE d = c
        <4>1. stage'[d] = "compression"
          BY <1>3, <1>6, <3>1
        <4> QED BY <2>3, <4>1 DEF Filtered
      <3>2. CASE d # c
        BY <1>1, <2>2, <2>3, <3>2 DEF Filtered
      <3> QED BY <3>1, <3>2
    <2>6. \A d \in Calls : stage[d] = "done" =>
             stage'[d] = "done" /\ timeout'[d] = timeout[d]
      BY <1>1, <2>2
    <2>7. SentInv'
      BY <1>1, <1>6, <2>6, SentFrame
    <2> QED BY <2>1, <2>4, <2>5, <2>7 DEF HeadersInv
  <1> QED BY <1>4, <1>5, <1>6 DEF startHttp2Stream, Goes

-----------------------------------------------------------------------------
(* Every step, and the theorems.                                           *)

(* HeadersInv is inductive.                                                *)
LEMMA NextInv == HeadersInv /\ [OmNext]_omVars => HeadersInv'
  <1> SUFFICES ASSUME HeadersInv, [OmNext]_omVars PROVE HeadersInv'
    OBVIOUS
  <1>1. ASSUME NEW c \in DOMAIN plan, createStream(c) PROVE HeadersInv'
    BY <1>1, CreateInv
  <1>2. ASSUME NEW c \in DOMAIN plan, CompressionFilter(c) PROVE HeadersInv'
    BY <1>2, CompressionInv
  <1>3. ASSUME NEW c \in DOMAIN plan, CallCredentialsFilter(c) PROVE HeadersInv'
    BY <1>3, CredentialsInv
  <1>4. ASSUME NEW c \in DOMAIN plan, ConnectCallbacks(c) PROVE HeadersInv'
    BY <1>4, ConnectInv
  <1>5. ASSUME NEW c \in DOMAIN plan, DeadlineFilter(c) PROVE HeadersInv'
    BY <1>5, DeadlineFilterInv
  <1>6. ASSUME NEW c \in DOMAIN plan, startHttp2Stream(c) PROVE HeadersInv'
    BY <1>6, StartInv
  <1>7. ASSUME NEW c \in DOMAIN plan, DeadlineTimer(c) PROVE HeadersInv'
    BY <1>7, TimeInv
  <1>8. ASSUME NEW o \in {plan[c].obj : c \in DOMAIN plan}, Edit(o)
        PROVE  HeadersInv'
    <2>1. o \in Objects
      BY PlanFacts DEF HeadersInv, OmTypeOK
    <2> QED BY <1>8, <2>1, EditInv
  <1>9. CASE Environment
    BY <1>9, TimeInv
  <1>10. CASE UNCHANGED omVars
    <2>1. /\ OmTypeOK /\ TimeoutInv /\ FilterInv /\ SentInv
          /\ UNCHANGED <<plan, edits, object, late, now, ready, stage,
                         connected, timeout, retries, over, headers>>
      BY <1>10 DEF HeadersInv, omVars, made, callVars
    <2>2. OmTypeOK'
      BY <2>1 DEF OmTypeOK
    <2>3. TimeoutInv'
      BY <2>1, RigidPlan DEF TimeoutInv
    <2>4. FilterInv' /\ SentInv'
      BY <2>1, FilterFrame, SentFrame
    <2> QED BY <2>2, <2>3, <2>4 DEF HeadersInv
  <1> QED BY <1>1, <1>2, <1>3, <1>4, <1>5, <1>6, <1>7, <1>8, <1>9, <1>10
          DEF OmNext

(* Over any interleaving of the filters of calls that may share an object, *)
(* of the application's edits under any key, lost connections, retries and *)
(* the clock: what a filter has written into the object is there when the  *)
(* headers are made and is what they keep, unless the application itself   *)
(* changed that key after the filter did.  What it had put there before,   *)
(* and what an earlier attempt had written, is gone.                       *)
THEOREM HeadersInvariant == OmSpec => []HeadersInv
  BY InitInv, NextInv, PTL DEF OmSpec

(* The objects, the texts and the headers have the values they are meant   *)
(* to have.                                                                *)
THEOREM TypeCorrect == OmSpec => []OmTypeOK
  <1>1. HeadersInv => OmTypeOK
    BY DEF HeadersInv
  <1> QED BY <1>1, HeadersInvariant, PTL

(* Every call sends the encodings once and, with a deadline, one timeout,  *)
(* its own and exact to the unit if it has the object to itself, but for   *)
(* keys that the application changes behind the filters' backs; without a  *)
(* deadline it sends no timeout but the application's.                     *)
THEOREM HeadersAreExact == OmSpec => []HeadersExact
  <1>1. ASSUME HeadersInv PROVE HeadersExact
    <2> SUFFICES ASSUME NEW c \in Calls, headers[c] # Nothing
                 PROVE  LET h == headers[c].sent
                            t == h["grpc-timeout"]
                            unit == Factors[t[1].unit]
                            timed == plan[c].deadline # Infinity
                        IN  /\ \A k \in Encoding \ late[c] : h[k] = <<identity>>
                            /\ timed /\ "grpc-timeout" \notin late[c] =>
                                  /\ Len(t) = 1 /\ t[1] \in Texts
                                  /\ Alone(c) =>
                                        /\ t[1].value * unit >=
                                              plan[c].deadline - headers[c].at
                                        /\ t[1].value * unit - unit <
                                              plan[c].deadline - timeout[c].at
                            /\ ~timed /\ Alone(c) => t \in Seq(Values)
      BY DEF HeadersExact
    <2> DEFINE t == headers[c].sent["grpc-timeout"]
               unit == Factors[t[1].unit]
    <2>1. OmTypeOK /\ TimeoutInv /\ Sent(c)
      BY <1>1 DEF HeadersInv, SentInv
    <2>2. ASSUME Alone(c), Finite(c), "grpc-timeout" \notin late[c]
          PROVE  /\ t[1].value * unit >= plan[c].deadline - headers[c].at
                 /\ t[1].value * unit - unit < plan[c].deadline - timeout[c].at
      <3> DEFINE ms == plan[c].deadline - timeout[c].at
      <3>1. /\ c \in DOMAIN plan /\ timeout[c] # Nothing
            /\ timeout[c].text # Nothing /\ t = <<timeout[c].text>>
            /\ timeout[c].at <= headers[c].at
        BY <2>1, <2>2 DEF Sent
      <3>2. t[1] = timeout[c].text
        BY <3>1
      <3>3. plan[c].deadline \in Nat
        BY <2>1, <2>2, <3>1, PlanFacts DEF OmTypeOK
      <3>4. timeout[c].at \in Nat /\ headers[c].at \in Nat
        BY <2>1, <3>1 DEF OmTypeOK
      <3>5. ms \in Int /\ timeout[c].text = timeoutText(ms)
        BY <2>1, <3>1, <3>3, <3>4 DEF TimeoutInv
      <3>6. /\ t[1] \in Texts /\ t[1].value * unit >= ms
            /\ t[1].value * unit - unit < ms
        BY <3>1, <3>2, <3>5, TimeoutText
      <3>7. t[1].value \in Int /\ unit \in Int /\ t[1].value * unit \in Int
        <4> HIDE DEF t
        <4>1. t[1].value \in Int /\ t[1].unit \in 1..Len(Factors)
          BY <3>6 DEF Texts
        <4>2. unit \in Nat \ {0}
          BY <4>1, ElementOfSeq, MetadataAssumption
        <4> QED BY <4>1, <4>2
      <3>8. ms >= plan[c].deadline - headers[c].at
        BY <3>1, <3>3, <3>4
      <3> HIDE DEF t, unit
      <3> QED BY <3>3, <3>4, <3>6, <3>7, <3>8
    <2>3. ASSUME Finite(c), "grpc-timeout" \notin late[c]
          PROVE  Len(t) = 1 /\ t[1] \in Texts
      <3>1. PICK text \in Texts : t = <<text>>
        BY <2>1, <2>3 DEF Sent
      <3> HIDE DEF t
      <3> QED BY <3>1
    <2>4. /\ \A k \in Encoding \ late[c] : headers[c].sent[k] = <<identity>>
          /\ ~Finite(c) /\ Alone(c) => t \in Seq(Values)
      BY <2>1 DEF Sent
    <2> QED BY <2>2, <2>3, <2>4 DEF Finite
  <1> QED BY <1>1, HeadersInvariant, PTL
=============================================================================
