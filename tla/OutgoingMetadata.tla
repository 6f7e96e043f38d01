-------------------------- MODULE OutgoingMetadata --------------------------
(***************************************************************************)
(* What the pure JavaScript client sends as the headers of a call: the     *)
(* Metadata object of the application (grpc-js-core/src/metadata.ts),      *)
(* passed through the filters (filter-stack.ts, compression-filter.ts,     *)
(* call-credentials-filter.ts, deadline-filter.ts), with the credentials   *)
(* of channel and call (channel-credentials.ts, call-credentials.ts), and  *)
(* made into headers by startHttp2Stream (channel.ts), which begins again  *)
(* when the connection is lost meanwhile.                                  *)
(*                                                                         *)
(* The object is never copied: the filters write into the application's    *)
(* own Metadata, across promise reactions, while the application and other *)
(* calls may use it.  Module Http2Channel has the connectivity; here the   *)
(* connection is just there or not.                                        *)
(***************************************************************************)
EXTENDS Integers, Sequences

CONSTANTS
    Calls, Objects,  \* calls, and Metadata objects of the application
    Plans,           \* which calls are made, and with what: see Plan
    Limit, Factors,  \* 1e8, and the milliseconds of the units of grpc-timeout
    MaxNow,          \* a bound on the clock
    MaxRetries,      \* a bound on the attempts at a call
    MaxEdits,        \* a bound on the edits of the application
    Infinity, Nothing

(* The metadata object, the deadline and the call credentials of a call,   *)
(* and the call credentials composed into those of the channel.  A set of  *)
(* credentials is the sequence of its generators.                          *)
Plan == [obj : Objects, deadline : Nat \cup {Infinity}, credentials : Seq(STRING),
         channel : Seq(STRING)]

ASSUME MetadataAssumption ==
    /\ \A p \in Plans : DOMAIN p \subseteq Calls /\ \A c \in DOMAIN p : p[c] \in Plan
    /\ Limit \in Nat \ {0} /\ MaxNow \in Nat /\ {MaxRetries, MaxEdits} \subseteq Nat
    /\ Factors \in Seq(Nat \ {0})

-----------------------------------------------------------------------------
(* Metadata.  A key without values is not in the object.  The application  *)
(* uses any key, the filters' own too, in any spelling, with strings and   *)
(* Buffers.                                                                *)

Encoding == {"grpc-encoding", "grpc-accept-encoding"}
Keys == Encoding \cup {"grpc-timeout", "authorization", "x-user", "x-user-bin"}
Spellings == {"X-User", "x-user-bin", "x user", "Grpc-Encoding",
              "grpc-accept-encoding", "Grpc-Timeout", "authorization"}
Values == [type : {"string", "Buffer"}, data : {"legal"}]
          \cup [type : {"string"}, data : {"illegal"}]

normalizeKey(key) ==
    CASE key = "X-User"        -> "x-user"
      [] key = "Grpc-Encoding" -> "grpc-encoding"
      [] key = "Grpc-Timeout"  -> "grpc-timeout"
      [] OTHER                 -> key
isLegalKey(key) == key # "x user"
isBinaryKey(key) == key = "x-user-bin"

validate(key, value) ==
    /\ isLegalKey(key)
    /\ isBinaryKey(key) <=> value.type = "Buffer"
    /\ isBinaryKey(key) \/ value.data = "legal"

identity == [type |-> "string", data |-> "identity"]

Empty == [k \in Keys |-> <<>>]

(* Bug: a value is added to those that are there.                          *)
setAdds(md, key, value) == [md EXCEPT ![key] = Append(@, value)]

set(md, key, value) == [md EXCEPT ![key] = <<value>>]
add(md, key, value) == [md EXCEPT ![key] = Append(@, value)]
remove(md, key) == [md EXCEPT ![key] = <<>>]
merge(md, other) == [k \in Keys |-> md[k] \o other[k]]

Mapped(values, Op(_)) == [i \in 1..Len(values) |-> Op(values[i])]

encode(value) == [type |-> "base64", data |-> value]

(* Only values under a binary key are Buffers: see validate.               *)
toHttp2Headers(md) ==
    [k \in Keys |-> IF isBinaryKey(k) THEN Mapped(md[k], encode) ELSE md[k]]

-----------------------------------------------------------------------------
(* Credentials, and the text of grpc-timeout.                              *)

compose(creds, other) == creds \o other

(* Every generator yields one value; they are merged in order.             *)
generateMetadata(creds) == [Empty EXCEPT !["authorization"] = creds]

ceil(ms, factor) == (ms + factor - 1) \div factor

(* The first unit in which the amount is below 1e8, Nothing if there is none. *)
timeoutText(ms) ==
    LET fits == {i \in 1..Len(Factors) : ms < Limit * Factors[i]}
        unit == CHOOSE i \in fits : \A j \in fits : i <= j
    IN  IF fits = {} THEN Nothing
        ELSE [unit |-> unit, value |-> ceil(ms, Factors[unit])]

-----------------------------------------------------------------------------
VARIABLES
    plan,       \* the calls that are made; never changes
    object,     \* the contents of the Metadata objects
    edits,      \* how often the application has changed them
    late,       \* keys it has changed since the call's filters last wrote
                \* them: those whose headers are the application's (history)
    now,        \* the clock, in milliseconds
    ready,      \* the channel is READY
    stage,      \* how far the promise chain of sendMetadata has come
    connected,  \* the callbacks of connect() have run, for this attempt
    timeout,    \* what timeoutString was resolved with, and when
    retries,
    over,       \* the call has its status: no headers any more
    headers     \* what session.request was given, and when

callVars == <<stage, connected, timeout, retries, over, headers>>
made == <<plan, edits>>
omVars == <<made, object, late, now, ready, callVars>>

(* Header values: the filters', with the texts of timeouts, and those of   *)
(* the application, which are encoded on the wire if they are Buffers.     *)
Texts == [unit : 1..Len(Factors), value : Int]
Entries == Values \cup {identity} \cup Texts
Encoded == [type : {"base64"}, data : Entries]

OmTypeOK ==
    /\ plan \in Plans /\ object \in [Objects -> [Keys -> Seq(Entries)]]
    /\ late \in [Calls -> SUBSET Keys]
    /\ edits \in 0..MaxEdits /\ now \in 0..MaxNow /\ ready \in BOOLEAN
    /\ stage \in [Calls -> {"new", "compression", "credentials", "deadline",
                            "final", "done"}]
    /\ connected \in [Calls -> BOOLEAN] /\ over \in [Calls -> BOOLEAN]
    /\ retries \in [Calls -> 0..MaxRetries]
    /\ timeout \in [Calls -> {Nothing} \cup
                      [text : Texts \cup {Nothing}, at : 0..MaxNow]]
    /\ headers \in [Calls -> {Nothing} \cup
                      [sent : [Keys -> Seq(Entries \cup Encoded)], at : 0..MaxNow]]

OmInit ==
    /\ plan \in Plans
    /\ object = [o \in Objects |-> Empty]
    /\ late = [c \in Calls |-> {}]
    /\ edits = 0 /\ now = 0 /\ ready = FALSE
    /\ stage = [c \in Calls |-> "new"]
    /\ connected = [c \in Calls |-> FALSE]
    /\ timeout = [c \in Calls |-> Nothing]
    /\ retries = [c \in Calls |-> 0]
    /\ over = [c \in Calls |-> FALSE]
    /\ headers = [c \in Calls |-> Nothing]

Goes(c, from, to) == stage[c] = from /\ stage' = [stage EXCEPT ![c] = to]

write(c, md) == object' = [object EXCEPT ![plan[c].obj] = md]

(* Calls under way with an object.                                         *)
Using(o) ==
    {c \in DOMAIN plan : plan[c].obj = o /\ stage[c] \notin {"new", "done"}}

(* The application edits an object; what does not validate throws.         *)
Edit(o) ==
    /\ edits < MaxEdits /\ edits' = edits + 1
    /\ \E key \in Spellings :
          LET k == normalizeKey(key) IN
          /\ \/ \E v \in Values :
                   /\ validate(k, v)
                   /\ object' \in {[object EXCEPT ![o] = set(@, k, v)],
                                   [object EXCEPT ![o] = add(@, k, v)]}
             \/ isLegalKey(k) /\ object' = [object EXCEPT ![o] = remove(@, k)]
          /\ late' = [c \in Calls |-> IF c \in Using(o) THEN late[c] \cup {k}
                                     ELSE late[c]]
    /\ UNCHANGED <<plan, now, ready, callVars>>

(* createStream, and startHttp2Stream up to its promise: the filters'      *)
(* sendMetadata are called one on another.                                 *)
createStream(c) ==
    /\ Goes(c, "new", "compression")
    /\ UNCHANGED <<made, object, late, now, ready, connected, timeout, retries,
                   over, headers>>

CompressionFilter(c) ==
    /\ Goes(c, "compression", "credentials")
    /\ write(c, set(set(object[plan[c].obj], "grpc-encoding", identity),
                    "grpc-accept-encoding", identity))
    /\ late' = [late EXCEPT ![c] = @ \ Encoding]
    /\ UNCHANGED <<made, now, ready, connected, timeout, retries, over,
                   headers>>

(* generateMetadata is bound and never called: what is merged is a         *)
(* function, which has no metadata.                                        *)
CallCredentialsFilter(c) ==
    /\ Goes(c, "credentials", "deadline")
    /\ write(c, merge(object[plan[c].obj], Empty))
    /\ UNCHANGED <<made, late, now, ready, connected, timeout, retries, over,
                   headers>>

(* The callbacks of connect(): the deadline filter's, which makes the text,*)
(* and startHttp2Stream's.  They were registered together.                 *)
ConnectCallbacks(c) ==
    /\ stage[c] \notin {"new", "done"} /\ ~connected[c] /\ ready
    /\ connected' = [connected EXCEPT ![c] = TRUE]
    /\ timeout' = [timeout EXCEPT ![c] =
                     IF plan[c].deadline = Infinity THEN Nothing
                     ELSE [text |-> timeoutText(plan[c].deadline - now), at |-> now]]
    /\ UNCHANGED <<made, object, late, now, ready, stage, retries, over,
                   headers>>

DeadlineFilter(c) ==
    /\ Goes(c, "deadline", "final")
    /\ \/ plan[c].deadline = Infinity /\ UNCHANGED <<object, late>>
       \/ /\ plan[c].deadline # Infinity
          /\ timeout[c] # Nothing /\ timeout[c].text # Nothing
          /\ write(c, set(object[plan[c].obj], "grpc-timeout", timeout[c].text))
          /\ late' = [late EXCEPT ![c] = @ \ {"grpc-timeout"}]
    /\ UNCHANGED <<made, now, ready, connected, timeout, retries, over,
                   headers>>

(* The reaction of startHttp2Stream: the request, or another attempt.      *)
startHttp2Stream(c) ==
    /\ connected[c]
    /\ \/ over[c] /\ Goes(c, "final", "done")
          /\ UNCHANGED <<headers, connected, timeout, retries>>
       \/ /\ ~over[c] /\ ready /\ Goes(c, "final", "done")
          /\ headers' = [headers EXCEPT ![c] =
                [sent |-> toHttp2Headers(object[plan[c].obj]), at |-> now]]
          /\ UNCHANGED <<connected, timeout, retries>>
       \/ /\ ~over[c] /\ ~ready /\ retries[c] < MaxRetries
          /\ Goes(c, "final", "compression")
          /\ retries' = [retries EXCEPT ![c] = @ + 1]
          /\ connected' = [connected EXCEPT ![c] = FALSE]
          /\ timeout' = [timeout EXCEPT ![c] = Nothing]
          /\ UNCHANGED headers
    /\ UNCHANGED <<made, object, late, now, ready, over>>

(* The deadline timer.                                                     *)
DeadlineTimer(c) ==
    /\ stage[c] # "new" /\ plan[c].deadline # Infinity
    /\ now >= plan[c].deadline /\ ~over[c]
    /\ over' = [over EXCEPT ![c] = TRUE]
    /\ UNCHANGED <<made, object, late, now, ready, stage, connected, timeout,
                   retries, headers>>

(* The connection comes and goes; time passes.                             *)
Environment ==
    /\ \/ ready' = ~ready /\ UNCHANGED now
       \/ now < MaxNow /\ now' = now + 1 /\ UNCHANGED ready
    /\ UNCHANGED <<made, object, late, callVars>>

OmNext ==
    \/ \E c \in DOMAIN plan :
          \/ createStream(c) \/ CompressionFilter(c) \/ CallCredentialsFilter(c)
          \/ ConnectCallbacks(c) \/ DeadlineFilter(c)
          \/ startHttp2Stream(c)
          \/ DeadlineTimer(c)
    \/ \E o \in {plan[c].obj : c \in DOMAIN plan} : Edit(o)
    \/ Environment

OmSpec == OmInit /\ [][OmNext]_omVars

-----------------------------------------------------------------------------
Alone(c) == \A d \in (DOMAIN plan) \ {c} : plan[d].obj # plan[c].obj

(* What the filters write goes out as they wrote it, once, over any number *)
(* of attempts and whatever the application has put under those keys       *)
(* before, or changes under others meanwhile: the encodings, and a timeout *)
(* if the call has a deadline.  The exception is a key that the            *)
(* application changes after the filter wrote it, since the object is its  *)
(* own.  If no other call has the object, the timeout is this call's: not  *)
(* short when the headers are sent, and rounded by less than a unit; and   *)
(* without a deadline there is none but the application's (metadata.ts     *)
(* 76-80, 168-183, compression-filter.ts 7-12, deadline-filter.ts 35-56).  *)
HeadersExact ==
    \A c \in {d \in Calls : headers[d] # Nothing} :
        LET h == headers[c].sent
            t == h["grpc-timeout"]
            unit == Factors[t[1].unit]
            timed == plan[c].deadline # Infinity
        IN  /\ \A k \in Encoding \ late[c] : h[k] = <<identity>>
            /\ timed /\ "grpc-timeout" \notin late[c] =>
                  /\ Len(t) = 1 /\ t[1] \in Texts
                  /\ Alone(c) =>
                        /\ t[1].value * unit >= plan[c].deadline - headers[c].at
                        /\ t[1].value * unit - unit < plan[c].deadline - timeout[c].at
            /\ ~timed /\ Alone(c) => t \in Seq(Values)

(* "per-call credentials, which are applied to every method call made over *)
(* a channel initialized with an instance of this class"                   *)
(* (channel-credentials.ts 7-8).                                           *)
CredentialsSent ==
    \A c \in Calls : headers[c] # Nothing =>
        headers[c].sent["authorization"] =
            generateMetadata(compose(plan[c].channel, plan[c].credentials))["authorization"]
=============================================================================
