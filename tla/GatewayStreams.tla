--------------------------- MODULE GatewayStreams -----------------------------
(***************************************************************************)
(* The gateway's Agent Chat streams.  A request takes one of the slots,    *)
(* opens the Agent's event stream and forwards it: a reader goroutine cuts *)
(* the upstream body into frames and passes them through a channel of one; *)
(* the forwarder checks each frame against the identity of the stream and  *)
(* writes it to the client, or ends the stream with an error event of its  *)
(* own.  Leaving, it stops the reader, closes the body and waits for it.   *)
(* The JSON calls of the Agent's management API compete for the same slots *)
(* and hold theirs until the whole answer is read, checked and written.    *)
(*                                                                         *)
(* The upstream may send anything.  Text, names and sizes are abstracted:  *)
(* a frame that fails any of those checks is "malformed".  Deadlines are   *)
(* events that may happen at any time.                                     *)
(***************************************************************************)
EXTENDS Integers, Sequences, FiniteSets

CONSTANTS
    Clients,            \* concurrent requests to the Agent
    MaxConcurrent,      \* capacity of the slots channel
    CallIds,            \* tool call ids
    MaxSequence,        \* 10002 in the code
    MaxFrames           \* bound on the frames the upstream sends on a stream

ASSUME StreamAssumption == MaxConcurrent \in Nat \ {0} /\ MaxSequence \in Nat /\ MaxFrames \in Nat

VARIABLES
    slots,          \* clients that hold a slot
    stream          \* the state of every request

streamVars == <<slots, stream>>

Kinds == {"text", "tool_call", "tool_result", "done", "error"}
Frames ==
    [kind : {"text", "done", "error"}, seq : 1..(MaxSequence + 1), call : {"none"}]
      \cup [kind : {"tool_call", "tool_result"}, seq : 1..(MaxSequence + 1), call : CallIds]
      \cup {[kind |-> k, seq |-> 0, call |-> "none"] : k \in {"heartbeat", "malformed"}}
ReadError == [kind |-> "interrupted", seq |-> 0, call |-> "none"]

Fresh == [phase |-> "waiting",     \* waiting, opening, streaming, closing; asking
          ctx |-> "live",          \* live, deadline, canceled
          reader |-> "none",       \* none, reading, holding, finished
          held |-> ReadError, channel |-> <<>>, received |-> 0,
          sequence |-> 0, toolCalls |-> [i \in CallIds |-> "unknown"],
          out |-> <<>>,            \* history: the events the client received
          lost |-> FALSE]          \* a write to the client failed

StreamInit == slots = {} /\ stream = [c \in Clients |-> Fresh]

In(c, phase) == stream[c].phase = phase
Become(c, s) == stream' = [stream EXCEPT ![c] = s]

-----------------------------------------------------------------------------
\* Acquire never waits: no slot, no stream (503).
Acquire(c) ==
    /\ In(c, "waiting") /\ Cardinality(slots) < MaxConcurrent
    /\ slots' = slots \cup {c}
    /\ Become(c, [stream[c] EXCEPT !.phase = "opening"])

\* The request or the Agent's answer is refused, or the client is gone before the first flush.
OpenFails(c) ==
    /\ In(c, "opening")
    /\ slots' = slots \ {c}
    /\ Become(c, Fresh)

\* 200 with the identity of the run: headers are written and the reader starts.
Open(c) ==
    /\ In(c, "opening") /\ stream[c].ctx = "live"
    /\ Become(c, [stream[c] EXCEPT !.phase = "streaming", !.reader = "reading"])
    /\ UNCHANGED slots

\* The budget of the request runs out, or the client or the server's shutdown cancels it.
ContextEnds(c) ==
    /\ stream[c].phase \in {"opening", "streaming", "closing"} /\ stream[c].ctx = "live"
    /\ \E why \in {"deadline", "canceled"} : Become(c, [stream[c] EXCEPT !.ctx = why])
    /\ UNCHANGED slots

\* A management call that passed the checks of its path, its context and the
\* caller's role takes a slot, or is refused (503).
Ask(c) ==
    /\ In(c, "waiting") /\ Cardinality(slots) < MaxConcurrent
    /\ slots' = slots \cup {c}
    /\ Become(c, [stream[c] EXCEPT !.phase = "asking"])

\* The body is refused, the Agent is not reached in time, its answer does not
\* match the contract of the route, or it is passed on; Release is deferred.
Answered(c) ==
    /\ In(c, "asking")
    /\ slots' = slots \ {c}
    /\ Become(c, Fresh)

-----------------------------------------------------------------------------
\* readAgentFrame: a frame, or an error: end of body, oversized frame, a body
\* that is closed or whose request has ended; the buffer may hold a frame still.
Broken(c) == stream[c].ctx # "live" \/ In(c, "closing")

ReadFrame(c) ==
    /\ stream[c].reader = "reading"
    /\ \/ /\ stream[c].received < MaxFrames
          /\ \E f \in Frames : Become(c, [stream[c] EXCEPT !.reader = "holding", !.held = f, !.received = @ + 1])
       \/ Become(c, [stream[c] EXCEPT !.reader = "holding", !.held = ReadError])
    /\ UNCHANGED slots

\* The select of the reader: the channel takes the frame, or the reader is told to stop.
Offer(c) ==
    /\ stream[c].reader = "holding" /\ stream[c].channel = <<>>
    /\ Become(c, [stream[c] EXCEPT !.channel = <<stream[c].held>>, !.held = ReadError,
                    !.reader = IF stream[c].held = ReadError THEN "finished" ELSE "reading"])
    /\ UNCHANGED slots

StopRequested_Never(c) == FALSE                \* seeded defect: a plain channel send
StopRequested(c) == Broken(c)

ReaderStops(c) ==
    /\ stream[c].reader = "holding" /\ StopRequested(c)
    /\ Become(c, [stream[c] EXCEPT !.reader = "finished"])
    /\ UNCHANGED slots

ReaderStep(c) == ReadFrame(c) \/ Offer(c) \/ ReaderStops(c)

-----------------------------------------------------------------------------
\* validateAgentFrame and validateAgentActivity
NewEvent_Repeats(s, f) == f.seq >= s.sequence /\ f.seq <= MaxSequence     \* seeded defect
NewEvent(s, f) == f.seq > s.sequence /\ f.seq <= MaxSequence

ValidFrame(s, f) ==
    \/ f.kind = "heartbeat"
    \/ /\ f.kind \in Kinds /\ NewEvent(s, f)
       /\ f.kind = "tool_call" => s.toolCalls[f.call] = "unknown"
       /\ f.kind = "tool_result" => s.toolCalls[f.call] = "started"
       /\ f.kind = "done" => \A i \in CallIds : s.toolCalls[i] # "started"

Terminal(f) == f.kind \in {"done", "error"}

\* The identity after a valid frame.
Noted(s, f) ==
    IF f.kind = "heartbeat" THEN s
    ELSE [s EXCEPT !.sequence = f.seq,
                   !.toolCalls = CASE f.kind = "tool_call" -> [@ EXCEPT ![f.call] = "started"]
                                   [] f.kind = "tool_result" -> [@ EXCEPT ![f.call] = "finished"]
                                   [] OTHER -> @]

Sent(s, f) == IF f.kind = "heartbeat" THEN s ELSE [s EXCEPT !.out = Append(@, f)]

\* sendError: nothing for a canceled request, else an error event with the next
\* sequence number; the stream ends either way.
OwnError(s) == [kind |-> "error", seq |-> s.sequence + 1, call |-> "none"]
ErrorOutcomes(s) ==
    IF s.ctx = "canceled" THEN {[s EXCEPT !.phase = "closing"]}
    ELSE {[Sent(s, OwnError(s)) EXCEPT !.phase = "closing", !.sequence = @ + 1],
          [s EXCEPT !.phase = "closing", !.sequence = @ + 1, !.lost = TRUE]}

\* ctx.Done or the idle timer; a frame may be waiting as well, select takes either.
TimesOut(c) ==
    /\ In(c, "streaming")
    /\ \E s \in ErrorOutcomes(stream[c]) : Become(c, s)
    /\ UNCHANGED slots

Forward(c) ==
    LET f == Head(stream[c].channel)
        s == [stream[c] EXCEPT !.channel = <<>>]
    IN
    /\ In(c, "streaming") /\ stream[c].channel # <<>>
    /\ IF f # ReadError /\ ValidFrame(s, f)
       THEN \/ Become(c, [Sent(Noted(s, f), f) EXCEPT !.phase = IF Terminal(f) THEN "closing" ELSE @])
            \/ Become(c, [Noted(s, f) EXCEPT !.phase = "closing", !.lost = TRUE])
       ELSE \E t \in ErrorOutcomes(s) : Become(c, t)
    /\ UNCHANGED slots

\* The deferred calls: the reader is stopped and waited for, then the slot is free
\* and the client may ask again.
Leave(c) ==
    /\ In(c, "closing") /\ stream[c].reader = "finished"
    /\ Become(c, Fresh)
    /\ slots' = slots \ {c}

StreamStep(c) ==
    \/ Acquire(c) \/ OpenFails(c) \/ Open(c) \/ ContextEnds(c) \/ Ask(c) \/ Answered(c)
    \/ ReaderStep(c) \/ TimesOut(c) \/ Forward(c) \/ Leave(c)

StreamNext == \E c \in Clients : StreamStep(c)
StreamSpec == StreamInit /\ [][StreamNext]_streamVars

-----------------------------------------------------------------------------
Last(q) == q[Len(q)]
EventsOf(out, kind) == {i \in 1..Len(out) : out[i].kind = kind}

(* Whatever the Agent sends and whenever a deadline strikes, the client     *)
(* sees one well-formed run: rising sequence numbers, the gateway's own     *)
(* error included, nothing after the end, every tool result after its call  *)
(* and only once, done only when every call has its result, and an end for  *)
(* every stream that was neither canceled nor lost (docs/api.md:761).       *)
ClientSeesOneRun ==
    \A c \in Clients : LET out == stream[c].out IN
      /\ \A i, j \in 1..Len(out) : i < j => out[i].seq < out[j].seq /\ ~Terminal(out[i])
      /\ \A i \in EventsOf(out, "tool_result") :
           Cardinality({j \in 1..i : out[j].call = out[i].call /\ out[j].kind = "tool_call"}) = 1
           /\ \A j \in EventsOf(out, "tool_result") : out[i].call = out[j].call => i = j
      /\ \A i \in EventsOf(out, "done"), j \in EventsOf(out, "tool_call") :
           \E k \in EventsOf(out, "tool_result") : out[k].call = out[j].call
      /\ In(c, "closing") /\ ~stream[c].lost /\ stream[c].ctx # "canceled" => out # <<>> /\ Terminal(Last(out))

(* No stream keeps its slot: the reader of a stream that is being left can  *)
(* always go on until it has finished, also when the channel is full and    *)
(* nobody receives any more, and the slots taken are those of streams and   *)
(* management calls under way (the deferred stop, Close and wait of         *)
(* forwardAgentStream, and both handlers' deferred Release).                *)
SlotsComeBack ==
    /\ \A c \in Clients : In(c, "closing") => stream[c].reader = "finished" \/ ENABLED ReaderStep(c)
    /\ slots = {c \in Clients : ~In(c, "waiting")}
    /\ Cardinality(slots) <= MaxConcurrent
=============================================================================
