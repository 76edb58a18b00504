------------------------------ MODULE Pipeline ------------------------------
(***************************************************************************)
(* The goroutines between a source and the hub, and the channels that join *)
(* them: source, classifier (pipeline/pipeline.go: Run), aggregator        *)
(* (topology/aggregator.go: Run, broadcast, request), broadcast forwarder  *)
(* (server/server.go: forwardBroadcasts) and the callers of the            *)
(* aggregator's views.  What the aggregator does to its graph is Topology; *)
(* here only which events it has applied matters.                          *)
(*                                                                         *)
(* Events are numbered in the order the source sends them.                 *)
(***************************************************************************)
EXTENDS Integers, Sequences

CONSTANTS
  NEvents,           (* length of the source (a replayed dump)           *)
  ClassifiedBufSize, (* capacity of the classified channel               *)
  BroadcastBufSize,  (* capacity of the broadcast channel                *)
  Readers,           (* concurrent REST and snapshot calls               *)
  Forwarder,         (* the forwarder, which calls Stats on every tick   *)
  Nobody, Nil,
  MaxCalls           (* bound on the calls each caller makes             *)

Callers == Readers \cup {Forwarder}

ASSUME PipelineAssumption ==
  /\ NEvents \in Nat /\ MaxCalls \in Nat
  /\ ClassifiedBufSize \in Nat \ {0} /\ BroadcastBufSize \in Nat \ {0}
  /\ Forwarder \notin Readers /\ Nobody \notin Callers /\ Nil \notin Nat

VARIABLES
  cancelled,    (* the errgroup's context                                 *)
  sent,         (* events the source has handed over                      *)
  srcClosed,    (* the source's channel is closed                         *)
  clPc, held,   (* classifier: "recv", "send" (holding an event), "done"  *)
  classified,   (* the buffered channel the pipeline owns ...             *)
  clClosed,     (* ... and closes when it stops                           *)
  aggPc,        (* aggregator: "select", "done"                           *)
  serving,      (* the caller whose request it is answering               *)
  applied,      (* the events in the graph                                *)
  bcast,        (* the broadcast channel                                  *)
  fwdPc, frames,(* forwarder: "select", "stats", "done"; frames to the hub*)
  callPc,       (* caller: "idle", "asking", "awaiting", "returned"       *)
  reply,        (* caller -> its reply channel, of capacity 1             *)
  answer,       (* caller -> what its last call returned                  *)
  calls, floor  (* auxiliary: calls made; events applied when it started  *)

stages == <<cancelled, sent, srcClosed, clPc, held, classified, clClosed>>
callVars == <<callPc, reply, answer, calls, floor>>
vars == <<cancelled, sent, srcClosed, clPc, held, classified, clClosed, aggPc, serving,
          applied, bcast, fwdPc, frames, callPc, reply, answer, calls, floor>>

Init ==
  /\ cancelled = FALSE
  /\ sent = 0 /\ srcClosed = FALSE
  /\ clPc = "recv" /\ held = 0 /\ classified = <<>> /\ clClosed = FALSE
  /\ aggPc = "select" /\ serving = Nobody /\ applied = <<>> /\ bcast = <<>>
  /\ fwdPc = "select" /\ frames = <<>>
  /\ callPc = [r \in Callers |-> "idle"]
  /\ reply = [r \in Callers |-> Nil]
  /\ answer = [r \in Callers |-> 0]
  /\ calls = [r \in Callers |-> 0]
  /\ floor = [r \in Callers |-> 0]

\* A signal, or the failure of some stage, cancels every stage's context.
Cancel ==
  /\ ~cancelled
  /\ cancelled' = TRUE
  /\ UNCHANGED <<sent, srcClosed, clPc, held, classified, clClosed, aggPc, serving,
                 applied, bcast, fwdPc, frames, callVars>>

-----------------------------------------------------------------------------
(* Source and classifier                                                   *)

\* The source is exhausted, or sees the cancellation, and closes its channel.
SourceStops ==
  /\ ~srcClosed
  /\ sent = NEvents \/ cancelled
  /\ srcClosed' = TRUE
  /\ UNCHANGED <<cancelled, sent, clPc, held, classified, clClosed, aggPc, serving,
                 applied, bcast, fwdPc, frames, callVars>>

\* The source's channel is unbuffered: sending and receiving are one step.
Receive ==
  /\ clPc = "recv" /\ ~srcClosed /\ sent < NEvents
  /\ sent' = sent + 1
  /\ held' = sent'
  /\ clPc' = "send"
  /\ UNCHANGED <<cancelled, srcClosed, classified, clClosed, aggPc, serving,
                 applied, bcast, fwdPc, frames, callVars>>

\* Mutated Send: a full channel costs the event instead of blocking.
SendOrDrop ==
  /\ clPc = "send"
  /\ classified' = IF Len(classified) < ClassifiedBufSize
                   THEN Append(classified, held) ELSE classified
  /\ clPc' = "recv" /\ held' = 0
  /\ UNCHANGED <<cancelled, sent, srcClosed, clClosed, aggPc, serving,
                 applied, bcast, fwdPc, frames, callVars>>

\* The classified event goes on as soon as there is room.
Send ==
  /\ clPc = "send" /\ Len(classified) < ClassifiedBufSize
  /\ classified' = Append(classified, held)
  /\ clPc' = "recv" /\ held' = 0
  /\ UNCHANGED <<cancelled, sent, srcClosed, clClosed, aggPc, serving,
                 applied, bcast, fwdPc, frames, callVars>>

\* Mutated ClassifierStops: the inner select does not watch the context.
ClassifierStopsAtReceive ==
  /\ clPc = "recv" /\ (srcClosed \/ cancelled)
  /\ clPc' = "done" /\ held' = 0
  /\ clClosed' = TRUE
  /\ UNCHANGED <<cancelled, sent, srcClosed, classified, aggPc, serving,
                 applied, bcast, fwdPc, frames, callVars>>

\* The source's channel is closed, or the context cancelled in either select.
ClassifierStops ==
  /\ \/ clPc = "recv" /\ srcClosed
     \/ clPc \in {"recv", "send"} /\ cancelled
  /\ clPc' = "done" /\ held' = 0
  /\ clClosed' = TRUE
  /\ UNCHANGED <<cancelled, sent, srcClosed, classified, aggPc, serving,
                 applied, bcast, fwdPc, frames, callVars>>

-----------------------------------------------------------------------------
(* Aggregator: a select loop, idle while serving = Nobody                  *)

AggregatorIdle == aggPc = "select" /\ serving = Nobody

\* A full channel drops the broadcast; the writer never blocks on it.
Broadcast(ev) ==
  bcast' = IF Len(bcast) < BroadcastBufSize THEN Append(bcast, ev) ELSE bcast

\* apply and broadcast one event.
ApplyNext ==
  /\ AggregatorIdle /\ classified # <<>>
  /\ applied' = Append(applied, Head(classified))
  /\ classified' = Tail(classified)
  /\ Broadcast(Head(classified))
  /\ UNCHANGED <<cancelled, sent, srcClosed, clPc, held, clClosed, aggPc, serving,
                 fwdPc, frames, callVars>>

\* The request channel is unbuffered: the caller waits for its reply from here on.
TakeRequest(r) ==
  /\ AggregatorIdle /\ callPc[r] = "asking"
  /\ serving' = r
  /\ callPc' = [callPc EXCEPT ![r] = "awaiting"]
  /\ UNCHANGED <<stages, aggPc, applied, bcast, fwdPc, frames, reply, answer, calls, floor>>

\* Mutated Answer: the answer comes from what was last sent to the browsers.
AnswerFromFrames ==
  /\ serving # Nobody
  /\ reply' = [reply EXCEPT ![serving] = Len(frames)]
  /\ serving' = Nobody
  /\ UNCHANGED <<stages, aggPc, applied, bcast, fwdPc, frames, callPc, answer, calls, floor>>

\* handle answers from the graph as it is and leaves the reply in its buffer.
Answer ==
  /\ serving # Nobody
  /\ reply' = [reply EXCEPT ![serving] = Len(applied)]
  /\ serving' = Nobody
  /\ UNCHANGED <<stages, aggPc, applied, bcast, fwdPc, frames, callPc, answer, calls, floor>>

\* The input is closed and drained, or the context is cancelled.
AggregatorStops ==
  /\ AggregatorIdle
  /\ cancelled \/ (classified = <<>> /\ clClosed)
  /\ aggPc' = "done"
  /\ UNCHANGED <<stages, serving, applied, bcast, fwdPc, frames, callVars>>

-----------------------------------------------------------------------------
(* Callers of the aggregator's views: Aggregator.request                   *)

Ask(r) ==
  /\ callPc[r] = "idle" /\ calls[r] < MaxCalls
  /\ callPc' = [callPc EXCEPT ![r] = "asking"]
  /\ reply' = [reply EXCEPT ![r] = Nil]
  /\ calls' = [calls EXCEPT ![r] = @ + 1]
  /\ floor' = [floor EXCEPT ![r] = Len(applied)]
  /\ UNCHANGED <<stages, aggPc, serving, applied, bcast, answer>>

\* The reply has arrived.
Collect(r) ==
  /\ callPc[r] = "awaiting" /\ reply[r] # Nil
  /\ answer' = [answer EXCEPT ![r] = reply[r]]
  /\ callPc' = [callPc EXCEPT ![r] = "returned"]
  /\ UNCHANGED <<stages, aggPc, serving, applied, bcast, fwdPc, frames, reply, calls, floor>>

\* Mutated GiveUp: the call watches the context, not the aggregator's end.
GiveUpCancelled(r) ==
  /\ callPc[r] \in {"asking", "awaiting"} /\ cancelled
  /\ answer' = [answer EXCEPT ![r] = Nil]
  /\ callPc' = [callPc EXCEPT ![r] = "returned"]
  /\ UNCHANGED <<stages, aggPc, serving, applied, bcast, fwdPc, frames, reply, calls, floor>>

\* The aggregator has stopped; with a reply ready too, the select may choose either.
GiveUp(r) ==
  /\ callPc[r] \in {"asking", "awaiting"} /\ aggPc = "done"
  /\ answer' = [answer EXCEPT ![r] = Nil]
  /\ callPc' = [callPc EXCEPT ![r] = "returned"]
  /\ UNCHANGED <<stages, aggPc, serving, applied, bcast, fwdPc, frames, reply, calls, floor>>

\* A handler starts a call, and takes what it returned.
ReaderAsks(r) == Ask(r) /\ UNCHANGED <<fwdPc, frames>>

ReaderReturns(r) ==
  /\ callPc[r] = "returned"
  /\ callPc' = [callPc EXCEPT ![r] = "idle"]
  /\ UNCHANGED <<stages, aggPc, serving, applied, bcast, fwdPc, frames,
                 reply, answer, calls, floor>>

-----------------------------------------------------------------------------
(* Forwarder                                                               *)

\* An event becomes the next frame.
ForwardEvent ==
  /\ fwdPc = "select" /\ bcast # <<>>
  /\ frames' = Append(frames, [seq |-> Len(frames) + 1, type |-> "event", n |-> Head(bcast)])
  /\ bcast' = Tail(bcast)
  /\ UNCHANGED <<stages, aggPc, serving, applied, fwdPc, callVars>>

\* The ticker: the forwarder calls Stats and reads no event until it returns.
ForwarderTick ==
  /\ fwdPc = "select"
  /\ Ask(Forwarder)
  /\ fwdPc' = "stats"
  /\ UNCHANGED frames

\* Mutated ForwardStats: stats frames reuse the last sequence number.
ForwardStatsSameSeq ==
  /\ fwdPc = "stats" /\ callPc[Forwarder] = "returned"
  /\ frames' = Append(frames, [seq |-> Len(frames), type |-> "stats", n |-> answer[Forwarder]])
  /\ callPc' = [callPc EXCEPT ![Forwarder] = "idle"]
  /\ fwdPc' = "select"
  /\ UNCHANGED <<stages, aggPc, serving, applied, bcast, reply, answer, calls, floor>>

\* The counters become the next frame; after the aggregator's end they are zeros.
ForwardStats ==
  /\ fwdPc = "stats" /\ callPc[Forwarder] = "returned"
  /\ frames' = Append(frames, [seq |-> Len(frames) + 1, type |-> "stats",
                               n |-> answer[Forwarder]])
  /\ callPc' = [callPc EXCEPT ![Forwarder] = "idle"]
  /\ fwdPc' = "select"
  /\ UNCHANGED <<stages, aggPc, serving, applied, bcast, reply, answer, calls, floor>>

ForwarderStops ==
  /\ fwdPc = "select" /\ cancelled
  /\ fwdPc' = "done"
  /\ UNCHANGED <<stages, aggPc, serving, applied, bcast, frames, callVars>>

-----------------------------------------------------------------------------

AllStopped == srcClosed /\ clPc = "done" /\ aggPc = "done" /\ fwdPc = "done"

Terminated == AllStopped /\ UNCHANGED vars

Next ==
  \/ Cancel \/ SourceStops \/ Receive \/ Send \/ ClassifierStops
  \/ ApplyNext \/ Answer \/ AggregatorStops
  \/ \E r \in Callers : TakeRequest(r) \/ Collect(r) \/ GiveUp(r)
  \/ \E r \in Readers : ReaderAsks(r) \/ ReaderReturns(r)
  \/ ForwardEvent \/ ForwarderTick \/ ForwardStats \/ ForwarderStops
  \/ Terminated

(***************************************************************************)
(* Every goroutine that can proceed eventually does; a select that stays   *)
(* ready for one of its cases eventually takes it.  Calls, ticks and the   *)
(* cancellation need never happen.                                         *)
(***************************************************************************)
Fairness ==
  /\ WF_vars(SourceStops) /\ WF_vars(Receive) /\ WF_vars(Send) /\ WF_vars(ClassifierStops)
  /\ WF_vars(ApplyNext) /\ WF_vars(Answer) /\ WF_vars(AggregatorStops)
  /\ \A r \in Callers : WF_vars(TakeRequest(r)) /\ WF_vars(Collect(r) \/ GiveUp(r))
  /\ WF_vars(ForwardEvent) /\ WF_vars(ForwardStats) /\ WF_vars(ForwarderStops)

Spec == Init /\ [][Next]_vars /\ Fairness

-----------------------------------------------------------------------------

Events == 1 .. NEvents

\* Type invariant: the channels stay within their capacities.
TypeOK ==
  /\ {cancelled, srcClosed, clClosed} \subseteq BOOLEAN
  /\ sent \in 0 .. NEvents /\ held \in 0 .. NEvents
  /\ clPc \in {"recv", "send", "done"} /\ aggPc \in {"select", "done"}
  /\ fwdPc \in {"select", "stats", "done"}
  /\ classified \in Seq(Events) /\ Len(classified) <= ClassifiedBufSize
  /\ bcast \in Seq(Events) /\ Len(bcast) <= BroadcastBufSize
  /\ applied \in Seq(Events) /\ frames \in Seq([seq : Nat, type : {"event", "stats"},
                                                n : Nat \cup {Nil}])
  /\ serving \in Callers \cup {Nobody}
  /\ callPc \in [Callers -> {"idle", "asking", "awaiting", "returned"}]
  /\ reply \in [Callers -> Nat \cup {Nil}] /\ answer \in [Callers -> Nat \cup {Nil}]
  /\ calls \in [Callers -> 0 .. MaxCalls] /\ floor \in [Callers -> Nat]

(***************************************************************************)
(* No event is lost, doubled or overtaken on its way into the graph: until *)
(* somebody cancels, what the source has sent is what is applied, queued   *)
(* and held, in order; and the graph only ever holds an unbroken beginning *)
(* of the stream (pipeline.go: "preserves per-prefix arrival order").      *)
(***************************************************************************)
NothingLostOnTheWay ==
  LET inFlight == applied \o classified \o (IF held = 0 THEN <<>> ELSE <<held>>)
  IN  /\ inFlight = [k \in 1 .. Len(inFlight) |-> k]
      /\ ~cancelled => Len(inFlight) = sent

(***************************************************************************)
(* A call's answer is no older than the call: it shows every event that    *)
(* was in the graph when the call began; and it is empty only if the       *)
(* aggregator has stopped (aggregator.go: request).                        *)
(***************************************************************************)
AnswersAreFresh ==
  \A r \in Callers : callPc[r] = "returned" =>
    IF answer[r] = Nil THEN aggPc = "done"
    ELSE floor[r] <= answer[r] /\ answer[r] <= Len(applied)

(***************************************************************************)
(* The frames leave in order: consecutive sequence numbers, events in      *)
(* stream order although broadcasts may be dropped, and counters that      *)
(* already include every event forwarded before them (server.go:           *)
(* forwardBroadcasts; aggregator.go: broadcast).                           *)
(***************************************************************************)
FramesInOrder ==
  /\ \A k \in DOMAIN frames : frames[k].seq = k
  /\ \A j, k \in DOMAIN frames :
       j < k /\ frames[j].type = "event" /\ frames[k].n # Nil =>
         IF frames[k].type = "event" THEN frames[j].n < frames[k].n
                                     ELSE frames[j].n <= frames[k].n

(***************************************************************************)
(* Every call returns, whatever is queued and whoever stops meanwhile; in  *)
(* particular the forwarder, which calls the aggregator while it is the    *)
(* only reader of the channel the aggregator broadcasts on                 *)
(* (aggregator.go: request, broadcast; server.go: forwardBroadcasts).      *)
(***************************************************************************)
CallsReturn ==
  \A r \in Callers : callPc[r] \in {"asking", "awaiting"} ~> callPc[r] = "returned"

(***************************************************************************)
(* A cancelled context stops every stage, wherever it was blocked; without *)
(* one the whole source reaches the graph (server.go: Run "every stage     *)
(* then returns"; pipeline.go:21 "which signals the aggregator to drain    *)
(* and return").                                                           *)
(***************************************************************************)
DrainsOrStops ==
  /\ cancelled ~> AllStopped
  /\ <>(cancelled \/ Len(applied) = NEvents)

(***************************************************************************)
(* What aggregator.go:165 says of Stats, and the other views say likewise: *)
(* it returns the running counters.  While nothing is being shut down, no  *)
(* call comes back empty-handed.                                           *)
(***************************************************************************)
RunningCounters ==
  \A r \in Callers : callPc[r] = "returned" /\ ~cancelled => answer[r] # Nil

=============================================================================
