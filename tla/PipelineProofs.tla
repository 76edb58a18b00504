--------------------------- MODULE PipelineProofs ---------------------------
(***************************************************************************)
(* What the channels between a source and the hub keep, for a stream of    *)
(* any length, any capacities and any number of callers: nothing is lost   *)
(* or overtaken, answers are fresh, frames leave in order.                 *)
(***************************************************************************)
EXTENDS Pipeline, SequenceTheorems, TLAPS

\* The numbers that make a stream run on where another one ended.
RunsOn(q, n) == \A k \in 1 .. Len(q) : q[k] = n + k

Flow ==
  /\ sent \in 0 .. NEvents /\ held \in 0 .. NEvents
  /\ classified \in Seq(Events) /\ applied \in Seq(Events)
  /\ clPc \in {"recv", "send", "done"}
  /\ RunsOn(applied, 0) /\ RunsOn(classified, Len(applied))
  /\ clPc = "send" <=> held # 0
  /\ held # 0 => held = sent /\ sent = Len(applied) + Len(classified) + 1
  /\ Len(applied) + Len(classified) <= sent
  /\ held = 0 /\ (clPc = "recv" \/ ~cancelled) => sent = Len(applied) + Len(classified)

LEMMA FlowInit == Init => Flow
  BY PipelineAssumption DEF Init, Flow, RunsOn, Events

LEMMA RunsOnHeadTail ==
  ASSUME NEW n \in Nat, NEW q \in Seq(Events), q # <<>>, RunsOn(q, n)
  PROVE  /\ Head(q) = n + 1 /\ Head(q) \in Events
         /\ Tail(q) \in Seq(Events) /\ Len(Tail(q)) = Len(q) - 1
         /\ Len(q) \in Nat \ {0} /\ RunsOn(Tail(q), n + 1)
<1>1. /\ Len(q) \in Nat \ {0} /\ Head(q) = q[1] /\ Head(q) \in Events
      /\ Tail(q) \in Seq(Events) /\ Len(Tail(q)) = Len(q) - 1
      /\ \A k \in 1 .. Len(q) - 1 : Tail(q)[k] = q[k + 1]
  BY EmptySeq, HeadTailProperties, ElementOfSeq
<1> QED
  BY <1>1 DEF RunsOn

LEMMA RunsOnAppend ==
  ASSUME NEW n \in Nat, NEW q \in Seq(Events), NEW e \in Events, e = n + Len(q) + 1, RunsOn(q, n)
  PROVE  /\ Append(q, e) \in Seq(Events) /\ Len(Append(q, e)) = Len(q) + 1
         /\ RunsOn(Append(q, e), n)
<1>1. /\ Len(q) \in Nat /\ Append(q, e) \in Seq(Events)
      /\ Len(Append(q, e)) = Len(q) + 1 /\ Append(q, e)[Len(q) + 1] = e
      /\ \A k \in 1 .. Len(q) : Append(q, e)[k] = q[k]
  BY AppendProperties, LenProperties
<1> QED
  BY <1>1 DEF RunsOn

LEMMA FlowStep == Flow /\ [Next]_vars => Flow'
<1> SUFFICES ASSUME Flow, [Next]_vars PROVE Flow'
  OBVIOUS
<1> USE PipelineAssumption DEF Flow
<1>l. Len(applied) \in Nat /\ Len(classified) \in Nat
  BY LenProperties
<1>1. CASE Cancel
  BY <1>1 DEF Cancel
<1>2. CASE Receive
  BY <1>2, <1>l DEF Receive
<1>3. CASE Send
  <2>1. held \in Events /\ held = Len(applied) + Len(classified) + 1
    BY <1>3 DEF Send, Events
  <2>2. /\ classified' = Append(classified, held) /\ clPc' = "recv" /\ held' = 0
        /\ UNCHANGED <<cancelled, sent, applied>>
    BY <1>3 DEF Send
  <2> QED
    BY <1>l, <2>1, <2>2, RunsOnAppend
<1>4. CASE ClassifierStops
  BY <1>4, <1>l DEF ClassifierStops
<1>5. CASE ApplyNext
  <2>1. /\ classified # <<>> /\ applied' = Append(applied, Head(classified))
        /\ classified' = Tail(classified)
        /\ UNCHANGED <<cancelled, sent, clPc, held>>
    BY <1>5 DEF ApplyNext
  <2>2. /\ Head(classified) = Len(applied) + 1 /\ Head(classified) \in Events
        /\ Tail(classified) \in Seq(Events) /\ Len(Tail(classified)) = Len(classified) - 1
        /\ RunsOn(Tail(classified), Len(applied) + 1)
    BY <1>l, <2>1, RunsOnHeadTail
  <2>3. /\ applied' \in Seq(Events) /\ Len(applied') = Len(applied) + 1
        /\ RunsOn(applied', 0)
    BY <1>l, <2>1, <2>2, RunsOnAppend
  <2>4. RunsOn(classified', Len(applied')) /\ Len(classified') = Len(classified) - 1
    BY <2>1, <2>2, <2>3
  <2>5. Len(applied') + Len(classified') = Len(applied) + Len(classified)
    BY <1>l, <2>3, <2>4
  <2>6. /\ sent' = sent /\ held' = held /\ clPc' = clPc /\ cancelled' = cancelled
        /\ classified' \in Seq(Events)
    BY <2>1, <2>2
  <2> QED
    BY <1>l, <2>3, <2>4, <2>5, <2>6
<1>6. CASE UNCHANGED <<cancelled, sent, clPc, held, classified, applied>>
  BY <1>6
<1>7. CASE SourceStops \/ Answer \/ AggregatorStops \/ ForwardEvent \/ ForwarderTick
           \/ ForwardStats \/ ForwarderStops
  BY <1>6, <1>7 DEF SourceStops, Answer, AggregatorStops, ForwardEvent, ForwarderTick, Ask,
                    ForwardStats, ForwarderStops, stages
<1>8. ASSUME NEW r \in Callers,
             TakeRequest(r) \/ Collect(r) \/ GiveUp(r) \/ ReaderAsks(r) \/ ReaderReturns(r)
      PROVE  Flow'
  BY <1>6, <1>8 DEF TakeRequest, Collect, GiveUp, ReaderAsks, Ask, ReaderReturns, stages
<1>9. CASE UNCHANGED vars
  BY <1>6, <1>9 DEF vars
<1> QED
  BY <1>1, <1>2, <1>3, <1>4, <1>5, <1>7, <1>8, <1>9 DEF Next, Terminated, Callers

(***************************************************************************)
(* No event is lost, doubled or overtaken between the source and the graph *)
(* unless somebody cancels (pipeline.go: Run; aggregator.go: Run).         *)
(***************************************************************************)
THEOREM NothingIsLost == Spec => []NothingLostOnTheWay
<1>1. Flow => NothingLostOnTheWay
  <2> SUFFICES ASSUME Flow PROVE NothingLostOnTheWay
    OBVIOUS
  <2> DEFINE last == IF held = 0 THEN <<>> ELSE <<held>>
             queued == applied \o classified
             inFlight == queued \o last
  <2>1. /\ applied \in Seq(Nat) /\ classified \in Seq(Nat)
        /\ Len(applied) \in Nat /\ Len(classified) \in Nat
    BY SeqMonotonic, Events \subseteq Nat, LenProperties DEF Flow, Events
  <2>2. last \in Seq(Nat) /\ Len(last) = (IF held = 0 THEN 0 ELSE 1) /\ (held # 0 => last[1] = held)
    BY PipelineAssumption DEF Flow
  <2>3. /\ queued \in Seq(Nat) /\ Len(queued) = Len(applied) + Len(classified)
        /\ \A k \in 1 .. Len(queued) :
             queued[k] = IF k <= Len(applied) THEN applied[k] ELSE classified[k - Len(applied)]
    BY <2>1, ConcatProperties
  <2>4. /\ inFlight \in Seq(Nat) /\ Len(inFlight) = Len(queued) + Len(last)
        /\ \A k \in 1 .. Len(inFlight) :
             inFlight[k] = IF k <= Len(queued) THEN queued[k] ELSE last[k - Len(queued)]
    BY <2>2, <2>3, ConcatProperties
  <2>5. \A k \in 1 .. Len(queued) : queued[k] = k
    BY <2>1, <2>3 DEF Flow, RunsOn
  <2>6. \A k \in 1 .. Len(inFlight) : inFlight[k] = k
    BY <2>1, <2>2, <2>3, <2>4, <2>5 DEF Flow
  <2>7. inFlight = [k \in 1 .. Len(inFlight) |-> k]
    BY <2>4, <2>6, LenProperties
  <2>8. Len(inFlight) = Len(applied) + Len(classified) + (IF held = 0 THEN 0 ELSE 1)
    BY <2>2, <2>3, <2>4
  <2>9. ~cancelled => sent = Len(applied) + Len(classified) + (IF held = 0 THEN 0 ELSE 1)
    BY SMTT(30), <2>1, PipelineAssumption DEF Flow
  <2> QED
    BY <2>7, <2>8, <2>9 DEF NothingLostOnTheWay
<1> QED
  BY <1>1, FlowInit, FlowStep, PTL DEF Spec

-----------------------------------------------------------------------------
(* Calls                                                                   *)

(***************************************************************************)
(* The aggregator serves a caller that waits for it, and none once it has  *)
(* stopped; what is in the reply channel, and what a call has returned, is *)
(* no older than the call.  A caller that is asking has an empty channel:  *)
(* a reply nobody collected was for an earlier call.                       *)
(***************************************************************************)
InTime(v, r) == v \in Nat /\ floor[r] <= v /\ v <= Len(applied)

Calls ==
  /\ applied \in Seq(Events)
  /\ aggPc \in {"select", "done"} /\ serving \in Callers \cup {Nobody}
  /\ callPc \in [Callers -> {"idle", "asking", "awaiting", "returned"}]
  /\ reply \in [Callers -> Nat \cup {Nil}] /\ answer \in [Callers -> Nat \cup {Nil}]
  /\ floor \in [Callers -> Nat]
  /\ aggPc = "done" => serving = Nobody
  /\ serving # Nobody => callPc[serving] = "awaiting" /\ reply[serving] = Nil
  /\ \A r \in Callers :
       /\ floor[r] <= Len(applied)
       /\ callPc[r] = "asking" => reply[r] = Nil
       /\ callPc[r] = "awaiting" => reply[r] = Nil \/ InTime(reply[r], r)
       /\ callPc[r] = "returned" => (answer[r] = Nil /\ aggPc = "done") \/ InTime(answer[r], r)

LEMMA CallsInit == Init => Calls
  BY PipelineAssumption DEF Init, Calls, InTime, Events, Callers

LEMMA AppliedGrows ==
  ASSUME Flow, ApplyNext
  PROVE  /\ Len(applied) \in Nat /\ Len(applied') = Len(applied) + 1
         /\ applied' \in Seq(Events)
         /\ Head(classified) = Len(applied) + 1 /\ Head(classified) \in Events
<1>1. Len(applied) \in Nat /\ applied' = Append(applied, Head(classified)) /\ classified # <<>>
  BY LenProperties DEF Flow, ApplyNext
<1>2. Head(classified) = Len(applied) + 1 /\ Head(classified) \in Events
  BY <1>1, RunsOnHeadTail DEF Flow
<1> QED
  BY <1>1, <1>2, RunsOnAppend DEF Flow

LEMMA CallsStep == Flow /\ Calls /\ [Next]_vars => Calls'
<1> SUFFICES ASSUME Flow, Calls, [Next]_vars PROVE Calls'
  OBVIOUS
<1> USE PipelineAssumption DEF Calls, InTime, Callers
<1>l. Len(applied) \in Nat
  BY LenProperties
<1>1. CASE ApplyNext
  BY <1>1, <1>l, AppliedGrows DEF ApplyNext, callVars
<1>2. ASSUME NEW r \in Callers, TakeRequest(r) PROVE Calls'
  BY <1>2 DEF TakeRequest, AggregatorIdle
<1>3. CASE Answer
  BY <1>3, <1>l DEF Answer
<1>4. CASE AggregatorStops
  BY <1>4 DEF AggregatorStops, AggregatorIdle, callVars
<1>5. ASSUME NEW r \in Callers, Ask(r) PROVE Calls'
  BY <1>5, <1>l DEF Ask
<1>6. ASSUME NEW r \in Callers, Collect(r) PROVE Calls'
  <2>1. /\ callPc[r] = "awaiting" /\ reply[r] # Nil
        /\ answer' = [answer EXCEPT ![r] = reply[r]]
        /\ callPc' = [callPc EXCEPT ![r] = "returned"]
        /\ UNCHANGED <<applied, aggPc, serving, reply, floor>>
    BY <1>6 DEF Collect
  <2>2. InTime(reply[r], r)
    BY <2>1
  <2>3. serving # r
    BY <2>1
  <2> QED
    BY <2>1, <2>2, <2>3
<1>7. ASSUME NEW r \in Callers, GiveUp(r) PROVE Calls'
  BY <1>7 DEF GiveUp
<1>8. CASE ForwardStats
  BY <1>8 DEF ForwardStats
<1>9. ASSUME NEW r \in Callers, ReaderReturns(r) PROVE Calls'
  BY <1>9 DEF ReaderReturns
<1>10. CASE UNCHANGED <<applied, aggPc, serving, callPc, reply, answer, floor>>
  BY <1>10
<1>11. CASE Cancel \/ SourceStops \/ Receive \/ Send \/ ClassifierStops \/ ForwardEvent
            \/ ForwarderStops
  BY <1>10, <1>11 DEF Cancel, SourceStops, Receive, Send, ClassifierStops, ForwardEvent,
                      ForwarderStops, callVars
<1>12. CASE UNCHANGED vars
  BY <1>10, <1>12 DEF vars
<1> QED
  BY <1>1, <1>2, <1>3, <1>4, <1>5, <1>6, <1>7, <1>8, <1>9, <1>11, <1>12
  DEF Next, Terminated, ReaderAsks, ForwarderTick

(***************************************************************************)
(* Every call is answered from a graph no older than the call, and with    *)
(* nothing only once the aggregator has stopped, however many callers and  *)
(* however late they collect (aggregator.go: request, Run).                *)
(***************************************************************************)
THEOREM AnswersAlwaysFresh == Spec => []AnswersAreFresh
<1>1. Calls => AnswersAreFresh
  BY PipelineAssumption DEF Calls, InTime, AnswersAreFresh
<1> QED
  BY <1>1, FlowInit, FlowStep, CallsInit, CallsStep, PTL DEF Spec

-----------------------------------------------------------------------------
(* Frames                                                                  *)

(***************************************************************************)
(* What waits to be broadcast is newer than every event already sent, and  *)
(* in order; while the forwarder waits for its counters, the events it has *)
(* sent were in the graph when it asked.                                   *)
(***************************************************************************)
Frame == [seq : Nat, type : {"event", "stats"}, n : Nat \cup {Nil}]

Outgoing ==
  /\ bcast \in Seq(Events) /\ frames \in Seq(Frame)
  /\ \A k \in 1 .. Len(bcast) :
       bcast[k] <= Len(applied) /\ \A j \in 1 .. k - 1 : bcast[j] < bcast[k]
  /\ \A j \in 1 .. Len(frames) : frames[j].type = "event" =>
       /\ frames[j].n \in Nat /\ frames[j].n <= Len(applied)
       /\ \A k \in 1 .. Len(bcast) : frames[j].n < bcast[k]
       /\ fwdPc = "stats" => frames[j].n <= floor[Forwarder]
  /\ FramesInOrder

LEMMA OutgoingInit == Init => Outgoing
  BY PipelineAssumption DEF Init, Outgoing, FramesInOrder, Frame, Events

LEMMA BcastGrows ==
  ASSUME NEW e \in Events, bcast \in Seq(Events), Broadcast(e)
  PROVE  /\ bcast' \in Seq(Events) /\ Len(bcast) \in Nat
         /\ Len(bcast') \in {Len(bcast), Len(bcast) + 1}
         /\ \A k \in 1 .. Len(bcast) : bcast'[k] = bcast[k]
         /\ \A k \in 1 .. Len(bcast') : k > Len(bcast) => bcast'[k] = e
<1>1. Len(bcast) \in Nat
  BY LenProperties
<1>2. /\ Append(bcast, e) \in Seq(Events) /\ Len(Append(bcast, e)) = Len(bcast) + 1
      /\ Append(bcast, e)[Len(bcast) + 1] = e
      /\ \A k \in 1 .. Len(bcast) : Append(bcast, e)[k] = bcast[k]
  BY AppendProperties
<1>3. CASE Len(bcast) < BroadcastBufSize
  BY <1>1, <1>2, <1>3 DEF Broadcast
<1>4. CASE ~(Len(bcast) < BroadcastBufSize)
  BY <1>1, <1>4 DEF Broadcast
<1> QED
  BY <1>3, <1>4

LEMMA FrameAppended ==
  ASSUME frames \in Seq(Frame), NEW f \in Frame
  PROVE  /\ Append(frames, f) \in Seq(Frame) /\ Len(frames) \in Nat
         /\ Len(Append(frames, f)) = Len(frames) + 1
         /\ DOMAIN Append(frames, f) = 1 .. Len(frames) + 1
         /\ DOMAIN frames = 1 .. Len(frames)
         /\ Append(frames, f)[Len(frames) + 1] = f
         /\ \A k \in 1 .. Len(frames) : Append(frames, f)[k] = frames[k]
  BY AppendProperties, LenProperties

\* The next number, and no event or counters older than an event already sent.
LEMMA InOrderAppended ==
  ASSUME frames \in Seq(Frame), FramesInOrder, NEW f \in Frame, f.seq = Len(frames) + 1,
         frames' = Append(frames, f),
         \A j \in 1 .. Len(frames) : frames[j].type = "event" /\ f.n # Nil =>
           IF f.type = "event" THEN frames[j].n < f.n ELSE frames[j].n <= f.n
  PROVE  FramesInOrder'
<1>1. /\ Len(frames) \in Nat
      /\ DOMAIN frames' = 1 .. Len(frames) + 1 /\ DOMAIN frames = 1 .. Len(frames)
      /\ frames'[Len(frames) + 1] = f
      /\ \A k \in 1 .. Len(frames) : frames'[k] = frames[k]
  BY FrameAppended
<1>2. \A k \in DOMAIN frames' : frames'[k].seq = k
  BY <1>1 DEF FramesInOrder
<1>3. ASSUME NEW j \in DOMAIN frames', NEW k \in DOMAIN frames',
             j < k, frames'[j].type = "event", frames'[k].n # Nil
      PROVE  IF frames'[k].type = "event" THEN frames'[j].n < frames'[k].n
                                          ELSE frames'[j].n <= frames'[k].n
  <2>1. CASE k = Len(frames) + 1
    BY <1>1, <1>3, <2>1
  <2>2. CASE k \in DOMAIN frames
    BY <1>1, <1>3, <2>2 DEF FramesInOrder
  <2> QED
    BY <1>1, <2>1, <2>2
<1> QED
  BY <1>2, <1>3 DEF FramesInOrder

LEMMA OutgoingStep == Flow /\ Calls /\ Outgoing /\ [Next]_vars => Outgoing'
<1> SUFFICES ASSUME Flow, Calls, Outgoing, [Next]_vars PROVE Outgoing'
  OBVIOUS
<1> USE PipelineAssumption DEF Outgoing
<1>l. /\ Len(applied) \in Nat /\ Len(bcast) \in Nat /\ floor \in [Callers -> Nat]
      /\ Forwarder \in Callers /\ \A k \in 1 .. Len(bcast) : bcast[k] \in Nat
  BY LenProperties, ElementOfSeq DEF Calls, Callers, Events
<1>1. CASE ApplyNext
  <2>1. /\ Broadcast(Head(classified)) /\ UNCHANGED <<fwdPc, frames, floor>>
    BY <1>1 DEF ApplyNext, callVars
  <2>2. /\ Len(applied') = Len(applied) + 1 /\ Head(classified) = Len(applied) + 1
        /\ Head(classified) \in Events
    BY <1>1, AppliedGrows
  <2>3. /\ bcast' \in Seq(Events)
        /\ Len(bcast') \in {Len(bcast), Len(bcast) + 1}
        /\ \A k \in 1 .. Len(bcast) : bcast'[k] = bcast[k]
        /\ \A k \in 1 .. Len(bcast') : k > Len(bcast) => bcast'[k] = Len(applied) + 1
    BY <2>1, <2>2, BcastGrows
  <2>4. \A k \in 1 .. Len(bcast') :
          bcast'[k] <= Len(applied') /\ \A j \in 1 .. k - 1 : bcast'[j] < bcast'[k]
    <3> TAKE k \in 1 .. Len(bcast')
    <3>1. CASE k \in 1 .. Len(bcast)
      <4>1. bcast[k] <= Len(applied) /\ \A j \in 1 .. k - 1 : bcast[j] < bcast[k]
        BY <3>1
      <4>2. \A j \in 1 .. k - 1 : j \in 1 .. Len(bcast)
        BY <1>l, <3>1
      <4> QED
        BY <1>l, <2>2, <2>3, <3>1, <4>1, <4>2
    <3>2. CASE k > Len(bcast)
      <4>1. \A j \in 1 .. k - 1 : j \in 1 .. Len(bcast)
        BY <1>l, <2>3, <3>2
      <4> QED
        BY <1>l, <2>2, <2>3, <3>2, <4>1
    <3> QED
      BY <1>l, <2>3, <3>1, <3>2
  <2>5. \A j \in 1 .. Len(frames) : frames[j].type = "event" =>
          /\ frames[j].n <= Len(applied')
          /\ \A k \in 1 .. Len(bcast') : frames[j].n < bcast'[k]
    <3> TAKE j \in 1 .. Len(frames)
    <3> HAVE frames[j].type = "event"
    <3> DEFINE n == frames[j].n
    <3>1. n \in Nat /\ n <= Len(applied) /\ \A k \in 1 .. Len(bcast) : n < bcast[k]
      OBVIOUS
    <3> HIDE DEF n
    <3>2. \A k \in 1 .. Len(bcast') : n < bcast'[k]
      BY <1>l, <2>2, <2>3, <3>1
    <3> QED
      BY <1>l, <2>2, <3>1, <3>2 DEF n
  <2>6. FramesInOrder'
    BY <2>1 DEF FramesInOrder
  <2>7. fwdPc' = fwdPc /\ frames' = frames /\ floor' = floor /\ frames' \in Seq(Frame)
    BY <2>1
  <2>8. bcast' \in Seq(Events)
    BY <2>3
  <2>9. \A j \in 1 .. Len(frames') : frames'[j].type = "event" =>
          /\ frames'[j].n \in Nat
          /\ fwdPc' = "stats" => frames'[j].n <= floor'[Forwarder]
    BY <2>7
  <2> QED
    BY <2>4, <2>5, <2>6, <2>7, <2>8, <2>9
<1>2. CASE ForwardEvent
  <2> DEFINE f == [seq |-> Len(frames) + 1, type |-> "event", n |-> Head(bcast)]
  <2>1. /\ bcast # <<>> /\ frames' = Append(frames, f) /\ bcast' = Tail(bcast)
        /\ fwdPc = "select" /\ UNCHANGED <<fwdPc, applied, floor>>
    BY <1>2 DEF ForwardEvent, callVars
  <2>2. /\ Len(bcast) \in Nat \ {0} /\ Head(bcast) = bcast[1] /\ Head(bcast) \in Nat
        /\ Tail(bcast) \in Seq(Events) /\ Len(Tail(bcast)) = Len(bcast) - 1
        /\ \A k \in 1 .. Len(bcast) - 1 : Tail(bcast)[k] = bcast[k + 1]
    BY <1>l, <2>1, EmptySeq, HeadTailProperties
  <2>3. f \in Frame /\ Len(frames) \in Nat
    BY <2>2, LenProperties DEF Frame
  <2>4. /\ frames' \in Seq(Frame) /\ Len(frames') = Len(frames) + 1
        /\ DOMAIN frames' = 1 .. Len(frames) + 1 /\ DOMAIN frames = 1 .. Len(frames)
        /\ frames'[Len(frames) + 1] = f
        /\ \A k \in 1 .. Len(frames) : frames'[k] = frames[k]
    BY <2>1, <2>3, FrameAppended
  <2>5. \A j \in 1 .. Len(frames) : frames[j].type = "event" => frames[j].n < f.n
    BY <2>2
  <2>6. FramesInOrder'
    BY <2>1, <2>3, <2>5, InOrderAppended
  <2>7. \A k \in 1 .. Len(bcast') :
          bcast'[k] <= Len(applied') /\ \A j \in 1 .. k - 1 : bcast'[j] < bcast'[k]
    BY <1>l, <2>1, <2>2
  <2>8. \A k \in 1 .. Len(bcast') : f.n < bcast'[k] /\ bcast'[k] = bcast[k + 1]
    BY <1>l, <2>1, <2>2
  <2>9. f.n \in Nat /\ f.n <= Len(applied)
    BY <1>l, <2>2
  <2> HIDE DEF f
  <2>10. \A j \in 1 .. Len(frames') : frames'[j].type = "event" =>
           /\ frames'[j].n \in Nat /\ frames'[j].n <= Len(applied)
           /\ \A k \in 1 .. Len(bcast') : frames'[j].n < bcast'[k]
    <3> TAKE j \in 1 .. Len(frames')
    <3>1. CASE j = Len(frames) + 1
      BY <2>4, <2>8, <2>9, <3>1
    <3>2. CASE j \in 1 .. Len(frames)
      <4>1. \A k \in 1 .. Len(bcast') : k + 1 \in 1 .. Len(bcast)
        BY <2>1, <2>2
      <4> QED
        BY <2>4, <2>8, <3>2, <4>1
    <3> QED
      BY <2>3, <2>4, <3>1, <3>2
  <2> QED
    BY <2>1, <2>2, <2>4, <2>6, <2>7, <2>10
<1>3. CASE ForwarderTick
  <2>1. /\ floor' = [floor EXCEPT ![Forwarder] = Len(applied)]
        /\ UNCHANGED <<applied, bcast, frames>>
    BY <1>3 DEF ForwarderTick, Ask
  <2>2. floor'[Forwarder] = Len(applied)
    BY <1>l, <2>1
  <2> QED
    BY <2>1, <2>2 DEF FramesInOrder
<1>4. CASE ForwardStats
  <2> DEFINE f == [seq |-> Len(frames) + 1, type |-> "stats", n |-> answer[Forwarder]]
  <2>1. /\ fwdPc = "stats" /\ frames' = Append(frames, f) /\ fwdPc' = "select"
        /\ callPc[Forwarder] = "returned" /\ UNCHANGED <<applied, bcast, floor>>
    BY <1>4 DEF ForwardStats
  <2>2. answer[Forwarder] = Nil \/ InTime(answer[Forwarder], Forwarder)
    BY <1>l, <2>1 DEF Calls
  <2>3. f \in Frame /\ Len(frames) \in Nat
    BY <2>2, LenProperties DEF Frame, InTime
  <2>4. /\ frames' \in Seq(Frame) /\ Len(frames') = Len(frames) + 1
        /\ DOMAIN frames' = 1 .. Len(frames) + 1 /\ DOMAIN frames = 1 .. Len(frames)
        /\ frames'[Len(frames) + 1] = f
        /\ \A k \in 1 .. Len(frames) : frames'[k] = frames[k]
    BY <2>1, <2>3, FrameAppended
  <2>5. \A j \in 1 .. Len(frames) :
          frames[j].type = "event" /\ f.n # Nil => frames[j].n <= f.n
    BY <1>l, <2>1, <2>2 DEF InTime
  <2>6. FramesInOrder'
    BY <2>1, <2>3, <2>5, InOrderAppended
  <2> QED
    BY <2>1, <2>3, <2>4, <2>6
<1>5. ASSUME NEW r \in Readers, ReaderAsks(r) PROVE Outgoing'
  <2>1. /\ floor' = [floor EXCEPT ![r] = Len(applied)] /\ r # Forwarder
        /\ UNCHANGED <<applied, bcast, frames, fwdPc>>
    BY <1>5 DEF ReaderAsks, Ask
  <2>2. floor'[Forwarder] = floor[Forwarder]
    BY <1>l, <2>1
  <2> QED
    BY <2>1, <2>2 DEF FramesInOrder
<1>6. CASE UNCHANGED <<applied, bcast, frames, floor, fwdPc>>
  BY <1>6 DEF FramesInOrder
<1>7. CASE ForwarderStops
  BY <1>7 DEF ForwarderStops, callVars, FramesInOrder
<1>8. CASE Cancel \/ SourceStops \/ Receive \/ Send \/ ClassifierStops \/ Answer
           \/ AggregatorStops
  BY <1>6, <1>8 DEF Cancel, SourceStops, Receive, Send, ClassifierStops, Answer,
                    AggregatorStops, callVars
<1>9. ASSUME NEW r \in Callers,
             TakeRequest(r) \/ Collect(r) \/ GiveUp(r) \/ ReaderReturns(r)
      PROVE  Outgoing'
  BY <1>6, <1>9 DEF TakeRequest, Collect, GiveUp, ReaderReturns
<1>10. CASE UNCHANGED vars
  BY <1>6, <1>10 DEF vars
<1> QED
  BY <1>1, <1>2, <1>3, <1>4, <1>5, <1>7, <1>8, <1>9, <1>10
  DEF Next, Terminated, Callers

(***************************************************************************)
(* Sequence numbers are consecutive, events leave in stream order and the  *)
(* counters never miss an event sent before them, for queues of any size   *)
(* (server.go: forwardBroadcasts; aggregator.go: broadcast, request).      *)
(***************************************************************************)
THEOREM FramesAlwaysInOrder == Spec => []FramesInOrder
<1>1. Outgoing => FramesInOrder
  BY DEF Outgoing
<1> QED
  BY <1>1, FlowInit, FlowStep, CallsInit, CallsStep, OutgoingInit, OutgoingStep, PTL DEF Spec

-----------------------------------------------------------------------------
(* Types and capacities                                                    *)

Capacities ==
  /\ fwdPc \in {"select", "stats", "done"}
  /\ Len(classified) <= ClassifiedBufSize /\ Len(bcast) <= BroadcastBufSize
  /\ calls \in [Callers -> 0 .. MaxCalls]

Flags == {cancelled, srcClosed, clClosed} \subseteq BOOLEAN

LEMMA FlagsAlways == Flags /\ [Next]_vars => Flags'
<1> SUFFICES ASSUME Flags, [Next]_vars PROVE Flags'
  OBVIOUS
<1> USE DEF Flags
<1>1. cancelled' \in {cancelled, TRUE} /\ srcClosed' \in {srcClosed, TRUE}
      /\ clClosed' \in {clClosed, TRUE}
  BY DEF Next, Cancel, SourceStops, Receive, Send, ClassifierStops, ApplyNext, Answer,
         AggregatorStops, TakeRequest, Collect, GiveUp, ReaderAsks, ReaderReturns, Ask,
         ForwardEvent, ForwarderTick, ForwardStats, ForwarderStops, Terminated, vars, stages
<1> QED
  BY <1>1

LEMMA CapacitiesStep == Flow /\ Calls /\ Outgoing /\ Capacities /\ [Next]_vars => Capacities'
<1> SUFFICES ASSUME Flow, Calls, Outgoing, Capacities, [Next]_vars PROVE Capacities'
  OBVIOUS
<1> USE PipelineAssumption DEF Capacities
<1>1. Len(classified) \in Nat /\ Len(bcast) \in Nat
  BY LenProperties DEF Flow, Outgoing
<1>2. CASE Send
  BY <1>1, <1>2, AppendProperties, held \in Events DEF Send, Flow, Events, callVars
<1>3. CASE ApplyNext
  <2>1. Len(classified') = Len(classified) - 1
    BY <1>3, RunsOnHeadTail, LenProperties DEF Flow, ApplyNext
  <2>2. CASE Len(bcast) < BroadcastBufSize
    <3>1. Len(bcast') = Len(bcast) + 1
      BY <1>3, <2>2, AppendProperties, AppliedGrows DEF ApplyNext, Broadcast, Outgoing
    <3> QED
      BY <1>1, <1>3, <2>1, <2>2, <3>1 DEF ApplyNext, callVars
  <2>3. CASE ~(Len(bcast) < BroadcastBufSize)
    BY <1>1, <1>3, <2>1, <2>3 DEF ApplyNext, Broadcast, callVars
  <2> QED
    BY <2>2, <2>3
<1>4. CASE ForwardEvent
  BY <1>1, <1>4, HeadTailProperties, EmptySeq DEF ForwardEvent, Outgoing, stages, callVars
<1>5. ASSUME NEW r \in Callers, Ask(r), fwdPc' \in {fwdPc, "stats"} PROVE Capacities'
  BY <1>5 DEF Ask, stages
<1>6. CASE ForwardStats \/ ForwarderStops
  BY <1>6 DEF ForwardStats, ForwarderStops, stages, callVars
<1>7. CASE Cancel \/ SourceStops \/ Receive \/ ClassifierStops \/ Answer \/ AggregatorStops
  BY <1>7 DEF Cancel, SourceStops, Receive, ClassifierStops, Answer, AggregatorStops,
              stages, callVars
<1>8. ASSUME NEW r \in Callers,
             TakeRequest(r) \/ Collect(r) \/ GiveUp(r) \/ ReaderReturns(r)
      PROVE  Capacities'
  BY <1>8 DEF TakeRequest, Collect, GiveUp, ReaderReturns, stages
<1>9. CASE UNCHANGED vars
  BY <1>9 DEF vars
<1> QED
  BY <1>2, <1>3, <1>4, <1>5, <1>6, <1>7, <1>8, <1>9
  DEF Next, Terminated, ReaderAsks, ForwarderTick, Callers

(***************************************************************************)
(* The channels stay within their capacities and carry what they are meant *)
(* to carry (pipeline.go, aggregator.go, server.go: every make(chan)).     *)
(***************************************************************************)
THEOREM TypeCorrect == Spec => []TypeOK
<1> DEFINE Inv == Flow /\ Calls /\ Outgoing /\ Capacities /\ Flags
<1>1. Inv => TypeOK
  BY DEF Flow, Calls, Outgoing, Frame, Capacities, Flags, TypeOK
<1>2. Init => Capacities
  BY PipelineAssumption DEF Init, Capacities
<1>3. Init => Flags
  BY DEF Init, Flags
<1> QED
  BY <1>1, <1>2, <1>3, FlowInit, FlowStep, CallsInit, CallsStep, OutgoingInit, OutgoingStep,
     CapacitiesStep, FlagsAlways, PTL DEF Spec

=============================================================================
