--------------------------- MODULE StreamPipeline ---------------------------
(***************************************************************************)
(* A streamed answer on its way through a gateway: the calls up to the     *)
(* first byte (gateway-streaming.ts), the readahead source, the            *)
(* PassThrough the client reads (gateway-stream-pipeline.ts), and the      *)
(* collector that reads the token usage out of the bytes that pass         *)
(* (gateway-usage-collector.ts).  What the lease and the budget then do is *)
(* ApiKeyLimits, what is recorded of the request RequestRecord.            *)
(*                                                                         *)
(* The bytes are tokens: the two halves of the data line of an event, CR  *)
(* and LF.  A provider cuts  them into chunks wherever it likes.          *)
(***************************************************************************)
EXTENDS Integers, FiniteSets, SequencesExt

CONSTANTS
  Bodies,     \* what a provider may send: sequences of events
  LineEnds,   \* how it may end a line
  HighWater,  \* bound: tokens the output holds before the source is paused
  MaxCalls    \* bound: calls of providers for the request

CR == <<"CR">>
LF == <<"LF">>

\* What an event says of the usage: token counts are read as non-negative integers.
StreamEvent == [kind : {"usage", "start", "delta", "other"}, in : Nat, out : Nat]

ASSUME StreamAssumption ==
  /\ Bodies \subseteq Seq(StreamEvent) /\ LineEnds \subseteq {<<LF>>, <<CR, LF>>}
  /\ HighWater \in Nat \ {0} /\ MaxCalls \in Nat

VARIABLES
  body,       \* the events the provider sends and the tokens they are
  source,     \* the call, then the Readable over the provider's reader
  output,     \* the PassThrough
  client,     \* "reading", or whether it had everything or left
  collector,  \* the buffer and the usage of createGatewayStreamingUsageCollector
  recorded,   \* completions of the activity: their status and the usage read
  released    \* releases of the concurrency lease

streamVars == <<body, source, output, client, collector, recorded, released>>

NoUsage == [in |-> -1, out |-> -1]

(***************************************************************************)
(* The collector.                                                          *)
(***************************************************************************)
\* The numbers of a set in rising order.
Rising(at) == [n \in 1..Cardinality(at) |-> CHOOSE i \in at : Cardinality({j \in at : j <= i}) = n]

\* CRLF becomes LF, also when the two were in different chunks.
Normalized(text) ==
  LET kept == Rising({i \in DOMAIN text : ~(text[i] = CR /\ i < Len(text) /\ text[i + 1] = LF)})
  IN [n \in DOMAIN kept |-> text[kept[n]]]

\* The events of a frame that parses: its two halves are there, and nothing else but
\* line ends, which are trimmed.
Parsed(frame) ==
  LET data == {i \in DOMAIN frame : frame[i] \notin {CR, LF}}
  IN {frame[i][2] : i \in {i \in data : frame[i][1] = "first" /\ \E j \in data : data = {i, j} /\ i < j /\ frame[j][1] = "second"}}

\* readGatewayStreamingUsageFrame: a usage of its own, or of a completed response,
\* wins over what message_start and message_delta say together.
FrameRead(c, frame) ==
  IF Parsed(frame) = {} THEN c
  ELSE LET e == CHOOSE e \in Parsed(frame) : TRUE
       IN CASE e.kind = "usage" -> [c EXCEPT !.provider = [in |-> e.in, out |-> e.out]]
            [] e.kind = "start" -> [c EXCEPT !.messages = [in |-> e.in, out |-> e.out]]
            [] e.kind = "delta" -> [c EXCEPT !.messages = [in |-> IF @ = NoUsage THEN 0 ELSE @.in, out |-> e.out]]
            [] OTHER -> c

\* The frames of a text end in an empty line; what is left waits for the next chunk.
\* (No frame of a body is empty, so no two ends overlap.)
FrameEnds(text) == Rising({i \in 1..(Len(text) - 1) : text[i] = LF /\ text[i + 1] = LF})

FramesRead(c, text) ==
  LET ends == FrameEnds(text)
      from(n) == IF n = 1 THEN 1 ELSE ends[n - 1] + 2
      read[n \in 0..Len(ends)] == IF n = 0 THEN c ELSE FrameRead(read[n - 1], SubSeq(text, from(n), ends[n] - 1))
  IN [read[Len(ends)] EXCEPT !.buffer = SubSeq(text, from(Len(ends) + 1), Len(text))]

\* Mutation: only the chunk is normalized, not what it joins.
CollectedPerChunk(c, chunk) == {FramesRead(c, text) : text \in {c.buffer \o Normalized(chunk)}}

\* One collector, as a set: TLC then evaluates the text once.
Collected(c, chunk) == {FramesRead(c, text) : text \in {Normalized(c.buffer \o chunk)}}

\* readUsage: what is left is taken as a frame.
UsageRead(c) ==
  LET d == FrameRead(c, c.buffer)
  IN IF d.provider # NoUsage THEN d.provider ELSE d.messages

(***************************************************************************)
(* The text of a body: each event is a data line and an empty line; the    *)
(* last may lack its empty line.                                           *)
(***************************************************************************)
Encoded(events, lineEnd, closed) ==
  LET frame(e) == <<<<"first", e>>, <<"second", e>>>> \o lineEnd \o lineEnd
      size == 2 + 2 * Len(lineEnd)
  IN [p \in 1..(size * Len(events) - (IF closed THEN 0 ELSE size - 2)) |->
        frame(events[((p - 1) \div size) + 1])[((p - 1) % size) + 1]]

EmptyCollector == [buffer |-> <<>>, provider |-> NoUsage, messages |-> NoUsage]
NoOutput == [held |-> 0, state |-> "open"]

\* collected counts the tokens the collector was given: it is not state of the code.
StreamInit ==
  /\ body = [events |-> <<>>, text |-> <<>>, collected |-> 0, failed |-> FALSE]
  /\ source = [unread |-> <<>>, chunk |-> <<>>, state |-> "absent", reader |-> "none", calls |-> 0]
  /\ output = NoOutput
  /\ client = "waiting"
  /\ collector = EmptyCollector
  /\ recorded = <<>>
  /\ released = 0

(***************************************************************************)
(* A call of a provider, one of those FallbackChain makes.                 *)
(***************************************************************************)
Connect ==
  /\ source.state = "absent" /\ source.calls < MaxCalls
  /\ source' = [source EXCEPT !.state = "connecting", !.reader = "none", !.calls = @ + 1]
  /\ UNCHANGED <<body, output, client, collector, recorded, released>>

\* The call is given up and the chain goes on or ends.
CallFails == source' = [source EXCEPT !.state = "absent"]

\* No headers in time, a network error, a redirect.
ConnectFails ==
  /\ source.state = "connecting"
  /\ CallFails
  /\ UNCHANGED <<body, output, client, collector, recorded, released>>

\* Headers of an error: its body is read, no reader is taken.
Refused ==
  /\ source.state = "connecting"
  /\ CallFails
  /\ UNCHANGED <<body, output, client, collector, recorded, released>>

Respond(events, lineEnd, closed) ==
  /\ source.state = "connecting"
  /\ LET text == Encoded(events, lineEnd, closed)
     IN /\ body' = [body EXCEPT !.events = events, !.text = text]
        /\ source' = [source EXCEPT !.state = "first", !.reader = "held", !.unread = text]
  /\ UNCHANGED <<output, client, collector, recorded, released>>

\* An empty stream, an error or no byte in time: the reader is cancelled.
FirstFails ==
  /\ source.state = "first"
  /\ source' = [source EXCEPT !.state = "absent", !.reader = "cancelled", !.unread = <<>>]
  /\ UNCHANGED <<body, output, client, collector, recorded, released>>

\* composeGatewayProviderStreamPipeline: the first chunk has been read.
Compose ==
  /\ source.state = "first"
  /\ \E n \in 1..Len(source.unread) :
       source' = [source EXCEPT !.state = "open", !.chunk = SubSeq(source.unread, 1, n),
                                !.unread = SubSeq(@, n + 1, Len(@))]
  /\ client' = "reading"
  /\ UNCHANGED <<body, output, collector, recorded, released>>

(***************************************************************************)
(* The pipeline.                                                           *)
(***************************************************************************)
\* The pump reads on when the Readable has room for a chunk.
Pumping == source.state = "open" /\ source.chunk = <<>>

Pull ==
  /\ Pumping
  /\ \E n \in 1..Len(source.unread) :
       source' = [source EXCEPT !.chunk = SubSeq(source.unread, 1, n),
                                !.unread = SubSeq(@, n + 1, Len(@))]
  /\ UNCHANGED <<body, output, client, collector, recorded, released>>

PullEnds ==
  /\ Pumping
  /\ source.unread = <<>>
  /\ source' = [source EXCEPT !.state = "done", !.reader = "cancelled"]
  /\ UNCHANGED <<body, output, client, collector, recorded, released>>

\* The provider breaks off, or says nothing for the idle timeout.
PullFails ==
  /\ Pumping
  /\ source' = [source EXCEPT !.state = "failed", !.reader = "cancelled"]
  /\ body' = [body EXCEPT !.failed = TRUE]
  /\ UNCHANGED <<output, client, collector, recorded, released>>

\* settleActivity, once: the usage is read where the completion runs.
Settled(status, read) ==
  recorded' = IF recorded # <<>> THEN recorded ELSE <<[status |-> status, usage |-> UsageRead(read)]>>

\* Mutation: every end of the stream frees the lease.
FreedEachTime == released' = released + 1

\* The three events release the lease, once.
Freed == released' = IF released > 0 THEN released ELSE 1

\* pipe pauses the source while the output is full and once it has closed; what is
\* written to a destroyed output is lost.
Flowing == output.state # "closed" /\ (output.state # "open" \/ output.held < HighWater)

DataEvent ==
  /\ source.state \in {"open", "done"}
  /\ source.chunk # <<>>
  /\ Flowing
  /\ collector' \in Collected(collector, source.chunk)
  /\ body' = [body EXCEPT !.collected = @ + Len(source.chunk)]
  /\ output' = IF output.state = "open" THEN [output EXCEPT !.held = @ + Len(source.chunk)] ELSE output
  /\ source' = [source EXCEPT !.chunk = <<>>]
  /\ UNCHANGED <<client, recorded, released>>

EndEvent ==
  /\ source.state = "done"
  /\ source.chunk = <<>>
  /\ Flowing
  /\ Settled(200, collector)
  /\ Freed
  /\ source' = [source EXCEPT !.state = "ended"]
  /\ output' = IF output.state = "open" THEN [output EXCEPT !.state = "finishing"] ELSE output
  /\ UNCHANGED <<body, client, collector>>

ErrorEvent ==
  /\ source.state = "failed"
  /\ Settled(502, collector)
  /\ Freed
  /\ source' = [source EXCEPT !.state = "errored"]
  /\ output' = IF output.state = "open" THEN [held |-> 0, state |-> "destroyed"] ELSE output
  /\ UNCHANGED <<body, client, collector>>

\* 'close' comes after 'end' and 'error' too.
CloseEvent ==
  /\ source.state \in {"ended", "errored", "destroyed"}
  /\ IF source.state = "ended" THEN recorded' = recorded ELSE Settled(499, collector)
  /\ Freed
  /\ source' = [source EXCEPT !.state = "closed"]
  /\ output' = IF output.state = "open" THEN [held |-> 0, state |-> "destroyed"] ELSE output
  /\ UNCHANGED <<body, client, collector>>

\* Mutation: the output's close is not passed on.
OutputClosedOnly ==
  /\ output.state = "destroyed"
  /\ output' = [output EXCEPT !.state = "closed"]
  /\ UNCHANGED <<body, source, client, collector, recorded, released>>

\* The output's 'close': an open source is destroyed and its reader cancelled, so
\* the read the pump waits for comes back and the source closes.
OutputClosed ==
  /\ output.state = "destroyed"
  /\ output' = [output EXCEPT !.state = "closed"]
  /\ source' = IF source.state \in {"open", "done"}
                 THEN [source EXCEPT !.state = "destroyed", !.chunk = <<>>, !.reader = "cancelled"] ELSE source
  /\ UNCHANGED <<body, client, collector, recorded, released>>

ClientReads ==
  /\ client = "reading"
  /\ output.state \in {"open", "finishing"}
  /\ output.held > 0
  /\ output' = [output EXCEPT !.held = @ - 1]
  /\ UNCHANGED <<body, source, client, collector, recorded, released>>

\* All of it was read: the output closes on its own.
ClientFinishes ==
  /\ client = "reading"
  /\ output = [held |-> 0, state |-> "finishing"]
  /\ output' = [output EXCEPT !.state = "destroyed"]
  /\ client' = "served"
  /\ UNCHANGED <<body, source, collector, recorded, released>>

\* The connection goes: the server destroys what it was sending.
ClientLeaves ==
  /\ client = "reading"
  /\ output.state \in {"open", "finishing"}
  /\ output' = [held |-> 0, state |-> "destroyed"]
  /\ client' = "left"
  /\ UNCHANGED <<body, source, collector, recorded, released>>

Called ==
  \/ ConnectFails \/ Refused \/ FirstFails \/ Compose
  \/ \E events \in Bodies, lineEnd \in LineEnds, closed \in BOOLEAN : Respond(events, lineEnd, closed)
Piped == Pull \/ PullEnds \/ PullFails \/ DataEvent \/ EndEvent \/ ErrorEvent \/ CloseEvent \/ OutputClosed
Reader == ClientReads \/ ClientFinishes \/ ClientLeaves

StreamNext ==
  \/ Connect \/ Called
  \/ Piped
  \/ Reader

\* Every call and read of a provider comes back (connect, first byte and idle
\* timeouts) and events are delivered.
\* That a client goes on reading or leaves is assumed: nothing times a stalled one out.
StreamFairness == WF_streamVars(Called) /\ WF_streamVars(Piped) /\ WF_streamVars(ClientReads) /\ WF_streamVars(Reader)
StreamSpec == StreamInit /\ [][StreamNext]_streamVars /\ StreamFairness

(***************************************************************************)
(* Properties.                                                             *)
(***************************************************************************)
StreamTypeOK ==
  /\ source.state \in {"absent", "connecting", "first", "open", "done", "failed", "ended", "errored", "destroyed", "closed"}
  /\ source.reader \in {"none", "held", "cancelled"} /\ source.calls \in 0..MaxCalls
  /\ output.state \in {"open", "finishing", "destroyed", "closed"}
  /\ output.held \in 0..(HighWater + Len(body.text))
  /\ client \in {"waiting", "reading", "served", "left"}
  /\ released \in 0..1
  /\ Len(recorded) <= 1

\* What the events of a body say was used: the last usage a provider states for the
\* whole answer, else what its messages' start and last delta say.
UsageOf(events) ==
  LET last(kinds) == LET at == {i \in DOMAIN events : events[i].kind \in kinds}
                     IN IF at = {} THEN NoUsage
                        ELSE LET e == events[CHOOSE i \in at : \A j \in at : j <= i] IN [in |-> e.in, out |-> e.out]
  IN IF last({"usage"}) # NoUsage THEN last({"usage"})
     ELSE IF last({"start", "delta"}) = NoUsage THEN NoUsage
     ELSE [in |-> IF last({"start"}) = NoUsage THEN 0 ELSE last({"start"}).in, out |-> last({"start", "delta"}).out]

\* However the provider cut its bytes and whoever stopped first, a stream recorded
\* as served was collected to its last byte and its usage is the one the events
\* state; 502 is recorded only when the provider broke off or stalled, 499 only when
\* the client left (gateway-stream-pipeline.ts, gateway-usage-collector.ts).
StreamOutcome ==
  \A i \in DOMAIN recorded :
    LET r == recorded[i]
    IN CASE r.status = 200 -> body.collected = Len(body.text) /\ r.usage = UsageOf(body.events) /\ ~body.failed
         [] r.status = 502 -> body.failed
         [] r.status = 499 -> client = "left"

\* Every call of a provider is over in the end without a reader held, and every
\* stream handed to a client that reads on or leaves is recorded, its lease released
\* and its reader cancelled (callStreamingProvider, createReadaheadStream,
\* wrapProviderStreamWithConcurrencyRelease).
StreamsEnd ==
  (source.state # "absent") ~>
    /\ source.reader # "held"
    /\ \/ source.state = "absent"
       \/ source.state = "closed" /\ Len(recorded) = 1 /\ released = 1
=============================================================================
