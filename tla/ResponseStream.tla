--------------------------- MODULE ResponseStream ---------------------------
(***************************************************************************)
(* How a response's token usage and message are read out of an SSE stream: *)
(* the line reader (streaming/parser.go), the observer of one event and    *)
(* the two drivers over it (protocol/openai): ObserveStream, which watches *)
(* a captured copy after delivery, and AggregateSSEToJSON, which converts  *)
(* the stream to one JSON answer; and what the server settles with.        *)
(*                                                                         *)
(* A canonical usage is the function of its KNOWN, explicitly reported     *)
(* counts; a derived total is computed from it and never stored.           *)
(* A usage object is [counts, details]: the members it carries.  A member  *)
(* that does not decode (null, negative, duplicated) has the value -1.     *)
(* Text is a sequence of letters and its length is its size in bytes.      *)
(***************************************************************************)
EXTENDS Integers, Sequences, FiniteSets, SequencesExt, TLC

CONSTANTS
    Chunks,             \* the JSON objects the upstream may send
    SplitChunks,        \* those it may also send over two data lines
    MaxEventSize,       \* the reader's limit on one framed event
    MaxPayloadBytes,    \* the accumulator's limit on content and arguments
    MaxCount,           \* math.MaxInt64
    MaxLines            \* bound: lines of one response

ASSUME StreamAssumption ==
    /\ SplitChunks \subseteq Chunks
    /\ MaxEventSize \in Nat \ {0} /\ MaxPayloadBytes \in Nat \ {0}
    /\ MaxCount \in Nat /\ MaxLines \in Nat

VARIABLES
    driver,     \* "observe" or "aggregate": who reads this response
    lines,      \* number of lines read
    reader,     \* streaming.Reader: the event being framed
    observer,   \* openai.Observer
    errors,     \* ObservationResult.Errors, counted
    meaningful, \* LastMeaningfulOffset > 0
    message,    \* ChatAccumulator: the message and its usage
    outcome,    \* "open", "complete" or "failed"
    settled,    \* the total the request is settled with, or Conservative
    delivered   \* history: the complete events, in order

streamVars == <<driver, lines, reader, observer, errors, meaningful, message, outcome,
                settled, delivered>>

Conservative == -1
Nothing == <<>>         \* the function with no arguments: no count, no member

-----------------------------------------------------------------------------
(* Usage objects and canonical usage. *)

Chosen(object, names) ==
    LET present == {i \in DOMAIN names : names[i] \in DOMAIN object}
    IN  IF present = {} THEN Nothing
        ELSE LET first == CHOOSE i \in present : \A j \in present : i <= j
             IN  object[names[first]]

CountMember(field, object, names) ==
    IF \E i \in DOMAIN names : names[i] \in DOMAIN object
    THEN field :> Chosen(object, names) ELSE Nothing

DetailMember(field, member, object, names) ==
    LET details == Chosen(object, names)
    IN  IF member \in DOMAIN details THEN field :> details[member] ELSE Nothing

\* The canonical member hides its alias, but both are validated.
ParseUsageObject(object) ==
    CountMember("input", object.counts, <<"prompt_tokens", "input_tokens">>)
    @@ CountMember("output", object.counts, <<"completion_tokens", "output_tokens">>)
    @@ CountMember("total", object.counts, <<"total_tokens">>)
    @@ DetailMember("cached", "cached_tokens", object.details,
              <<"prompt_tokens_details", "input_tokens_details">>)
    @@ DetailMember("reasoning", "reasoning_tokens", object.details,
              <<"completion_tokens_details", "output_tokens_details">>)

UsageObjectValid(object) ==
    /\ \A m \in DOMAIN object.counts : object.counts[m] >= 0
    /\ \A d \in DOMAIN object.details : \A m \in DOMAIN object.details[d] :
           object.details[d][m] >= 0

Observed(usage) == DOMAIN usage # {}

TotalKnown(usage) == "total" \in DOMAIN usage \/ {"input", "output"} \subseteq DOMAIN usage

TotalTokens(usage) ==
    IF "total" \in DOMAIN usage THEN usage["total"] ELSE usage["input"] + usage["output"]

\* NewUsage refuses a derived total that does not fit.
UsageFits(usage) == TotalKnown(usage) => TotalTokens(usage) <= MaxCount

\* Mutant of MergeUsage: a derived total becomes a fixed one.
MergeUsageFixingTotal(current, update) ==
    update @@ current @@ (IF TotalKnown(current) THEN "total" :> TotalTokens(current) ELSE Nothing)

\* A later event's counts replace the earlier ones; an explicit total stays
\* until another explicit one; a derived one follows its components.
MergeUsage(current, update) == update @@ current

-----------------------------------------------------------------------------
(* The line reader. *)

EmptyChunk == [usage |-> [counts |-> Nothing, details |-> Nothing],
               response |-> [counts |-> Nothing, details |-> Nothing],
               completed |-> FALSE, id |-> 0, choices |-> <<>>]

Fragment(piece, chunk) == [piece |-> piece, chunk |-> chunk]
Done == Fragment("[DONE]", EmptyChunk)
Junk == Fragment("junk", EmptyChunk)

Line(kind, text, size) == [kind |-> kind, text |-> text, size |-> size]
Blank == Line("blank", Junk, 1)
Lines ==
    {Blank, Line("comment", Junk, 1), Line("event", Junk, 1), Line("other", Junk, 1),
     Line("data", Done, 3), Line("data", Junk, 3)}
    \cup {Line("data", Fragment("whole", c), 3) : c \in Chunks}
    \cup {Line("data", Fragment("head", c), 1) : c \in SplitChunks}
    \cup {Line("data", Fragment("tail", c), 2) : c \in SplitChunks}

EmptyEvent == [size |-> 0, named |-> FALSE, hasField |-> FALSE, data |-> <<>>]

\* One terminated line that is not blank.
AddLine(event, line) ==
    [event EXCEPT !.size = @ + line.size,
                  !.hasField = @ \/ line.kind # "comment",
                  !.named = @ \/ line.kind = "event",
                  !.data = IF line.kind = "data" THEN Append(@, line.text) ELSE @]

\* What the joined data lines of an event say.
IsDone(event) == event.data = <<Done>>
ObjectsOf(event) ==
    {c \in Chunks : event.data = <<Fragment("whole", c)>>
                    \/ event.data = <<Fragment("head", c), Fragment("tail", c)>>}

-----------------------------------------------------------------------------
(* The observer of one event. *)

NewObserver == [usage |-> Nothing, done |-> FALSE, events |-> 0, id |-> 0, choices |-> <<>>]

\* isResponsesCompletionEvent: by event name or by the object's type.
Completion(event, chunk) == event.named \/ chunk.completed

EventUsage(event, chunk) ==
    LET root == ParseUsageObject(chunk.usage)
        nested == ParseUsageObject(chunk.response)
    IN  IF Completion(event, chunk) THEN MergeUsage(root, nested) ELSE root

EventUsageValid(event, chunk) ==
    /\ UsageObjectValid(chunk.usage) /\ UsageFits(ParseUsageObject(chunk.usage))
    /\ Completion(event, chunk) =>
           /\ UsageObjectValid(chunk.response) /\ UsageFits(ParseUsageObject(chunk.response))
           /\ UsageFits(EventUsage(event, chunk))

\* The first identity reported stays.
ObserveMetadata(id, chunk) == IF id = 0 THEN chunk.id ELSE id

\* Every choice that decodes is appended, whichever event it came from.
ObserveChoices(choices, chunk) == choices \o chunk.choices

\* The observers that accept the event; {} when it is malformed, its usage is
\* invalid or the merged total does not fit.
Observe(current, event) ==
    IF IsDone(event) THEN {[current EXCEPT !.done = TRUE]}
    ELSE {[current EXCEPT !.usage = MergeUsage(@, EventUsage(event, c)),
                          !.events = @ + 1,
                          !.id = ObserveMetadata(@, c),
                          !.choices = ObserveChoices(@, c)] :
          c \in {c \in ObjectsOf(event) :
                    /\ EventUsageValid(event, c)
                    /\ UsageFits(MergeUsage(current.usage, EventUsage(event, c)))}}

\* meaningfulEvent: a usage member, even of a response object outside the
\* completion event, or a choice with content, reasoning, tool calls or a
\* finish reason.
MeaningfulEvent(event) ==
    \E c \in ObjectsOf(event) :
        \/ Observed(EventUsage(event, c))
        \/ UsageObjectValid(c.response) /\ Observed(ParseUsageObject(c.response))
        \/ \E i \in DOMAIN c.choices :
               \/ c.choices[i].content # <<>> \/ c.choices[i].reasoning
               \/ c.choices[i].tools # <<>> \/ c.choices[i].finish # "absent"

-----------------------------------------------------------------------------
(* The accumulator of the converter. *)

EmptyMessage == [usage |-> Nothing, id |-> 0, order |-> <<>>, choices |-> Nothing, bytes |-> 0]

EmptyChoice == [role |-> "", content |-> <<>>, tools |-> <<>>, finish |-> "absent"]

\* One tool-call fragment, joined to the call of the same index.
AddTool(tools, call) ==
    IF \E i \in DOMAIN tools : tools[i].index = call.index
    THEN [i \in DOMAIN tools |->
             IF tools[i].index = call.index
             THEN [tools[i] EXCEPT !.arguments = @ \o call.arguments] ELSE tools[i]]
    ELSE Append(tools, call)

\* A finish reason replaces the last one; a null one only marks presence.
LatestFinish(current, finish) ==
    IF finish = "absent" \/ (finish = "null" /\ current # "absent") THEN current ELSE finish

Joined(choice, observation) ==
    [role |-> IF choice.role = "" THEN observation.role ELSE choice.role,
     content |-> choice.content \o observation.content,
     tools |-> FoldLeft(AddTool, choice.tools, observation.tools),
     finish |-> LatestFinish(choice.finish, observation.finish)]

Payload(observation) ==
    Len(observation.content)
    + FoldLeft(LAMBDA sum, call : sum + Len(call.arguments), 0, observation.tools)

ApplyChoice(working, observation) ==
    LET known == observation.index \in DOMAIN working.choices
        choice == IF known THEN working.choices[observation.index] ELSE EmptyChoice
    IN  [working EXCEPT
            !.order = IF known THEN @ ELSE Append(@, observation.index),
            !.choices = (observation.index :> Joined(choice, observation)) @@ @,
            !.bytes = @ + Payload(observation)]

\* Only the choices of the event just observed are new.
NewChoices(before, after) ==
    SubSeq(after.choices, Len(before.choices) + 1, Len(after.choices))

\* The whole update, on a copy: it is dropped when it crosses the limit.
Accumulate(current, before, after) ==
    FoldLeft(ApplyChoice,
            [current EXCEPT !.usage = MergeUsage(@, after.usage),
                            !.id = IF @ = 0 THEN after.id ELSE @],
            NewChoices(before, after))

\* RenderChatCompletion's check.
Renderable(state) ==
    \E i \in DOMAIN state.choices :
        LET choice == state.choices[i]
        IN  choice.role # "" \/ choice.content # <<>> \/ choice.tools # <<>>
            \/ choice.finish # "absent"

-----------------------------------------------------------------------------
(* The drivers. *)

\* settleConvertedLease and the observation worker: a known total, or nothing.
Settlement(usage) == IF TotalKnown(usage) THEN TotalTokens(usage) ELSE Conservative

Finish(usage) == outcome' = "complete" /\ settled' = Settlement(usage)

\* Mutant of Fail: the usage of a broken conversion is settled.
FailWithPartialUsage == outcome' = "failed" /\ settled' = Settlement(message.usage)

\* A response that was not read to its end is settled conservatively; the
\* partial usage of a failed conversion is dropped by the server.
Fail == outcome' = "failed" /\ settled' = Conservative

KeepReading == UNCHANGED <<outcome, settled>>

\* ObserveStream's body for one event.  After DONE an event is only validated.
ObserveEvent(event) ==
    /\ KeepReading
    /\ UNCHANGED message
    /\ LET next == IF observer.done THEN Observe(NewObserver, event) ELSE Observe(observer, event)
       IN  \/ next = {} /\ errors' = errors + 1 /\ UNCHANGED <<observer, meaningful>>
           \/ /\ next # {} /\ UNCHANGED errors
              /\ IF observer.done THEN UNCHANGED <<observer, meaningful>>
                 ELSE /\ observer' \in next
                      /\ meaningful' = (meaningful \/ MeaningfulEvent(event))

\* AggregateSSEToJSON's body for one event.
AggregateEvent(event) ==
    /\ UNCHANGED <<errors, meaningful>>
    /\ IF IsDone(event)
       THEN /\ UNCHANGED <<observer, message>>
            /\ IF observer.events # 0 /\ Renderable(message)
               THEN Finish(message.usage) ELSE Fail
       ELSE \/ /\ Observe(observer, event) = {}
               /\ UNCHANGED <<observer, message>>
               /\ Fail
            \/ \E next \in Observe(observer, event) :
                  LET working == Accumulate(message, observer, next)
                  IN  /\ observer' = next
                      /\ IF working.bytes > MaxPayloadBytes
                         THEN UNCHANGED message /\ Fail
                         ELSE message' = working /\ KeepReading

\* Reader.Next up to the next line; a blank line completes an event that has
\* data and forgets one that has none.
ReadLine(line) ==
    /\ outcome = "open" /\ lines < MaxLines
    /\ lines' = lines + 1
    /\ UNCHANGED driver
    /\ IF reader.size + line.size > MaxEventSize
       THEN /\ Fail
            /\ UNCHANGED <<reader, observer, errors, meaningful, message, delivered>>
       ELSE IF line # Blank
       THEN /\ reader' = AddLine(reader, line)
            /\ UNCHANGED <<observer, errors, meaningful, message, outcome, settled, delivered>>
       ELSE /\ reader' = EmptyEvent
            /\ IF reader.data = <<>>
               THEN UNCHANGED <<observer, errors, meaningful, message, outcome, settled, delivered>>
               ELSE /\ delivered' = Append(delivered, [named |-> reader.named, data |-> reader.data])
                    /\ \/ driver = "observe" /\ ObserveEvent(reader)
                       \/ driver = "aggregate" /\ AggregateEvent(reader)

\* The input ends inside an event: "field" is an unterminated line of one.
Incomplete(rest) == reader.hasField \/ rest = "field"

\* The input ends, perhaps inside a line.  The converter renders what it has.
\* The observation of a stream is used only if every event was valid and one
\* of them meant something.
EndOfInput(rest) ==
    /\ outcome = "open"
    /\ IF driver = "aggregate"
       THEN IF ~Incomplete(rest) /\ observer.events # 0 /\ Renderable(message)
            THEN Finish(message.usage) ELSE Fail
       ELSE IF ~Incomplete(rest) /\ errors = 0 /\ meaningful
            THEN Finish(observer.usage) ELSE Fail
    /\ UNCHANGED <<driver, lines, reader, observer, errors, meaningful, message, delivered>>

\* The converter's upstream connection breaks.
ReadFails ==
    /\ outcome = "open" /\ driver = "aggregate"
    /\ Fail
    /\ UNCHANGED <<driver, lines, reader, observer, errors, meaningful, message, delivered>>

StreamInit ==
    /\ driver \in {"observe", "aggregate"}
    /\ lines = 0 /\ reader = EmptyEvent /\ observer = NewObserver
    /\ errors = 0 /\ meaningful = FALSE /\ message = EmptyMessage
    /\ outcome = "open" /\ settled = Conservative /\ delivered = <<>>

StreamNext ==
    \/ \E line \in Lines : ReadLine(line)
    \/ \E rest \in {"nothing", "comment", "field"} : EndOfInput(rest)
    \/ ReadFails

-----------------------------------------------------------------------------
(* What the drivers should have read, from the history of whole events. *)

Offered(i) == EventUsage(delivered[i], CHOOSE c \in ObjectsOf(delivered[i]) : TRUE)

\* The last of the events in which the field was reported.
LastReport(events, field) ==
    LET reports == {i \in events : field \in DOMAIN Offered(i)}
    IN  IF reports = {} THEN Nothing
        ELSE field :> Offered(CHOOSE i \in reports : \A j \in reports : j <= i)[field]

Reported(events) ==
    LastReport(events, "input") @@ LastReport(events, "output") @@ LastReport(events, "total")
    @@ LastReport(events, "cached") @@ LastReport(events, "reasoning")

BeforeDone(i) == \A j \in 1..i : ~IsDone(delivered[j])

\* The events that count: valid ones before DONE whose counts, with those of
\* the events before them, add up to a number that fits.
Counts(events, n) ==
    /\ BeforeDone(n)
    /\ \E c \in ObjectsOf(delivered[n]) : EventUsageValid(delivered[n], c)
    /\ UsageFits(Reported(events \cup {n}))

ValidEvents ==
    FoldLeft(LAMBDA events, n : IF Counts(events, n) THEN events \cup {n} ELSE events,
             {}, [i \in 1..Len(delivered) |-> i])

\* The choices of some events, in the order they arrived.
ChoicesOf(events) ==
    FlattenSeq([i \in 1..Len(delivered) |->
                   IF i \in events THEN (CHOOSE c \in ObjectsOf(delivered[i]) : TRUE).choices
                   ELSE <<>>])

UpTo(events, i) == {j \in events : j <= i}

\* The converter keeps the valid events up to the one that makes the message
\* larger than its limit.
Kept ==
    LET valid == ValidEvents
    IN  IF driver = "observe" THEN valid
        ELSE {i \in valid :
                 FoldLeft(LAMBDA sum, o : sum + Payload(o), 0, ChoicesOf(UpTo(valid, i)))
                     <= MaxPayloadBytes}

ContentOf(observations, index) ==
    LET own == SelectSeq(observations, LAMBDA o : o.index = index)
    IN  FlattenSeq([i \in DOMAIN own |-> own[i].content])

ArgumentsOf(observations, index, tool) ==
    LET own == SelectSeq(observations, LAMBDA o : o.index = index)
        calls == SelectSeq(FlattenSeq([i \in DOMAIN own |-> own[i].tools]),
                           LAMBDA call : call.index = tool)
    IN  FlattenSeq([i \in DOMAIN calls |-> calls[i].arguments])

\* Every count is the last one reported by an event that counts.
UsageIsLatest(kept) ==
    Reported(kept) = IF driver = "observe" THEN observer.usage ELSE message.usage

\* Every choice and every tool call is the concatenation, once and in order, of
\* the fragments sent for it, and together they stay within the limit.
MessageIsConcatenation(sent) ==
    /\ message.bytes <= MaxPayloadBytes
    /\ DOMAIN message.choices = {o.index : o \in ToSet(sent)}
    /\ \A k \in DOMAIN message.choices :
           LET tools == message.choices[k].tools
           IN  /\ message.choices[k].content = ContentOf(sent, k)
               /\ \A i, j \in DOMAIN tools :
                      /\ i # j => tools[i].index # tools[j].index
                      /\ tools[i].arguments = ArgumentsOf(sent, k, tools[i].index)

\* A response read to its end settles the total of the events that count:
\* explicit if any of them was, else the sum of the latest input and output.
\* One that failed settles conservatively whatever usage it had reported, and
\* so does a copy that held anything invalid before DONE or ended inside an
\* event.
SettlesWhatWasReported(kept) ==
    /\ outcome = "complete" => settled = Settlement(Reported(kept))
    /\ outcome = "failed" => settled = Conservative
    /\ driver = "observe" /\ settled # Conservative =>
           /\ \A i \in 1..Len(delivered) : BeforeDone(i) => i \in kept
           /\ ~reader.hasField

\* The usage and the message read out of a stream are those its events report
\* (openai.Observer, ChatAccumulator, ObserveStream, AggregateSSEToJSON), and
\* the request is settled with that usage when the response was read to its
\* end and conservatively otherwise (proxyHandler's conversion,
\* settleConvertedLease, finalizeConvertedLeaseConservatively).
StreamExact ==
    IF delivered = <<>> THEN settled = Conservative /\ message = EmptyMessage
    ELSE LET kept == Kept
         IN  /\ UsageIsLatest(kept)
             /\ driver = "aggregate" => MessageIsConcatenation(ChoicesOf(kept))
             /\ SettlesWhatWasReported(kept)
=============================================================================
