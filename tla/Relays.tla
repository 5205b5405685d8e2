------------------------------- MODULE Relays -------------------------------
(***************************************************************************)
(* The stream relays (internal/relay: passthrough.go, translate.go, sse.go *)
(* and common.go) as Server.stream (internal/router/stream.go) drives      *)
(* them: which relay serves a client, what it writes for each line of the  *)
(* upstream's body, and how the stream is closed when the body ends, ends  *)
(* inside a line, or breaks off.                                           *)
(*                                                                         *)
(* source is the client's format and target the upstream's.  What is       *)
(* written to the client is a sequence of lines of the same kind as the    *)
(* upstream's.  Framing, id repair and the fields injected into or         *)
(* stripped from a chunk are left out.  How lines reach the relay, and     *)
(* when the scan reports an error, is module ScanLines.                    *)
(***************************************************************************)
EXTENDS ChatToResp, RespToChat, Aggregate, UpstreamBody

CONSTANTS
    Routes,         \* the pairs of client and upstream format that are explored
    MaxLines,       \* bound on the lines of a conformant body
    MaxOdd          \* bound on the lines of any other body

ASSUME RelaysAssumption ==
    /\ Routes \subseteq {"chat", "responses"} \X {"chat", "responses"}
    /\ MaxLines \in Nat
    /\ MaxOdd \in Nat

VARIABLES
    source, target, \* sourceFormat and targetFormat
    relay,          \* the relay's fields
    out,            \* everything written to the client
    ending,         \* how the stream ended: "", "flush", "tail", "abort"
    \* Not in the program, for the properties only:
    sent,           \* the lines of the body so far
    conformant      \* they keep the protocol of their format

relayVars == <<source, target, relay, out, ending, sent, conformant>>

\* ResolveSynthesis: the request asked for thinking, or not.
NewRelay(synthesis) ==
    [synthesis |-> synthesis, terminalSeen |-> FALSE, doneSent |-> FALSE,
     totalLen |-> 0, tracked |-> NoUsage,
     chatToResp |-> NewChatToResp, respToChat |-> NewRespToChat,
     out |-> <<>>]

RelayInit ==
    /\ \E route \in Routes : source = route[1] /\ target = route[2]
    /\ relay \in {NewRelay(synthesis) : synthesis \in BOOLEAN}
    /\ out = <<>>
    /\ ending = ""
    /\ sent = <<>>
    /\ conformant = TRUE

-----------------------------------------------------------------------------
(***************************************************************************)
(* Shared by both relays.                                                  *)
(***************************************************************************)

write(r, line) == [r EXCEPT !.out = Append(@, line)]

\* Mutant of hasValuableContent: a delta without text says nothing.
hasText(c) ==
    \/ c.choices # "one"
    \/ c.content # <<>> \/ c.reason # <<>>
    \/ c.finish # "" \/ c.role
    \/ HasValid(c.usage)

\* Only a delta that says nothing is dropped.
hasValuableContent(c) ==
    \/ c.choices # "one"
    \/ c.content # <<>> \/ c.reason # <<>> \/ c.calls # <<>>
    \/ c.finish # "" \/ c.role
    \/ HasValid(c.usage)

\* Each piece of text is a few characters long.
PieceLen == 3
accumulate(r, c) == [r EXCEPT !.totalLen = @ + PieceLen * (Len(c.content) + Len(c.reason))]

\* Mutant of mergeTracked: the estimate is merged like a report.
mergeTrackedAlways(prev, next) == Merge(prev, next)

\* A report replaces an estimate, and is merged into an earlier report.
mergeTracked(prev, next) ==
    IF ~next.present THEN prev
    ELSE IF prev.estimated THEN next
    ELSE Merge(prev, next)

\* extractAnyUsage: of a Responses event only the completed one counts.
extractAnyUsage(format, obj) ==
    IF format = "responses" /\ obj.type # "completed" THEN NoUsage ELSE obj.usage

track(r, format, obj) ==
    [r EXCEPT !.tracked = mergeTracked(@, extractAnyUsage(format, obj))]

synthesized(r, u) == IF r.synthesis THEN SynthesizeThinking(u) ELSE u

\* The usage shown on a chunk, and what the relay keeps: a report of the
\* chunk's own, else an estimate or the buffered report on the finish chunk.
UsageSeam(r, c, estimates) ==
    LET isFinish == c.finish # ""
        carries == HasValid(c.usage)
        estimated == Estimate(r.totalLen)
    IN IF carries THEN [relay |-> r, usage |-> synthesized(r, c.usage)]
       ELSE IF isFinish /\ ~HasValid(r.tracked) /\ estimates
       THEN [relay |-> [r EXCEPT !.tracked = estimated], usage |-> synthesized(r, estimated)]
       ELSE IF isFinish /\ r.tracked.present
       THEN [relay |-> r, usage |-> synthesized(r, AddBuffer(r.tracked))]
       ELSE [relay |-> r, usage |-> c.usage]

writeChunk(r, c, estimates) ==
    LET seam == UsageSeam(r, c, estimates)
    IN write(seam.relay, Data([c EXCEPT !.usage = seam.usage]))

-----------------------------------------------------------------------------
(***************************************************************************)
(* PassthroughRelay: client and upstream speak the same format.            *)
(***************************************************************************)

\* FormatIncompleteResponsesFailure
Failure == [Event EXCEPT !.type = "failed", !.error = TRUE]

synthesizeFailure(r) ==
    IF r.terminalSeen THEN r ELSE [write(r, Data(Failure)) EXCEPT !.terminalSeen = TRUE]

\* Mutant of sendDone: the sentinel is sent whenever it is asked for.
sendDoneAgain(r) == write(r, DoneLine)

sendDone(r) == IF r.doneSent THEN r ELSE [write(r, DoneLine) EXCEPT !.doneSent = TRUE]

\* The sentinel of a body that named no terminal is preceded by a failure; a
\* second sentinel is swallowed.
emitResponsesDone(r) == sendDone(synthesizeFailure(r))

\* Chat chunks are normalized, filtered and given their usage.
passChunk(r, c) ==
    IF c.choices = "broken" \/ ~hasValuableContent(c) THEN r
    ELSE writeChunk(track(IF c.choices = "one" THEN accumulate(r, c) ELSE r, "chat", c), c, TRUE)

\* Responses events are forwarded as they are; the terminal one is noted.
passEvent(r, e) ==
    LET t == [r EXCEPT !.terminalSeen = @ \/ Terminal(e)]
    IN write(track(t, "responses", e), Data(e))

passLine(r, line) ==
    CASE line.class \in {"other", "scalar"} -> write(r, line)
      [] line.class = "done" /\ source = "responses" -> emitResponsesDone(r)
      [] line.class = "done" /\ source = "chat" -> write(r, line)
      [] line.class \in {"junk", "null"} -> r
      [] IsObject(line) /\ source = "chat" -> passChunk(r, line.obj)
      [] IsObject(line) /\ source = "responses" -> passEvent(r, line.obj)

\* ProcessTail: the unterminated rest goes out as it is, without a newline,
\* except for the sentinel on the Responses route.
passTail(r, line) ==
    IF source = "responses" /\ line = DoneLine THEN emitResponsesDone(r)
    ELSE write(r, [class |-> "tail", line |-> line])

passFlush(r) == IF source = "responses" THEN emitResponsesDone(r) ELSE write(r, DoneLine)

-----------------------------------------------------------------------------
(***************************************************************************)
(* TranslateRelay: the formats differ.                                     *)
(***************************************************************************)

\* applyUsageSeam on every chunk for a chat client; a framed Responses event
\* has none of the fields the seam looks at.
writeItems(r, items) ==
    IF source = "responses" THEN [r EXCEPT !.out = @ \o [i \in DOMAIN items |-> Data(items[i])]]
    ELSE FoldLeft(LAMBDA acc, c : writeChunk(acc, c, acc.totalLen > 0), r,
                  SelectSeq(items, hasValuableContent))

translateChunk(r, c) ==
    LET t == track(IF c.choices = "one" THEN accumulate(r, c) ELSE r, "chat", c)
        s == ConvertChunk(t.chatToResp, c)
    IN writeItems([t EXCEPT !.chatToResp = s], s.out)

translateEvent(r, e) ==
    LET t == track(r, "responses", e)
        s == ConvertEvent(t.respToChat, e)
    IN writeItems([t EXCEPT !.respToChat = s], s.out)

\* Whatever is not a JSON object, the sentinel included, is dropped.
translateLine(r, line) ==
    IF ~IsObject(line) THEN r
    ELSE IF source = "responses" THEN translateChunk(r, line.obj)
    ELSE translateEvent(r, line.obj)

\* Flush: the closing items of the state machine, and no [DONE].
translateFlush(r) ==
    LET toResp == FlushChat(r.chatToResp)
        toChat == FlushResp(r.respToChat)
    IN IF source = "responses"
       THEN writeItems([r EXCEPT !.chatToResp = toResp], toResp.out)
       ELSE writeItems([r EXCEPT !.respToChat = toChat], toChat.out)

-----------------------------------------------------------------------------
(***************************************************************************)
(* stream(): translate when the formats differ, passthrough otherwise.     *)
(***************************************************************************)

Translates == source # target
ProcessLine(r, line) == IF Translates THEN translateLine(r, line) ELSE passLine(r, line)
ProcessTail(r, line) == IF Translates THEN translateLine(r, line) ELSE passTail(r, line)
Flush(r) == IF Translates THEN translateFlush(r) ELSE passFlush(r)

\* The relay's writes of one call go to the client.
Writes(r) == relay' = [r EXCEPT !.out = <<>>] /\ out' = out \o r.out

\* The upstream's next line; the bounds are on what the model explores.
Brings(line, maxOdd) ==
    /\ ending = ""
    /\ conformant' = (conformant /\ Follows(target, sent, line))
    /\ Len(sent) < IF conformant' THEN MaxLines ELSE maxOdd
    /\ sent' = Append(sent, line)

\* One complete line of the body, through ProcessLine.
Line(line) ==
    /\ Brings(line, MaxOdd)
    /\ Writes(ProcessLine(relay, line))
    /\ UNCHANGED <<source, target, ending>>

\* The body ends after a complete line.
BodyEnds ==
    /\ ending = ""
    /\ ending' = "flush"
    /\ Writes(Flush(relay))
    /\ UNCHANGED <<source, target, sent, conformant>>

\* The body ends inside a line: what there is of it may be whole JSON or not.
BodyEndsInLine(line) ==
    /\ Brings(line, MaxOdd - 1)
    /\ ending' = "tail"
    /\ Writes(Flush(ProcessTail(relay, line)))
    /\ UNCHANGED <<source, target>>

\* ScanLines returned an error: a stall, a broken read, or the client left.
\* A Responses passthrough client gets a failure and the sentinel.
Aborts ==
    /\ ending = ""
    /\ ending' = "abort"
    /\ out' = IF source = "responses" /\ target = "responses"
              THEN out \o <<Data(Failure), DoneLine>> ELSE out
    /\ UNCHANGED <<source, target, relay, sent, conformant>>

RelayNext ==
    \/ \E line \in AnyLine(target, sent) : Line(line) \/ BodyEndsInLine(line)
    \/ BodyEnds
    \/ Aborts

RelaySpec == RelayInit /\ [][RelayNext]_relayVars

-----------------------------------------------------------------------------
(***************************************************************************)
(* What the client makes of the stream.                                    *)
(***************************************************************************)

Received == Objects(out)
\* Where the events are that end the response, and the sentinels.
Terminals == {i \in DOMAIN out : IsObject(out[i]) /\ Terminal(out[i].obj)}
DoneLines == {i \in DOMAIN out : out[i] = DoneLine}

\* The body was cut inside a line and that line went out as it is.
Torn == \E i \in DOMAIN out : out[i].class = "tail"
Closes == ending \in {"flush", "tail"} /\ ~Torn

\* The chat answer a client assembles from the chunks it got.
Assembled == ParseSSEToOpenAIResponse(out)

\* A Responses client, once the body has ended, knows how the response ended:
\* a terminal event whether the upstream named one, was cut short, sent
\* garbage or ended inside the sentinel, and exactly one, last, if what there
\* was of the body kept the protocol; where the sentinel is used it comes
\* exactly once, even if the upstream repeated it.
ResponsesEndOnce ==
    source = "responses" /\ Closes =>
        /\ Cardinality(DoneLines) = IF Translates THEN 0 ELSE 1
        /\ Terminals # {}
        /\ conformant /\ ending = "flush" =>
              /\ Cardinality(Terminals) = 1
              /\ \A i \in Terminals, j \in DOMAIN out : IsObject(out[j]) => j <= i
              /\ ~Translates => Last(out) = DoneLine

\* "synthesizes response.failed + [DONE] when the stream aborts or stalls
\* before a terminal event" (stream.go): a client that has its terminal event
\* is not told of another end.
FailedOnlyBeforeTerminal ==
    source = "responses" /\ ending = "abort" /\ conformant => Cardinality(Terminals) <= 1

\* Every item a Responses client is told of is opened before its deltas and
\* closed once, after them, with the text they add up to, before the response
\* is completed; and what the items hold is what the upstream's chunks say,
\* none of it lost, repeated or put into another item.
ItemsAreWhole ==
    source = "responses" /\ Translates /\ conformant =>
        LET ev == Received
            At(type, item) == {i \in DOMAIN ev : ev[i].type = type /\ ev[i].item = item}
            items == {ev[i].item : i \in DOMAIN ev} \ {NoItem}
            chat == ParseSSEToOpenAIResponse(sent)
        IN /\ \A item \in items :
                 /\ Cardinality(At("added", item)) = 1
                 /\ Cardinality(At("done", item)) <= 1
                 /\ \A i \in At("added", item), j \in At("delta", item) : i < j
                 /\ \A i \in At("delta", item), j \in At("done", item) : i < j
                 /\ \A j \in At("done", item) :
                       \/ ev[j].text = DeltasOf(ev, item)
                       \/ ev[j].text = EmptyObject /\ DeltasOf(ev, item) = <<>>
                 /\ Terminals # {} => At("done", item) # {}
           /\ DeltasOf(ev, MsgItem(0)) = chat.content
           /\ DeltasOf(ev, <<"rs", 0>>) = chat.reason
           /\ \A i \in DOMAIN chat.calls :
                 chat.calls[i].name \notin CustomToolNames =>
                     DeltasOf(ev, <<"fc", chat.calls[i].id>>) = chat.calls[i].args

\* The arguments of call i in these events: streamed, or sent when it is done.
ArgumentsOf(events, i) ==
    LET streamed == DeltasOf(events, FcItem(i))
        whole == SelectSeq(events, LAMBDA e : e.type = "done" /\ e.item = FcItem(i)
                                              /\ e.kind = FunctionCall)
    IN IF streamed # <<>> \/ whole = <<>> THEN streamed ELSE Last(whole).text

\* A chat client gets each call's id, name and arguments once and under one
\* index, however the upstream interleaves the events of several calls, and
\* whether it streams the arguments or sends them when the call is done.
ArgumentsReachTheirCall ==
    source = "chat" /\ Translates /\ conformant =>
        LET calls == Assembled.calls
            open == {i \in CallIndexes : Opened(sent, FcItem(i))}
        IN /\ Len(calls) = Cardinality(open)
           /\ {<<calls[k].id, calls[k].name, calls[k].args>> : k \in DOMAIN calls}
                 = {<<i, Names[i], ArgumentsOf(Objects(sent), i)>> : i \in open}

\* A call without arguments is "{}" in one answer and "" in the other.
SameItem(it) == IF it.text = EmptyObject THEN [it EXCEPT !.text = <<>>] ELSE it

\* The items a translated stream closed.
ClosedItems ==
    {SameItem(itemOf(Received[i])) : i \in {j \in DOMAIN Received : Received[j].type = "done"}}

\* The same answer with and without stream: what a client assembles from a
\* stream that ran to its end is what forcedSSEToJson makes of the same body.
\* Left out is what the forced answer does not hold: reasoning next to
\* content, and for a chat client behind a Responses upstream all reasoning
\* and every custom call.
StreamAgreesWithJson ==
    ending = "flush" /\ conformant /\ Complete(target, sent) =>
        LET chat == ParseSSEToOpenAIResponse(sent)
            json == ConvertResponsesStreamToJson(sent)
            built == BuildChatFromResponses(json)
            items == ChatCompletionToResponses(StripRedundantReasoning(chat), CustomToolNames).output
            function(c) == c.name \notin CustomToolNames
        IN CASE source = "chat" /\ ~Translates ->
                  /\ [Assembled EXCEPT !.usage = NoUsage] = [chat EXCEPT !.usage = NoUsage]
                  /\ HasValid(chat.usage) => Assembled.usage = synthesized(relay, chat.usage)
             [] source = "chat" /\ Translates ->
                  /\ Assembled.content = built.content
                  /\ ToSet(SelectSeq(Assembled.calls, function)) = ToSet(built.calls)
                  /\ Assembled.calls = built.calls => Assembled.finish = built.finish
                  /\ Assembled.usage = synthesized(relay, built.usage)
             [] source = "responses" /\ ~Translates ->
                  ConvertResponsesStreamToJson(out) = json
             [] OTHER ->
                  {it \in ClosedItems : it.kind = Reasoning => chat.content = <<>>}
                      = {SameItem(items[i]) : i \in DOMAIN items}

\* Every chunk that tells a chat client why the answer ended also tells it
\* the usage (an upstream of the other format may have none to tell), and once
\* the upstream has reported one it is never an estimate, also if the report
\* came after an estimate was sent.
UsageIsReported ==
    [][source = "chat" =>
        LET reported == Has(sent', LAMBDA o : HasValid(extractAnyUsage(target, o)))
            fresh == SubSeq(out', Len(out) + 1, Len(out'))
        IN \A i \in DOMAIN fresh :
              IsObject(fresh[i]) /\ fresh[i].obj.finish # "" =>
                  /\ ~Translates => HasValid(fresh[i].obj.usage)
                  /\ reported => ~fresh[i].obj.usage.estimated]_relayVars

=============================================================================
