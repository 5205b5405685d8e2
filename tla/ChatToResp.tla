----------------------------- MODULE ChatToResp -----------------------------
(***************************************************************************)
(* translate.ChatToRespState (stream_chat2resp.go): chat chunks in,        *)
(* Responses events out.  The state is a record; every operator returns    *)
(* the record after the call, with the events emitted appended to out.     *)
(*                                                                         *)
(* The frames that open an item (output_item.added and its part) are one   *)
(* "added" event, the frames that close it (text done, part done, item     *)
(* done) one "done": the code always writes them together.                 *)
(***************************************************************************)
EXTENDS Wire

CONSTANT CustomToolNames    \* names of custom tools, from the request translator

NewChatToResp ==
    [started |-> FALSE, inThinking |-> FALSE,
     reasoningIndex |-> NoId,           \* set once the reasoning item has an id
     reasoningDone |-> FALSE, reasoningBuf |-> <<>>,
     msgs |-> [i \in {} |-> [buf |-> <<>>, done |-> FALSE]],
     calls |-> [i \in {} |-> [id |-> NoId, name |-> <<>>, args |-> <<>>,
                              added |-> FALSE, done |-> FALSE]],
     completed |-> FALSE,
     out |-> <<>>]

\* f[k] = v of a map
Put(f, k, v) == [x \in DOMAIN f \cup {k} |-> IF x = k THEN v ELSE f[x]]

emit(s, e) == [s EXCEPT !.out = Append(@, e)]

RsItem(s) == <<"rs", s.reasoningIndex>>
MsgItem(idx) == <<"msg", idx>>

startReasoning(s, idx) ==
    IF s.reasoningIndex # NoId THEN s
    ELSE emit([s EXCEPT !.reasoningIndex = idx],
              [Event EXCEPT !.type = "added", !.kind = Reasoning, !.item = <<"rs", idx>>,
                            !.index = idx])

emitReasoningDelta(s, text) ==
    IF text = <<>> THEN s
    ELSE emit([s EXCEPT !.reasoningBuf = @ \o text],
              [Event EXCEPT !.type = "delta", !.kind = Reasoning, !.item = RsItem(s),
                            !.index = s.reasoningIndex, !.text = text])

closeReasoning(s) ==
    IF s.reasoningIndex = NoId \/ s.reasoningDone THEN s
    ELSE emit([s EXCEPT !.reasoningDone = TRUE],
              [Event EXCEPT !.type = "done", !.kind = Reasoning, !.item = RsItem(s),
                            !.index = s.reasoningIndex, !.text = s.reasoningBuf])

addMessage(s, idx) ==
    IF idx \in DOMAIN s.msgs THEN s
    ELSE emit([s EXCEPT !.msgs = Put(@, idx, [buf |-> <<>>, done |-> FALSE])],
              [Event EXCEPT !.type = "added", !.kind = Message, !.item = MsgItem(idx),
                            !.index = idx])

emitTextContent(s, idx, text) ==
    emit([addMessage(s, idx) EXCEPT !.msgs[idx].buf = @ \o text],
         [Event EXCEPT !.type = "delta", !.kind = Message, !.item = MsgItem(idx),
                       !.index = idx, !.text = text])

\* Mutant of closeMessage: a message that is closed is closed again.
closeMessageAgain(s, idx) ==
    IF idx \notin DOMAIN s.msgs THEN s
    ELSE emit([s EXCEPT !.msgs[idx].done = TRUE],
              [Event EXCEPT !.type = "done", !.kind = Message, !.item = MsgItem(idx),
                            !.index = idx, !.text = s.msgs[idx].buf])

closeMessage(s, idx) ==
    IF idx \notin DOMAIN s.msgs \/ s.msgs[idx].done THEN s
    ELSE emit([s EXCEPT !.msgs[idx].done = TRUE],
              [Event EXCEPT !.type = "done", !.kind = Message, !.item = MsgItem(idx),
                            !.index = idx, !.text = s.msgs[idx].buf])

-----------------------------------------------------------------------------
isCustomTool(name) == name \in CustomToolNames
CallKind(c) == IF isCustomTool(c.name) THEN CustomToolCall ELSE FunctionCall
CallItem(c) == <<IF isCustomTool(c.name) THEN "ctc" ELSE "fc", c.id>>
CallEvent(c, idx) ==
    [Event EXCEPT !.kind = CallKind(c), !.item = CallItem(c), !.index = idx, !.call = c.id]

\* The call at an index, with what one more fragment says of it.
Known(s, tc) ==
    LET old == IF tc.index \in DOMAIN s.calls THEN s.calls[tc.index]
               ELSE [id |-> NoId, name |-> <<>>, args |-> <<>>, added |-> FALSE, done |-> FALSE]
    IN [old EXCEPT !.name = IF tc.name # <<>> THEN tc.name ELSE @,
                   !.id = IF tc.id # NoId THEN tc.id ELSE @]

\* A call is announced when both its id and its name have arrived.
announces(c) == ~c.added /\ c.id # NoId /\ c.name # <<>>

emitToolCall(s, tc) ==
    LET known == Known(s, tc)
        c == [known EXCEPT !.added = @ \/ announces(known), !.args = @ \o tc.args]
        added == IF announces(known)
                 THEN <<[CallEvent(c, tc.index) EXCEPT !.type = "added", !.name = c.name]>>
                 ELSE <<>>
        delta == IF tc.args # <<>> /\ c.added /\ c.id # NoId /\ ~isCustomTool(c.name)
                 THEN <<[CallEvent(c, tc.index) EXCEPT !.type = "delta", !.text = tc.args]>>
                 ELSE <<>>
    IN [s EXCEPT !.calls = Put(@, tc.index, c), !.out = @ \o added \o delta]

\* A custom tool's input is sent once, unwrapped, when the call closes.
closeToolCall(s, idx) ==
    LET c == s.calls[idx]
        args == IF c.args = <<>> THEN EmptyObject ELSE c.args
        text == IF isCustomTool(c.name) THEN extractCustomToolInput(args) ELSE args
        input == [CallEvent(c, idx) EXCEPT !.type = "delta", !.text = text]
        done == [CallEvent(c, idx) EXCEPT !.type = "done", !.name = c.name, !.text = text]
    IN IF c.id = NoId \/ c.done THEN s
       ELSE [s EXCEPT !.calls[idx].done = TRUE,
                      !.out = @ \o IF isCustomTool(c.name) THEN <<input, done>> ELSE <<done>>]

sendCompleted(s) ==
    IF s.completed THEN s
    ELSE emit([s EXCEPT !.completed = TRUE], [Event EXCEPT !.type = "completed"])

\* The keys of a map in ascending order: the k-th has k - 1 below it.
sortedKeys(f) ==
    [k \in 1..Cardinality(DOMAIN f) |->
        CHOOSE i \in DOMAIN f : Cardinality({j \in DOMAIN f : j < i}) = k - 1]

\* The closing loops of flushEvents and of a chunk with a finish_reason.
closeAll(s) ==
    LET messages == FoldLeft(closeMessage, s, sortedKeys(s.msgs))
        reasoning == closeReasoning(messages)
        calls == FoldLeft(closeToolCall, reasoning, sortedKeys(s.calls))
    IN sendCompleted(calls)

flushEvents(s) == IF s.completed THEN s ELSE closeAll(s)

-----------------------------------------------------------------------------
begin(s) ==
    IF s.started THEN s
    ELSE emit([s EXCEPT !.started = TRUE], [Event EXCEPT !.type = "created"])

vendorReasoning(s, chunk) ==
    IF chunk.reason = <<>> THEN s
    ELSE emitReasoningDelta(startReasoning(s, chunk.index), chunk.reason)

\* <think> opens the reasoning item; what comes before </think> belongs to it,
\* what comes after is content again.
thinkTags(s, chunk) ==
    LET opens == Contains(chunk.content, ThinkOpen)
        text == RemoveFirst(chunk.content, ThinkOpen)
        opened == IF opens THEN startReasoning([s EXCEPT !.inThinking = TRUE], chunk.index)
                  ELSE s
        cut == SelectInSeq(text, LAMBDA p : p = ThinkClose)
        thought == emitReasoningDelta(opened, SubSeq(text, 1, cut - 1))
    IN IF cut = 0 THEN [state |-> opened, content |-> text]
       ELSE [state |-> [closeReasoning(thought) EXCEPT !.inThinking = FALSE],
             content |-> SubSeq(text, cut + 1, Len(text))]

\* tool_calls close the open message and are taken in their order.
toolCalls(s, chunk) ==
    IF chunk.calls = <<>> THEN s
    ELSE FoldLeft(emitToolCall, closeMessage(s, chunk.index), chunk.calls)

finish(s, chunk) == IF chunk.finish = "" THEN s ELSE closeAll(s)

\* Convert of a chunk; out holds the events of this call only.  Content inside
\* a thinking block ends the call: what else the chunk carries is not read.
ConvertChunk(before, chunk) ==
    LET s == [before EXCEPT !.out = <<>>]
        tags == thinkTags(vendorReasoning(begin(s), chunk), chunk)
        text == IF tags.content = <<>> THEN tags.state
                ELSE emitTextContent(tags.state, chunk.index, tags.content)
    IN IF chunk.choices # "one" THEN s
       ELSE IF tags.state.inThinking /\ tags.content # <<>>
       THEN emitReasoningDelta(tags.state, tags.content)
       ELSE finish(toolCalls(text, chunk), chunk)

\* Convert(nil)
FlushChat(before) == flushEvents([before EXCEPT !.out = <<>>])

=============================================================================
