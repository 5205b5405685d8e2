----------------------------- MODULE RespToChat -----------------------------
(***************************************************************************)
(* translate.RespToChatState (stream_resp2chat.go): Responses events in,   *)
(* chat chunks out, at most one for an event.                              *)
(***************************************************************************)
EXTENDS Wire

NewRespToChat ==
    [started |-> FALSE,
     toolCallIndex |-> 0,
     current |-> NoId,                      \* CurrentToolCall
     chatIndex |-> [i \in {} |-> 0],        \* RespToolChatIndex, by item
     argsEmitted |-> {},                    \* RespToolArgsEmitted, by chat index
     finishSent |-> FALSE,
     usage |-> NoUsage,
     out |-> <<>>]

send(s, chunk) == [s EXCEPT !.out = Append(@, chunk)]

\* tool_calls when any call was announced.
computeFinishReason(s) ==
    IF s.toolCallIndex > 0 \/ s.current # NoId THEN "tool_calls" ELSE "stop"

finalChunk(s) ==
    send([s EXCEPT !.finishSent = TRUE],
         [Chunk EXCEPT !.finish = computeFinishReason(s), !.usage = s.usage])

\* The call the last added event announced: where a fragment goes whose item
\* is not known.
LatestIndex(s) == IF s.toolCallIndex > 0 THEN s.toolCallIndex - 1 ELSE 0

\* Mutant of IndexOf: fragments go to the call announced last.
IndexOfLatest(s, item) == LatestIndex(s)

IndexOf(s, item) ==
    IF item \in DOMAIN s.chatIndex THEN s.chatIndex[item] ELSE LatestIndex(s)

itemAdded(s, e) ==
    LET id == IF e.call = NoId THEN FallbackId ELSE e.call
        key == IF e.item = NoItem THEN <<"", id>> ELSE e.item
        seen == key \in DOMAIN s.chatIndex      \* a duplicate keeps its index
        idx == IF seen THEN s.chatIndex[key] ELSE s.toolCallIndex
    IN send([s EXCEPT !.current = id,
                      !.toolCallIndex = IF seen THEN @ ELSE @ + 1,
                      !.chatIndex = (key :> idx) @@ @],
            [Chunk EXCEPT !.calls = <<Call(idx, id, e.name, <<>>)>>])

arguments(s, idx, args) ==
    send([s EXCEPT !.argsEmitted = @ \cup {idx}],
         [Chunk EXCEPT !.calls = <<Call(idx, NoId, <<>>, args)>>])

argumentsDelta(s, e) ==
    IF e.text = <<>> THEN s ELSE arguments(s, IndexOf(s, e.item), e.text)

\* The arguments of a finished call are sent whole if no fragment was.
sendsAll(s, idx, args) == args # <<>> /\ idx \notin s.argsEmitted

\* A custom call has an input where a function call has arguments.
itemDone(s, e) ==
    LET idx == IndexOf(s, e.item)
        args == IF e.kind = FunctionCall THEN e.text ELSE <<>>
    IN IF sendsAll(s, idx, args) THEN arguments(s, idx, args) ELSE s

completed(s, e) ==
    LET t == [s EXCEPT !.usage = IF e.usage.present THEN e.usage ELSE @]
    IN IF t.finishSent THEN t ELSE finalChunk(t)

failed(s, e) ==
    IF s.finishSent \/ ~e.error THEN s
    ELSE send([s EXCEPT !.finishSent = TRUE],
              [Chunk EXCEPT !.content = <<ErrorText>>, !.finish = "stop"])

textDelta(s, e) ==
    IF e.text = <<>> THEN s ELSE send(s, [Chunk EXCEPT !.content = e.text])

reasoningDelta(s, e) ==
    IF e.text = <<>> THEN s ELSE send(s, [Chunk EXCEPT !.reason = e.text])

\* Convert of an event; out holds the chunk of this call, if any.
ConvertEvent(before, e) ==
    LET s == [before EXCEPT !.started = TRUE, !.out = <<>>]
    IN CASE e.type = "delta" /\ e.kind = Message -> textDelta(s, e)
         [] e.type = "delta" /\ e.kind = Reasoning -> reasoningDelta(s, e)
         [] e.type = "delta" /\ e.kind \in ToolKinds -> argumentsDelta(s, e)
         [] e.type = "added" /\ e.kind \in ToolKinds -> itemAdded(s, e)
         [] e.type = "done" /\ e.kind \in ToolKinds -> itemDone(s, e)
         [] e.type = "completed" -> completed(s, e)
         [] e.type \in {"failed", "error"} -> failed(s, e)
         [] OTHER -> s

\* Convert(nil)
FlushResp(before) ==
    LET s == [before EXCEPT !.out = <<>>]
    IN IF s.finishSent \/ ~s.started THEN s ELSE finalChunk(s)

=============================================================================
