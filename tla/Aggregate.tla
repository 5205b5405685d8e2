----------------------------- MODULE Aggregate -----------------------------
(***************************************************************************)
(* The conversions of a whole streamed body into one JSON answer           *)
(* (internal/relay/nonstream.go), for clients that did not ask for a       *)
(* stream.                                                                 *)
(*                                                                         *)
(* A body is the sequence of its lines.  Ids, dates and models of the      *)
(* answer are left out; an item is its kind, call id, name and text.       *)
(***************************************************************************)
EXTENDS Wire

CONSTANT MaxOutputIndex     \* config.MaxResponsesOutputIndex

ASSUME MaxOutputIndexAssumption == MaxOutputIndex \in Nat

-----------------------------------------------------------------------------
(***************************************************************************)
(* ParseSSEToOpenAIResponse: a chat body.                                  *)
(***************************************************************************)

\* Every payload that is JSON counts, whatever it is.
ParsedAny(lines) == \E l \in ToSet(lines) : l.class \in {"object", "scalar", "null"}
CarriesError(lines) == \E i \in DOMAIN Objects(lines) : Objects(lines)[i].error
HasDelta(chunk) == chunk.choices = "one"

\* The fragments of a call are joined under its index: name and arguments are
\* concatenated, the id replaced.
addFragment(m, tc) ==
    LET old == IF tc.index \in DOMAIN m THEN m[tc.index]
               ELSE [id |-> NoId, name |-> <<>>, args |-> <<>>]
    IN (tc.index :> [id |-> IF tc.id = NoId THEN old.id ELSE tc.id,
                     name |-> old.name \o tc.name, args |-> old.args \o tc.args]) @@ m

joinCalls(chunks) ==
    LET m == FoldLeft(addFragment, [i \in {} |-> 0],
                      FlattenSeq([i \in DOMAIN chunks |-> chunks[i].calls]))
        order == SetToSortSeq(DOMAIN m, <)
    IN [i \in DOMAIN order |-> m[order[i]]]

lastOr(default, seq) == IF seq = <<>> THEN default ELSE Last(seq)

ParseSSEToOpenAIResponse(lines) ==
    LET objects == Objects(lines)
        chunks == SelectSeq(objects, HasDelta)
        calls == joinCalls(chunks)
        finishes == SelectSeq(chunks, LAMBDA c : c.finish # "")
        usages == SelectSeq(objects, LAMBDA c : c.usage.present)
    IN [content |-> FlattenSeq([i \in DOMAIN chunks |-> chunks[i].content]),
        reason |-> FlattenSeq([i \in DOMAIN chunks |-> chunks[i].reason]),
        calls |-> calls,
        finish |-> lastOr([finish |-> "stop"], finishes).finish,
        usage |-> lastOr([usage |-> NoUsage], usages).usage]

\* Reasoning is dropped from an answer that has content.
StripRedundantReasoning(chat) ==
    IF chat.content = <<>> THEN chat ELSE [chat EXCEPT !.reason = <<>>]

-----------------------------------------------------------------------------
(***************************************************************************)
(* ChatCompletionToResponses: a chat answer for a Responses client.        *)
(***************************************************************************)

Item(kind, call, name, text) == [kind |-> kind, call |-> call, name |-> name, text |-> text]

callItem(c, customNames) ==
    IF c.name \in customNames
    THEN Item(CustomToolCall, c.id, c.name, extractCustomToolInput(c.args))
    ELSE Item(FunctionCall, c.id, c.name, c.args)

ChatCompletionToResponses(chat, customNames) ==
    LET textItem(kind, text) ==
            IF text = <<>> THEN <<>> ELSE <<Item(kind, NoId, <<>>, text)>>
    IN [status |-> "completed",
        output |-> textItem(Reasoning, chat.reason) \o textItem(Message, chat.content)
                   \o [i \in DOMAIN chat.calls |-> callItem(chat.calls[i], customNames)],
        usage |-> Reported(chat.usage.prompt, chat.usage.completion)]

-----------------------------------------------------------------------------
(***************************************************************************)
(* ConvertResponsesStreamToJson: a Responses body.                         *)
(***************************************************************************)

NewAggregate == [status |-> "in_progress", items |-> [i \in {} |-> 0], usage |-> Reported(0, 0)]

itemOf(e) == Item(e.kind, e.call, e.name, e.text)

\* An index beyond the bound drops its event.
indexOK(e) == e.index \in 0..MaxOutputIndex

processAggMessage(st, e) ==
    CASE e.type = "done" /\ indexOK(e) ->
            [st EXCEPT !.items = (e.index :> itemOf(e)) @@ @]
      [] e.type = "completed" ->
            [st EXCEPT !.status = "completed", !.usage = IF e.usage.present THEN e.usage ELSE @]
      [] e.type = "failed" -> [st EXCEPT !.status = "failed"]
      [] OTHER -> st

Placeholder == Item(Message, NoId, <<>>, <<>>)

\* Every slot up to the largest index; a hole is an empty message.
denseOutput(items) ==
    IF DOMAIN items = {} THEN <<>>
    ELSE [i \in 1..Max(DOMAIN items) + 1 |->
             IF i - 1 \in DOMAIN items THEN items[i - 1] ELSE Placeholder]

ConvertResponsesStreamToJson(lines) ==
    LET st == FoldLeft(processAggMessage, NewAggregate, Objects(lines))
    IN [status |-> st.status, output |-> denseOutput(st.items), usage |-> st.usage]

-----------------------------------------------------------------------------
(***************************************************************************)
(* BuildChatFromResponses: a Responses answer for a chat client.           *)
(***************************************************************************)

\* The last message with text, else the last message.
pickAssistantMessage(output) ==
    LET messages == SelectSeq(output, LAMBDA it : it.kind = Message)
        spoken == SelectSeq(messages, LAMBDA it : it.text # <<>>)
    IN IF spoken # <<>> THEN Last(spoken).text ELSE <<>>

BuildChatFromResponses(json) ==
    LET calls == SelectSeq(json.output, LAMBDA it : it.kind = FunctionCall)
    IN [content |-> pickAssistantMessage(json.output),
        reason |-> <<>>,
        calls |-> [i \in DOMAIN calls |->
                     [id |-> IF calls[i].call = NoId THEN FallbackId ELSE calls[i].call,
                      name |-> calls[i].name, args |-> calls[i].text]],
        finish |-> IF calls # <<>> THEN "tool_calls"
                   ELSE IF json.status = "completed" THEN "stop"
                   ELSE json.status,
        usage |-> json.usage]

=============================================================================
