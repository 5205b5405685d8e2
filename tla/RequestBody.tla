---------------------------- MODULE RequestBody ----------------------------
(***************************************************************************)
(* From the client's body to the one that is sent upstream: the stages of  *)
(* relay (internal/router/handler.go) that rewrite the conversation, in    *)
(* their order.  internal/translate: modality.go, prenorm.go and           *)
(* req_resp2chat.go; internal/cloak/cloak.go: the last pass over a         *)
(* Responses body.                                                         *)
(*                                                                         *)
(* A body is its conversation: the messages of a Chat body, the input of a *)
(* Responses body.  A string content is one text block, <<>> is no content *)
(* at all.  An id is <<>> when it is missing and a sequence of what it is  *)
(* made of otherwise.  The payload of a call stands for its arguments, the *)
(* payload of an answer for its output; 0 is the empty output.  Tool       *)
(* declarations, thinking knobs, reasoning texts and sampling parameters   *)
(* are left out: nothing here depends on them.                             *)
(***************************************************************************)
EXTENDS Naturals, FiniteSets, SequencesExt

CONSTANTS
    Sanitized,      \* the clients' ids without the characters upstreams refuse
    Clamped,        \* the ids that are too long, cut to length
    Models,         \* the models: the format upstream speaks, what they read
    Inputs,         \* for each source format, what the conversation is made of
    MaxItems        \* bound on the conversation

ASSUME BodyAssumption ==
    /\ MaxItems \in Nat
    /\ \A id \in DOMAIN Sanitized : id # <<>>
    /\ \A m \in Models : m.format \in {"chat", "responses"}

VARIABLES
    source,     \* the format the client speaks
    model,      \* the model it asked for
    items,      \* its conversation
    sent        \* the conversation sent upstream: none or one

bodyVars == <<source, model, items, sent>>

Text(type, text) == [type |-> type, text |-> text, id |-> <<>>]
Media(type) == Text(type, "")
ToolBlock(type, id) == [type |-> type, text |-> "", id |-> id]

Call(id, name, payload) == [id |-> id, name |-> name, payload |-> payload]
Message(role, content) ==
    [role |-> role, content |-> content, turn |-> FALSE, calls |-> <<>>,
     answers |-> <<>>, payload |-> 0]
\* An assistant message with tool_calls, which may be an empty array.
CallTurn(content, calls) ==
    [Message("assistant", content) EXCEPT !.turn = TRUE, !.calls = calls]
ToolMessage(id, payload) ==
    [Message("tool", <<Text("text", "output")>>) EXCEPT !.answers = id, !.payload = payload]

Item(type, role, content) ==
    [type |-> type, role |-> role, content |-> content, id |-> <<>>, name |-> "",
     payload |-> 0]
ToolItem(type, id, name, payload) ==
    [Item(type, "", <<>>) EXCEPT !.id = id, !.name = name, !.payload = payload]
Outputs == {"function_call_output", "custom_tool_call_output"}
FunctionCalls == {"function_call", "custom_tool_call"}

-----------------------------------------------------------------------------
\* StripUnsupportedModalities: what a block takes to be read.
capForOpenAIBlock ==
    [image_url |-> "vision", image |-> "vision", input_audio |-> "audioInput",
     audio_url |-> "audioInput", file |-> "pdf"]
capForResponsesBlock == [input_image |-> "vision", input_file |-> "pdf"]

\* Mutant of filterBlocks: nothing takes the place of what is dropped.
filterBlocksSilently(blocks, capOf, textType) ==
    SelectSeq(blocks, LAMBDA b : b.type \in DOMAIN capOf => capOf[b.type] \in model.reads)

\* The blocks the model cannot read go; one placeholder stays for each kind.
filterBlocks(blocks, capOf, textType) ==
    LET unread(b) == b.type \in DOMAIN capOf /\ capOf[b.type] \notin model.reads
        removed == {capOf[b.type] : b \in {c \in ToSet(blocks) : unread(c)}}
    IN SelectSeq(blocks, LAMBDA b : ~unread(b))
       \o [k \in 1..Cardinality(removed) |-> Text(textType, "placeholder")]

StripUnsupportedModalities(body) ==
    IF {"vision", "audioInput", "pdf"} \subseteq model.reads THEN body
    ELSE [i \in DOMAIN body |-> [body[i] EXCEPT !.content =
            IF source = "chat" THEN filterBlocks(@, capForOpenAIBlock, "text")
            ELSE filterBlocks(@, capForResponsesBlock, "input_text")]]

-----------------------------------------------------------------------------
sanitizeToolID(id) == IF id \in DOMAIN Sanitized THEN Sanitized[id] ELSE id
GenerateToolCallID(i, j, name) == <<"call", i, j, name>>
cleanID(id, generated) == IF sanitizeToolID(id) = <<>> THEN generated ELSE sanitizeToolID(id)

\* A call without an id gets one from its position; an answer or a
\* Claude-style block without one is left as it is.
EnsureToolCallIDs(msgs) ==
    [i \in DOMAIN msgs |-> [msgs[i] EXCEPT
        !.calls = [j \in DOMAIN @ |->
            [@[j] EXCEPT !.id = cleanID(@, GenerateToolCallID(i, j, msgs[i].calls[j].name))]],
        !.answers = IF @ = <<>> THEN @ ELSE cleanID(@, GenerateToolCallID(i, 1, "")),
        !.content = [k \in DOMAIN @ |->
            [@[k] EXCEPT !.id = IF @ = <<>> THEN @ ELSE cleanID(@, GenerateToolCallID(i, k, ""))]]]]

BlockIds(msg, type) ==
    LET blocks == SelectSeq(msg.content, LAMBDA b : b.type = type /\ b.id # <<>>)
    IN [k \in DOMAIN blocks |-> blocks[k].id]

assistantToolCallIDs(msg) ==
    IF msg.role # "assistant" THEN <<>>
    ELSE LET calls == SelectSeq(msg.calls, LAMBDA c : c.id # <<>>)
         IN [k \in DOMAIN calls |-> calls[k].id] \o BlockIds(msg, "tool_use")

messageHasToolResults(msg, ids) ==
    \/ msg.role = "tool" /\ msg.answers \in ToSet(ids)
    \/ msg.role = "user" /\ ToSet(BlockIds(msg, "tool_result")) \cap ToSet(ids) # {}

\* After a tool turn that the next message answers no part of, an empty
\* answer to each of its calls; none at the end of the conversation.
FixMissingToolResponses(msgs) ==
    LET fix(i) == LET ids == assistantToolCallIDs(msgs[i]) IN
            IF i = Len(msgs) \/ messageHasToolResults(msgs[i + 1], ids) THEN <<>>
            ELSE [k \in DOMAIN ids |-> ToolMessage(ids[k], 0)]
    IN FlattenSeq([i \in DOMAIN msgs |-> <<msgs[i]>> \o fix(i)])

\* Mutant of Prenormalized: the answers are looked for under the clients' ids.
PrenormalizedEarly(msgs) == EnsureToolCallIDs(FixMissingToolResponses(msgs))

\* The prenorms, in their order; a Responses body has no messages for them.
Prenormalized(msgs) == FixMissingToolResponses(EnsureToolCallIDs(msgs))

-----------------------------------------------------------------------------
\* NormalizeResponsesInput: upstreams refuse an empty conversation.
NormalizeResponsesInput(input) ==
    IF input = <<>> THEN <<Item("message", "user", <<Text("input_text", "...")>>)>> ELSE input

toChatBlock(b) ==
    CASE b.type \in {"input_text", "output_text"} -> Text("text", b.text)
      [] b.type = "input_image" -> Media("image_url")
      [] OTHER -> b

\* The message being put together, if any, joins the conversation.
flushAssistant(acc) == [messages |-> acc.messages \o acc.current, current |-> <<>>]

\* Mutant of addOutput: the calls it answers are still being collected.
addOutputAtOnce(acc, item) ==
    [acc EXCEPT !.messages = Append(@, ToolMessage(item.id, item.payload))]

addOutput(acc, item) ==
    LET flushed == flushAssistant(acc)
    IN [flushed EXCEPT !.messages = Append(@, ToolMessage(item.id, item.payload))]

\* Consecutive calls share one assistant message, which is there also when
\* the calls have no name and are skipped.
addCall(acc, item) ==
    LET turn == IF acc.current = <<>> THEN CallTurn(<<>>, <<>>) ELSE acc.current[1]
        call == IF item.name = "" THEN <<>> ELSE <<Call(item.id, item.name, item.payload)>>
    IN [acc EXCEPT !.current = <<[turn EXCEPT !.calls = @ \o call]>>]

addMessage(acc, item) ==
    LET flushed == flushAssistant(acc)
        content == [k \in DOMAIN item.content |-> toChatBlock(item.content[k])]
    IN [flushed EXCEPT !.messages = Append(@, Message(item.role, content))]

ResponsesToChatRequest(input) ==
    LET add(acc, item) ==
            CASE item.type = "message" -> addMessage(acc, item)
              [] item.type \in FunctionCalls -> addCall(acc, item)
              [] item.type \in Outputs -> addOutput(acc, item)
              [] OTHER -> acc
        start == [messages |-> <<>>, current |-> <<>>]
    IN flushAssistant(FoldLeft(add, start, NormalizeResponsesInput(input))).messages

\* ClampResponsesCallID: a missing id gets one of its own (the process-wide
\* sequence; here the place it is needed at).
ClampResponsesCallID(id, i, j) ==
    CASE id = <<>> -> <<"seq", i, j>>
      [] id \in DOMAIN Clamped -> Clamped[id]
      [] OTHER -> id

toResponsesBlock(b, textType) ==
    CASE b.type = "text" -> Text(textType, b.text)
      [] b.type \in {"image_url", "input_image"} -> Media("input_image")
      [] OTHER -> Text(textType, "json")

\* The items one message becomes: its content, its calls that have a name,
\* or its answer.  System texts go to the instructions.
toItems(msg, i) ==
    LET content == [k \in DOMAIN msg.content |-> toResponsesBlock(msg.content[k],
                        IF msg.role = "assistant" THEN "output_text" ELSE "input_text")]
        calls == [j \in DOMAIN msg.calls |-> ToolItem("function_call",
                    ClampResponsesCallID(msg.calls[j].id, i, j), msg.calls[j].name,
                    msg.calls[j].payload)]
    IN CASE msg.role \in {"user", "assistant"} ->
                (IF content = <<>> THEN <<>> ELSE <<Item("message", msg.role, content)>>)
                \o SelectSeq(calls, LAMBDA c : c.name # "")
         [] msg.role = "tool" ->
                <<ToolItem("function_call_output", ClampResponsesCallID(msg.answers, i, 0), "",
                           msg.payload)>>
         [] OTHER -> <<>>

ChatRequestToResponsesRequest(msgs) ==
    FlattenSeq([i \in DOMAIN msgs |-> toItems(msgs[i], i)])

-----------------------------------------------------------------------------
validOpenAIContentTypes == {"text", "image_url", "image", "input_audio", "audio_url", "file"}

\* Tool turns and their answers pass as they are.
Verbatim(msg) == msg.role = "tool" \/ (msg.role = "assistant" /\ msg.turn)

filtered(msg) ==
    LET blocks == SelectSeq(msg.content, LAMBDA b :
                        b.type \in validOpenAIContentTypes \cup {"tool_result"})
        role == IF msg.role = "developer" THEN "system" ELSE msg.role
    IN [msg EXCEPT !.role = role,
                   !.content = IF Verbatim(msg) \/ @ = <<>> THEN @
                               ELSE IF blocks = <<>> THEN <<Text("text", "")>> ELSE blocks]

kept(msg) ==
    \/ Verbatim(msg)
    \/ msg.content = <<>>
    \/ \E b \in ToSet(msg.content) : b.type = "text" => b.text # ""

FilterToOpenAIFormat(msgs) ==
    SelectSeq([i \in DOMAIN msgs |-> filtered(msgs[i])], kept)

SanitizeResponsesItems(input) ==
    LET clean(i) == IF input[i].type \in {"function_call", "function_call_output"}
                    THEN [input[i] EXCEPT !.id = ClampResponsesCallID(@, i, 0)]
                    ELSE input[i]
        stays(it) == it.type # "reasoning" /\ (it.type = "function_call" => it.name # "")
    IN SelectSeq([i \in DOMAIN input |-> clean(i)], stays)

\* Everything that happens to the conversation between the client and the
\* upstream.
Prepared(body) ==
    LET readable == StripUnsupportedModalities(body)
        chat == IF source = "chat" THEN Prenormalized(readable)
                ELSE ResponsesToChatRequest(readable)
        input == IF source = "responses" THEN readable
                 ELSE ChatRequestToResponsesRequest(Prenormalized(readable))
    IN IF model.format = "chat" THEN FilterToOpenAIFormat(chat)
       ELSE SanitizeResponsesItems(NormalizeResponsesInput(input))

-----------------------------------------------------------------------------
BodyInit ==
    /\ source \in DOMAIN Inputs
    /\ model \in Models
    /\ items = <<>>
    /\ sent = <<>>

\* The arguments of every call and the output of every answer are its own.
Stamped(it, n) ==
    IF source = "responses" THEN [it EXCEPT !.payload = n]
    ELSE [it EXCEPT !.payload = n,
                    !.calls = [j \in DOMAIN @ |-> [@[j] EXCEPT !.payload = 10 * n + j]]]

\* The client's conversation (external): one more message or item.
ClientWrites(it) ==
    /\ sent = <<>>
    /\ Len(items) < MaxItems
    /\ items' = Append(items, Stamped(it, Len(items) + 1))
    /\ UNCHANGED <<source, model, sent>>

\* The handler's stages up to the executor boundary.
relay ==
    /\ sent = <<>>
    /\ sent' = <<Prepared(items)>>
    /\ UNCHANGED <<source, model, items>>

BodyNext == relay \/ \E it \in Inputs[source] : ClientWrites(it)

-----------------------------------------------------------------------------
\* What the upstream makes of a conversation: calls and answers, in order.
ToolEvents(format, body) ==
    LET call(c) == [kind |-> "call", id |-> c.id, name |-> c.name, payload |-> c.payload]
        answer(id, p) == [kind |-> "answer", id |-> id, name |-> "", payload |-> p]
        plain == [kind |-> "plain", id |-> <<>>, name |-> "", payload |-> 0]
        ofMessage(m) == IF m.role = "tool" THEN <<answer(m.answers, m.payload)>>
                        ELSE <<plain>> \o [j \in DOMAIN m.calls |-> call(m.calls[j])]
        ofItem(it) == IF it.type \in FunctionCalls THEN <<call(it)>>
                      ELSE IF it.type \in Outputs THEN <<answer(it.id, it.payload)>>
                      ELSE <<plain>>
    IN FlattenSeq([i \in DOMAIN body |->
            IF format = "chat" THEN ofMessage(body[i]) ELSE ofItem(body[i])])

\* The calls and the answers that come after them under the same id.
Pairs(events) ==
    {p \in ToSet(events) \X ToSet(events) : \E i, j \in DOMAIN events :
        /\ i < j /\ p = <<events[i], events[j]>>
        /\ events[i].kind = "call" /\ events[j].kind = "answer"
        /\ events[i].id = events[j].id /\ events[i].id # <<>>}
Payloads(pairs) == {<<p[1].payload, p[2].payload>> : p \in pairs}

Before == ToolEvents(source, items)
After == ToolEvents(model.format, sent[1])

\* A client writes its tool turns in one style, OpenAI's or Claude's.
OneStyle ==
    \/ \A m \in ToSet(items) : m.calls = <<>>
    \/ \A m \in ToSet(items) : BlockIds(m, "tool_use") \o BlockIds(m, "tool_result") = <<>>

\* "Upstreams 400 on the dangling tool_calls": in what is sent for a Chat
\* client, whatever goes on after a tool turn starts with an answer to one of
\* its calls, also where ids were missing or malformed, the next message was
\* dropped or the formats differ.
ToolTurnsAnswered ==
    source = "chat" /\ OneStyle /\ sent # <<>> =>
        \A i \in DOMAIN After : \A j \in i + 1..Len(After) :
            After[i].kind = "call" /\ After[j].kind # "call"
              /\ (\A k \in i..j - 1 : After[k].kind = "call") =>
                /\ After[j].kind = "answer"
                /\ \E k \in 1..j - 1 : After[k].kind = "call" /\ After[k].id = After[j].id

\* Two ids of the client that end up the same upstream.
IdsCollapse ==
    LET final(id) == IF id = <<>> THEN id ELSE ClampResponsesCallID(sanitizeToolID(id), 0, 0)
        ids == {e.id : e \in ToSet(Before)}
    IN \E x, y \in ids : x # y /\ final(x) = final(y)

\* A tool's output stays the answer to the call it was the answer to, and to
\* no other, through whatever repairs ids, inserts answers, drops items and
\* changes the format; short of two ids that are the same once repaired.
AnswersKeepTheirCall ==
    sent # <<>> =>
        LET lost(id) == source = "chat" /\ sanitizeToolID(id) = <<>>
            named == {p \in Pairs(Before) : p[1].name # "" /\ ~lost(p[1].id)}
            written == {p \in Pairs(After) : p[2].payload # 0}
        IN /\ Payloads(named) \subseteq Payloads(written)
           /\ ~IdsCollapse => Payloads(written) \subseteq Payloads(Pairs(Before))

\* Something for the model to read, or to be told of.  A document of a
\* Responses client for a Chat model that reads documents is not carried over.
Says(content) ==
    \E b \in ToSet(content) :
        \/ b.type \in {"text", "input_text"} /\ b.text # ""
        \/ b.type \in DOMAIN capForOpenAIBlock \cup {"input_image"}
        \/ b.type = "input_file"
              /\ ~(source = "responses" /\ model.format = "chat" /\ "pdf" \in model.reads)

UserTurns(body) == {i \in DOMAIN body : body[i].role = "user" /\ Says(body[i].content)}

\* No turn of the user is lost on the way, whatever the model cannot read and
\* whatever is filtered out afterwards.
UserTurnsSurvive ==
    sent # <<>> => Cardinality(UserTurns(items)) <= Cardinality(UserTurns(sent[1]))

=============================================================================
