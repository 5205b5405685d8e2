----------------------------- MODULE MCOutgoing -----------------------------
(***************************************************************************)
(* Conversations for RequestBody: ids that are fine, malformed, nothing    *)
(* but malformed, missing and too long; media; both styles of tool turns.  *)
(***************************************************************************)
EXTENDS Outgoing

a == <<"a">>
b == <<"b">>
a1 == <<"a!">>
bad == <<"!">>
long == <<"b...">>

MCSanitized == (a1 :> a) @@ (bad :> <<>>)
MCClamped == long :> b

\* One model of the Responses endpoint, three of the Chat endpoint.
MCModels ==
    {[format |-> "responses", reads |-> {"vision"}],
     [format |-> "chat", reads |-> {}],
     [format |-> "chat", reads |-> {"vision", "pdf"}]}

said == Text("text", "said")
call(id, name) == Call(id, name, 0)

Messages ==
    {Message("user", <<said>>), Message("user", <<Text("text", "")>>),
     Message("user", <<Media("file")>>),
     Message("user", <<ToolBlock("tool_result", a)>>),
     Message("assistant", <<Media("thinking"), ToolBlock("tool_use", a1)>>),
     CallTurn(<<>>, <<call(a1, "f"), call(b, "g")>>),
     CallTurn(<<said>>, <<call(long, "f")>>),
     CallTurn(<<>>, <<call(<<>>, "f")>>),
     CallTurn(<<>>, <<call(bad, "")>>),
     ToolMessage(a1, 0), ToolMessage(b, 0), ToolMessage(long, 0), ToolMessage(<<>>, 0)}

InputItems ==
    {Item("message", "user", <<Text("input_text", "said")>>),
     Item("message", "user", <<Media("input_image")>>),
     Item("message", "user", <<Media("input_file")>>),
     Item("message", "assistant", <<Text("output_text", "said")>>),
     Item("reasoning", "", <<>>),
     ToolItem("function_call", a1, "f", 0), ToolItem("function_call", long, "f", 0),
     ToolItem("function_call", b, "", 0), ToolItem("custom_tool_call", b, "g", 0),
     ToolItem("function_call_output", a1, "", 0), ToolItem("function_call_output", long, "", 0),
     ToolItem("custom_tool_call_output", b, "", 0)}

MCInputs == [chat |-> Messages, responses |-> InputItems]

\* Requests and conversations are interchangeable to the session stores.
Alike == Permutations(Requests) \cup Permutations(Texts)

=============================================================================
