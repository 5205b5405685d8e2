-------------------------------- MODULE Wire --------------------------------
(***************************************************************************)
(* What travels in a streamed answer, in the two formats the proxy speaks. *)
(*                                                                         *)
(* A text is a sequence of pieces; a piece is the number of the upstream   *)
(* line that brought it, so that order, loss and repetition can be seen.   *)
(* The few texts the code looks into are marker pieces.  Names are         *)
(* sequences too (the empty one is an absent name), identifiers numbers.   *)
(***************************************************************************)
EXTENDS Usage, SequencesExt

ThinkOpen == -1         \* "<think>"
ThinkClose == -2        \* "</think>"
WrapOpen == -3          \* {"input": ...
WrapClose == -4         \*             ... }
ErrorText == -5         \* "[Error] ..." put into a chunk by the translator
EmptyObject == <<0>>    \* "{}"

NoId == -1
FallbackId == -2        \* FallbackToolCallID()

\* One SSE line, as classifyDataLine sees it: not a data line, the [DONE]
\* sentinel, no JSON, the JSON null, JSON that is no object, or an object.
OtherLine == [class |-> "other"]
DoneLine == [class |-> "done"]
JunkLine == [class |-> "junk"]
NullLine == [class |-> "null"]
ScalarLine == [class |-> "scalar"]
Data(obj) == [class |-> "object", obj |-> obj]
IsObject(line) == line.class = "object"
Objects(lines) == [i \in 1..Len(SelectSeq(lines, IsObject)) |-> SelectSeq(lines, IsObject)[i].obj]

\* A chat.completion.chunk: choices tells "one" from "none" (absent or empty)
\* and "broken" (not iterable, or with a null element).
Chunk == [choices |-> "one", index |-> 0, role |-> FALSE, reason |-> <<>>,
          content |-> <<>>, calls |-> <<>>, finish |-> "", usage |-> NoUsage,
          error |-> FALSE]
Call(i, id, name, args) == [index |-> i, id |-> id, name |-> name, args |-> args]

\* An event of the Responses format.  item names the item it is about, index
\* its place in the output, kind is that of the item.
Event == [type |-> "", kind |-> "", item |-> <<"", NoId>>, index |-> 0, call |-> NoId,
          name |-> <<>>, text |-> <<>>, error |-> FALSE, usage |-> NoUsage]
NoItem == Event.item
Reasoning == "reasoning"
Message == "message"
FunctionCall == "function_call"
CustomToolCall == "custom_tool_call"
ToolKinds == {FunctionCall, CustomToolCall}

\* TerminalResponsesEvent
TerminalTypes == {"completed", "failed", "error"}
Terminal(e) == e.type \in TerminalTypes

\* extractCustomToolInput: the wrapper is removed, anything else is kept.
extractCustomToolInput(args) ==
    IF Len(args) > 1 /\ Head(args) = WrapOpen /\ Last(args) = WrapClose
    THEN SubSeq(args, 2, Len(args) - 1)
    ELSE args

=============================================================================
