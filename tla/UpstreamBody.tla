---------------------------- MODULE UpstreamBody ----------------------------
(***************************************************************************)
(* The provider's side of a streamed answer (external): the lines a body   *)
(* may consist of, and which bodies keep the protocol of their format.     *)
(*                                                                         *)
(* The text a line carries is the line's own number.  At most two tool     *)
(* calls are in flight; call i has the id i and the name Names[i].         *)
(***************************************************************************)
EXTENDS Wire

CONSTANT Names          \* the names of the two calls

CallIndexes == {0, 1}
Usages == {NoUsage, Reported(0, 0), Reported(5, 4)}

-----------------------------------------------------------------------------
(***************************************************************************)
(* Chat Completions.                                                       *)
(***************************************************************************)

TextChunk(n) == [Chunk EXCEPT !.content = <<n>>]
ReasonChunk(n) == [Chunk EXCEPT !.reason = <<n>>]
CallChunk(i) == [Chunk EXCEPT !.calls = <<Call(i, i, Names[i], <<>>)>>]
ArgsChunk(i, n) == [Chunk EXCEPT !.calls = <<Call(i, NoId, <<>>, <<n>>)>>]
FinishChunk(r, u) == [Chunk EXCEPT !.finish = r, !.usage = u]
UsageChunk(u) == [Chunk EXCEPT !.choices = "none", !.usage = u]

UsualChat(n) ==
    {TextChunk(n), ReasonChunk(n)}
    \cup {CallChunk(i) : i \in CallIndexes}
    \cup {ArgsChunk(i, n) : i \in CallIndexes}
    \cup {FinishChunk(r, u) : r \in {"stop", "tool_calls"}, u \in Usages}
    \cup {UsageChunk(Reported(5, 4))}

\* What providers send besides: inline thinking, ids and names in separate
\* fragments, wrapped input, empty deltas, errors, malformed choices.
UnusualChat(n) ==
    {[Chunk EXCEPT !.content = <<ThinkOpen, n>>],
     [Chunk EXCEPT !.content = <<n, ThinkClose, n>>],
     [Chunk EXCEPT !.calls = <<Call(0, 0, <<>>, <<n>>)>>],
     [Chunk EXCEPT !.calls = <<Call(0, NoId, Names[0], <<>>)>>],
     [Chunk EXCEPT !.calls = <<Call(1, 1, Names[1], <<WrapOpen, n, WrapClose>>)>>],
     [Chunk EXCEPT !.content = <<n>>, !.finish = "stop"],
     [Chunk EXCEPT !.content = <<n>>, !.index = 1],
     [Chunk EXCEPT !.role = TRUE],
     Chunk,
     [Chunk EXCEPT !.choices = "none", !.error = TRUE],
     [Chunk EXCEPT !.choices = "broken"]}

Has(lines, P(_)) == \E i \in DOMAIN lines : IsObject(lines[i]) /\ P(lines[i].obj)
Announced(lines, i) == Has(lines, LAMBDA c : \E tc \in ToSet(c.calls) : tc.index = i /\ tc.id = i)
Finished(lines) == Has(lines, LAMBDA c : c.finish # "")

\* May line l follow these lines in a conformant chat body?  Reasoning, text,
\* calls in any interleaving of their fragments, the finish, usage, [DONE].
ChatFollows(lines, l) ==
    /\ ~Contains(lines, DoneLine)
    /\ \/ l = DoneLine /\ Finished(lines)
       \/ /\ IsObject(l)
          /\ ~Finished(lines)
          /\ LET c == l.obj IN
             \/ /\ c \in {TextChunk(Len(lines) + 1), ReasonChunk(Len(lines) + 1)}
                /\ \A i \in CallIndexes : ~Announced(lines, i)
                /\ c.reason # <<>> => ~Has(lines, LAMBDA d : d.content # <<>>)
             \/ \E i \in CallIndexes : c = CallChunk(i) /\ ~Announced(lines, i)
             \/ \E i \in CallIndexes : c = ArgsChunk(i, Len(lines) + 1) /\ Announced(lines, i)
             \/ \E u \in {NoUsage, Reported(5, 4)} :
                   c = FinishChunk(IF \E i \in CallIndexes : Announced(lines, i)
                                   THEN "tool_calls" ELSE "stop", u)
       \/ /\ Finished(lines)
          /\ l = Data(UsageChunk(Reported(5, 4)))
          /\ ~Has(lines, LAMBDA c : c.usage.present)

-----------------------------------------------------------------------------
(***************************************************************************)
(* Responses.  Item 0 of the output is a message, item i + 1 the call i.   *)
(***************************************************************************)

FcItem(i) == <<"fc", i>>
TheMessage == <<"msg", 0>>
KindOf(i) == IF Names[i] = <<"custom">> THEN CustomToolCall ELSE FunctionCall

TextEvent(n) == [Event EXCEPT !.type = "delta", !.kind = Message, !.item = TheMessage, !.text = <<n>>]
ReasonEvent(n) == [Event EXCEPT !.type = "delta", !.kind = Reasoning, !.text = <<n>>]
OnCall(i) == [Event EXCEPT !.kind = KindOf(i), !.item = FcItem(i), !.index = i + 1]
AddedEvent(i) == [OnCall(i) EXCEPT !.type = "added", !.call = i, !.name = Names[i]]
ArgsEvent(i, n) == [OnCall(i) EXCEPT !.type = "delta", !.text = <<n>>]
TerminalEvent(t, err, u) == [Event EXCEPT !.type = t, !.error = err, !.usage = u]

\* The text the deltas of an item add up to.
DeltasOf(events, item) ==
    FlattenSeq([i \in DOMAIN events |->
        IF events[i].type = "delta" /\ events[i].item = item THEN events[i].text ELSE <<>>])

\* The event that closes an item repeats its text in full; arguments that
\* were never streamed arrive with it.
CallDone(lines, i) ==
    LET args == DeltasOf(Objects(lines), FcItem(i)) IN
    [OnCall(i) EXCEPT !.type = "done", !.call = i, !.name = Names[i],
                      !.text = IF args = <<>> THEN <<Len(lines) + 1>> ELSE args]
MessageDone(lines) ==
    [Event EXCEPT !.type = "done", !.kind = Message, !.item = TheMessage,
                  !.text = DeltasOf(Objects(lines), TheMessage)]

UsualResp(lines, n) ==
    {TextEvent(n), ReasonEvent(n), MessageDone(lines)}
    \cup {AddedEvent(i) : i \in CallIndexes}
    \cup {ArgsEvent(i, n) : i \in CallIndexes}
    \cup {CallDone(lines, i) : i \in CallIndexes}
    \cup {TerminalEvent("completed", FALSE, u) : u \in Usages}
    \cup {TerminalEvent("failed", TRUE, NoUsage)}

\* Besides: fragments without an item id, calls without ids, an index out of
\* bounds, failures that name no error, events the proxy does not know.
UnusualResp(n) ==
    {[ArgsEvent(0, n) EXCEPT !.item = NoItem],
     [AddedEvent(0) EXCEPT !.item = NoItem, !.call = NoId],
     [ArgsEvent(0, n) EXCEPT !.type = "done", !.index = 99],
     TerminalEvent("failed", FALSE, NoUsage),
     TerminalEvent("error", TRUE, NoUsage),
     TerminalEvent("incomplete", FALSE, NoUsage)}

Opened(lines, item) == Has(lines, LAMBDA e : e.item = item /\ e.type \in {"added", "delta"})
Closed(lines, item) == Has(lines, LAMBDA e : e.item = item /\ e.type = "done")
Ended(lines) == Has(lines, Terminal)
AllClosed(lines) ==
    \A item \in {TheMessage} \cup {FcItem(i) : i \in CallIndexes} :
        Opened(lines, item) => Closed(lines, item)

\* May line l follow these lines in a conformant Responses body?
RespFollows(lines, l) ==
    /\ ~Contains(lines, DoneLine)
    /\ \/ l = DoneLine /\ Ended(lines)
       \/ /\ IsObject(l)
          /\ ~Ended(lines)
          /\ LET e == l.obj
                 n == Len(lines) + 1 IN
             \/ e = TextEvent(n) /\ ~Closed(lines, TheMessage)
             \/ e = ReasonEvent(n) /\ ~Opened(lines, TheMessage)
             \/ e = MessageDone(lines) /\ Opened(lines, TheMessage) /\ ~Closed(lines, TheMessage)
             \/ \E i \in CallIndexes :
                   \/ e = AddedEvent(i) /\ ~Opened(lines, FcItem(i))
                   \/ /\ e \in {ArgsEvent(i, n), CallDone(lines, i)}
                      /\ Opened(lines, FcItem(i)) /\ ~Closed(lines, FcItem(i))
             \/ e = TerminalEvent("completed", FALSE, Reported(5, 4)) /\ AllClosed(lines)
             \/ e = TerminalEvent("failed", TRUE, NoUsage)

-----------------------------------------------------------------------------
AnyLine(format, lines) ==
    LET n == Len(lines) + 1 IN
    {OtherLine, DoneLine, JunkLine, NullLine, ScalarLine}
    \cup {Data(o) : o \in IF format = "chat" THEN UsualChat(n) \cup UnusualChat(n)
                                            ELSE UsualResp(lines, n) \cup UnusualResp(n)}

\* A few of them, one for each way a body can be read.
FewLines(format, n) ==
    {JunkLine} \cup {Data(o) : o \in
        IF format = "chat"
        THEN {TextChunk(n), [Chunk EXCEPT !.choices = "none", !.error = TRUE]}
        ELSE {[TextEvent(n) EXCEPT !.type = "done"], TerminalEvent("completed", FALSE, Reported(5, 4))}}

Follows(format, lines, l) ==
    IF format = "chat" THEN ChatFollows(lines, l) ELSE RespFollows(lines, l)

\* The body said how it ends.
Complete(format, lines) ==
    IF format = "chat" THEN Finished(lines)
    ELSE Has(lines, LAMBDA e : e.type = "completed")

=============================================================================
