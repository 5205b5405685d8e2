------------------------------- MODULE Forced -------------------------------
(***************************************************************************)
(* Server.forcedSSEToJson (internal/router/forced.go): the upstream always *)
(* streams, and a client that did not ask for a stream gets one JSON       *)
(* answer.  readBoundedSSE drains the body with a reader goroutine under a *)
(* stall deadline, a size cap and the request's context; what it returns   *)
(* is aggregated, or answered with 502.                                    *)
(*                                                                         *)
(* The handler relays a request either this way or through module Relays:  *)
(* the two share source and target.  The size of a line is 1.  The body    *)
(* (external) delivers, ends, breaks or is silent.                         *)
(***************************************************************************)
EXTENDS Relays

CONSTANT MaxBytes       \* config.MaxForcedSSEBytes

ASSUME ForcedAssumption == MaxBytes \in Nat

VARIABLES
    mode,           \* "stream" or "forced"
    reader,         \* the goroutine: "read", "send", "exited"
    inHand,         \* the chunk it has read: data and err
    chunks,         \* the chunks channel, of capacity 1
    raw,            \* readBoundedSSE's out
    timer,          \* the stall timer: "armed", "fired"
    canceled,       \* r.Context() is done
    step,           \* the handler: "select", "returned", "done"
    result,         \* what readBoundedSSE returned
    answer,         \* status, the reason on the evidence row, and the body
    \* Not in the program, for the properties only:
    input,          \* the lines of the body so far
    silent,         \* no byte was read from the timer's last reset until it fired
    left            \* the client left before it was answered

handlerVars == <<raw, timer, step, result, answer>>
forcedVars == <<handlerVars, input, mode, reader, inHand, chunks, canceled, silent, left>>
vars == <<relayVars, forcedVars>>

NoChunk == [data |-> <<>>, err |-> "nil"]
NoAnswer == [status |-> 0, reason |-> "", body |-> <<>>]

\* relay() takes the forced path for a client that did not ask for a stream.
Init ==
    /\ RelayInit
    /\ mode \in {"stream", "forced"}
    /\ reader = "read" /\ inHand = NoChunk /\ chunks = <<>>
    /\ raw = <<>> /\ timer = "armed" /\ canceled = FALSE
    /\ step = "select" /\ result = "none" /\ answer = NoAnswer
    /\ input = <<>> /\ silent = TRUE /\ left = FALSE

-----------------------------------------------------------------------------
(***************************************************************************)
(* The reader goroutine.                                                   *)
(***************************************************************************)

\* body.Read returns some lines, with or without the end of the body.
Read(lines, err) ==
    /\ reader = "read"
    /\ step # "done" /\ ~canceled
    /\ Len(input) <= MaxBytes
    /\ lines # <<>> \/ err # "nil"
    /\ input' = input \o lines
    /\ inHand' = [data |-> lines, err |-> err]
    /\ reader' = "send"
    /\ silent' = (silent /\ (timer = "fired" \/ lines = <<>>))
    /\ UNCHANGED <<handlerVars, chunks, canceled, left>>

\* The body is closed or the context dead: the Read fails.
ReadBreaks ==
    /\ reader = "read"
    /\ step = "done" \/ canceled
    /\ inHand' = [data |-> <<>>, err |-> "error"]
    /\ reader' = "send"
    /\ UNCHANGED <<handlerVars, chunks, canceled, silent, left, input>>

\* chunks <- chunk
Send ==
    /\ reader = "send"
    /\ chunks = <<>>
    /\ chunks' = <<inHand>>
    /\ reader' = IF inHand.err = "nil" THEN "read" ELSE "exited"
    /\ UNCHANGED <<handlerVars, inHand, canceled, silent, left, input>>

\* The select's other branches: done is closed, or the context.
GivesUp ==
    /\ reader = "send"
    /\ canceled \/ step # "select"
    /\ reader' = "exited"
    /\ UNCHANGED <<handlerVars, inHand, chunks, canceled, silent, left, input>>

Reader == ReadBreaks \/ Send \/ GivesUp

-----------------------------------------------------------------------------
(***************************************************************************)
(* readBoundedSSE's loop.                                                  *)
(***************************************************************************)

Returns(r) == step' = "returned" /\ result' = r

\* Mutant of After: a broken read ends the body like EOF.
AfterAnyEnd(err) == IF err = "nil" THEN "none" ELSE "nil"

\* What a chunk's err makes the loop return.
After(err) ==
    CASE err = "nil" -> "none"
      [] err = "EOF" -> "nil"
      [] OTHER -> "readErr"

\* <-chunks: the cap, then the data and a fresh window, then the end.
TakeChunk ==
    /\ step = "select"
    /\ chunks # <<>>
    /\ chunks' = <<>>
    /\ LET ch == Head(chunks) IN
       IF Len(raw) + Len(ch.data) > MaxBytes
       THEN Returns("too_large") /\ UNCHANGED <<raw, timer, silent>>
       ELSE /\ raw' = raw \o ch.data
            /\ IF ch.data = <<>> THEN UNCHANGED <<timer, silent>>
               ELSE timer' = "armed" /\ silent' = TRUE
            /\ IF After(ch.err) = "none" THEN UNCHANGED <<step, result>>
               ELSE Returns(After(ch.err))
    /\ UNCHANGED <<answer, reader, inHand, canceled, left, input>>

\* Mutant of Interrupted: only the context is looked at.
InterruptedByClient ==
    /\ step = "select"
    /\ canceled /\ Returns("canceled")
    /\ UNCHANGED <<raw, timer, answer, reader, inHand, chunks, canceled, silent, left, input>>

\* <-timer.C and <-ctx.Done()
Interrupted ==
    /\ step = "select"
    /\ \/ timer = "fired" /\ Returns("stall")
       \/ canceled /\ Returns("canceled")
    /\ UNCHANGED <<raw, timer, answer, reader, inHand, chunks, canceled, silent, left, input>>

-----------------------------------------------------------------------------
(***************************************************************************)
(* The answer.                                                             *)
(***************************************************************************)

\* forcedAbortReason
forcedAbortReason ==
    IF result \in {"stall", "too_large"} THEN result
    ELSE IF canceled \/ result = "canceled" THEN "cancel"
    ELSE "read"

BadGateway(reason) == [status |-> 502, reason |-> reason, body |-> <<>>]
OK(body) == [status |-> 200, reason |-> "", body |-> body]

Synthesized(body) == [body EXCEPT !.usage = synthesized(relay, @)]

\* The aggregate of a whole body: branching follows the upstream's format.
Converted ==
    LET json == ConvertResponsesStreamToJson(raw)
        chat == StripRedundantReasoning(Synthesized(ParseSSEToOpenAIResponse(raw)))
    IN IF target = "responses"
       THEN OK(Synthesized(IF source = "responses" THEN json ELSE BuildChatFromResponses(json)))
       ELSE IF CarriesError(raw) THEN BadGateway("sse_error_frame")
       ELSE IF ~ParsedAny(raw) THEN BadGateway("convert")
       ELSE IF source = "responses"
       THEN OK(Synthesized(ChatCompletionToResponses(chat, CustomToolNames)))
       ELSE OK(chat)

\* forcedSSEToJson answers; the body is closed, the handler returns and
\* net/http cancels the request's context (external).
Answer ==
    /\ step = "returned"
    /\ step' = "done"
    /\ answer' = IF result = "nil" THEN Converted ELSE BadGateway(forcedAbortReason)
    /\ canceled' = TRUE
    /\ UNCHANGED <<raw, timer, result, reader, inHand, chunks, silent, left, input>>

Handler == TakeChunk \/ Interrupted \/ Answer

\* A stall window passes: only a silent body lasts that long.
WindowPasses ==
    /\ timer = "armed" /\ step = "select"
    /\ chunks = <<>> /\ reader = "read" /\ ~canceled
    /\ timer' = "fired"
    /\ UNCHANGED <<raw, step, result, answer, reader, inHand, chunks, canceled, silent, left, input>>

ClientLeaves ==
    /\ step # "done" /\ ~canceled
    /\ canceled' = TRUE /\ left' = TRUE
    /\ UNCHANGED <<handlerVars, reader, inHand, chunks, silent, input>>

\* Reads of no line, of one and of two.
Body ==
    LET first == FewLines(target, Len(input) + 1)
        Pieces == {<<>>, <<JunkLine, JunkLine>>} \cup {<<a>> : a \in first}
    IN \E lines \in Pieces, err \in {"nil", "EOF", "error"} : Read(lines, err)

ForcedNext == Body \/ Reader \/ Handler \/ WindowPasses \/ ClientLeaves

Next ==
    \/ mode = "stream" /\ RelayNext /\ UNCHANGED forcedVars
    \/ mode = "forced" /\ ForcedNext /\ UNCHANGED <<mode, relayVars>>

Spec == Init /\ [][Next]_vars

\* Both goroutines run and time passes; the body owes nothing.
Fairness ==
    LET Forces(A) == mode = "forced" /\ A /\ UNCHANGED <<mode, relayVars>>
    IN /\ WF_vars(Forces(Reader))
       /\ WF_vars(Forces(Handler))
       /\ WF_vars(Forces(WindowPasses))
FairSpec == Spec /\ Fairness

-----------------------------------------------------------------------------
\* A client without a stream gets the answer to the whole body or a 502: 200
\* is only said of a body that was read to its end, within the cap and without
\* an error frame; and the reason recorded is what happened: a stall only if
\* no byte came for a whole window, however the reads were cut, a size only
\* beyond the cap, and a read the dead context broke is the caller's.
WholeOrBadGateway ==
    /\ answer.status = 200 =>
          /\ raw = input /\ inHand.err = "EOF"
          /\ Len(input) <= MaxBytes
          /\ target = "chat" => ~CarriesError(input)
    /\ answer.reason = "stall" => silent
    /\ answer.reason = "too_large" => Len(input) > MaxBytes
    /\ answer.reason = "read" => ~left

\* Whatever the body does, also if it is silent or never ends, the client is
\* answered and the reader goroutine does not outlive the request.
ForcedEnds == mode = "forced" ~> step = "done" /\ reader = "exited"

=============================================================================
