----------------------------- MODULE ScanLines -----------------------------
(***************************************************************************)
(* upstream.ScanLines (internal/upstream/client.go) under Server.stream    *)
(* (internal/router/stream.go): a reader goroutine cuts the SSE body into  *)
(* lines, the handler's goroutine consumes them under a stall watchdog,    *)
(* and the way the scan ends decides whether the relay flushes a clean end *)
(* or reports an abort.                                                    *)
(*                                                                         *)
(* A body is a number of complete lines and perhaps an unterminated rest;  *)
(* line n is the number n.  The body (external) ends cleanly, fails, or    *)
(* stays silent; once the request context is dead or the body is closed a  *)
(* blocked Read fails.                                                     *)
(***************************************************************************)
EXTENDS Naturals, Sequences

CONSTANTS
    MaxLines,     \* bound on the complete lines a body has
    LineBuf       \* capacity of the lines channel (64 in the code)

ASSUME ScanAssumption ==
    /\ MaxLines \in Nat
    /\ LineBuf \in Nat \ {0}

VARIABLES
    reader,       \* "read", "push", "tail", "exited"
    cut,          \* complete lines read and not yet pushed
    rest,         \* pending holds an unterminated segment
    readEnd,      \* what Read returned last: "nil", "EOF", "error"
    lines,        \* the lines channel, closed when the reader has exited
    tails,        \* the tails channel holds the residual
    readErr,      \* the readErr channel holds an error
    progress,     \* the progress channel holds a ping
    timer,        \* the stall timer: "armed", "fired"
    canceled,     \* r.Context() is done
    scan,         \* the consumer: "select", "fn", "returned", "done"
    result,       \* what ScanLines returned
    ending,       \* how stream() ended: "", "flush", or the abort reason
    delivered,    \* lines fn was called with
    tailed,       \* onTail was called
    \* Not in the program, for the properties only:
    total,        \* complete lines read from the body so far
    silent,       \* no byte was read from the timer's last reset until it fired
    left,         \* the client left, or a write to it failed, during the scan
    slow          \* a write to the client took longer than the stall window

readerVars == <<reader, cut, rest, readEnd, tails, readErr, total>>
vars == <<readerVars, lines, progress, timer, canceled, scan, result, ending,
          delivered, tailed, silent, left, slow>>

Results == {"none", "nil", "readErr", "stall", "canceled", "fnErr"}
Endings == {"", "flush", "client_disconnect", "stall", "read_error"}

Init ==
    /\ reader = "read" /\ cut = 0 /\ rest = FALSE /\ readEnd = "nil"
    /\ lines = <<>> /\ tails = FALSE /\ readErr = FALSE /\ progress = FALSE
    /\ timer = "armed" /\ canceled = FALSE
    /\ scan = "select" /\ result = "none" /\ ending = ""
    /\ delivered = <<>> /\ tailed = FALSE
    /\ total = 0 /\ silent = TRUE /\ left = FALSE /\ slow = FALSE

-----------------------------------------------------------------------------
(***************************************************************************)
(* The reader goroutine.                                                   *)
(***************************************************************************)

\* Where the reader goes once every complete line of a chunk is pushed.
AfterLines(end, open) ==
    CASE end = "nil" -> "read"
      [] end = "EOF" /\ open -> "tail"
      [] OTHER -> "exited"

\* Mutant of SendsReadErr: the error is dropped.
SendsNothing(next, end) == FALSE

\* Only an error that is not EOF reaches the readErr channel.
SendsReadErr(next, end) == next = "exited" /\ end = "error"

\* Mutant of Pings: only complete lines count as progress.
PingsPerLine(n, grew) == n > 0

\* Every read that returned bytes pings, whether or not it completed a line.
Pings(n, grew) == n > 0 \/ grew

\* body.Read returns n complete lines and perhaps more of an open one, with
\* or without the end of the body.  The ping is sent without blocking.
Read(n, open, grew, end) ==
    LET next == IF n > 0 THEN "push" ELSE AfterLines(end, open) IN
    /\ reader = "read"
    /\ total + n <= MaxLines
    /\ n = 0 => open = (rest \/ grew)
    /\ open /\ n > 0 => grew
    /\ end = "nil" => n > 0 \/ grew
    /\ reader' = next
    /\ cut' = n
    /\ rest' = open
    /\ readEnd' = end
    /\ total' = total + n
    /\ progress' = (progress \/ Pings(n, grew))
    /\ silent' = (silent /\ (timer = "fired" \/ (n = 0 /\ ~grew)))
    /\ readErr' = (readErr \/ SendsReadErr(next, end))
    /\ UNCHANGED <<lines, tails, timer, canceled, scan, result, ending, delivered, tailed, left, slow>>

\* A Read that no data can satisfy any more: the context is dead, or stream()
\* has closed the body.
ReadFails ==
    /\ reader = "read"
    /\ canceled \/ scan = "done"
    /\ readEnd' = "error"
    /\ readErr' = TRUE
    /\ reader' = "exited"
    /\ UNCHANGED <<cut, rest, tails, total, lines, progress, timer, canceled, scan,
                   result, ending, delivered, tailed, silent, left, slow>>

\* The first line of the chunk that is not pushed yet.
NextLine == total - cut + 1

\* lines <- line
Push ==
    LET next == IF cut > 1 THEN "push" ELSE AfterLines(readEnd, rest) IN
    /\ reader = "push"
    /\ Len(lines) < LineBuf
    /\ lines' = Append(lines, NextLine)
    /\ cut' = cut - 1
    /\ reader' = next
    /\ readErr' = (readErr \/ SendsReadErr(next, readEnd))
    /\ UNCHANGED <<rest, readEnd, tails, total, progress, timer, canceled, scan,
                   result, ending, delivered, tailed, silent, left, slow>>

\* tails <- pending
PushTail ==
    /\ reader = "tail"
    /\ tails' = TRUE
    /\ reader' = "exited"
    /\ UNCHANGED <<cut, rest, readEnd, readErr, total, lines, progress, timer, canceled,
                   scan, result, ending, delivered, tailed, silent, left, slow>>

\* Mutant of ReaderGivesUp: the sends are not guarded by the context.
ReaderNeverGivesUp == FALSE

\* The other branch of both selects: <-ctx.Done().
ReaderGivesUp ==
    /\ reader \in {"push", "tail"}
    /\ canceled
    /\ reader' = "exited"
    /\ UNCHANGED <<cut, rest, readEnd, tails, readErr, total, lines, progress, timer,
                   canceled, scan, result, ending, delivered, tailed, silent, left, slow>>

Reader == ReadFails \/ Push \/ PushTail \/ ReaderGivesUp

-----------------------------------------------------------------------------
(***************************************************************************)
(* The consumer: one select over lines, progress, the timer and the        *)
(* context; among the ready branches Go picks any.                         *)
(***************************************************************************)

Return(res) == scan' = "returned" /\ result' = res

\* reset(): the deadline starts over.
Reset == timer' = "armed" /\ silent' = TRUE

\* The consumer's fn (ProcessLine) runs on this line until FnReturns.
TakeLine ==
    /\ scan = "select"
    /\ lines # <<>>
    /\ lines' = Tail(lines)
    /\ delivered' = Append(delivered, Head(lines))
    /\ scan' = "fn"
    /\ Reset
    /\ UNCHANGED <<readerVars, progress, canceled, result, ending, tailed, left, slow>>

\* ProcessLine wrote its frames.  A failed write also ends the request's
\* context: net/http cancels it (external).
FnReturns ==
    /\ scan = "fn"
    /\ \/ scan' = "select" /\ UNCHANGED <<result, canceled, left>>
       \/ Return("fnErr") /\ canceled' = TRUE /\ left' = TRUE
    /\ UNCHANGED <<readerVars, lines, progress, timer, ending, delivered, tailed, silent, slow>>

\* The channel is closed and empty: the tail, then the read error.  An onTail
\* that fails is a failed write too.
LinesClosed ==
    /\ scan = "select"
    /\ reader = "exited"
    /\ lines = <<>>
    /\ tailed' = tails
    /\ \/ Return(IF readErr THEN "readErr" ELSE "nil") /\ UNCHANGED <<canceled, left>>
       \/ tails /\ Return("fnErr") /\ canceled' = TRUE /\ left' = TRUE
    /\ UNCHANGED <<readerVars, lines, progress, timer, ending, delivered, silent, slow>>

TakeProgress ==
    /\ scan = "select"
    /\ progress
    /\ progress' = FALSE
    /\ Reset
    /\ UNCHANGED <<readerVars, lines, canceled, scan, result, ending, delivered, tailed, left, slow>>

\* Mutant of Stalled: the timer that fired is only armed again.
StalledRearms ==
    /\ scan = "select"
    /\ timer = "fired"
    /\ Reset
    /\ UNCHANGED <<readerVars, lines, progress, canceled, scan, result, ending,
                   delivered, tailed, left, slow>>

Stalled ==
    /\ scan = "select"
    /\ timer = "fired"
    /\ Return("stall")
    /\ UNCHANGED <<readerVars, lines, progress, timer, canceled, ending, delivered,
                   tailed, silent, left, slow>>

ContextDone ==
    /\ scan = "select"
    /\ canceled
    /\ Return("canceled")
    /\ UNCHANGED <<readerVars, lines, progress, timer, canceled, ending, delivered,
                   tailed, silent, left, slow>>

\* Mutant of AbortReason: only the scan's own result is consulted.
AbortReasonOfResult ==
    CASE result = "canceled" -> "client_disconnect"
      [] result = "stall" -> "stall"
      [] OTHER -> "read_error"

\* streamAbortReason
AbortReason ==
    IF canceled \/ result = "canceled" THEN "client_disconnect"
    ELSE IF result = "stall" THEN "stall"
    ELSE "read_error"

\* stream() after the scan: Flush, or the abort row (and, for a Responses
\* client, the synthesized failure); then the body is closed, the handler
\* returns and net/http cancels the request's context (external).
StreamEnds ==
    /\ scan = "returned"
    /\ scan' = "done"
    /\ ending' = IF result = "nil" THEN "flush" ELSE AbortReason
    /\ canceled' = TRUE
    /\ UNCHANGED <<readerVars, lines, progress, timer, result, delivered, tailed, silent, left, slow>>

-----------------------------------------------------------------------------
\* A stall window passes without a reset.  A goroutine that can run does so
\* well within a window: only a silent body, or a slow write to the client,
\* lasts that long.
NothingReady == scan = "select" /\ lines = <<>> /\ ~progress /\ ~canceled
                /\ reader = "read"
WindowPasses ==
    /\ timer = "armed"
    /\ NothingReady \/ scan = "fn"
    /\ timer' = "fired"
    /\ slow' = (slow \/ scan = "fn")
    /\ UNCHANGED <<readerVars, lines, progress, canceled, scan, result, ending,
                   delivered, tailed, silent, left>>

ClientLeaves ==
    /\ scan # "done"
    /\ ~canceled
    /\ canceled' = TRUE
    /\ left' = TRUE
    /\ UNCHANGED <<readerVars, lines, progress, timer, scan, result, ending,
                   delivered, tailed, silent, slow>>

Body == \E n \in 0..2, open, grew \in BOOLEAN, end \in {"nil", "EOF", "error"} :
            Read(n, open, grew, end)
Consumer == TakeLine \/ FnReturns \/ LinesClosed \/ TakeProgress \/ Stalled
            \/ ContextDone \/ StreamEnds

Next == Body \/ Reader \/ Consumer \/ WindowPasses \/ ClientLeaves

Spec == Init /\ [][Next]_vars

\* Both goroutines run and time passes.  A write to the client returns.  The
\* body owes nothing: it may stay silent for ever.
Fairness == WF_vars(Reader) /\ WF_vars(Consumer) /\ WF_vars(WindowPasses)
FairSpec == Spec /\ Fairness

-----------------------------------------------------------------------------
(***************************************************************************)
(* Properties.                                                             *)
(***************************************************************************)

\* Nothing is lost, repeated or reordered between the two goroutines: what fn
\* has seen, what waits in the channel and what is still to be pushed are, in
\* that order, the lines of the body, also after the reader gave up; and onTail
\* only sees the residual of a body that ended cleanly, after the last line.
LinesInOrder ==
    LET seen == delivered \o lines IN
    /\ \A i \in DOMAIN seen : seen[i] = i
    /\ Len(seen) + cut = total
    /\ tailed => readEnd = "EOF" /\ Len(delivered) = total /\ rest

\* The body ended cleanly, every line reached fn and the residual onTail.
WholeBody == readEnd = "EOF" /\ Len(delivered) = total /\ tailed = rest

\* What reaches the client is the body from its start, and while the client is
\* there a scan that returns nil, and so makes stream() flush the relay, has
\* delivered all of it.
CleanEndIsWhole == LinesInOrder /\ (result = "nil" /\ ~left => WholeBody)

\* "The stall deadline resets on ANY read progress" (client.go): a stall is
\* reported only if no byte at all arrived in a whole window, as long as the
\* client takes its lines in less than one.
StallOnlyWhenSilent == result = "stall" => silent \/ slow

\* "The evidence row must not blame the egress for the caller leaving": once
\* the client is gone, whichever way the scan learns of it (the context, a
\* failed write, a read the dead context broke), the abort is the client's.
LeavingIsTheClients == ending \in {"stall", "read_error"} => ~left

\* A request is not held by a silent upstream: unless the body keeps
\* delivering for ever, the stream ends.
StreamEndsOrFlows == []<><<Body>>_vars \/ <>(scan = "done")

\* The reader goroutine never outlives the request: after stream() returns it
\* exits, also when it waits on a full channel nobody reads any more.
ReaderExits == scan = "done" ~> reader = "exited"

=============================================================================
