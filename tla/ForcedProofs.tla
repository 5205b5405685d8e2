---------------------------- MODULE ForcedProofs ----------------------------
(***************************************************************************)
(* What the bridge promises its clients, for any body in any cut.          *)
(*                                                                         *)
(* First, forcedSSEToJson's promise to a client without a stream, for any  *)
(* cap and any interleaving of the reader goroutine, the loop, the timer   *)
(* and a client that leaves.  The argument is where the bytes are: in raw, *)
(* in the channel or in the reader's hand.  They are only lost by a reader *)
(* that gives up, which it does when the loop has returned or the context  *)
(* is dead, and then no chunk with EOF follows.                            *)
(*                                                                         *)
(* Second, the relays' promise to a Responses client with one: it is told  *)
(* once how its response ended.  The argument follows the flags the relays *)
(* decide by (completed, terminalSeen, doneSent) and shows that they say   *)
(* at all times what the client has in hand.                               *)
(***************************************************************************)
EXTENDS Forced, SequenceTheorems, FiniteSetTheorems, WellFoundedInduction, TLAPS

-----------------------------------------------------------------------------
(***************************************************************************)
(* The forced path.                                                        *)
(***************************************************************************)

\* The lines a read can bring.
LineSet == {JunkLine} \cup UNION {FewLines(target, n) : n \in Nat}
ReadChunk == [data : Seq(LineSet), err : {"nil", "EOF", "error"}]

\* The chunk in the channel, and what the reader holds that nobody has yet.
Queued == IF chunks = <<>> THEN NoChunk ELSE Head(chunks)
Held == IF reader = "send" THEN inHand.data ELSE <<>>

ForcedTypeOK ==
    /\ mode \in {"stream", "forced"}
    /\ input \in Seq(LineSet) /\ raw \in Seq(LineSet)
    /\ inHand \in ReadChunk
    /\ chunks \in Seq(ReadChunk) /\ Len(chunks) <= 1
    /\ reader \in {"read", "send", "exited"}
    /\ timer \in {"armed", "fired"}
    /\ step \in {"select", "returned", "done"}
    /\ canceled \in BOOLEAN /\ silent \in BOOLEAN /\ left \in BOOLEAN

\* Before the loop returns every line is somewhere, in order, unless the
\* reader has gone; one that went after an error left it in the channel.
NothingLost ==
    /\ step = "select" /\ reader # "exited" =>
          Queued.err = "nil" /\ input = raw \o (Queued.data \o Held)
    /\ step = "select" /\ Queued.err # "nil" =>
          inHand = Queued /\ input = raw \o Queued.data
    /\ step = "select" => Len(raw) + (Len(Queued.data) + Len(Held)) <= Len(input)

\* Bytes read since the timer was reset are on their way to reset it again.
BytesResetTimer ==
    /\ step = "select" /\ ~silent =>
          timer = "armed" /\ (canceled \/ Held # <<>> \/ Queued.data # <<>>)
    /\ result = "stall" => timer = "fired" /\ silent

\* What readBoundedSSE returned, and what it means.
ResultMeans ==
    /\ step = "select" => result = "none"
    /\ result = "nil" => /\ reader = "exited" /\ inHand.err = "EOF"
                         /\ raw = input /\ Len(input) <= MaxBytes
    /\ result = "too_large" => Len(input) > MaxBytes

\* The answer is given once, from that result.
AnswerMeans ==
    /\ step # "done" => answer = NoAnswer
    /\ answer.status = 200 => result = "nil" /\ (target = "chat" => ~CarriesError(raw))
    /\ answer.reason \in {"stall", "too_large"} => answer.reason = result
    /\ answer.reason = "read" => ~left
    /\ left => canceled
    /\ mode = "stream" => step = "select"

ForcedInv == ForcedTypeOK /\ NothingLost /\ BytesResetTimer /\ ResultMeans /\ AnswerMeans

-----------------------------------------------------------------------------
\* After is total on what a read reports.
LEMMA AfterCases ==
    /\ After("nil") = "none"
    /\ After("EOF") = "nil"
    /\ After("error") = "readErr"
<1>1. After("nil") = "none"
  BY Zenon DEF After
<1>2. After("EOF") = "nil"
  BY Zenon DEF After
<1>3. After("error") = "readErr"
  BY Zenon DEF After
<1>4. QED
  BY <1>1, <1>2, <1>3

\* The chunk in the channel, and the three places in which a line can be.
LEMMA QueuedFacts ==
    ASSUME ForcedTypeOK
    PROVE  /\ Queued \in ReadChunk /\ Queued.data \in Seq(LineSet) /\ Held \in Seq(LineSet)
           /\ Queued.err \in {"nil", "EOF", "error"}
           /\ chunks # <<>> => Head(chunks) = Queued
           /\ chunks = <<>> => Queued.err = "nil" /\ Queued.data = <<>>
<1>1. chunks # <<>> => Head(chunks) \in ReadChunk
  BY DEF ForcedTypeOK
<1>2. NoChunk \in ReadChunk /\ NoChunk.err = "nil" /\ NoChunk.data = <<>>
  BY DEF NoChunk, ReadChunk
<1>3. Queued \in ReadChunk
  BY <1>1, <1>2 DEF Queued
<1>4. inHand.data \in Seq(LineSet)
  BY DEF ForcedTypeOK, ReadChunk
<1>5. QED
  BY <1>2, <1>3, <1>4 DEF Queued, Held, ReadChunk

\* A request without an answer has neither a status nor a reason.
LEMMA NoAnswerFacts ==
    NoAnswer.status # 200 /\ NoAnswer.reason \notin {"stall", "too_large", "read"}
<1>1. NoAnswer.status = 0
  BY Zenon DEF NoAnswer
<1>2. NoAnswer.reason \notin {"stall", "too_large", "read"}
  BY Zenon DEF NoAnswer
<1>3. QED
  BY <1>1, <1>2

\* Until the handler is done nothing has been answered.
LEMMA NotYetAnswered ==
    ASSUME answer = NoAnswer, left => canceled, mode = "stream" => step = "select"
    PROVE  AnswerMeans
<1>1. answer.status # 200 /\ answer.reason \notin {"stall", "too_large", "read"}
  BY NoAnswerFacts
<1>2. QED
  BY <1>1, Zenon DEF AnswerMeans

\* relay enters the handler with nothing read.
LEMMA ForcedInit == Init => ForcedInv
<1> SUFFICES ASSUME Init PROVE ForcedInv
  OBVIOUS
<1>1. /\ input = <<>> /\ raw = <<>> /\ chunks = <<>> /\ inHand = NoChunk
      /\ mode \in {"stream", "forced"} /\ reader = "read" /\ timer = "armed"
      /\ step = "select" /\ result = "none" /\ answer = NoAnswer
  BY DEF Init
<1>2. canceled = FALSE /\ silent = TRUE /\ left = FALSE
  BY DEF Init
<1>3. NoChunk \in ReadChunk
  BY DEF NoChunk, ReadChunk
<1>4. ForcedTypeOK
  <2>1. canceled \in BOOLEAN /\ silent \in BOOLEAN /\ left \in BOOLEAN
    BY <1>2, Zenon
  <2>2. chunks \in Seq(ReadChunk) /\ Len(chunks) <= 1
    BY <1>1
  <2>3. QED
    BY <1>1, <1>3, <2>1, <2>2 DEF ForcedTypeOK
<1>5. Queued = NoChunk /\ Held = <<>> /\ NoChunk.err = "nil" /\ NoChunk.data = <<>>
  BY <1>1 DEF Queued, Held, NoChunk
<1>6. NothingLost
  <2>1. <<>> \o (<<>> \o <<>>) = <<>> /\ Len(<<>>) + (Len(<<>>) + Len(<<>>)) <= Len(<<>>)
    OBVIOUS
  <2>2. QED
    BY <1>1, <1>5, <2>1 DEF NothingLost
<1>7. BytesResetTimer /\ ResultMeans
  BY <1>1, <1>2 DEF BytesResetTimer, ResultMeans
<1>8. AnswerMeans
  <2>1. ~left
    BY <1>2
  <2>2. QED
    BY <1>1, <2>1, NotYetAnswered
<1>9. QED
  BY <1>4, <1>6, <1>7, <1>8 DEF ForcedInv

\* A stream in flight and a stutter leave the forced path alone.
LEMMA ForcedFrame ==
    ASSUME ForcedInv, UNCHANGED forcedVars, target' = target
    PROVE  ForcedInv'
<1>1. LineSet' = LineSet /\ ReadChunk' = ReadChunk
  BY DEF LineSet, ReadChunk
<1>2. ForcedTypeOK'
  BY <1>1 DEF ForcedInv, ForcedTypeOK, forcedVars, handlerVars
<1>3. Queued' = Queued /\ Held' = Held
  BY DEF Queued, Held, forcedVars, handlerVars
<1>4. NothingLost' /\ BytesResetTimer'
  BY <1>3 DEF ForcedInv, NothingLost, BytesResetTimer, forcedVars, handlerVars
<1>5. ResultMeans' /\ AnswerMeans'
  BY DEF ForcedInv, ResultMeans, AnswerMeans, forcedVars, handlerVars
<1>6. QED
  BY <1>2, <1>4, <1>5 DEF ForcedInv

-----------------------------------------------------------------------------
(***************************************************************************)
(* The reader's steps.                                                     *)
(***************************************************************************)

\* A read puts new lines into the reader's hand only.
LEMMA ReadKeeps ==
    ASSUME ForcedInv, mode = "forced", UNCHANGED <<mode, target>>,
           NEW lines \in Seq(LineSet), NEW err \in {"nil", "EOF", "error"}, Read(lines, err)
    PROVE  ForcedInv'
<1>0. ForcedTypeOK /\ LineSet' = LineSet /\ ReadChunk' = ReadChunk
  BY DEF ForcedInv, LineSet, ReadChunk
<1>1. /\ Queued.data \in Seq(LineSet) /\ input \in Seq(LineSet) /\ raw \in Seq(LineSet)
      /\ Queued' = Queued /\ Held = <<>> /\ Held' = lines
  BY <1>0, QueuedFacts DEF ForcedTypeOK, Read, Queued, Held
<1>2. /\ input' = input \o lines /\ input' \in Seq(LineSet)
      /\ Len(input') = Len(input) + Len(lines)
  BY <1>1 DEF Read
<1>3. ForcedTypeOK'
  <2>1. silent' \in BOOLEAN
    BY <1>0, Zenon DEF Read, ForcedTypeOK
  <2>2. inHand' \in ReadChunk /\ reader' = "send" /\ UNCHANGED <<handlerVars, chunks, canceled, left>>
    BY DEF Read, ReadChunk
  <2>3. QED
    BY <1>0, <1>2, <2>1, <2>2 DEF ForcedTypeOK, handlerVars
<1>4. NothingLost'
  <2>1. UNCHANGED <<raw, step>> /\ reader = "read" /\ reader' = "send"
    BY DEF Read, handlerVars
  <2>2. CASE step = "select"
    <3>1. Queued.err = "nil" /\ input = raw \o (Queued.data \o <<>>)
      BY <1>1, <2>1, <2>2 DEF ForcedInv, NothingLost
    <3>2. Queued.data \o <<>> = Queued.data
      BY <1>1, ConcatEmptySeq
    <3>3. input' = raw \o (Queued.data \o lines)
      <4> DEFINE queue == Queued.data
      <4>1. raw \in Seq(LineSet) /\ queue \in Seq(LineSet) /\ lines \in Seq(LineSet)
        BY <1>1
      <4> HIDE DEF queue
      <4>2. (raw \o queue) \o lines = raw \o (queue \o lines)
        BY <4>1, ConcatAssociative
      <4>3. QED
        BY <1>2, <3>1, <3>2, <4>2 DEF queue
    <3>4. Len(raw) + (Len(Queued.data) + Len(lines)) <= Len(input')
      <4>1. Len(input) = Len(raw) + Len(Queued.data)
        BY <1>1, <3>1, <3>2
      <4>2. QED
        BY <1>1, <1>2, <4>1
    <3>5. QED
      BY <1>1, <2>1, <3>1, <3>3, <3>4 DEF NothingLost
  <2>3. CASE step # "select"
    BY <2>1, <2>3 DEF NothingLost
  <2>4. QED
    BY <2>2, <2>3
<1>5. BytesResetTimer'
  <2>1. UNCHANGED <<timer, step, result, canceled>>
    BY DEF Read, handlerVars
  <2>2. ~silent' => ~silent \/ (timer # "fired" /\ lines # <<>>)
    BY Zenon DEF Read
  <2>3. silent /\ timer = "fired" => silent'
    BY Zenon DEF Read
  <2>4. timer \in {"armed", "fired"}
    BY <1>0 DEF ForcedTypeOK
  <2>5. QED
    BY <1>1, <2>1, <2>2, <2>3, <2>4 DEF ForcedInv, BytesResetTimer
<1>6. ResultMeans'
  <2>1. UNCHANGED <<step, result>> /\ reader = "read"
    BY DEF Read, handlerVars
  <2>2. Len(input) > MaxBytes => Len(input') > MaxBytes
    BY <1>1, <1>2, ForcedAssumption
  <2>3. QED
    BY <2>1, <2>2 DEF ForcedInv, ResultMeans
<1>7. AnswerMeans'
  BY DEF ForcedInv, AnswerMeans, Read, handlerVars
<1>8. QED
  BY <1>3, <1>4, <1>5, <1>6, <1>7 DEF ForcedInv

\* The reader hands its chunk over, or gives up when the loop or the context is gone.
LEMMA ReaderKeeps ==
    ASSUME ForcedInv, mode = "forced", UNCHANGED <<mode, target>>, Reader
    PROVE  ForcedInv'
<1>0. ForcedTypeOK /\ LineSet' = LineSet /\ ReadChunk' = ReadChunk
  BY DEF ForcedInv, LineSet, ReadChunk
<1>1. /\ Queued.data \in Seq(LineSet) /\ input \in Seq(LineSet) /\ raw \in Seq(LineSet)
      /\ Held \in Seq(LineSet)
  BY <1>0, QueuedFacts DEF ForcedTypeOK
<1>2. CASE ReadBreaks
  <2>1. Queued' = Queued /\ Held' = <<>> /\ Held = <<>>
    BY <1>2 DEF ReadBreaks, Queued, Held
  <2>2. ForcedTypeOK'
    <3>1. inHand' \in ReadChunk
      BY <1>2 DEF ReadBreaks, ReadChunk
    <3>2. QED
      BY <1>0, <1>2, <3>1 DEF ReadBreaks, handlerVars, ForcedTypeOK
  <2>3. NothingLost'
    BY <1>2, <2>1 DEF ForcedInv, NothingLost, ReadBreaks, handlerVars
  <2>4. BytesResetTimer'
    BY <1>2, <2>1 DEF ForcedInv, BytesResetTimer, ReadBreaks, handlerVars
  <2>5. ResultMeans' /\ AnswerMeans'
    BY <1>2 DEF ForcedInv, ResultMeans, AnswerMeans, ReadBreaks, handlerVars
  <2>6. QED
    BY <2>2, <2>3, <2>4, <2>5 DEF ForcedInv
<1>3. CASE Send
  <2>1. /\ Queued' = inHand /\ Held' = <<>> /\ Held = inHand.data
        /\ Queued.data = <<>> /\ Queued.err = "nil"
    <3>1. chunks' = <<inHand>> /\ chunks = <<>> /\ reader = "send" /\ reader' # "send"
      BY <1>3 DEF Send
    <3>2. <<inHand>> # <<>> /\ Head(<<inHand>>) = inHand
      OBVIOUS
    <3>3. QED
      BY <1>0, <3>1, <3>2, QueuedFacts DEF Queued, Held
  <2>2. ForcedTypeOK'
    <3>1. <<inHand>> \in Seq(ReadChunk) /\ Len(<<inHand>>) <= 1
      BY <1>0 DEF ForcedTypeOK
    <3>2. reader' \in {"read", "send", "exited"} /\ chunks' = <<inHand>>
      BY <1>3 DEF Send
    <3>3. QED
      BY <1>0, <1>3, <3>1, <3>2 DEF Send, handlerVars, ForcedTypeOK
  <2>3. NothingLost'
    <3>1. /\ UNCHANGED <<raw, step, input, inHand>> /\ reader = "send"
          /\ reader' # "exited" => inHand.err = "nil"
      BY <1>3 DEF Send, handlerVars
    <3>2. inHand.data \in Seq(LineSet)
      BY <1>1, <2>1
    <3>3. <<>> \o inHand.data = inHand.data /\ inHand.data \o <<>> = inHand.data
      BY <3>2, ConcatEmptySeq
    <3>4. step = "select" => input = raw \o inHand.data
      BY <2>1, <3>1, <3>3 DEF ForcedInv, NothingLost
    <3>5. step = "select" => Len(raw) + (Len(inHand.data) + Len(<<>>)) <= Len(input)
      BY <1>1, <3>2, <3>4
    <3>6. QED
      BY <2>1, <3>1, <3>3, <3>4, <3>5 DEF NothingLost
  <2>4. BytesResetTimer'
    BY <1>3, <2>1 DEF ForcedInv, BytesResetTimer, Send, handlerVars
  <2>5. ResultMeans' /\ AnswerMeans'
    BY <1>3 DEF ForcedInv, ResultMeans, AnswerMeans, Send, handlerVars
  <2>6. QED
    BY <2>2, <2>3, <2>4, <2>5 DEF ForcedInv
<1>4. CASE GivesUp
  <2>1. Queued' = Queued /\ Held' = <<>>
    BY <1>4 DEF GivesUp, Queued, Held
  <2>2. ForcedTypeOK'
    BY <1>0, <1>4 DEF GivesUp, handlerVars, ForcedTypeOK
  <2>3. NothingLost'
    <3>1. Len(Queued.data) \in Nat /\ Len(Held) \in Nat /\ Len(raw) \in Nat /\ Len(input) \in Nat
          /\ Len(<<>>) = 0
      BY <1>1
    <3>2. step = "select" => Len(raw) + (Len(Queued.data) + Len(<<>>)) <= Len(input)
      BY <3>1 DEF ForcedInv, NothingLost
    <3>3. QED
      BY <1>4, <2>1, <3>2 DEF ForcedInv, NothingLost, GivesUp, handlerVars
  <2>4. BytesResetTimer'
    BY <1>4, <2>1 DEF ForcedInv, BytesResetTimer, GivesUp, handlerVars
  <2>5. ResultMeans' /\ AnswerMeans'
    BY <1>4 DEF ForcedInv, ResultMeans, AnswerMeans, GivesUp, handlerVars
  <2>6. QED
    BY <2>2, <2>3, <2>4, <2>5 DEF ForcedInv
<1>5. QED
  BY <1>2, <1>3, <1>4 DEF Reader

-----------------------------------------------------------------------------
(***************************************************************************)
(* The handler's steps, the clock and the client.                          *)
(***************************************************************************)

\* The loop takes a chunk: the lines move to raw, and an end of the body is judged.
LEMMA TakeKeeps ==
    ASSUME ForcedInv, mode = "forced", UNCHANGED <<mode, target>>, TakeChunk
    PROVE  ForcedInv'
<1>0. ForcedTypeOK /\ LineSet' = LineSet /\ ReadChunk' = ReadChunk
  BY DEF ForcedInv, LineSet, ReadChunk
<1>1. /\ Queued.data \in Seq(LineSet) /\ input \in Seq(LineSet) /\ raw \in Seq(LineSet)
      /\ Held \in Seq(LineSet) /\ Queued.err \in {"nil", "EOF", "error"}
      /\ Head(chunks) = Queued /\ step = "select" /\ chunks' = <<>>
      /\ UNCHANGED <<answer, reader, inHand, canceled, left, input>>
  BY <1>0, QueuedFacts DEF ForcedTypeOK, TakeChunk
<1>2. Queued' = NoChunk /\ Held' = Held /\ NoChunk.data = <<>> /\ NoChunk.err = "nil"
  BY <1>1 DEF Queued, Held, NoChunk
<1>3. /\ Len(Queued.data) \in Nat /\ Len(Held) \in Nat /\ Len(raw) \in Nat
      /\ Len(input) \in Nat /\ MaxBytes \in Nat
      /\ Len(raw) + (Len(Queued.data) + Len(Held)) <= Len(input)
  BY <1>1, ForcedAssumption DEF ForcedInv, NothingLost
<1>4. chunks' \in Seq(ReadChunk) /\ Len(chunks') <= 1
  BY <1>1
<1>5. CASE Len(raw) + Len(Queued.data) > MaxBytes
  <2>1. step' = "returned" /\ result' = "too_large" /\ UNCHANGED <<raw, timer, silent>>
    BY <1>1, <1>5 DEF TakeChunk, Returns
  <2>2. Len(input) > MaxBytes
    BY <1>3, <1>5
  <2>3. ForcedTypeOK'
    BY <1>0, <1>1, <1>4, <2>1 DEF ForcedTypeOK
  <2>4. NothingLost' /\ BytesResetTimer'
    BY <2>1 DEF NothingLost, BytesResetTimer
  <2>5. ResultMeans' /\ AnswerMeans'
    BY <1>1, <2>1, <2>2 DEF ForcedInv, ResultMeans, AnswerMeans, NoAnswer
  <2>6. QED
    BY <2>3, <2>4, <2>5 DEF ForcedInv
<1>6. CASE ~(Len(raw) + Len(Queued.data) > MaxBytes)
  <2>1. /\ raw' = raw \o Queued.data
        /\ IF Queued.data = <<>> THEN UNCHANGED <<timer, silent>>
           ELSE timer' = "armed" /\ silent' = TRUE
        /\ IF After(Queued.err) = "none" THEN UNCHANGED <<step, result>>
           ELSE step' = "returned" /\ result' = After(Queued.err)
    BY <1>1, <1>6 DEF TakeChunk, Returns
  <2>2. /\ raw' \in Seq(LineSet) /\ Len(raw') = Len(raw) + Len(Queued.data)
        /\ Len(raw') <= MaxBytes
    BY <1>1, <1>3, <1>6, <2>1
  <2>3. result = "none" /\ step' \in {"select", "returned"}
    BY <1>1, <2>1 DEF ForcedInv, ResultMeans
  <2>4. ForcedTypeOK'
    <3>1. timer' \in {"armed", "fired"} /\ silent' \in BOOLEAN
      BY <1>0, <2>1 DEF ForcedTypeOK
    <3>2. QED
      BY <1>0, <1>1, <1>4, <2>2, <2>3, <3>1 DEF ForcedTypeOK
  <2>5. BytesResetTimer'
    <3>1. result' \in {"none", "nil", "readErr"}
      BY <1>1, <2>1, <2>3, AfterCases
    <3>2. CASE Queued.data = <<>>
      BY <1>1, <1>2, <2>1, <3>1, <3>2 DEF ForcedInv, BytesResetTimer
    <3>3. CASE Queued.data # <<>>
      BY <2>1, <3>1, <3>3 DEF BytesResetTimer
    <3>4. QED
      BY <3>2, <3>3
  <2>6. CASE Queued.err = "nil"
    <3>1. UNCHANGED <<step, result>>
      BY <2>1, <2>6, AfterCases
    <3>2. NothingLost'
      <4>1. reader # "exited" => input = raw' \o (<<>> \o Held)
        <5>1. reader # "exited" => input = raw \o (Queued.data \o Held)
          BY <1>1 DEF ForcedInv, NothingLost
        <5>2. raw \o (Queued.data \o Held) = (raw \o Queued.data) \o Held
          <6> DEFINE queue == Queued.data
          <6>1. raw \in Seq(LineSet) /\ queue \in Seq(LineSet) /\ Held \in Seq(LineSet)
            BY <1>1
          <6> HIDE DEF queue
          <6>2. raw \o (queue \o Held) = (raw \o queue) \o Held
            BY <6>1, ConcatAssociative
          <6>3. QED
            BY <6>2 DEF queue
        <5>3. <<>> \o Held = Held
          BY <1>1, ConcatEmptySeq
        <5>4. QED
          BY <2>1, <5>1, <5>2, <5>3
      <4>2. Len(raw') + (Len(<<>>) + Len(Held)) <= Len(input)
        BY <1>3, <2>2
      <4>3. QED
        BY <1>1, <1>2, <3>1, <4>1, <4>2 DEF NothingLost
    <3>3. ResultMeans' /\ AnswerMeans'
      BY <1>1, <3>1, <2>3 DEF ForcedInv, ResultMeans, AnswerMeans, NoAnswer
    <3>4. QED
      BY <2>4, <2>5, <3>2, <3>3 DEF ForcedInv
  <2>7. CASE Queued.err # "nil"
    <3>1. step' = "returned" /\ result' \in {"nil", "readErr"}
          /\ (result' = "nil" => Queued.err = "EOF")
      BY <1>1, <2>1, <2>7, AfterCases
    <3>2. inHand = Queued /\ input = raw' /\ reader = "exited"
      BY <1>1, <2>1, <2>7 DEF ForcedInv, NothingLost, ForcedTypeOK
    <3>3. ResultMeans'
      BY <1>1, <2>2, <3>1, <3>2 DEF ResultMeans
    <3>4. NothingLost' /\ AnswerMeans'
      <4>1. NothingLost'
        BY <3>1 DEF NothingLost
      <4>2. answer' = NoAnswer /\ (left' => canceled') /\ mode' = "forced"
        BY <1>1 DEF ForcedInv, AnswerMeans
      <4>3. AnswerMeans'
        <5>1. answer'.status # 200 /\ answer'.reason \notin {"stall", "too_large", "read"}
          BY <4>2, NoAnswerFacts
        <5>2. QED
          BY <4>2, <5>1, Zenon DEF AnswerMeans
      <4>4. QED
        BY <4>1, <4>3
    <3>5. QED
      BY <2>4, <2>5, <3>3, <3>4 DEF ForcedInv
  <2>8. QED
    BY <2>6, <2>7
<1>7. QED
  BY <1>5, <1>6

\* The loop returns for the timer or the context.
LEMMA InterruptedKeeps ==
    ASSUME ForcedInv, mode = "forced", UNCHANGED <<mode, target>>, Interrupted
    PROVE  ForcedInv'
<1>0. LineSet' = LineSet /\ ReadChunk' = ReadChunk
  BY DEF LineSet, ReadChunk
<1>1. /\ step = "select" /\ step' = "returned"
      /\ UNCHANGED <<raw, timer, answer, reader, inHand, chunks, canceled, silent, left, input>>
      /\ (result' = "stall" /\ timer = "fired") \/ result' = "canceled"
  BY DEF Interrupted, Returns
<1>2. ForcedTypeOK'
  BY <1>0, <1>1 DEF ForcedInv, ForcedTypeOK
<1>3. NothingLost' /\ BytesResetTimer'
  BY <1>1 DEF ForcedInv, NothingLost, BytesResetTimer
<1>4. ResultMeans' /\ AnswerMeans'
  BY <1>1 DEF ForcedInv, ResultMeans, AnswerMeans, NoAnswer
<1>5. QED
  BY <1>2, <1>3, <1>4 DEF ForcedInv

\* What Converted can say.
LEMMA ConvertedFacts ==
    /\ Converted.reason \in {"", "sse_error_frame", "convert"}
    /\ Converted.status = 200 => (target = "chat" => ~CarriesError(raw))
<1> DEFINE json == ConvertResponsesStreamToJson(raw)
           chat == StripRedundantReasoning(Synthesized(ParseSSEToOpenAIResponse(raw)))
           b1 == Synthesized(IF source = "responses" THEN json ELSE BuildChatFromResponses(json))
           b2 == Synthesized(ChatCompletionToResponses(chat, CustomToolNames))
<1>1. Converted =
          IF target = "responses" THEN OK(b1)
          ELSE IF CarriesError(raw) THEN BadGateway("sse_error_frame")
          ELSE IF ~ParsedAny(raw) THEN BadGateway("convert")
          ELSE IF source = "responses" THEN OK(b2)
          ELSE OK(chat)
  BY DEF Converted
<1> HIDE DEF b1, b2, chat
<1>2. \A b : OK(b).status = 200 /\ OK(b).reason = ""
  BY DEF OK
<1>3. \A r : BadGateway(r).status = 502 /\ BadGateway(r).reason = r
  BY DEF BadGateway
<1>4. CASE target = "responses"
  BY <1>1, <1>2, <1>4
<1>5. CASE target # "responses" /\ CarriesError(raw)
  <2>1. Converted = BadGateway("sse_error_frame")
    BY <1>1, <1>5, Zenon
  <2>2. Converted.status = 502 /\ Converted.reason = "sse_error_frame"
    BY <1>3, <2>1, Zenon
  <2>3. Converted.status # 200
    BY <2>2
  <2>4. QED
    BY <2>2, <2>3, Zenon
<1>6. CASE target # "responses" /\ ~CarriesError(raw) /\ ~ParsedAny(raw)
  <2>1. Converted = BadGateway("convert")
    BY <1>1, <1>6, Zenon
  <2>2. Converted.status = 502 /\ Converted.reason = "convert"
    BY <1>3, <2>1, Zenon
  <2>3. Converted.status # 200
    BY <2>2
  <2>4. QED
    BY <2>2, <2>3, Zenon
<1>7. CASE target # "responses" /\ ~CarriesError(raw) /\ ParsedAny(raw)
  <2>1. PICK b : Converted = OK(b)
    BY <1>1, <1>7, Zenon
  <2>2. QED
    BY <1>2, <1>7, <2>1
<1>8. QED
  BY <1>4, <1>5, <1>6, <1>7

\* The handler answers from what the loop returned.
LEMMA AnswerKeeps ==
    ASSUME ForcedInv, mode = "forced", UNCHANGED <<mode, target>>, Answer
    PROVE  ForcedInv'
<1>0. LineSet' = LineSet /\ ReadChunk' = ReadChunk
  BY DEF LineSet, ReadChunk
<1>1. /\ step = "returned" /\ step' = "done" /\ canceled' = TRUE
      /\ UNCHANGED <<raw, timer, result, reader, inHand, chunks, silent, left, input>>
  BY DEF Answer
<1>2. ForcedTypeOK'
  <2>1. canceled' \in BOOLEAN
    BY <1>1, Zenon
  <2>2. QED
    BY <1>0, <1>1, <2>1 DEF ForcedInv, ForcedTypeOK
<1>3. NothingLost' /\ BytesResetTimer' /\ ResultMeans'
  BY <1>1 DEF ForcedInv, NothingLost, BytesResetTimer, ResultMeans
<1>4. AnswerMeans'
  <2>1. CASE result = "nil"
    <3>1. answer' = Converted
      BY <2>1 DEF Answer
    <3>2. QED
      BY <1>1, <2>1, <3>1, ConvertedFacts DEF ForcedInv, AnswerMeans
  <2>2. CASE result # "nil"
    <3>1. answer'.status = 502 /\ answer'.reason = forcedAbortReason
      BY <2>2 DEF Answer, BadGateway
    <3>2. forcedAbortReason \in {"stall", "too_large"} => forcedAbortReason = result
      BY DEF forcedAbortReason
    <3>3. forcedAbortReason = "read" => ~canceled
      BY DEF forcedAbortReason
    <3>4. QED
      BY <1>1, <3>1, <3>2, <3>3 DEF ForcedInv, AnswerMeans
  <2>3. QED
    BY <2>1, <2>2
<1>5. QED
  BY <1>2, <1>3, <1>4 DEF ForcedInv

\* The timer's window passes, or the client leaves.
LEMMA AroundKeeps ==
    ASSUME ForcedInv, mode = "forced", UNCHANGED <<mode, target>>,
           WindowPasses \/ ClientLeaves
    PROVE  ForcedInv'
<1>0. LineSet' = LineSet /\ ReadChunk' = ReadChunk /\ ForcedTypeOK
  BY DEF ForcedInv, LineSet, ReadChunk
<1>1. CASE WindowPasses
  <2>1. /\ Queued' = Queued /\ Held' = Held /\ Held = <<>> /\ Queued.data = <<>>
        /\ step = "select" /\ ~canceled /\ timer' = "fired"
        /\ UNCHANGED <<raw, step, result, answer, reader, inHand, chunks, canceled, silent, left,
                       input>>
    BY <1>0, <1>1, QueuedFacts DEF WindowPasses, Queued, Held
  <2>2. silent
    BY <2>1 DEF ForcedInv, BytesResetTimer
  <2>3. ForcedTypeOK'
    BY <1>0, <2>1 DEF ForcedTypeOK
  <2>4. NothingLost'
    BY <2>1 DEF ForcedInv, NothingLost
  <2>5. BytesResetTimer'
    BY <2>1, <2>2 DEF ForcedInv, BytesResetTimer
  <2>6. ResultMeans' /\ AnswerMeans'
    BY <2>1 DEF ForcedInv, ResultMeans, AnswerMeans
  <2>7. QED
    BY <2>3, <2>4, <2>5, <2>6 DEF ForcedInv
<1>2. CASE ClientLeaves
  <2>1. /\ Queued' = Queued /\ Held' = Held /\ step # "done" /\ canceled' /\ left'
        /\ UNCHANGED <<raw, timer, step, result, answer, reader, inHand, chunks, silent, input>>
    BY <1>2 DEF ClientLeaves, handlerVars, Queued, Held
  <2>2. ForcedTypeOK'
    <3>1. canceled' \in BOOLEAN /\ left' \in BOOLEAN
      BY <1>2, Zenon DEF ClientLeaves
    <3>2. QED
      BY <1>0, <2>1, <3>1 DEF ForcedTypeOK
  <2>3. NothingLost' /\ BytesResetTimer'
    BY <2>1 DEF ForcedInv, NothingLost, BytesResetTimer
  <2>4. ResultMeans' /\ AnswerMeans'
    <3>1. ResultMeans'
      BY <2>1 DEF ForcedInv, ResultMeans
    <3>2. answer' = NoAnswer /\ mode' = "forced"
      BY <2>1 DEF ForcedInv, AnswerMeans
    <3>a. answer'.status # 200 /\ answer'.reason \notin {"stall", "too_large", "read"}
      BY <3>2, NoAnswerFacts
    <3>3. AnswerMeans'
      BY <2>1, <3>2, <3>a, Zenon DEF AnswerMeans
    <3>4. QED
      BY <3>1, <3>3
  <2>5. QED
    BY <2>2, <2>3, <2>4 DEF ForcedInv
<1>3. QED
  BY <1>1, <1>2

-----------------------------------------------------------------------------
\* Every step keeps the invariant.
LEMMA ForcedStep == ForcedInv /\ [Next]_vars => ForcedInv'
<1> SUFFICES ASSUME ForcedInv, [Next]_vars PROVE ForcedInv'
  OBVIOUS
<1>1. CASE mode = "stream" /\ RelayNext /\ UNCHANGED forcedVars
  <2>1. target' = target
    BY <1>1 DEF RelayNext, Line, BodyEnds, BodyEndsInLine, Aborts
  <2>2. QED
    BY <1>1, <2>1, ForcedFrame
<1>2. CASE UNCHANGED vars
  BY <1>2, ForcedFrame DEF vars, relayVars
<1>3. CASE mode = "forced" /\ ForcedNext /\ UNCHANGED <<mode, relayVars>>
  <2>0. mode = "forced" /\ UNCHANGED <<mode, target>>
    BY <1>3 DEF relayVars
  <2>1. CASE Body
    <3>1. Len(input) + 1 \in Nat
      BY DEF ForcedInv, ForcedTypeOK
    <3>2. \A a \in FewLines(target, Len(input) + 1) : a \in LineSet
      BY <3>1 DEF LineSet
    <3>3. JunkLine \in LineSet
      BY DEF LineSet
    <3>4. PICK lines \in {<<>>, <<JunkLine, JunkLine>>}
                         \cup {<<a>> : a \in FewLines(target, Len(input) + 1)},
               err \in {"nil", "EOF", "error"} : Read(lines, err)
      BY <2>1, Zenon DEF Body
    <3>5. lines \in Seq(LineSet)
      <4>1. <<>> \in Seq(LineSet) /\ <<JunkLine, JunkLine>> \in Seq(LineSet)
        BY <3>3
      <4>2. \A a \in FewLines(target, Len(input) + 1) : <<a>> \in Seq(LineSet)
        BY <3>2
      <4>3. QED
        BY <3>4, <4>1, <4>2
    <3>6. QED
      BY <2>0, <3>4, <3>5, ReadKeeps
  <2>2. CASE Reader
    BY <2>0, <2>2, ReaderKeeps
  <2>3. CASE Handler
    BY <2>0, <2>3, TakeKeeps, InterruptedKeeps, AnswerKeeps DEF Handler
  <2>4. CASE WindowPasses \/ ClientLeaves
    BY <2>0, <2>4, AroundKeeps
  <2>5. QED
    BY <1>3, <2>1, <2>2, <2>3, <2>4 DEF ForcedNext
<1>4. QED
  BY <1>1, <1>2, <1>3 DEF Next

\* The state of the forced path is consistent at all times.
THEOREM ForcedInvariant == Spec => []ForcedInv
BY ForcedInit, ForcedStep, PTL DEF Spec

\* forcedSSEToJson says 200 only of a body read to its end, within the cap and
\* without an error frame, and its reasons for a 502 are what happened,
\* however the body is cut and whatever the timer and the client do meanwhile.
THEOREM ForcedAnswerIsHonest == Spec => []WholeOrBadGateway
<1>1. ForcedInv => WholeOrBadGateway
  BY DEF ForcedInv, ResultMeans, BytesResetTimer, AnswerMeans, WholeOrBadGateway
<1>2. QED
  BY <1>1, ForcedInvariant, PTL

-----------------------------------------------------------------------------
(***************************************************************************)
(* The streams.  Sequences here carry events and lines of mixed shape, so  *)
(* they are known by IsSeq alone.                                          *)
(***************************************************************************)

\* s is a sequence, whatever its elements are.
IsSeq(s) == s \in Seq(ToSet(s))

\* What is known of a sequence of unknown elements.
LEMMA KnownSeq ==
    ASSUME NEW s, IsSeq(s)
    PROVE  Len(s) \in Nat /\ DOMAIN s = 1..Len(s)
BY LenProperties DEF IsSeq

\* A sequence over any set is one.
LEMMA IsSeqOf ==
    ASSUME NEW S, NEW s \in Seq(S)
    PROVE  IsSeq(s)
<1>1. Len(s) \in Nat /\ s \in [1..Len(s) -> S]
  BY LenProperties
<1>2. s \in [1..Len(s) -> ToSet(s)]
  BY <1>1 DEF ToSet
<1>3. QED
  BY <1>1, <1>2, SeqDef DEF IsSeq

\* Appending to a sequence of unknown elements.
LEMMA AppendOf ==
    ASSUME NEW s, IsSeq(s), NEW e
    PROVE  /\ IsSeq(Append(s, e))
           /\ Len(Append(s, e)) = Len(s) + 1
           /\ \A i \in 1..Len(s) : Append(s, e)[i] = s[i]
           /\ Append(s, e)[Len(s) + 1] = e
<1> DEFINE S == ToSet(s) \cup {e}
<1>1. s \in Seq(S) /\ e \in S
  BY SeqMonotonic DEF IsSeq
<1> HIDE DEF S
<1>2. /\ Append(s, e) \in Seq(S)
      /\ Len(Append(s, e)) = Len(s) + 1
      /\ \A i \in 1..Len(s) : Append(s, e)[i] = s[i]
      /\ Append(s, e)[Len(s) + 1] = e
  BY <1>1, AppendProperties
<1>3. QED
  BY <1>2, IsSeqOf

\* Joining two sequences of unknown elements.
LEMMA ConcatOf ==
    ASSUME NEW s, IsSeq(s), NEW t, IsSeq(t)
    PROVE  /\ IsSeq(s \o t)
           /\ Len(s \o t) = Len(s) + Len(t)
           /\ \A i \in 1..Len(s) : (s \o t)[i] = s[i]
           /\ \A i \in 1..Len(t) : (s \o t)[Len(s) + i] = t[i]
<1> DEFINE S == ToSet(s) \cup ToSet(t)
<1>1. s \in Seq(S) /\ t \in Seq(S)
  BY SeqMonotonic DEF IsSeq
<1>0. Len(s) \in Nat /\ Len(t) \in Nat
  BY KnownSeq
<1> HIDE DEF S
<1>2. /\ s \o t \in Seq(S)
      /\ Len(s \o t) = Len(s) + Len(t)
      /\ \A i \in 1..Len(s) + Len(t) :
            (s \o t)[i] = IF i <= Len(s) THEN s[i] ELSE t[i - Len(s)]
  BY <1>1, ConcatProperties
<1>3. \A i \in 1..Len(s) : (s \o t)[i] = s[i]
  BY <1>0, <1>2
<1>4. ASSUME NEW i \in 1..Len(t) PROVE (s \o t)[Len(s) + i] = t[i]
  <2>1. /\ Len(s) + i \in 1..Len(s) + Len(t)
        /\ ~(Len(s) + i <= Len(s)) /\ (Len(s) + i) - Len(s) = i
    BY <1>0
  <2>2. QED
    BY <1>2, <2>1
<1>5. QED
  BY <1>2, <1>3, <1>4, IsSeqOf

\* The empty sequence is one.
LEMMA EmptyOf == IsSeq(<<>>) /\ Len(<<>>) = 0 /\ DOMAIN <<>> = {}
BY DEF IsSeq

-----------------------------------------------------------------------------
\* The fields of the translator, and what its state keeps whatever it is fed:
\* finitely many open messages and calls, and a sequence of events.
Fields == {"started", "inThinking", "reasoningIndex", "reasoningDone", "reasoningBuf", "msgs",
           "calls", "completed", "out"}

IsState(s) ==
    /\ Fields \subseteq DOMAIN s
    /\ IsFiniteSet(DOMAIN s.msgs) /\ IsFiniteSet(DOMAIN s.calls)
    /\ IsSeq(s.out)

\* s has written no terminal event, and c says whether it did before.
Quiet(s, c) ==
    /\ IsState(s)
    /\ s.completed = c
    /\ \A i \in DOMAIN s.out : ~Terminal(s.out[i])

\* The fields of an event.
LEMMA EventFields ==
    DOMAIN Event = {"type", "kind", "item", "index", "call", "name", "text", "error", "usage"}
BY Zenon DEF Event

\* emit of an event that does not end the response.
LEMMA EmitQuiet ==
    ASSUME NEW s, NEW c, Quiet(s, c), NEW e, ~Terminal(e)
    PROVE  Quiet(emit(s, e), c)
<1>1. IsSeq(s.out)
  BY DEF Quiet, IsState
<1>2. /\ DOMAIN emit(s, e) = DOMAIN s /\ emit(s, e).out = Append(s.out, e)
      /\ emit(s, e).msgs = s.msgs /\ emit(s, e).calls = s.calls
      /\ emit(s, e).completed = s.completed
  BY DEF Quiet, IsState, emit, Fields
<1>3. IsState(emit(s, e))
  BY <1>1, <1>2, AppendOf DEF Quiet, IsState
<1>4. ASSUME NEW i \in DOMAIN Append(s.out, e) PROVE ~Terminal(Append(s.out, e)[i])
  <2>1. /\ i \in 1..(Len(s.out) + 1) /\ Len(s.out) \in Nat
        /\ DOMAIN s.out = 1..Len(s.out)
    BY <1>1, AppendOf, KnownSeq
  <2>2. i \in 1..Len(s.out) \/ i = Len(s.out) + 1
    BY <2>1
  <2>3. QED
    BY <1>1, <2>1, <2>2, AppendOf DEF Quiet
<1>5. QED
  BY <1>2, <1>3, <1>4 DEF Quiet

\* Setting a field the events do not depend on.
LEMMA SetQuiet ==
    ASSUME NEW s, NEW c, Quiet(s, c), NEW v,
           NEW k \in {"started", "inThinking", "reasoningIndex", "reasoningDone", "reasoningBuf"}
    PROVE  Quiet([s EXCEPT ![k] = v], c)
BY DEF Quiet, IsState, Fields

\* A map that grows by a key, or whose values change, stays finite.
LEMMA MapQuiet ==
    ASSUME NEW s, NEW c, Quiet(s, c), NEW m, IsFiniteSet(DOMAIN m),
           NEW k \in {"msgs", "calls"}
    PROVE  Quiet([s EXCEPT ![k] = m], c)
BY DEF Quiet, IsState, Fields

\* An assignment to a map adds at most one key.
LEMMA PutFinite ==
    ASSUME NEW f, IsFiniteSet(DOMAIN f), NEW k, NEW v
    PROVE  IsFiniteSet(DOMAIN Put(f, k, v))
<1>1. DOMAIN Put(f, k, v) = DOMAIN f \cup {k}
  BY DEF Put
<1>2. QED
  BY <1>1, FS_AddElement

\* startReasoning does not end the response.
LEMMA StartReasoningQuiet ==
    ASSUME NEW s, NEW c, Quiet(s, c), NEW idx
    PROVE  Quiet(startReasoning(s, idx), c)
<1> DEFINE e == [Event EXCEPT !.type = "added", !.kind = Reasoning, !.item = <<"rs", idx>>,
                              !.index = idx]
<1>1. ~Terminal(e)
  BY EventFields DEF Terminal, TerminalTypes
<1>2. Quiet([s EXCEPT !.reasoningIndex = idx], c)
  BY SetQuiet
<1> HIDE DEF e
<1>3. Quiet(emit([s EXCEPT !.reasoningIndex = idx], e), c)
  BY <1>1, <1>2, EmitQuiet
<1>4. QED
  BY <1>3 DEF startReasoning, e

\* emitReasoningDelta does not end the response.
LEMMA ReasoningDeltaQuiet ==
    ASSUME NEW s, NEW c, Quiet(s, c), NEW text
    PROVE  Quiet(emitReasoningDelta(s, text), c)
<1> DEFINE e == [Event EXCEPT !.type = "delta", !.kind = Reasoning, !.item = RsItem(s),
                              !.index = s.reasoningIndex, !.text = text]
           t == [s EXCEPT !.reasoningBuf = s.reasoningBuf \o text]
<1>1. ~Terminal(e)
  BY EventFields DEF Terminal, TerminalTypes
<1>2. Quiet(t, c)
  BY SetQuiet
<1> HIDE DEF e, t
<1>3. Quiet(emit(t, e), c)
  BY <1>1, <1>2, EmitQuiet
<1>4. QED
  BY <1>3 DEF emitReasoningDelta, e, t

\* closeReasoning does not end the response.
LEMMA CloseReasoningQuiet ==
    ASSUME NEW s, NEW c, Quiet(s, c)
    PROVE  Quiet(closeReasoning(s), c)
<1> DEFINE e == [Event EXCEPT !.type = "done", !.kind = Reasoning, !.item = RsItem(s),
                              !.index = s.reasoningIndex, !.text = s.reasoningBuf]
           t == [s EXCEPT !.reasoningDone = TRUE]
<1>1. ~Terminal(e)
  BY EventFields DEF Terminal, TerminalTypes
<1>2. Quiet(t, c)
  BY SetQuiet
<1> HIDE DEF e, t
<1>3. Quiet(emit(t, e), c)
  BY <1>1, <1>2, EmitQuiet
<1>4. QED
  BY <1>3 DEF closeReasoning, e, t

\* addMessage does not end the response.
LEMMA AddMessageQuiet ==
    ASSUME NEW s, NEW c, Quiet(s, c), NEW idx
    PROVE  Quiet(addMessage(s, idx), c)
<1> DEFINE e == [Event EXCEPT !.type = "added", !.kind = Message, !.item = MsgItem(idx),
                              !.index = idx]
           m == Put(s.msgs, idx, [buf |-> <<>>, done |-> FALSE])
           t == [s EXCEPT !.msgs = m]
<1>1. ~Terminal(e)
  BY EventFields DEF Terminal, TerminalTypes
<1>2. IsFiniteSet(DOMAIN m)
  BY PutFinite DEF Quiet, IsState
<1> HIDE DEF e, m
<1>3. Quiet(t, c)
  BY <1>2, MapQuiet
<1> HIDE DEF t
<1>4. Quiet(emit(t, e), c)
  BY <1>1, <1>3, EmitQuiet
<1>5. QED
  BY <1>4, Zenon DEF addMessage, e, t, m

\* emitTextContent does not end the response.
LEMMA TextContentQuiet ==
    ASSUME NEW s, NEW c, Quiet(s, c), NEW idx, NEW text
    PROVE  Quiet(emitTextContent(s, idx, text), c)
<1> DEFINE a == addMessage(s, idx)
           e == [Event EXCEPT !.type = "delta", !.kind = Message, !.item = MsgItem(idx),
                              !.index = idx, !.text = text]
           m == [a.msgs EXCEPT ![idx].buf = a.msgs[idx].buf \o text]
           t == [a EXCEPT !.msgs = m]
<1>1. ~Terminal(e)
  BY EventFields DEF Terminal, TerminalTypes
<1>2. Quiet(a, c)
  BY AddMessageQuiet
<1> HIDE DEF a, e
<1>3. IsFiniteSet(DOMAIN m)
  <2>1. DOMAIN m = DOMAIN a.msgs
    OBVIOUS
  <2>2. QED
    BY <1>2, <2>1 DEF Quiet, IsState
<1>4. t = [a EXCEPT !.msgs[idx].buf = @ \o text]
  OBVIOUS
<1> HIDE DEF m
<1>5. Quiet(t, c)
  BY <1>2, <1>3, MapQuiet
<1> HIDE DEF t
<1>6. Quiet(emit(t, e), c)
  BY <1>1, <1>5, EmitQuiet
<1>7. QED
  BY <1>4, <1>6, Zenon DEF emitTextContent, a, e

\* closeMessage does not end the response.
LEMMA CloseMessageQuiet ==
    ASSUME NEW s, NEW c, Quiet(s, c), NEW idx
    PROVE  Quiet(closeMessage(s, idx), c)
<1> DEFINE e == [Event EXCEPT !.type = "done", !.kind = Message, !.item = MsgItem(idx),
                              !.index = idx, !.text = s.msgs[idx].buf]
           m == [s.msgs EXCEPT ![idx].done = TRUE]
           t == [s EXCEPT !.msgs = m]
<1>1. ~Terminal(e)
  BY EventFields DEF Terminal, TerminalTypes
<1>2. IsFiniteSet(DOMAIN m)
  <2>1. DOMAIN m = DOMAIN s.msgs
    OBVIOUS
  <2>2. QED
    BY <2>1 DEF Quiet, IsState
<1>3. t = [s EXCEPT !.msgs[idx].done = TRUE]
  OBVIOUS
<1> HIDE DEF e, m
<1>4. Quiet(t, c)
  BY <1>2, MapQuiet
<1> HIDE DEF t
<1>5. Quiet(emit(t, e), c)
  BY <1>1, <1>4, EmitQuiet
<1>6. QED
  BY <1>3, <1>5, Zenon DEF closeMessage, e

\* Several events at once.
LEMMA ExtendQuiet ==
    ASSUME NEW s, NEW c, Quiet(s, c), NEW es, IsSeq(es),
           \A i \in DOMAIN es : ~Terminal(es[i])
    PROVE  Quiet([s EXCEPT !.out = s.out \o es], c)
<1> DEFINE o == s.out \o es
           t == [s EXCEPT !.out = o]
<1>1. /\ IsSeq(s.out) /\ IsSeq(o) /\ Len(o) = Len(s.out) + Len(es)
      /\ Len(s.out) \in Nat /\ Len(es) \in Nat
      /\ DOMAIN s.out = 1..Len(s.out) /\ DOMAIN es = 1..Len(es) /\ DOMAIN o = 1..Len(o)
      /\ \A i \in 1..Len(s.out) : o[i] = s.out[i]
      /\ \A i \in 1..Len(es) : o[Len(s.out) + i] = es[i]
  <2>1. IsSeq(s.out)
    BY DEF Quiet, IsState
  <2>2. IsSeq(o)
    BY <2>1, ConcatOf
  <2>3. /\ Len(o) = Len(s.out) + Len(es)
        /\ \A i \in 1..Len(s.out) : o[i] = s.out[i]
        /\ \A i \in 1..Len(es) : o[Len(s.out) + i] = es[i]
    BY <2>1, ConcatOf
  <2> HIDE DEF o
  <2>4. /\ Len(s.out) \in Nat /\ DOMAIN s.out = 1..Len(s.out)
        /\ Len(es) \in Nat /\ DOMAIN es = 1..Len(es)
        /\ DOMAIN o = 1..Len(o)
    BY <2>1, <2>2, KnownSeq
  <2>5. QED
    BY <2>1, <2>2, <2>3, <2>4
<1>2. ASSUME NEW i \in DOMAIN o PROVE ~Terminal(o[i])
  <2> HIDE DEF o
  <2>1. CASE i \in 1..Len(s.out)
    BY <1>1, <2>1 DEF Quiet
  <2>2. CASE i \notin 1..Len(s.out)
    <3>1. i - Len(s.out) \in 1..Len(es) /\ Len(s.out) + (i - Len(s.out)) = i
      BY <1>1, <2>2
    <3>2. QED
      BY <1>1, <3>1
  <2>3. QED
    BY <2>1, <2>2
<1> HIDE DEF o
<1>3. /\ DOMAIN t = DOMAIN s /\ t.out = o /\ t.msgs = s.msgs /\ t.calls = s.calls
      /\ t.completed = s.completed
  BY DEF Quiet, IsState, Fields
<1> HIDE DEF t
<1>4. Quiet(t, c)
  BY <1>1, <1>2, <1>3 DEF Quiet, IsState
<1>5. QED
  BY <1>4 DEF t, o

\* One event, or two, as a sequence.
LEMMA FewEvents ==
    /\ \A a : ~Terminal(a) => IsSeq(<<a>>) /\ \A i \in DOMAIN <<a>> : ~Terminal(<<a>>[i])
    /\ \A a, b : ~Terminal(a) /\ ~Terminal(b) =>
          IsSeq(<<a, b>>) /\ \A i \in DOMAIN <<a, b>> : ~Terminal(<<a, b>>[i])
<1>1. ASSUME NEW a, ~Terminal(a)
      PROVE  IsSeq(<<a>>) /\ \A i \in DOMAIN <<a>> : ~Terminal(<<a>>[i])
  <2>1. <<a>> \in Seq({a})
    OBVIOUS
  <2>2. IsSeq(<<a>>)
    BY <2>1, IsSeqOf
  <2>3. \A i \in DOMAIN <<a>> : ~Terminal(<<a>>[i])
    BY <1>1
  <2>4. QED
    BY <2>2, <2>3
<1>2. ASSUME NEW a, NEW b, ~Terminal(a), ~Terminal(b)
      PROVE  IsSeq(<<a, b>>) /\ \A i \in DOMAIN <<a, b>> : ~Terminal(<<a, b>>[i])
  <2>1. <<a, b>> \in Seq({a, b})
    OBVIOUS
  <2>2. IsSeq(<<a, b>>)
    BY <2>1, IsSeqOf
  <2>3. \A i \in DOMAIN <<a, b>> : ~Terminal(<<a, b>>[i])
    BY <1>2
  <2>4. QED
    BY <2>2, <2>3
<1>3. QED
  BY <1>1, <1>2

\* The events of a call have the fields that are set in them.
LEMMA CallEventFields ==
    ASSUME NEW c, NEW idx
    PROVE  {"type", "name", "text"} \subseteq DOMAIN CallEvent(c, idx)
BY EventFields DEF CallEvent

\* emitToolCall does not end the response.
LEMMA EmitToolCallQuiet ==
    ASSUME NEW s, NEW c, Quiet(s, c), NEW tc
    PROVE  Quiet(emitToolCall(s, tc), c)
<1> DEFINE known == Known(s, tc)
           call == [known EXCEPT !.added = known.added \/ announces(known),
                                 !.args = known.args \o tc.args]
           a == [CallEvent(call, tc.index) EXCEPT !.type = "added", !.name = call.name]
           d == [CallEvent(call, tc.index) EXCEPT !.type = "delta", !.text = tc.args]
           added == IF announces(known) THEN <<a>> ELSE <<>>
           delta == IF tc.args # <<>> /\ call.added /\ call.id # NoId /\ ~isCustomTool(call.name)
                    THEN <<d>> ELSE <<>>
           m == Put(s.calls, tc.index, call)
           t == [s EXCEPT !.calls = m]
           u == [t EXCEPT !.out = t.out \o added]
           v == [u EXCEPT !.out = u.out \o delta]
<1>1. emitToolCall(s, tc) = [s EXCEPT !.calls = m, !.out = (s.out \o added) \o delta]
  BY Zenon DEF emitToolCall
<1> HIDE DEF known, call
<1>2. ~Terminal(a) /\ ~Terminal(d)
  BY CallEventFields DEF Terminal, TerminalTypes
<1> HIDE DEF a, d
<1>3. /\ IsSeq(added) /\ \A i \in DOMAIN added : ~Terminal(added[i])
      /\ IsSeq(delta) /\ \A i \in DOMAIN delta : ~Terminal(delta[i])
  BY <1>2, FewEvents, EmptyOf
<1>4. IsFiniteSet(DOMAIN m)
  BY PutFinite DEF Quiet, IsState
<1> HIDE DEF added, delta, m
<1>5. Quiet(t, c)
  BY <1>4, MapQuiet
<1>6. Quiet(u, c)
  <2> HIDE DEF t
  <2>1. QED
    BY <1>3, <1>5, ExtendQuiet
<1>7. Quiet(v, c)
  <2> HIDE DEF u
  <2>1. QED
    BY <1>3, <1>6, ExtendQuiet
<1>8. v = [s EXCEPT !.calls = m, !.out = (s.out \o added) \o delta]
  <2>1. {"calls", "out"} \subseteq DOMAIN s
    BY DEF Quiet, IsState, Fields
  <2>2. t.out = s.out
    BY <2>1
  <2>3. u.out = s.out \o added
    BY <2>1, <2>2
  <2>4. QED
    BY <2>1, <2>2, <2>3
<1>9. QED
  BY <1>1, <1>7, <1>8

\* closeToolCall does not end the response.
LEMMA CloseToolCallQuiet ==
    ASSUME NEW s, NEW c, Quiet(s, c), NEW idx
    PROVE  Quiet(closeToolCall(s, idx), c)
<1> DEFINE call == s.calls[idx]
           args == IF call.args = <<>> THEN EmptyObject ELSE call.args
           text == IF isCustomTool(call.name) THEN extractCustomToolInput(args) ELSE args
           a == [CallEvent(call, idx) EXCEPT !.type = "delta", !.text = text]
           d == [CallEvent(call, idx) EXCEPT !.type = "done", !.name = call.name, !.text = text]
           es == IF isCustomTool(call.name) THEN <<a, d>> ELSE <<d>>
           m == [s.calls EXCEPT ![idx].done = TRUE]
           t == [s EXCEPT !.calls = m]
           u == [t EXCEPT !.out = t.out \o es]
<1>1. closeToolCall(s, idx) = IF call.id = NoId \/ call.done THEN s
                              ELSE [s EXCEPT !.calls[idx].done = TRUE, !.out = s.out \o es]
  BY Zenon DEF closeToolCall
<1> HIDE DEF call, text
<1>2. ~Terminal(a) /\ ~Terminal(d)
  BY CallEventFields DEF Terminal, TerminalTypes
<1> HIDE DEF a, d
<1>3. IsSeq(es) /\ \A i \in DOMAIN es : ~Terminal(es[i])
  BY <1>2, FewEvents
<1> HIDE DEF es
<1>4. IsFiniteSet(DOMAIN m)
  <2>1. DOMAIN m = DOMAIN s.calls
    OBVIOUS
  <2>2. QED
    BY <2>1 DEF Quiet, IsState
<1>5. Quiet(t, c)
  <2> HIDE DEF m
  <2>1. QED
    BY <1>4, MapQuiet
<1>6. Quiet(u, c)
  <2> HIDE DEF t
  <2>1. QED
    BY <1>3, <1>5, ExtendQuiet
<1>7. u = [s EXCEPT !.calls[idx].done = TRUE, !.out = s.out \o es]
  <2>1. {"calls", "out"} \subseteq DOMAIN s
    BY DEF Quiet, IsState, Fields
  <2>2. t.out = s.out
    BY <2>1
  <2>3. QED
    BY <2>1, <2>2
<1>8. QED
  BY <1>1, <1>6, <1>7

-----------------------------------------------------------------------------
\* A set that holds zero and every successor holds every natural.
LEMMA NatSetInduction ==
    ASSUME NEW G, 0 \in G, \A n \in Nat : n \in G => n + 1 \in G
    PROVE  Nat \subseteq G
<1> DEFINE Bad == Nat \ G
<1>1. SUFFICES ASSUME Bad # {} PROVE FALSE
  OBVIOUS
<1>2. PICK x \in Bad : \A y \in Bad : ~ (<<y, x>> \in OpToRel(<, Nat))
  BY <1>1, NatLessThanWellFounded, WFMin
<1>3. \A y \in Bad : ~(y < x)
  BY <1>2 DEF OpToRel
<1>4. x # 0 /\ x - 1 \in Nat /\ x - 1 \notin Bad
  BY <1>3
<1>5. QED
  BY <1>4

\* A set of places in a sequence has a last one.
LEMMA MaxIn ==
    ASSUME NEW n \in Nat, NEW t \in SUBSET (1..n), t # {}
    PROVE  Max(t) \in t
<1> DEFINE D == {n - x : x \in t}
<1>1. D \in SUBSET Nat /\ D # {}
  <2>1. ASSUME NEW x \in t PROVE n - x \in Nat
    <3>1. x \in 1..n
      OBVIOUS
    <3>2. QED
      BY <3>1
  <2>2. QED
    BY <2>1
<1>2. PICK d \in D : \A y \in D : ~ (<<y, d>> \in OpToRel(<, Nat))
  BY <1>1, NatLessThanWellFounded, WFMin
<1>3. \A y \in D : ~(y < d)
  BY <1>1, <1>2 DEF OpToRel
<1>4. PICK x \in t : d = n - x
  BY <1>2
<1>5. ASSUME NEW y \in t PROVE x >= y
  <2>1. ~(n - y < n - x)
    BY <1>3, <1>4
  <2>2. x \in Int /\ y \in Int
    OBVIOUS
  <2>3. QED
    BY <2>1, <2>2
<1>6. QED
  BY <1>5 DEF Max

\* The steps the translator folds over a sequence, and the values of a fold
\* over the places of the sequence, by FoldLeft's definition.
FoldStep(k, s, x) ==
    IF k = "message" THEN closeMessage(s, x)
    ELSE IF k = "call" THEN closeToolCall(s, x)
    ELSE emitToolCall(s, x)
FoldsOver(g, k, base, seq) ==
    g = [t \in SUBSET DOMAIN seq |->
            IF t = {} THEN base ELSE FoldStep(k, g[t \ {Max(t)}], seq[Max(t)])]

\* There is such a g.
LEMMA FoldsExist ==
    ASSUME NEW k, NEW base, NEW seq, NEW n \in Nat, DOMAIN seq = 1..n
    PROVE  \E g : FoldsOver(g, k, base, seq)
<1> DEFINE S == DOMAIN seq
           Upto(i) == {t \in SUBSET S : Cardinality(t) <= i}
           Def(g, t) == IF t = {} THEN base ELSE FoldStep(k, g[t \ {Max(t)}], seq[Max(t)])
           Good == {i \in Nat : \E g : g = [t \in Upto(i) |-> Def(g, t)]}
<1>0. /\ IsFiniteSet(S)
      /\ \A t \in SUBSET S :
            /\ IsFiniteSet(t) /\ Cardinality(t) \in Nat
            /\ t # {} => /\ Cardinality(t \ {Max(t)}) = Cardinality(t) - 1
                         /\ Cardinality(t) # 0
  <2>1. IsFiniteSet(S)
    BY FS_Interval
  <2>2. ASSUME NEW t \in SUBSET S
        PROVE  /\ IsFiniteSet(t) /\ Cardinality(t) \in Nat
               /\ t # {} => /\ Cardinality(t \ {Max(t)}) = Cardinality(t) - 1
                            /\ Cardinality(t) # 0
    <3>1. t # {} => Max(t) \in t
      BY MaxIn
    <3>2. IsFiniteSet(t)
      BY <2>1, FS_Subset
    <3>3. QED
      BY <3>1, <3>2, FS_CardinalityType, FS_RemoveElement, FS_EmptySet
  <2>3. QED
    BY <2>1, <2>2
<1>1. 0 \in Good
  <2> DEFINE g == [t \in Upto(0) |-> base]
  <2>1. ASSUME NEW t \in Upto(0) PROVE t = {}
    <3>1. t \in SUBSET S /\ Cardinality(t) <= 0
      OBVIOUS
    <3>2. IsFiniteSet(t) /\ Cardinality(t) \in Nat
      BY <1>0, <3>1
    <3>3. Cardinality(t) = 0
      BY <3>1, <3>2
    <3>4. QED
      BY <3>2, <3>3, FS_EmptySet
  <2>2. g = [t \in Upto(0) |-> Def(g, t)]
    BY <2>1
  <2>3. QED
    BY <2>2
<1>2. ASSUME NEW i \in Nat, i \in Good PROVE i + 1 \in Good
  <2>1. PICK g : g = [t \in Upto(i) |-> Def(g, t)]
    BY <1>2
  <2> DEFINE h == [t \in Upto(i + 1) |-> Def(g, t)]
  <2>2. ASSUME NEW t \in Upto(i + 1) PROVE h[t] = Def(h, t)
    <3>1. CASE t = {}
      BY <3>1
    <3>2. CASE t # {}
      <4> DEFINE r == t \ {Max(t)}
      <4>1. r \in Upto(i) /\ r \in Upto(i + 1)
        BY <1>0, <3>2
      <4> HIDE DEF r
      <4>2. h[r] = Def(g, r)
        BY <4>1
      <4>3. g[r] = Def(g, r)
        BY <2>1, <4>1
      <4>4. QED
        BY <3>2, <4>2, <4>3 DEF r
    <3>3. QED
      BY <3>1, <3>2
  <2>3. h = [t \in Upto(i + 1) |-> Def(h, t)]
    BY <2>2
  <2>4. \E f : f = [t \in Upto(i + 1) |-> Def(f, t)]
    BY <2>3, Zenon
  <2>5. i + 1 \in Nat
    OBVIOUS
  <2>6. QED
    BY <2>4, <2>5, Zenon
<1>3. Nat \subseteq Good
  <2> HIDE DEF Good
  <2>1. QED
    BY <1>1, <1>2, NatSetInduction
<1>4. Cardinality(S) \in Nat /\ Upto(Cardinality(S)) = SUBSET S
  BY <1>0, FS_CardinalityType, FS_Subset
<1>5. PICK g : g = [t \in SUBSET S |-> Def(g, t)]
  BY <1>3, <1>4
<1>6. QED
  BY <1>5 DEF FoldsOver

\* A fold of quiet steps is quiet.
LEMMA FoldsQuiet ==
    ASSUME NEW k, NEW base, NEW c, Quiet(base, c), NEW seq, NEW n \in Nat, DOMAIN seq = 1..n,
           NEW g, FoldsOver(g, k, base, seq)
    PROVE  Quiet(g[DOMAIN seq], c)
<1> DEFINE S == DOMAIN seq
           Good == {i \in Nat : \A t \in SUBSET S : Cardinality(t) = i => Quiet(g[t], c)}
<1>0. IsFiniteSet(S) /\ Cardinality(S) \in Nat
  BY FS_Interval, FS_CardinalityType
<1>1. 0 \in Good
  <2>1. ASSUME NEW t \in SUBSET S, Cardinality(t) = 0 PROVE Quiet(g[t], c)
    <3>1. t = {}
      BY <1>0, <2>1, FS_Subset, FS_EmptySet
    <3>2. g[t] = base
      BY <3>1 DEF FoldsOver
    <3>3. QED
      BY <3>2
  <2>2. QED
    BY <2>1
<1>2. ASSUME NEW i \in Nat, i \in Good PROVE i + 1 \in Good
  <2>1. ASSUME NEW t \in SUBSET S, Cardinality(t) = i + 1 PROVE Quiet(g[t], c)
    <3> DEFINE r == t \ {Max(t)}
    <3>1. IsFiniteSet(t) /\ t # {}
      BY <1>0, <2>1, FS_Subset, FS_EmptySet
    <3>2. Max(t) \in t
      BY <3>1, MaxIn
    <3>3. Cardinality(r) = Cardinality(t) - 1
      BY <3>1, <3>2, FS_RemoveElement
    <3>4. Cardinality(r) = i /\ r \in SUBSET S
      BY <2>1, <3>3
    <3>5. Quiet(g[r], c)
      BY <1>2, <3>4
    <3>6. g[t] = FoldStep(k, g[r], seq[Max(t)])
      BY <3>1 DEF FoldsOver
    <3>7. Quiet(FoldStep(k, g[r], seq[Max(t)]), c)
      <4> HIDE DEF r
      <4>1. QED
        BY <3>5, CloseMessageQuiet, CloseToolCallQuiet, EmitToolCallQuiet DEF FoldStep
    <3>8. QED
      BY <3>6, <3>7
  <2>2. QED
    BY <2>1
<1>3. Nat \subseteq Good
  <2> HIDE DEF Good
  <2>1. QED
    BY <1>1, <1>2, NatSetInduction
<1>4. QED
  BY <1>0, <1>3

\* The three loops of the translator.
LEMMA FoldLeftQuiet ==
    ASSUME NEW s, NEW c, Quiet(s, c), NEW seq, NEW n \in Nat, DOMAIN seq = 1..n
    PROVE  /\ Quiet(FoldLeft(closeMessage, s, seq), c)
           /\ Quiet(FoldLeft(closeToolCall, s, seq), c)
           /\ Quiet(FoldLeft(emitToolCall, s, seq), c)
<1>1. Quiet(FoldLeft(closeMessage, s, seq), c)
  <2> DEFINE P(g) == g = [t \in SUBSET DOMAIN seq |->
                            IF t = {} THEN s ELSE closeMessage(g[t \ {Max(t)}], seq[Max(t)])]
             f == CHOOSE g : P(g)
  <2>1. \A g : P(g) <=> FoldsOver(g, "message", s, seq)
    BY DEF FoldsOver, FoldStep
  <2>2. P(f)
    BY <2>1, FoldsExist
  <2>3. FoldLeft(closeMessage, s, seq) = f[DOMAIN seq]
    BY DEF FoldLeft, MapThenFoldSet
  <2> HIDE DEF f, P
  <2>4. QED
    BY <2>1, <2>2, <2>3, FoldsQuiet
<1>2. Quiet(FoldLeft(closeToolCall, s, seq), c)
  <2> DEFINE P(g) == g = [t \in SUBSET DOMAIN seq |->
                            IF t = {} THEN s ELSE closeToolCall(g[t \ {Max(t)}], seq[Max(t)])]
             f == CHOOSE g : P(g)
  <2>1. \A g : P(g) <=> FoldsOver(g, "call", s, seq)
    BY DEF FoldsOver, FoldStep
  <2>2. P(f)
    BY <2>1, FoldsExist
  <2>3. FoldLeft(closeToolCall, s, seq) = f[DOMAIN seq]
    BY DEF FoldLeft, MapThenFoldSet
  <2> HIDE DEF f, P
  <2>4. QED
    BY <2>1, <2>2, <2>3, FoldsQuiet
<1>3. Quiet(FoldLeft(emitToolCall, s, seq), c)
  <2> DEFINE P(g) == g = [t \in SUBSET DOMAIN seq |->
                            IF t = {} THEN s ELSE emitToolCall(g[t \ {Max(t)}], seq[Max(t)])]
             f == CHOOSE g : P(g)
  <2>1. \A g : P(g) <=> FoldsOver(g, "fragment", s, seq)
    BY DEF FoldsOver, FoldStep
  <2>2. P(f)
    BY <2>1, FoldsExist
  <2>3. FoldLeft(emitToolCall, s, seq) = f[DOMAIN seq]
    BY DEF FoldLeft, MapThenFoldSet
  <2> HIDE DEF f, P
  <2>4. QED
    BY <2>1, <2>2, <2>3, FoldsQuiet
<1>4. QED
  BY <1>1, <1>2, <1>3

-----------------------------------------------------------------------------
\* s has completed the response with its last event, and only with that.
Ending(s) ==
    /\ IsState(s)
    /\ s.completed = TRUE
    /\ Len(s.out) > 0
    /\ \A i \in DOMAIN s.out : Terminal(s.out[i]) <=> i = Len(s.out)

\* sendCompleted completes a response that is not completed.
LEMMA SendCompletedEnds ==
    ASSUME NEW s, NEW c \in BOOLEAN, Quiet(s, c)
    PROVE  IF c THEN Quiet(sendCompleted(s), TRUE) ELSE Ending(sendCompleted(s))
<1>1. CASE c
  BY <1>1 DEF sendCompleted, Quiet
<1>2. CASE ~c
  <2> DEFINE e == [Event EXCEPT !.type = "completed"]
             t == [s EXCEPT !.completed = TRUE]
             u == [t EXCEPT !.out = Append(t.out, e)]
  <2>1. sendCompleted(s) = u
    BY <1>2 DEF sendCompleted, Quiet, emit
  <2>2. Terminal(e)
    BY EventFields DEF Terminal, TerminalTypes
  <2>3. IsSeq(s.out)
    BY DEF Quiet, IsState
  <2> HIDE DEF e
  <2>4. /\ DOMAIN u = DOMAIN s /\ u.out = Append(s.out, e) /\ u.completed = TRUE
        /\ u.msgs = s.msgs /\ u.calls = s.calls
    BY DEF Quiet, IsState, Fields
  <2> HIDE DEF u
  <2>5. IsSeq(u.out) /\ Len(u.out) = Len(s.out) + 1
    BY <2>3, <2>4, AppendOf
  <2>6. Len(s.out) \in Nat /\ DOMAIN u.out = 1..(Len(s.out) + 1) /\ DOMAIN s.out = 1..Len(s.out)
    BY <2>3, <2>5, KnownSeq
  <2>7. ASSUME NEW i \in DOMAIN u.out PROVE Terminal(u.out[i]) <=> i = Len(u.out)
    <3>1. CASE i = Len(s.out) + 1
      BY <2>2, <2>3, <2>4, <2>5, <3>1, AppendOf
    <3>2. CASE i # Len(s.out) + 1
      <4>1. i \in 1..Len(s.out)
        BY <2>6, <3>2
      <4>2. u.out[i] = s.out[i]
        BY <2>3, <2>4, <4>1, AppendOf
      <4>3. QED
        BY <2>5, <2>6, <3>2, <4>1, <4>2 DEF Quiet
    <3>3. QED
      BY <3>1, <3>2
  <2>8. IsState(u)
    BY <2>4, <2>5 DEF Quiet, IsState
  <2>9. Ending(u)
    BY <2>4, <2>5, <2>6, <2>7, <2>8 DEF Ending
  <2>10. QED
    BY <1>2, <2>1, <2>9
<1>3. QED
  BY <1>1, <1>2

\* closeAll closes what is open without ending the response, then ends it.
LEMMA CloseAllEnds ==
    ASSUME NEW s, NEW c \in BOOLEAN, Quiet(s, c)
    PROVE  IF c THEN Quiet(closeAll(s), TRUE) ELSE Ending(closeAll(s))
<1> DEFINE messages == FoldLeft(closeMessage, s, sortedKeys(s.msgs))
           reasoning == closeReasoning(messages)
           calls == FoldLeft(closeToolCall, reasoning, sortedKeys(s.calls))
<1>1. /\ Cardinality(DOMAIN s.msgs) \in Nat /\ Cardinality(DOMAIN s.calls) \in Nat
      /\ DOMAIN sortedKeys(s.msgs) = 1..Cardinality(DOMAIN s.msgs)
      /\ DOMAIN sortedKeys(s.calls) = 1..Cardinality(DOMAIN s.calls)
  <2>1. IsFiniteSet(DOMAIN s.msgs) /\ IsFiniteSet(DOMAIN s.calls)
    BY DEF Quiet, IsState
  <2>2. QED
    BY <2>1, FS_CardinalityType DEF sortedKeys
<1>2. Quiet(messages, c)
  BY <1>1, FoldLeftQuiet
<1> HIDE DEF messages
<1>3. Quiet(reasoning, c)
  BY <1>2, CloseReasoningQuiet
<1> HIDE DEF reasoning
<1>4. Quiet(calls, c)
  BY <1>1, <1>3, FoldLeftQuiet
<1> HIDE DEF calls
<1>5. IF c THEN Quiet(sendCompleted(calls), TRUE) ELSE Ending(sendCompleted(calls))
  BY <1>4, SendCompletedEnds
<1>6. closeAll(s) = sendCompleted(calls)
  BY Zenon DEF closeAll, messages, reasoning, calls
<1>7. QED
  BY <1>5, <1>6

\* begin, which sends response.created, does not end the response.
LEMMA BeginQuiet ==
    ASSUME NEW s, NEW c, Quiet(s, c)
    PROVE  Quiet(begin(s), c)
<1> DEFINE e == [Event EXCEPT !.type = "created"]
           t == [s EXCEPT !.started = TRUE]
<1>1. ~Terminal(e)
  BY EventFields DEF Terminal, TerminalTypes
<1>2. Quiet(t, c)
  BY SetQuiet
<1> HIDE DEF e, t
<1>3. Quiet(emit(t, e), c)
  BY <1>1, <1>2, EmitQuiet
<1>4. QED
  BY <1>3 DEF begin, e, t

\* Reading a chunk's reasoning does not end the response.
LEMMA VendorReasoningQuiet ==
    ASSUME NEW s, NEW c, Quiet(s, c), NEW chunk
    PROVE  Quiet(vendorReasoning(s, chunk), c)
<1>1. Quiet(startReasoning(s, chunk.index), c)
  BY StartReasoningQuiet
<1>2. Quiet(emitReasoningDelta(startReasoning(s, chunk.index), chunk.reason), c)
  BY <1>1, ReasoningDeltaQuiet
<1>3. QED
  BY <1>2, Zenon DEF vendorReasoning

\* Following the think tags does not end the response.
LEMMA ThinkTagsQuiet ==
    ASSUME NEW s, NEW c, Quiet(s, c), NEW chunk
    PROVE  Quiet(thinkTags(s, chunk).state, c)
<1> DEFINE opens == Contains(chunk.content, ThinkOpen)
           text == RemoveFirst(chunk.content, ThinkOpen)
           opened == IF opens THEN startReasoning([s EXCEPT !.inThinking = TRUE], chunk.index)
                     ELSE s
           cut == SelectInSeq(text, LAMBDA p : p = ThinkClose)
           thought == emitReasoningDelta(opened, SubSeq(text, 1, cut - 1))
           closed == closeReasoning(thought)
           after == [closed EXCEPT !.inThinking = FALSE]
<1>1. Quiet(opened, c)
  <2>1. Quiet([s EXCEPT !.inThinking = TRUE], c)
    BY SetQuiet
  <2>2. Quiet(startReasoning([s EXCEPT !.inThinking = TRUE], chunk.index), c)
    BY <2>1, StartReasoningQuiet
  <2>3. QED
    BY <2>2
<1>2. thinkTags(s, chunk).state = IF cut = 0 THEN opened ELSE after
  BY Zenon DEF thinkTags
<1> HIDE DEF opened, cut, text
<1>3. Quiet(thought, c)
  BY <1>1, ReasoningDeltaQuiet
<1> HIDE DEF thought
<1>4. Quiet(closed, c)
  BY <1>3, CloseReasoningQuiet
<1> HIDE DEF closed
<1>5. Quiet(after, c)
  BY <1>4, SetQuiet
<1>6. QED
  BY <1>1, <1>2, <1>5

\* Reading a chunk's tool calls does not end the response.
LEMMA ToolCallsQuiet ==
    ASSUME NEW s, NEW c, Quiet(s, c), NEW chunk, IsSeq(chunk.calls)
    PROVE  Quiet(toolCalls(s, chunk), c)
<1> DEFINE t == closeMessage(s, chunk.index)
<1>1. Quiet(t, c)
  BY CloseMessageQuiet
<1>2. Len(chunk.calls) \in Nat /\ DOMAIN chunk.calls = 1..Len(chunk.calls)
  BY KnownSeq
<1> HIDE DEF t
<1>3. Quiet(FoldLeft(emitToolCall, t, chunk.calls), c)
  BY <1>1, <1>2, FoldLeftQuiet
<1>4. QED
  BY <1>3, Zenon DEF toolCalls, t

\* What one call of Convert may do: it ends the response at a finish_reason,
\* once, as the last thing it writes.
Converts(s, c, ends) == Quiet(s, c) \/ (~c /\ ends /\ Ending(s))

\* Convert ends the response at most once, at a finish_reason, and writes
\* nothing for a chunk without choices.
LEMMA ConvertChunkEnds ==
    ASSUME NEW before, IsState(before), before.completed \in BOOLEAN, NEW chunk, IsSeq(chunk.calls)
    PROVE  /\ Converts(ConvertChunk(before, chunk), before.completed,
                       chunk.choices = "one" /\ chunk.finish # "")
           /\ chunk.choices # "one" => ConvertChunk(before, chunk).out = <<>>
<1> DEFINE c == before.completed
           s == [before EXCEPT !.out = <<>>]
           read == vendorReasoning(begin(s), chunk)
           tags == thinkTags(read, chunk)
           text == IF tags.content = <<>> THEN tags.state
                   ELSE emitTextContent(tags.state, chunk.index, tags.content)
           called == toolCalls(text, chunk)
<1>1. Quiet(s, c)
  <2>1. /\ DOMAIN s = DOMAIN before /\ s.out = <<>> /\ s.completed = c
        /\ s.msgs = before.msgs /\ s.calls = before.calls
    BY DEF IsState, Fields
  <2> HIDE DEF s
  <2>2. QED
    BY <2>1, EmptyOf DEF Quiet, IsState
<1>2. s.out = <<>>
  BY DEF IsState, Fields
<1>3. ConvertChunk(before, chunk)
        = IF chunk.choices # "one" THEN s
          ELSE IF tags.state.inThinking /\ tags.content # <<>>
          THEN emitReasoningDelta(tags.state, tags.content)
          ELSE finish(called, chunk)
  BY Zenon DEF ConvertChunk
<1> HIDE DEF s
<1>4. Quiet(read, c)
  BY <1>1, BeginQuiet, VendorReasoningQuiet
<1> HIDE DEF read
<1>5. Quiet(tags.state, c)
  BY <1>4, ThinkTagsQuiet
<1> HIDE DEF tags
<1>6. Quiet(emitReasoningDelta(tags.state, tags.content), c)
  BY <1>5, ReasoningDeltaQuiet
<1>7. Quiet(text, c)
  BY <1>5, TextContentQuiet
<1> HIDE DEF text
<1>8. Quiet(called, c)
  BY <1>7, ToolCallsQuiet
<1> HIDE DEF called
<1>9. IF c THEN Quiet(closeAll(called), TRUE) ELSE Ending(closeAll(called))
  BY <1>8, CloseAllEnds
<1>10. Converts(finish(called, chunk), c, chunk.finish # "")
  <2>1. CASE chunk.finish = ""
    <3>1. finish(called, chunk) = called
      BY <2>1, Zenon DEF finish
    <3>2. QED
      BY <1>8, <3>1, Zenon DEF Converts
  <2>2. CASE chunk.finish # ""
    <3>1. finish(called, chunk) = closeAll(called)
      BY <2>2, Zenon DEF finish
    <3>2. CASE c
      <4>1. Quiet(closeAll(called), c)
        BY <1>9, <3>2
      <4>2. QED
        BY <3>1, <4>1, Zenon DEF Converts
    <3>3. CASE ~c
      <4>1. Ending(closeAll(called))
        BY <1>9, <3>3
      <4>2. QED
        BY <2>2, <3>1, <3>3, <4>1, Zenon DEF Converts
    <3>4. QED
      BY <3>2, <3>3, Zenon
  <2>3. QED
    BY <2>1, <2>2
<1>11. CASE chunk.choices # "one"
  <2>1. ConvertChunk(before, chunk) = s
    BY <1>3, <1>11
  <2>2. QED
    BY <1>1, <1>2, <2>1, Zenon DEF Converts
<1>12. CASE chunk.choices = "one"
  <2>1. CASE tags.state.inThinking /\ tags.content # <<>>
    <3>1. ConvertChunk(before, chunk) = emitReasoningDelta(tags.state, tags.content)
      BY <1>3, <1>12, <2>1, Zenon
    <3>2. QED
      BY <1>6, <1>12, <3>1, Zenon DEF Converts
  <2>2. CASE ~(tags.state.inThinking /\ tags.content # <<>>)
    <3>1. ConvertChunk(before, chunk) = finish(called, chunk)
      BY <1>3, <1>12, <2>2, Zenon
    <3>2. QED
      BY <1>10, <1>12, <3>1, Zenon DEF Converts
  <2>3. QED
    BY <2>1, <2>2, Zenon
<1>13. QED
  BY <1>11, <1>12

\* Flush ends a response that has not ended, and writes nothing otherwise.
LEMMA FlushChatEnds ==
    ASSUME NEW before, IsState(before), before.completed \in BOOLEAN
    PROVE  IF before.completed
           THEN Quiet(FlushChat(before), TRUE) /\ FlushChat(before).out = <<>>
           ELSE Ending(FlushChat(before))
<1> DEFINE c == before.completed
           s == [before EXCEPT !.out = <<>>]
<1>1. Quiet(s, c) /\ s.out = <<>> /\ s.completed = c
  <2>1. /\ DOMAIN s = DOMAIN before /\ s.out = <<>> /\ s.completed = c
        /\ s.msgs = before.msgs /\ s.calls = before.calls
    BY DEF IsState, Fields
  <2> HIDE DEF s
  <2>2. QED
    BY <2>1, EmptyOf DEF Quiet, IsState
<1>2. FlushChat(before) = IF s.completed THEN s ELSE closeAll(s)
  BY Zenon DEF FlushChat, flushEvents
<1> HIDE DEF s
<1>3. IF c THEN Quiet(closeAll(s), TRUE) ELSE Ending(closeAll(s))
  BY <1>1, CloseAllEnds
<1>4. QED
  BY <1>1, <1>2, <1>3

-----------------------------------------------------------------------------
\* The fields of a chunk.
LEMMA ChunkFields ==
    /\ DOMAIN Chunk = {"choices", "index", "role", "reason", "content", "calls", "finish",
                       "usage", "error"}
    /\ Chunk.calls = <<>>
BY Zenon DEF Chunk

\* The calls of every chunk an upstream sends are a sequence.
LEMMA ChunkCalls ==
    ASSUME NEW n, NEW c \in UsualChat(n) \cup UnusualChat(n)
    PROVE  IsSeq(c.calls)
<1>1. ASSUME NEW tc PROVE IsSeq(<<tc>>)
  <2>1. <<tc>> \in Seq({tc})
    OBVIOUS
  <2>2. QED
    BY <2>1, IsSeqOf
<1>2. IsSeq(Chunk.calls)
  BY ChunkFields, EmptyOf
<1> DEFINE Good(d) == d.calls = Chunk.calls \/ \E tc : d.calls = <<tc>>
<1>3. Good(c)
  <2>1. CASE c \in {TextChunk(n), ReasonChunk(n), UsageChunk(Reported(5, 4)), Chunk}
    BY <2>1, ChunkFields DEF TextChunk, ReasonChunk, UsageChunk
  <2>2. CASE \E i \in CallIndexes : c = CallChunk(i) \/ c = ArgsChunk(i, n)
    <3>1. PICK i \in CallIndexes : c = CallChunk(i) \/ c = ArgsChunk(i, n)
      BY <2>2
    <3>2. \/ c.calls = <<Call(i, i, Names[i], <<>>)>>
          \/ c.calls = <<Call(i, NoId, <<>>, <<n>>)>>
      BY <3>1, ChunkFields, Zenon DEF CallChunk, ArgsChunk
    <3>3. QED
      BY <3>2, Zenon
  <2>3. CASE \E r, u : c = FinishChunk(r, u)
    BY <2>3, ChunkFields DEF FinishChunk
  <2>4. CASE c \in UnusualChat(n)
    <3>1. \/ \E t : c = [Chunk EXCEPT !.content = t]
          \/ \E tc : c = [Chunk EXCEPT !.calls = <<tc>>]
          \/ \E t, v : c = [Chunk EXCEPT !.content = t, !.finish = v]
          \/ \E t, v : c = [Chunk EXCEPT !.content = t, !.index = v]
          \/ c = [Chunk EXCEPT !.role = TRUE]
          \/ c = Chunk
          \/ c = [Chunk EXCEPT !.choices = "none", !.error = TRUE]
          \/ c = [Chunk EXCEPT !.choices = "broken"]
      BY <2>4, Zenon DEF UnusualChat
    <3>2. QED
      BY <3>1, ChunkFields
  <2>5. \/ c \in {TextChunk(n), ReasonChunk(n), UsageChunk(Reported(5, 4)), Chunk}
        \/ \E i \in CallIndexes : c = CallChunk(i) \/ c = ArgsChunk(i, n)
        \/ \E r, u : c = FinishChunk(r, u)
        \/ c \in UnusualChat(n)
    BY DEF UsualChat
  <2>6. QED
    BY <2>1, <2>2, <2>3, <2>4, <2>5
<1>4. QED
  BY <1>1, <1>2, <1>3

\* What classifyDataLine may make of a line, and of what the relays write.
LEMMA LineFields ==
    /\ OtherLine.class = "other" /\ DoneLine.class = "done" /\ JunkLine.class = "junk"
    /\ NullLine.class = "null" /\ ScalarLine.class = "scalar"
    /\ \A o : Data(o).class = "object" /\ Data(o).obj = o
BY DEF OtherLine, DoneLine, JunkLine, NullLine, ScalarLine, Data

\* The classes of the lines a body brings.
LEMMA LineCases ==
    ASSUME NEW lines, NEW format \in {"chat", "responses"}, NEW line \in AnyLine(format, lines)
    PROVE  /\ line.class \in {"other", "scalar", "done", "junk", "null", "object"}
           /\ line.class = "done" <=> line = DoneLine
           /\ IsObject(line) /\ format = "chat" => IsSeq(line.obj.calls)
<1>1. CASE line \in {OtherLine, DoneLine, JunkLine, NullLine, ScalarLine}
  BY <1>1, LineFields DEF IsObject
<1>2. CASE \E o : line = Data(o) /\ (format = "chat" => IsSeq(o.calls))
  BY <1>2, LineFields DEF IsObject
<1> DEFINE n == Len(lines) + 1
<1>3. line \in {OtherLine, DoneLine, JunkLine, NullLine, ScalarLine}
              \cup {Data(o) : o \in IF format = "chat" THEN UsualChat(n) \cup UnusualChat(n)
                                    ELSE UsualResp(lines, n) \cup UnusualResp(n)}
  BY Zenon DEF AnyLine
<1> HIDE DEF n
<1>4. QED
  BY <1>1, <1>2, <1>3, ChunkCalls

-----------------------------------------------------------------------------
\* Where the terminal events and the sentinels are in a sequence of lines.
TerminalsOf(o) == {i \in DOMAIN o : IsObject(o[i]) /\ Terminal(o[i].obj)}
DonesOf(o) == {i \in DOMAIN o : o[i] = DoneLine}

\* What one more line tells.
LEMMA AppendTells ==
    ASSUME NEW o, IsSeq(o), NEW l
    PROVE  /\ TerminalsOf(Append(o, l)) = TerminalsOf(o)
                 \cup IF IsObject(l) /\ Terminal(l.obj) THEN {Len(o) + 1} ELSE {}
           /\ DonesOf(Append(o, l)) = DonesOf(o) \cup IF l = DoneLine THEN {Len(o) + 1} ELSE {}
<1> DEFINE o2 == Append(o, l)
<1>1. /\ IsSeq(o2) /\ Len(o2) = Len(o) + 1
      /\ \A i \in 1..Len(o) : o2[i] = o[i]
      /\ o2[Len(o) + 1] = l
  BY AppendOf
<1> HIDE DEF o2
<1>2. Len(o) \in Nat /\ DOMAIN o = 1..Len(o) /\ DOMAIN o2 = 1..(Len(o) + 1)
  BY <1>1, KnownSeq
<1>3. DOMAIN o2 = DOMAIN o \cup {Len(o) + 1} /\ Len(o) + 1 \notin DOMAIN o
  BY <1>2
<1>4. \A i \in DOMAIN o : o2[i] = o[i]
  BY <1>1, <1>2
<1>5. TerminalsOf(o2) = TerminalsOf(o)
                 \cup IF IsObject(l) /\ Terminal(l.obj) THEN {Len(o) + 1} ELSE {}
  BY <1>1, <1>3, <1>4 DEF TerminalsOf
<1>6. DonesOf(o2) = DonesOf(o) \cup IF l = DoneLine THEN {Len(o) + 1} ELSE {}
  BY <1>1, <1>3, <1>4 DEF DonesOf
<1>7. QED
  BY <1>5, <1>6 DEF o2

\* The lines the translator's events become.
Framed(es) == [i \in DOMAIN es |-> Data(es[i])]

\* What the translator's events tell, behind the lines o.
LEMMA FramedTells ==
    ASSUME NEW o, IsSeq(o), \A i \in DOMAIN o : IsObject(o[i]), NEW es, IsSeq(es)
    PROVE  LET o2 == o \o Framed(es) IN
           /\ IsSeq(o2) /\ Len(o2) = Len(o) + Len(es)
           /\ \A i \in DOMAIN o2 : IsObject(o2[i])
           /\ TerminalsOf(o2) = TerminalsOf(o) \cup {Len(o) + i : i \in {j \in DOMAIN es : Terminal(es[j])}}
<1> DEFINE f == Framed(es)
           o2 == o \o f
<1>0. Len(o) \in Nat /\ DOMAIN o = 1..Len(o) /\ Len(es) \in Nat /\ DOMAIN es = 1..Len(es)
  BY KnownSeq
<1>1. f \in Seq({Data(es[i]) : i \in DOMAIN es}) /\ Len(f) = Len(es)
  BY <1>0 DEF Framed
<1>2. IsSeq(f) /\ \A i \in 1..Len(es) : f[i] = Data(es[i])
  <2>1. IsSeq(f)
    BY <1>1, IsSeqOf
  <2>2. QED
    BY <1>0, <2>1 DEF Framed
<1> HIDE DEF f
<1>3. /\ IsSeq(o2) /\ Len(o2) = Len(o) + Len(es)
      /\ \A i \in 1..Len(o) : o2[i] = o[i]
      /\ \A i \in 1..Len(es) : o2[Len(o) + i] = f[i]
  <2>1. /\ IsSeq(o2) /\ Len(o2) = Len(o) + Len(f)
        /\ \A i \in 1..Len(o) : o2[i] = o[i]
        /\ \A i \in 1..Len(f) : o2[Len(o) + i] = f[i]
    BY <1>2, ConcatOf
  <2> HIDE DEF o2
  <2>2. QED
    BY <1>1, <2>1
<1> HIDE DEF o2
<1>4. DOMAIN o2 = 1..(Len(o) + Len(es))
  BY <1>3, KnownSeq
<1>5. \A i \in 1..Len(es) : o2[Len(o) + i].class = "object" /\ o2[Len(o) + i].obj = es[i]
  BY <1>2, <1>3, LineFields
<1>6. ASSUME NEW i \in DOMAIN o2
      PROVE  \/ i \in 1..Len(o)
             \/ \E j \in 1..Len(es) : i = Len(o) + j
  <2>1. CASE i > Len(o)
    <3>1. i - Len(o) \in 1..Len(es) /\ i = Len(o) + (i - Len(o))
      BY <1>0, <1>4, <2>1
    <3>2. QED
      BY <3>1
  <2>2. QED
    BY <1>0, <1>4, <2>1
<1>7. \A i \in DOMAIN o2 : IsObject(o2[i])
  BY <1>0, <1>3, <1>5, <1>6 DEF IsObject
<1>8. \A i \in 1..Len(o) : i \in DOMAIN o2
  BY <1>0, <1>4
<1>9. \A i \in 1..Len(es) : Len(o) + i \in DOMAIN o2
  BY <1>0, <1>4
<1>10. TerminalsOf(o2) = TerminalsOf(o) \cup {Len(o) + i : i \in {j \in DOMAIN es : Terminal(es[j])}}
  <2>1. ASSUME NEW i \in TerminalsOf(o2)
        PROVE  i \in TerminalsOf(o) \cup {Len(o) + k : k \in {j \in DOMAIN es : Terminal(es[j])}}
    <3>0. i \in DOMAIN o2 /\ IsObject(o2[i]) /\ Terminal(o2[i].obj)
      BY DEF TerminalsOf
    <3>1. CASE i \in 1..Len(o)
      BY <1>0, <1>3, <3>0, <3>1 DEF TerminalsOf
    <3>2. CASE \E j \in 1..Len(es) : i = Len(o) + j
      BY <1>0, <1>5, <3>0, <3>2
    <3>3. QED
      BY <1>6, <3>0, <3>1, <3>2
  <2>2. ASSUME NEW i \in TerminalsOf(o) PROVE i \in TerminalsOf(o2)
    BY <1>0, <1>3, <1>8 DEF TerminalsOf
  <2>3. ASSUME NEW j \in DOMAIN es, Terminal(es[j]) PROVE Len(o) + j \in TerminalsOf(o2)
    BY <1>0, <1>5, <1>9, <2>3 DEF TerminalsOf, IsObject
  <2>4. QED
    BY <2>1, <2>2, <2>3
<1>11. QED
  BY <1>3, <1>7, <1>10 DEF o2, f

\* Joining is associative.
LEMMA ConcatAssoc ==
    ASSUME NEW s, IsSeq(s), NEW t, IsSeq(t), NEW u, IsSeq(u)
    PROVE  s \o (t \o u) = (s \o t) \o u
<1> DEFINE S == (ToSet(s) \cup ToSet(t)) \cup ToSet(u)
<1>1. s \in Seq(S) /\ t \in Seq(S) /\ u \in Seq(S)
  BY SeqMonotonic DEF IsSeq
<1> HIDE DEF S
<1>2. QED
  BY <1>1, ConcatAssociative

\* Joining nothing changes nothing.
LEMMA ConcatEmpty ==
    ASSUME NEW s, IsSeq(s)
    PROVE  s \o <<>> = s /\ <<>> \o s = s
BY ConcatEmptySeq DEF IsSeq

-----------------------------------------------------------------------------
\* How the events es of one call of Convert take a response that is completed
\* or not, by c, to c2.
Moves(c, c2, es, ends) ==
    /\ IsSeq(es)
    /\ \/ c2 = c /\ \A i \in DOMAIN es : ~Terminal(es[i])
       \/ /\ ~c /\ c2 = TRUE /\ ends
          /\ Len(es) > 0 /\ \A i \in DOMAIN es : Terminal(es[i]) <=> i = Len(es)

\* What a translated client has been told: nothing but events, and whether
\* the response ended.
TranslateTold(o, c) ==
    /\ IsSeq(o) /\ \A i \in DOMAIN o : IsObject(o[i])
    /\ c \in BOOLEAN
    /\ c <=> TerminalsOf(o) # {}

\* A client told by such events knows that the response ended, with the last
\* line, when they end it.
LEMMA MovesTell ==
    ASSUME NEW o, NEW c, NEW c2, NEW es, NEW ends \in BOOLEAN,
           TranslateTold(o, c), Moves(c, c2, es, ends)
    PROVE  /\ TranslateTold(o \o Framed(es), c2)
           /\ c = FALSE /\ c2 = TRUE =>
                 TerminalsOf(o \o Framed(es)) = {Len(o \o Framed(es))} /\ ends = TRUE
<1> DEFINE o2 == o \o Framed(es)
<1>1. /\ IsSeq(o2) /\ Len(o2) = Len(o) + Len(es)
      /\ \A i \in DOMAIN o2 : IsObject(o2[i])
      /\ TerminalsOf(o2) = TerminalsOf(o) \cup {Len(o) + i : i \in {j \in DOMAIN es : Terminal(es[j])}}
  BY FramedTells DEF TranslateTold, Moves
<1>2. Len(es) \in Nat /\ DOMAIN es = 1..Len(es) /\ Len(o) \in Nat
  BY KnownSeq DEF Moves, TranslateTold
<1> HIDE DEF o2
<1>3. CASE c2 = c /\ \A i \in DOMAIN es : ~Terminal(es[i])
  <2>1. TerminalsOf(o2) = TerminalsOf(o)
    BY <1>1, <1>3
  <2>2. QED
    BY <1>1, <1>3, <2>1 DEF TranslateTold, o2
<1>4. CASE /\ ~c /\ c2 = TRUE /\ ends
           /\ Len(es) > 0 /\ \A i \in DOMAIN es : Terminal(es[i]) <=> i = Len(es)
  <2>1. {j \in DOMAIN es : Terminal(es[j])} = {Len(es)}
    BY <1>2, <1>4
  <2>2. TerminalsOf(o) = {}
    BY <1>4 DEF TranslateTold
  <2>3. TerminalsOf(o2) = {Len(o2)}
    BY <1>1, <2>1, <2>2
  <2>4. QED
    BY <1>1, <1>4, <2>3 DEF TranslateTold, o2
<1>5. QED
  BY <1>3, <1>4 DEF Moves

\* No events, no lines.
LEMMA NothingFramed ==
    ASSUME NEW o, IsSeq(o)
    PROVE  o \o Framed(<<>>) = o
<1>1. Framed(<<>>) = <<>>
  BY DEF Framed
<1>2. QED
  BY <1>1, ConcatEmpty

\* The fields of a relay.
RelayFields == {"synthesis", "terminalSeen", "doneSent", "totalLen", "tracked", "chatToResp",
                "respToChat", "out"}

\* A relay that translates chat chunks, and has written w in this call.
Translator(r, w) ==
    /\ RelayFields \subseteq DOMAIN r
    /\ IsState(r.chatToResp) /\ r.chatToResp.completed \in BOOLEAN
    /\ IsSeq(w) /\ r.out = w

\* writeItems frames the events of a call behind what the call has written.
LEMMA WriteItemsOut ==
    ASSUME source = "responses", NEW r, NEW w, Translator(r, w), NEW s, IsState(s),
           s.completed \in BOOLEAN
    PROVE  LET r2 == writeItems([r EXCEPT !.chatToResp = s], s.out) IN
           /\ Translator(r2, w \o Framed(s.out)) /\ r2.chatToResp = s
<1> DEFINE t == [r EXCEPT !.chatToResp = s]
           f == Framed(s.out)
           r2 == [t EXCEPT !.out = t.out \o f]
<1>1. writeItems(t, s.out) = r2
  BY DEF writeItems, Framed
<1>2. IsSeq(f)
  <2>1. Len(s.out) \in Nat /\ DOMAIN s.out = 1..Len(s.out)
    BY KnownSeq DEF IsState
  <2>2. f \in Seq({Data(s.out[i]) : i \in DOMAIN s.out})
    BY <2>1 DEF Framed
  <2>3. QED
    BY <2>2, IsSeqOf
<1> HIDE DEF f
<1>3. /\ DOMAIN r2 = DOMAIN r /\ r2.chatToResp = s /\ r2.out = w \o f
  BY DEF Translator, RelayFields
<1> HIDE DEF r2
<1>4. IsSeq(w \o f)
  BY <1>2, ConcatOf DEF Translator
<1>5. Translator(r2, w \o f)
  BY <1>3, <1>4 DEF Translator
<1>6. QED
  BY <1>1, <1>3, <1>5 DEF f

\* One line through the translating relay.
LEMMA TranslateLineMoves ==
    ASSUME source = "responses", NEW r, Translator(r, <<>>), NEW lines,
           NEW line \in AnyLine("chat", lines)
    PROVE  LET r2 == translateLine(r, line)
               c == line.obj
           IN \E es :
                /\ Translator(r2, Framed(es))
                /\ Moves(r.chatToResp.completed, r2.chatToResp.completed, es,
                         IsObject(line) /\ c.choices = "one" /\ c.finish # "")
                /\ (IsObject(line) /\ c.choices = "one") \/ es = <<>>
<1>1. CASE ~IsObject(line)
  <2>1. translateLine(r, line) = r
    BY <1>1 DEF translateLine
  <2>2. Framed(<<>>) = <<>>
    BY DEF Framed
  <2>3. Moves(r.chatToResp.completed, r.chatToResp.completed, <<>>,
              IsObject(line) /\ line.obj.choices = "one" /\ line.obj.finish # "")
    BY EmptyOf, Zenon DEF Moves
  <2>4. QED
    BY <2>1, <2>2, <2>3, Zenon
<1>2. CASE IsObject(line)
  <2> DEFINE c == line.obj
             a == IF c.choices = "one" THEN accumulate(r, c) ELSE r
             t == track(a, "chat", c)
             s == ConvertChunk(t.chatToResp, c)
             ends == c.choices = "one" /\ c.finish # ""
  <2>1. translateLine(r, line) = writeItems([t EXCEPT !.chatToResp = s], s.out)
    BY <1>2, Zenon DEF translateLine, translateChunk
  <2>2. Translator(a, <<>>) /\ a.chatToResp = r.chatToResp
    BY DEF accumulate, Translator, RelayFields
  <2> HIDE DEF a
  <2>3. Translator(t, <<>>) /\ t.chatToResp = r.chatToResp
    BY <2>2 DEF track, Translator, RelayFields
  <2> HIDE DEF t
  <2>4. IsSeq(c.calls)
    BY <1>2, LineCases
  <2>5. /\ Converts(s, t.chatToResp.completed, ends)
        /\ c.choices # "one" => s.out = <<>>
    BY <2>3, <2>4, ConvertChunkEnds DEF Translator
  <2> HIDE DEF s, ends
  <2>6. /\ IsState(s) /\ s.completed \in BOOLEAN
        /\ Moves(r.chatToResp.completed, s.completed, s.out, ends)
    <3>1. CASE Quiet(s, t.chatToResp.completed)
      BY <2>3, <3>1 DEF Quiet, IsState, Moves, Translator
    <3>2. CASE ~t.chatToResp.completed /\ ends /\ Ending(s)
      BY <2>3, <3>2 DEF Ending, IsState, Moves
    <3>3. QED
      BY <2>5, <3>1, <3>2 DEF Converts
  <2> DEFINE r2 == writeItems([t EXCEPT !.chatToResp = s], s.out)
  <2>7. Translator(r2, <<>> \o Framed(s.out)) /\ r2.chatToResp = s
    BY <2>3, <2>6, WriteItemsOut
  <2> HIDE DEF r2
  <2>8. Translator(r2, Framed(s.out))
    BY <2>7 DEF Translator
  <2>9. Moves(r.chatToResp.completed, r2.chatToResp.completed, s.out,
              IsObject(line) /\ c.choices = "one" /\ c.finish # "")
    BY <1>2, <2>6, <2>7, Zenon DEF ends
  <2>10. QED
    BY <1>2, <2>1, <2>5, <2>8, <2>9, Zenon DEF r2
<1>3. QED
  BY <1>1, <1>2

\* The end of the body.
LEMMA TranslateFlushMoves ==
    ASSUME source = "responses", NEW r, NEW w, Translator(r, w)
    PROVE  \E es :
              /\ translateFlush(r).out = w \o Framed(es)
              /\ Moves(r.chatToResp.completed, TRUE, es, TRUE)
              /\ r.chatToResp.completed => es = <<>>
<1> DEFINE c == r.chatToResp.completed
           s == FlushChat(r.chatToResp)
           r2 == writeItems([r EXCEPT !.chatToResp = s], s.out)
<1>1. translateFlush(r) = r2
  BY Zenon DEF translateFlush
<1>2. IF c THEN Quiet(s, TRUE) /\ s.out = <<>> ELSE Ending(s)
  BY FlushChatEnds DEF Translator
<1> HIDE DEF s
<1>3. /\ IsState(s) /\ s.completed \in BOOLEAN
      /\ Moves(c, TRUE, s.out, TRUE)
  <2>1. CASE c
    BY <1>2, <2>1 DEF Quiet, IsState, Moves, Translator
  <2>2. CASE ~c
    BY <1>2, <2>2 DEF Ending, IsState, Moves
  <2>3. QED
    BY <2>1, <2>2
<1>4. Translator(r2, w \o Framed(s.out))
  BY <1>3, WriteItemsOut
<1> HIDE DEF r2
<1>5. r2.out = w \o Framed(s.out)
  BY <1>4 DEF Translator
<1>6. c => s.out = <<>>
  BY <1>2
<1>7. QED
  BY <1>1, <1>3, <1>5, <1>6, Zenon

-----------------------------------------------------------------------------
\* What a passthrough client has been told in o, as terminalSeen and doneSent
\* record it: that the response ended, and the sentinel at most once, after.
PassTold(o, seen, done) ==
    /\ IsSeq(o) /\ seen \in BOOLEAN /\ done \in BOOLEAN
    /\ seen <=> TerminalsOf(o) # {}
    /\ IF done THEN \E i : DonesOf(o) = {i} ELSE DonesOf(o) = {}
    /\ done => seen

\* And, of a conformant body: one terminal event, after all others, and the
\* sentinel after everything.
PassStrict(o, seen, done) ==
    /\ seen => \E k : TerminalsOf(o) = {k} /\ \A j \in DOMAIN o : IsObject(o[j]) => j <= k
    /\ done => o[Len(o)] = DoneLine

\* An event goes out as a line; the first one that is terminal ends the
\* response, after everything before it.
LEMMA ToldObject ==
    ASSUME NEW o, NEW seen, NEW done, PassTold(o, seen, done), NEW e
    PROVE  /\ PassTold(Append(o, Data(e)), seen \/ Terminal(e), done)
           /\ ~seen => PassStrict(Append(o, Data(e)), seen \/ Terminal(e), done)
<1> DEFINE l == Data(e)
           o2 == Append(o, l)
<1>0. IsSeq(o)
  BY DEF PassTold
<1>1. IsObject(l) /\ l.obj = e /\ l # DoneLine
  BY LineFields DEF IsObject
<1> HIDE DEF l
<1>2. /\ TerminalsOf(o2) = TerminalsOf(o) \cup IF Terminal(e) THEN {Len(o) + 1} ELSE {}
      /\ DonesOf(o2) = DonesOf(o)
  BY <1>0, <1>1, AppendTells
<1>3. IsSeq(o2) /\ Len(o2) = Len(o) + 1
  BY <1>0, AppendOf
<1> HIDE DEF o2
<1>4. DOMAIN o2 = 1..Len(o) + 1 /\ Len(o) \in Nat
  BY <1>0, <1>3, KnownSeq
<1>5. Terminal(e) \in BOOLEAN
  BY DEF Terminal
<1>6. PassTold(o2, seen \/ Terminal(e), done)
  BY <1>2, <1>3, <1>5 DEF PassTold
<1>7. ASSUME ~seen PROVE PassStrict(o2, seen \/ Terminal(e), done)
  <2>1. ~done /\ TerminalsOf(o) = {}
    BY <1>7 DEF PassTold
  <2>2. CASE Terminal(e)
    <3>1. TerminalsOf(o2) = {Len(o) + 1}
      BY <1>2, <2>1, <2>2
    <3>2. \A j \in DOMAIN o2 : j <= Len(o) + 1
      BY <1>4
    <3>3. QED
      BY <2>1, <3>1, <3>2 DEF PassStrict
  <2>3. CASE ~Terminal(e)
    BY <1>7, <2>1, <2>3 DEF PassStrict
  <2>4. QED
    BY <2>2, <2>3
<1>8. QED
  BY <1>6, <1>7 DEF o2, l

\* A line that is no event and no sentinel tells nothing.
LEMMA ToldOther ==
    ASSUME NEW o, NEW seen, NEW done, PassTold(o, seen, done), NEW l, ~IsObject(l), l # DoneLine
    PROVE  PassTold(Append(o, l), seen, done)
<1>0. IsSeq(o)
  BY DEF PassTold
<1>1. TerminalsOf(Append(o, l)) = TerminalsOf(o) /\ DonesOf(Append(o, l)) = DonesOf(o)
  BY <1>0, AppendTells
<1>2. IsSeq(Append(o, l))
  BY <1>0, AppendOf
<1>3. QED
  BY <1>1, <1>2 DEF PassTold

\* The sentinel, once the response has ended.
LEMMA ToldDone ==
    ASSUME NEW o, PassTold(o, TRUE, FALSE)
    PROVE  /\ PassTold(Append(o, DoneLine), TRUE, TRUE)
           /\ PassStrict(o, TRUE, FALSE) => PassStrict(Append(o, DoneLine), TRUE, TRUE)
<1> DEFINE o2 == Append(o, DoneLine)
<1>0. IsSeq(o)
  BY DEF PassTold
<1>1. ~IsObject(DoneLine)
  BY LineFields DEF IsObject
<1>2. /\ TerminalsOf(o2) = TerminalsOf(o)
      /\ DonesOf(o2) = DonesOf(o) \cup {Len(o) + 1}
  BY <1>0, <1>1, AppendTells
<1>3. /\ IsSeq(o2) /\ Len(o2) = Len(o) + 1
      /\ \A i \in 1..Len(o) : o2[i] = o[i]
      /\ o2[Len(o) + 1] = DoneLine
  BY <1>0, AppendOf
<1> HIDE DEF o2
<1>4. DOMAIN o2 = 1..Len(o) + 1 /\ DOMAIN o = 1..Len(o) /\ Len(o) \in Nat
  BY <1>0, <1>3, KnownSeq
<1>5. PassTold(o2, TRUE, TRUE)
  BY <1>2, <1>3 DEF PassTold
<1>6. ASSUME PassStrict(o, TRUE, FALSE) PROVE PassStrict(o2, TRUE, TRUE)
  <2>1. PICK k : TerminalsOf(o) = {k} /\ \A j \in DOMAIN o : IsObject(o[j]) => j <= k
    BY <1>6 DEF PassStrict
  <2>2. ASSUME NEW j \in DOMAIN o2, IsObject(o2[j]) PROVE j <= k
    <3>1. j # Len(o) + 1
      BY <1>1, <1>3, <2>2
    <3>2. j \in DOMAIN o /\ o2[j] = o[j]
      BY <1>3, <1>4, <3>1
    <3>3. QED
      BY <2>1, <2>2, <3>2
  <2>3. QED
    BY <1>2, <1>3, <2>1, <2>2 DEF PassStrict
<1>7. QED
  BY <1>5, <1>6 DEF o2

\* A passthrough relay whose client has b, and gets r.out after it.
Passes(r, b) ==
    /\ RelayFields \subseteq DOMAIN r
    /\ IsSeq(b) /\ IsSeq(r.out)
    /\ PassTold(b \o r.out, r.terminalSeen, r.doneSent)

\* Appending to the second of two joined sequences.
LEMMA ConcatAppend ==
    ASSUME NEW b, IsSeq(b), NEW s, IsSeq(s), NEW l
    PROVE  b \o Append(s, l) = Append(b \o s, l)
<1> DEFINE S == (ToSet(b) \cup ToSet(s)) \cup {l}
           o == b \o s
           q == <<l>>
<1>1. b \in Seq(S) /\ s \in Seq(S) /\ l \in S
  BY SeqMonotonic DEF IsSeq
<1>2. q \in Seq(S)
  BY <1>1
<1> HIDE DEF S
<1>3. o \in Seq(S)
  BY <1>1, ConcatProperties
<1> HIDE DEF o
<1>4. Append(o, l) = o \o q /\ Append(s, l) = s \o q
  BY <1>1, <1>3, AppendIsConcat
<1> HIDE DEF q
<1>5. b \o (s \o q) = o \o q
  <2>1. b \o (s \o q) = (b \o s) \o q
    BY <1>1, <1>2, ConcatAssociative
  <2>2. QED
    BY <2>1 DEF o
<1>6. QED
  BY <1>4, <1>5 DEF o

\* write adds one line to what the client gets.
LEMMA WriteOut ==
    ASSUME NEW r, RelayFields \subseteq DOMAIN r, NEW b, IsSeq(b), IsSeq(r.out), NEW l
    PROVE  LET r2 == write(r, l) IN
           /\ RelayFields \subseteq DOMAIN r2 /\ IsSeq(r2.out)
           /\ b \o r2.out = Append(b \o r.out, l)
           /\ r2.terminalSeen = r.terminalSeen /\ r2.doneSent = r.doneSent
           /\ DOMAIN r2 = DOMAIN r
<1> DEFINE r2 == write(r, l)
<1>1. /\ DOMAIN r2 = DOMAIN r /\ r2.out = Append(r.out, l)
      /\ r2.terminalSeen = r.terminalSeen /\ r2.doneSent = r.doneSent
  BY DEF write, RelayFields
<1> HIDE DEF r2
<1>2. IsSeq(r2.out)
  BY <1>1, AppendOf
<1>3. b \o r2.out = Append(b \o r.out, l)
  BY <1>1, ConcatAppend
<1>4. QED
  BY <1>1, <1>2, <1>3 DEF r2

\* emitResponsesDone leaves the client with a terminal event and a sentinel.
LEMMA DoneTells ==
    ASSUME NEW r, NEW b, Passes(r, b)
    PROVE  LET r2 == emitResponsesDone(r) IN
           /\ Passes(r2, b) /\ r2.terminalSeen = TRUE /\ r2.doneSent = TRUE
           /\ PassStrict(b \o r.out, r.terminalSeen, r.doneSent) =>
                 PassStrict(b \o r2.out, TRUE, TRUE)
<1> DEFINE s == synthesizeFailure(r)
<1>0. r.terminalSeen \in BOOLEAN /\ r.doneSent \in BOOLEAN
  BY DEF Passes, PassTold
<1>1. /\ Passes(s, b) /\ s.terminalSeen = TRUE
      /\ PassStrict(b \o r.out, r.terminalSeen, r.doneSent) =>
            PassStrict(b \o s.out, TRUE, s.doneSent)
  <2>1. CASE r.terminalSeen
    BY <1>0, <2>1 DEF synthesizeFailure
  <2>2. CASE ~r.terminalSeen
    <3> DEFINE w == write(r, Data(Failure))
               v == [w EXCEPT !.terminalSeen = TRUE]
    <3>1. s = v
      BY <2>2 DEF synthesizeFailure
    <3>2. Terminal(Failure)
      BY EventFields DEF Failure, Terminal, TerminalTypes
    <3>3. /\ RelayFields \subseteq DOMAIN w /\ IsSeq(w.out)
          /\ b \o w.out = Append(b \o r.out, Data(Failure))
          /\ w.doneSent = r.doneSent
      BY WriteOut DEF Passes
    <3> HIDE DEF w
    <3>4. /\ RelayFields \subseteq DOMAIN v /\ v.out = w.out /\ v.doneSent = r.doneSent
          /\ v.terminalSeen = TRUE
      BY <3>3 DEF RelayFields
    <3> HIDE DEF v
    <3>5. /\ PassTold(b \o v.out, r.terminalSeen \/ Terminal(Failure), r.doneSent)
          /\ PassStrict(b \o v.out, r.terminalSeen \/ Terminal(Failure), r.doneSent)
      BY <2>2, <3>3, <3>4, ToldObject DEF Passes
    <3>6. (r.terminalSeen \/ Terminal(Failure)) = TRUE
      BY <2>2, <3>2
    <3>7. QED
      BY <3>1, <3>3, <3>4, <3>5, <3>6 DEF Passes
  <2>3. QED
    BY <1>0, <2>1, <2>2
<1>2. emitResponsesDone(r) = sendDone(s)
  BY DEF emitResponsesDone
<1> HIDE DEF s
<1>3. s.doneSent \in BOOLEAN
  BY <1>1 DEF Passes, PassTold
<1>4. CASE s.doneSent
  <2>1. sendDone(s) = s /\ s.doneSent = TRUE
    BY <1>3, <1>4 DEF sendDone
  <2>2. QED
    BY <1>1, <1>2, <2>1
<1>5. CASE ~s.doneSent
  <2> DEFINE w == write(s, DoneLine)
             v == [w EXCEPT !.doneSent = TRUE]
  <2>1. sendDone(s) = v /\ s.doneSent = FALSE
    BY <1>3, <1>5 DEF sendDone
  <2>2. /\ RelayFields \subseteq DOMAIN w /\ IsSeq(w.out)
        /\ b \o w.out = Append(b \o s.out, DoneLine)
        /\ w.terminalSeen = s.terminalSeen
    BY <1>1, WriteOut DEF Passes
  <2> HIDE DEF w
  <2>3. /\ RelayFields \subseteq DOMAIN v /\ v.out = w.out /\ v.doneSent = TRUE
        /\ v.terminalSeen = TRUE
    BY <1>1, <2>2 DEF RelayFields
  <2> HIDE DEF v
  <2>4. PassTold(b \o s.out, TRUE, FALSE)
    BY <1>1, <2>1 DEF Passes
  <2>5. /\ PassTold(b \o v.out, TRUE, TRUE)
        /\ PassStrict(b \o s.out, TRUE, FALSE) => PassStrict(b \o v.out, TRUE, TRUE)
    BY <2>2, <2>3, <2>4, ToldDone
  <2>6. QED
    BY <1>1, <1>2, <2>1, <2>2, <2>3, <2>5 DEF Passes
<1>6. QED
  BY <1>3, <1>4, <1>5

\* One line through the passthrough relay of a Responses client.
LEMMA PassLineTells ==
    ASSUME source = "responses", NEW r, NEW b, Passes(r, b), NEW lines,
           NEW line \in AnyLine("responses", lines)
    PROVE  LET r2 == passLine(r, line) IN
           /\ Passes(r2, b)
           /\ line = DoneLine => r2 = emitResponsesDone(r)
           /\ IsObject(line) =>
                 /\ r2.terminalSeen = (r.terminalSeen \/ Terminal(line.obj))
                 /\ r2.doneSent = r.doneSent
                 /\ ~r.terminalSeen => PassStrict(b \o r2.out, r2.terminalSeen, r2.doneSent)
<1>0. /\ line.class \in {"other", "scalar", "done", "junk", "null", "object"}
      /\ line.class = "done" <=> line = DoneLine
  BY LineCases
<1>1. CASE line.class \in {"other", "scalar"}
  <2>1. passLine(r, line) = write(r, line)
    BY <1>1, Zenon DEF passLine, IsObject
  <2> DEFINE w == write(r, line)
  <2>2. /\ RelayFields \subseteq DOMAIN w /\ IsSeq(w.out)
        /\ b \o w.out = Append(b \o r.out, line)
        /\ w.terminalSeen = r.terminalSeen /\ w.doneSent = r.doneSent
    BY WriteOut DEF Passes
  <2> HIDE DEF w
  <2>3. ~IsObject(line) /\ line # DoneLine
    BY <1>0, <1>1 DEF IsObject
  <2>4. PassTold(b \o w.out, w.terminalSeen, w.doneSent)
    BY <2>2, <2>3, ToldOther DEF Passes
  <2>5. QED
    BY <2>1, <2>2, <2>3, <2>4 DEF Passes, w
<1>2. CASE line.class = "done"
  <2>1. passLine(r, line) = emitResponsesDone(r)
    BY <1>2, Zenon DEF passLine, IsObject
  <2>2. Passes(emitResponsesDone(r), b)
    BY DoneTells
  <2>3. ~IsObject(line)
    BY <1>2 DEF IsObject
  <2>4. QED
    BY <2>1, <2>2, <2>3
<1>3. CASE line.class \in {"junk", "null"}
  <2>1. passLine(r, line) = r
    BY <1>3, Zenon DEF passLine, IsObject
  <2>2. ~IsObject(line) /\ line # DoneLine
    BY <1>0, <1>3 DEF IsObject
  <2>3. QED
    BY <2>1, <2>2
<1>4. CASE line.class = "object"
  <2> DEFINE e == line.obj
             t == [r EXCEPT !.terminalSeen = r.terminalSeen \/ Terminal(e)]
             u == track(t, "responses", e)
             w == write(u, Data(e))
  <2>1. passLine(r, line) = w
    <3>1. passLine(r, line) = passEvent(r, e)
      BY <1>4, Zenon DEF passLine, IsObject
    <3>2. QED
      BY <3>1, Zenon DEF passEvent
  <2>2. /\ RelayFields \subseteq DOMAIN t /\ t.out = r.out /\ t.doneSent = r.doneSent
        /\ t.terminalSeen = (r.terminalSeen \/ Terminal(e))
    BY DEF Passes, RelayFields
  <2> HIDE DEF t
  <2>3. /\ RelayFields \subseteq DOMAIN u /\ u.out = r.out /\ u.doneSent = r.doneSent
        /\ u.terminalSeen = (r.terminalSeen \/ Terminal(e))
    BY <2>2 DEF track, RelayFields
  <2> HIDE DEF u
  <2>4. /\ RelayFields \subseteq DOMAIN w /\ IsSeq(w.out)
        /\ b \o w.out = Append(b \o r.out, Data(e))
        /\ w.terminalSeen = u.terminalSeen /\ w.doneSent = u.doneSent
    <3>1. IsSeq(b) /\ IsSeq(u.out)
      BY <2>3 DEF Passes
    <3>2. /\ RelayFields \subseteq DOMAIN w /\ IsSeq(w.out)
          /\ b \o w.out = Append(b \o u.out, Data(e))
          /\ w.terminalSeen = u.terminalSeen /\ w.doneSent = u.doneSent
      BY <2>3, <3>1, WriteOut
    <3> HIDE DEF w
    <3>3. QED
      BY <2>3, <3>2
  <2> HIDE DEF w
  <2>5. /\ PassTold(b \o w.out, w.terminalSeen, w.doneSent)
        /\ ~r.terminalSeen => PassStrict(b \o w.out, w.terminalSeen, w.doneSent)
    BY <2>3, <2>4, ToldObject DEF Passes
  <2>6. line # DoneLine
    BY <1>0, <1>4
  <2>7. Passes(w, b)
    BY <2>4, <2>5 DEF Passes
  <2>8. QED
    BY <2>1, <2>3, <2>4, <2>5, <2>6, <2>7
<1>5. QED
  BY <1>0, <1>1, <1>2, <1>3, <1>4

-----------------------------------------------------------------------------
\* While a translated stream is open: the translator knows whether it ended
\* the response, and ends it with the last event at a finish_reason.
Translating ==
    /\ Translator(relay, <<>>)
    /\ TranslateTold(out, relay.chatToResp.completed)
    /\ conformant /\ relay.chatToResp.completed => Finished(sent) /\ TerminalsOf(out) = {Len(out)}

\* While a passthrough stream is open: the relay knows what its client has,
\* and has ended what the body has ended.
Passing ==
    /\ Passes(relay, out) /\ relay.out = <<>>
    /\ conformant => /\ PassStrict(out, relay.terminalSeen, relay.doneSent)
                     /\ relay.terminalSeen => Ended(sent)
                     /\ relay.doneSent => Contains(sent, DoneLine)

\* The invariant of the streams: while one is open the relay is right about
\* what its client has been told; when it has closed, the client has been told
\* what it must be.
StreamInv ==
    /\ source \in {"chat", "responses"} /\ target \in {"chat", "responses"}
    /\ IsSeq(sent) /\ conformant \in BOOLEAN
    /\ source = "responses" /\ ending = "" => IF Translates THEN Translating ELSE Passing
    /\ ResponsesEndOnce

\* What Has says of the lines so far it says of the lines with one more.
LEMMA LinesGrow ==
    ASSUME NEW lines, IsSeq(lines), NEW l
    PROVE  /\ Finished(lines) => Finished(Append(lines, l))
           /\ IsObject(l) /\ l.obj.finish # "" => Finished(Append(lines, l))
           /\ Ended(lines) => Ended(Append(lines, l))
           /\ IsObject(l) /\ Terminal(l.obj) => Ended(Append(lines, l))
           /\ l = DoneLine => Contains(Append(lines, l), DoneLine)
           /\ IsSeq(Append(lines, l))
<1> DEFINE ls == Append(lines, l)
           n == Len(lines) + 1
<1>1. /\ IsSeq(ls) /\ Len(ls) = n /\ ls[n] = l
      /\ \A i \in 1..Len(lines) : ls[i] = lines[i]
  BY AppendOf
<1> HIDE DEF ls
<1>2. DOMAIN ls = 1..n /\ DOMAIN lines = 1..Len(lines) /\ Len(lines) \in Nat
  BY <1>1, KnownSeq
<1>3. n \in DOMAIN ls /\ \A i \in DOMAIN lines : i \in DOMAIN ls /\ ls[i] = lines[i]
  BY <1>1, <1>2
<1>4. Finished(lines) => Finished(ls)
  BY <1>3, Zenon DEF Finished, Has
<1>5. IsObject(l) /\ l.obj.finish # "" => Finished(ls)
  BY <1>1, <1>3, Zenon DEF Finished, Has
<1>6. Ended(lines) => Ended(ls)
  BY <1>3, Zenon DEF Ended, Has
<1>7. IsObject(l) /\ Terminal(l.obj) => Ended(ls)
  BY <1>1, <1>3, Zenon DEF Ended, Has
<1>8. l = DoneLine => Contains(ls, DoneLine)
  BY <1>1, <1>2 DEF Contains
<1>9. QED
  BY <1>1, <1>4, <1>5, <1>6, <1>7, <1>8 DEF ls

\* After the finish_reason of a conformant chat body nothing is translated.
LEMMA ChatAfterFinish ==
    ASSUME NEW lines, NEW l, ChatFollows(lines, l), Finished(lines)
    PROVE  ~(IsObject(l) /\ l.obj.choices = "one")
<1>1. l = DoneLine \/ l = Data(UsageChunk(Reported(5, 4)))
  BY Zenon DEF ChatFollows
<1>2. ~IsObject(DoneLine)
  BY LineFields DEF IsObject
<1>3. Data(UsageChunk(Reported(5, 4))).obj.choices = "none"
  <2>1. UsageChunk(Reported(5, 4)).choices = "none"
    BY ChunkFields DEF UsageChunk
  <2>2. QED
    BY <2>1, LineFields
<1>4. QED
  BY <1>1, <1>2, <1>3

\* A conformant Responses body goes on until its terminal event, then sends
\* the sentinel and nothing more.
LEMMA RespFollowsMeans ==
    ASSUME NEW lines, NEW l, RespFollows(lines, l)
    PROVE  /\ ~Contains(lines, DoneLine)
           /\ (l = DoneLine /\ Ended(lines)) \/ (IsObject(l) /\ ~Ended(lines))
BY Zenon DEF RespFollows

\* What ResponsesEndOnce asks of the lines o of a client that is translated
\* for or not, from a conformant body or not.
EndsOnce(o, translated, strict) ==
    /\ Cardinality(DonesOf(o)) = IF translated THEN 0 ELSE 1
    /\ TerminalsOf(o) # {}
    /\ strict => /\ Cardinality(TerminalsOf(o)) = 1
                 /\ \A i \in TerminalsOf(o), j \in DOMAIN o : IsObject(o[j]) => j <= i
                 /\ ~translated => Last(o) = DoneLine

\* A translated client that was told has got what it must.
LEMMA TranslateEndsOnce ==
    ASSUME NEW o, TranslateTold(o, TRUE), NEW strict \in BOOLEAN,
           strict => TerminalsOf(o) = {Len(o)}
    PROVE  EndsOnce(o, TRUE, strict)
<1>1. DonesOf(o) = {} /\ TerminalsOf(o) # {} /\ IsSeq(o)
  BY LineFields DEF TranslateTold, DonesOf, IsObject
<1>2. Cardinality(DonesOf(o)) = 0
  BY <1>1, FS_EmptySet
<1>3. DOMAIN o = 1..Len(o) /\ Len(o) \in Nat
  BY <1>1, KnownSeq
<1>4. ASSUME strict
      PROVE  /\ Cardinality(TerminalsOf(o)) = 1
             /\ \A i \in TerminalsOf(o), j \in DOMAIN o : IsObject(o[j]) => j <= i
  <2>1. TerminalsOf(o) = {Len(o)}
    BY <1>4
  <2>2. Cardinality(TerminalsOf(o)) = 1
    BY <2>1, FS_Singleton
  <2>3. QED
    BY <1>3, <2>1, <2>2
<1>5. QED
  BY <1>1, <1>2, <1>4 DEF EndsOnce

\* So has a passthrough client that got the sentinel.
LEMMA PassEndsOnce ==
    ASSUME NEW o, PassTold(o, TRUE, TRUE), NEW strict \in BOOLEAN,
           strict => PassStrict(o, TRUE, TRUE)
    PROVE  EndsOnce(o, FALSE, strict)
<1>1. Cardinality(DonesOf(o)) = 1 /\ TerminalsOf(o) # {}
  BY FS_Singleton DEF PassTold
<1>2. ASSUME strict
      PROVE  /\ Cardinality(TerminalsOf(o)) = 1
             /\ \A i \in TerminalsOf(o), j \in DOMAIN o : IsObject(o[j]) => j <= i
             /\ Last(o) = DoneLine
  <2>1. PICK k : TerminalsOf(o) = {k} /\ \A j \in DOMAIN o : IsObject(o[j]) => j <= k
    BY <1>2 DEF PassStrict
  <2>2. QED
    BY <1>2, <2>1, FS_Singleton DEF PassStrict, Last
<1>3. QED
  BY <1>1, <1>2 DEF EndsOnce

\* The relay starts with nothing told.
LEMMA StreamInit == Init => StreamInv
<1> SUFFICES ASSUME Init PROVE StreamInv
  OBVIOUS
<1>1. RelayInit
  BY DEF Init
<1>2. source \in {"chat", "responses"} /\ target \in {"chat", "responses"}
  BY <1>1, RelaysAssumption DEF RelayInit
<1>3. out = <<>> /\ sent = <<>> /\ IsSeq(out) /\ IsSeq(sent) /\ conformant = TRUE
  BY <1>1, EmptyOf DEF RelayInit
<1>4. ResponsesEndOnce
  <2>1. ending = ""
    BY <1>1, Zenon DEF RelayInit
  <2>2. ending \notin {"flush", "tail"}
    BY <2>1, Zenon
  <2>3. QED
    BY <2>2 DEF ResponsesEndOnce, Closes
<1>5. PICK synthesis \in BOOLEAN : relay = NewRelay(synthesis)
  BY <1>1 DEF RelayInit
<1>6. /\ RelayFields \subseteq DOMAIN relay
      /\ relay.terminalSeen = FALSE /\ relay.doneSent = FALSE /\ relay.out = <<>>
      /\ relay.chatToResp = NewChatToResp
  <2>1. /\ DOMAIN relay = RelayFields
        /\ relay.terminalSeen = FALSE /\ relay.doneSent = FALSE /\ relay.out = <<>>
        /\ relay.chatToResp = NewChatToResp
    BY <1>5, Zenon DEF NewRelay, RelayFields
  <2>2. QED
    BY <2>1
<1>7. IsState(NewChatToResp) /\ NewChatToResp.completed = FALSE
  <2>1. /\ DOMAIN NewChatToResp = Fields /\ NewChatToResp.completed = FALSE
        /\ NewChatToResp.out = <<>>
    BY Zenon DEF NewChatToResp, Fields
  <2>2. DOMAIN NewChatToResp.msgs = {} /\ DOMAIN NewChatToResp.calls = {}
    BY Zenon DEF NewChatToResp
  <2>3. QED
    BY <2>1, <2>2, EmptyOf, FS_EmptySet DEF IsState
<1>8. TerminalsOf(out) = {} /\ DonesOf(out) = {} /\ DOMAIN out = {}
  BY <1>3, EmptyOf DEF TerminalsOf, DonesOf
<1>9. Translating
  BY <1>3, <1>6, <1>7, <1>8 DEF Translating, Translator, TranslateTold
<1>10. Passing
  <2>1. out \o relay.out = out
    BY <1>3, <1>6, ConcatEmpty
  <2>2. QED
    BY <1>3, <1>6, <1>8, <2>1 DEF Passing, Passes, PassTold, PassStrict
<1>11. QED
  BY <1>2, <1>3, <1>4, <1>9, <1>10 DEF StreamInv

-----------------------------------------------------------------------------
\* Framed events are lines.
LEMMA FramedSeq ==
    ASSUME NEW es, IsSeq(es)
    PROVE  IsSeq(Framed(es))
<1>1. Len(es) \in Nat /\ DOMAIN es = 1..Len(es)
  BY KnownSeq
<1>2. Framed(es) \in Seq({Data(es[i]) : i \in DOMAIN es})
  BY <1>1 DEF Framed
<1>3. QED
  BY <1>2, IsSeqOf

\* A line through the translating relay keeps the stream's invariant.
LEMMA TranslateLineKeeps ==
    ASSUME Translating, IsSeq(sent), source = "responses", target = "chat",
           NEW line \in AnyLine(target, sent), Line(line)
    PROVE  Translating'
<1>0. Translates
  BY DEF Translates
<1> DEFINE r2 == translateLine(relay, line)
           c == relay.chatToResp.completed
           ends == IsObject(line) /\ line.obj.choices = "one" /\ line.obj.finish # ""
<1>1. /\ relay' = [r2 EXCEPT !.out = <<>>] /\ out' = out \o r2.out
      /\ sent' = Append(sent, line)
      /\ conformant' = (conformant /\ ChatFollows(sent, line))
  BY <1>0, Zenon DEF Line, Brings, Writes, ProcessLine, Follows
<1>2. PICK es :
        /\ Translator(r2, Framed(es))
        /\ Moves(c, r2.chatToResp.completed, es, ends)
        /\ (IsObject(line) /\ line.obj.choices = "one") \/ es = <<>>
  BY <1>0, TranslateLineMoves, Zenon DEF Translating
<1> HIDE DEF r2, ends
<1>3. ends \in BOOLEAN
  BY Zenon DEF ends
<1>4. out' = out \o Framed(es)
  BY <1>1, <1>2 DEF Translator
<1>5. /\ TranslateTold(out', r2.chatToResp.completed)
      /\ ~c /\ r2.chatToResp.completed => TerminalsOf(out') = {Len(out')} /\ ends
      /\ es = <<>> => out' = out
  <2>1. TranslateTold(out, c)
    BY <1>0 DEF Translating
  <2> DEFINE c2 == r2.chatToResp.completed
             o2 == out \o Framed(es)
  <2>0. Moves(c, c2, es, ends)
    BY <1>2
  <2> HIDE DEF c, c2
  <2>2. /\ TranslateTold(o2, c2)
        /\ ~c /\ c2 => TerminalsOf(o2) = {Len(o2)} /\ ends
        /\ es = <<>> => o2 = out
    <3>1. TranslateTold(o2, c2)
      BY <1>3, <2>0, <2>1, MovesTell
    <3>2. ~c /\ c2 => TerminalsOf(o2) = {Len(o2)} /\ ends
      <4>1. ASSUME c = FALSE, c2 = TRUE PROVE TerminalsOf(o2) = {Len(o2)} /\ ends = TRUE
        <5>1. TranslateTold(out, FALSE) /\ Moves(FALSE, TRUE, es, ends)
          BY <2>0, <2>1, <4>1
        <5>2. Moves(FALSE, TRUE, es, TRUE) /\ ends
          BY <5>1 DEF Moves
        <5>3. TerminalsOf(o2) = {Len(o2)}
          BY <5>1, <5>2, MovesTell
        <5>4. QED
          BY <1>3, <5>2, <5>3
      <4>2. c \in BOOLEAN /\ c2 \in BOOLEAN
        BY <2>1, <3>1 DEF TranslateTold
      <4>3. QED
        BY <4>1, <4>2
    <3>3. es = <<>> => o2 = out
      BY <2>1, NothingFramed DEF TranslateTold
    <3>4. QED
      BY <3>1, <3>2, <3>3
  <2>3. out' = o2
    BY <1>4
  <2> HIDE DEF o2
  <2>4. QED
    BY <2>2, <2>3 DEF c, c2
<1>6. Translator(relay', <<>>) /\ relay'.chatToResp = r2.chatToResp
  BY <1>1, <1>2, EmptyOf DEF Translator, RelayFields
<1>7. ASSUME conformant', r2.chatToResp.completed
      PROVE  Finished(sent') /\ TerminalsOf(out') = {Len(out')}
  <2>1. CASE c
    <3>1. Finished(sent) /\ TerminalsOf(out) = {Len(out)}
      BY <1>0, <1>1, <1>7, <2>1 DEF Translating
    <3>2. es = <<>>
      BY <1>1, <1>2, <1>7, <3>1, ChatAfterFinish
    <3>3. Finished(sent')
      BY <1>0, <1>1, <3>1, LinesGrow
    <3>4. QED
      BY <1>5, <3>1, <3>2, <3>3
  <2>2. CASE ~c
    <3>1. TerminalsOf(out') = {Len(out')} /\ ends
      BY <1>5, <1>7, <2>2
    <3>2. Finished(Append(sent, line))
      <4>1. IsObject(line) /\ line.obj.finish # ""
        BY <3>1, Zenon DEF ends
      <4>2. QED
        BY <1>0, <4>1, LinesGrow, Zenon
    <3>3. QED
      BY <1>1, <3>1, <3>2
  <2>3. QED
    BY <2>1, <2>2, Zenon
<1>8. QED
  BY <1>5, <1>6, <1>7 DEF Translating

\* The end of the body, after a whole line or inside one, ends a translated
\* response.
LEMMA TranslateEndKeeps ==
    ASSUME Translating, source = "responses", target = "chat", conformant \in BOOLEAN,
           BodyEnds \/ \E line \in AnyLine(target, sent) : BodyEndsInLine(line)
    PROVE  ResponsesEndOnce'
<1>0. Translates
  BY DEF Translates
<1>1. source' = "responses" /\ Translates'
  BY Zenon DEF BodyEnds, BodyEndsInLine, Translates
<1> DEFINE c == relay.chatToResp.completed
<1>2. CASE BodyEnds
  <2>1. PICK es :
          /\ translateFlush(relay).out = <<>> \o Framed(es)
          /\ Moves(c, TRUE, es, TRUE)
          /\ c => es = <<>>
    BY <1>0, TranslateFlushMoves DEF Translating
  <2>2. out' = out \o translateFlush(relay).out /\ conformant' = conformant
    BY <1>0, <1>2, Zenon DEF BodyEnds, Writes, Flush
  <2>3. out' = out \o Framed(es)
    <3>1. IsSeq(Framed(es))
      BY <2>1, FramedSeq DEF Moves
    <3>2. QED
      BY <2>1, <2>2, <3>1, ConcatEmpty
  <2> DEFINE o2 == out \o Framed(es)
  <2>4. /\ TranslateTold(o2, TRUE)
        /\ ~c => TerminalsOf(o2) = {Len(o2)}
        /\ es = <<>> => o2 = out
    <3>1. TranslateTold(out, c)
      BY <1>0 DEF Translating
    <3>2. Moves(c, TRUE, es, TRUE)
      BY <2>1
    <3> HIDE DEF c
    <3>3. QED
      <4>1. TranslateTold(o2, TRUE)
        BY <3>1, <3>2, MovesTell
      <4>2. ~c => TerminalsOf(o2) = {Len(o2)}
        <5>1. c = FALSE => TerminalsOf(o2) = {Len(o2)}
          BY <3>1, <3>2, MovesTell
        <5>2. QED
          BY <3>1, <5>1 DEF TranslateTold
      <4>3. es = <<>> => o2 = out
        BY <3>1, NothingFramed DEF TranslateTold
      <4>4. QED
        BY <4>1, <4>2, <4>3
  <2> HIDE DEF o2
  <2>5. conformant => TerminalsOf(o2) = {Len(o2)}
    <3>1. CASE c
      BY <1>0, <2>1, <2>4, <3>1 DEF Translating
    <3>2. QED
      BY <2>4, <3>1
  <2>6. EndsOnce(o2, TRUE, conformant)
    BY <1>0, <2>4, <2>5, TranslateEndsOnce
  <2>7. EndsOnce(out', TRUE, conformant')
    BY <2>2, <2>3, <2>6 DEF o2
  <2>8. QED
    BY <1>1, <2>7 DEF EndsOnce, ResponsesEndOnce, Terminals, DoneLines, TerminalsOf, DonesOf
<1>3. CASE \E line \in AnyLine(target, sent) : BodyEndsInLine(line)
  <2>1. PICK line \in AnyLine(target, sent) : BodyEndsInLine(line)
    BY <1>3
  <2> DEFINE r2 == translateLine(relay, line)
             ends == IsObject(line) /\ line.obj.choices = "one" /\ line.obj.finish # ""
  <2>2. out' = out \o translateFlush(r2).out /\ ending' = "tail"
    BY <1>0, <2>1, Zenon DEF BodyEndsInLine, Writes, Flush, ProcessTail
  <2>3. PICK es :
          /\ Translator(r2, Framed(es))
          /\ Moves(c, r2.chatToResp.completed, es, ends)
    BY <1>0, TranslateLineMoves, Zenon DEF Translating
  <2>4. ends \in BOOLEAN
    BY Zenon DEF ends
  <2> HIDE DEF r2, ends
  <2>5. PICK fs :
          /\ translateFlush(r2).out = Framed(es) \o Framed(fs)
          /\ Moves(r2.chatToResp.completed, TRUE, fs, TRUE)
    BY <2>3, TranslateFlushMoves
  <2>6. TranslateTold(out \o Framed(es), r2.chatToResp.completed)
    <3>1. TranslateTold(out, c)
      BY <1>0 DEF Translating
    <3> HIDE DEF c
    <3>2. QED
      BY <2>3, <2>4, <3>1, MovesTell
  <2>7. TranslateTold((out \o Framed(es)) \o Framed(fs), TRUE)
    <3> DEFINE o == out \o Framed(es)
    <3> HIDE DEF o
    <3>1. TranslateTold(o, r2.chatToResp.completed)
      BY <2>6 DEF o
    <3>2. TranslateTold(o \o Framed(fs), TRUE)
      BY <2>5, <3>1, MovesTell
    <3>3. QED
      BY <3>2 DEF o
  <2>8. out' = (out \o Framed(es)) \o Framed(fs)
    <3>1. IsSeq(Framed(fs))
      BY <2>5, FramedSeq DEF Moves
    <3>2. IsSeq(Framed(es)) /\ IsSeq(out)
      BY <1>0, <2>3 DEF Translator, Translating, TranslateTold
    <3>3. out \o (Framed(es) \o Framed(fs)) = (out \o Framed(es)) \o Framed(fs)
      <4> DEFINE f == Framed(es)
                 g == Framed(fs)
      <4>1. IsSeq(f) /\ IsSeq(g) /\ IsSeq(out)
        BY <3>1, <3>2
      <4> HIDE DEF f, g
      <4>2. out \o (f \o g) = (out \o f) \o g
        BY <4>1, ConcatAssoc
      <4>3. QED
        BY <4>2 DEF f, g
    <3>4. QED
      BY <2>2, <2>5, <3>3
  <2>9. EndsOnce((out \o Framed(es)) \o Framed(fs), TRUE, FALSE)
    BY <2>7, TranslateEndsOnce
  <2>10. EndsOnce(out', TRUE, FALSE)
    BY <2>8, <2>9
  <2>11. QED
    BY <1>1, <2>2, <2>10 DEF EndsOnce, ResponsesEndOnce, Terminals, DoneLines, TerminalsOf, DonesOf
<1>4. QED
  BY <1>2, <1>3

\* A line through the passthrough relay keeps the stream's invariant.
LEMMA PassLineKeeps ==
    ASSUME Passing, IsSeq(sent), source = "responses", target = "responses",
           NEW line \in AnyLine(target, sent), Line(line)
    PROVE  Passing'
<1> DEFINE r2 == passLine(relay, line)
<1>0. ~Translates
  BY DEF Translates
<1>1. /\ relay' = [r2 EXCEPT !.out = <<>>] /\ out' = out \o r2.out
      /\ sent' = Append(sent, line)
      /\ conformant' = (conformant /\ RespFollows(sent, line))
  <2>1. target # "chat"
    OBVIOUS
  <2>2. QED
    BY <1>0, <2>1, Zenon DEF Line, Brings, Writes, ProcessLine, Follows
<1>2. /\ Passes(r2, out)
      /\ line = DoneLine => r2 = emitResponsesDone(relay)
      /\ IsObject(line) =>
            /\ r2.terminalSeen = (relay.terminalSeen \/ Terminal(line.obj))
            /\ r2.doneSent = relay.doneSent
            /\ ~relay.terminalSeen => PassStrict(out \o r2.out, r2.terminalSeen, r2.doneSent)
  BY PassLineTells DEF Passing
<1> HIDE DEF r2
<1>3. /\ RelayFields \subseteq DOMAIN relay' /\ relay'.out = <<>>
      /\ relay'.terminalSeen = r2.terminalSeen /\ relay'.doneSent = r2.doneSent
  BY <1>1, <1>2 DEF Passes, RelayFields
<1>4. PassTold(out', relay'.terminalSeen, relay'.doneSent)
  BY <1>1, <1>2, <1>3 DEF Passes
<1>5. Passes(relay', out')
  <2>1. IsSeq(out')
    BY <1>4 DEF PassTold
  <2>2. out' \o relay'.out = out'
    BY <1>3, <2>1, ConcatEmpty
  <2>3. IsSeq(relay'.out)
    BY <1>3, EmptyOf
  <2>4. QED
    BY <1>3, <1>4, <2>1, <2>2, <2>3 DEF Passes
<1>6. out \o relay.out = out
  BY ConcatEmpty DEF Passing, Passes
<1>7. ASSUME conformant'
      PROVE  /\ PassStrict(out', relay'.terminalSeen, relay'.doneSent)
             /\ relay'.terminalSeen => Ended(sent')
             /\ relay'.doneSent => Contains(sent', DoneLine)
  <2>1. /\ conformant /\ ~Contains(sent, DoneLine)
        /\ (line = DoneLine /\ Ended(sent)) \/ (IsObject(line) /\ ~Ended(sent))
    BY <1>1, <1>7, RespFollowsMeans
  <2>2. CASE line = DoneLine /\ Ended(sent)
    <3>1. PassStrict(out \o relay.out, relay.terminalSeen, relay.doneSent)
      BY <1>6, <2>1 DEF Passing
    <3>2. PassStrict(out \o emitResponsesDone(relay).out, TRUE, TRUE)
          /\ emitResponsesDone(relay).terminalSeen = TRUE
          /\ emitResponsesDone(relay).doneSent = TRUE
      BY <3>1, DoneTells DEF Passing
    <3>3. Ended(sent') /\ Contains(sent', DoneLine)
      BY <1>1, <2>2, LinesGrow
    <3>4. QED
      BY <1>1, <1>2, <1>3, <2>2, <3>2, <3>3
  <2>3. CASE IsObject(line) /\ ~Ended(sent)
    <3>1. ~relay.terminalSeen /\ ~relay.doneSent
      BY <2>1, <2>3 DEF Passing
    <3>2. PassStrict(out', relay'.terminalSeen, relay'.doneSent)
      BY <1>1, <1>2, <1>3, <2>3, <3>1
    <3>3. relay'.terminalSeen => Terminal(line.obj)
      BY <1>2, <1>3, <2>3, <3>1
    <3>4. relay'.terminalSeen => Ended(sent')
      BY <1>1, <2>3, <3>3, LinesGrow
    <3>5. ~relay'.doneSent
      BY <1>2, <1>3, <2>3, <3>1
    <3>6. QED
      BY <3>2, <3>4, <3>5
  <2>4. QED
    BY <2>1, <2>2, <2>3
<1>8. QED
  BY <1>3, <1>5, <1>7 DEF Passing

\* Closing the stream adds to what was written.
LEMMA DoneKeepsLines ==
    ASSUME NEW r, NEW b, Passes(r, b), NEW i \in DOMAIN r.out
    PROVE  i \in DOMAIN emitResponsesDone(r).out /\ emitResponsesDone(r).out[i] = r.out[i]
<1> DEFINE Keeps(s) == /\ RelayFields \subseteq DOMAIN s /\ IsSeq(s.out)
                       /\ i \in DOMAIN s.out /\ s.out[i] = r.out[i]
           s == synthesizeFailure(r)
<1>1. ASSUME NEW q, Keeps(q), NEW l PROVE Keeps(write(q, l))
  <2>1. DOMAIN write(q, l) = DOMAIN q /\ write(q, l).out = Append(q.out, l)
    BY <1>1 DEF write, RelayFields
  <2>2. /\ IsSeq(Append(q.out, l)) /\ Len(Append(q.out, l)) = Len(q.out) + 1
        /\ \A j \in 1..Len(q.out) : Append(q.out, l)[j] = q.out[j]
    BY <1>1, AppendOf
  <2>3. Len(q.out) \in Nat /\ DOMAIN q.out = 1..Len(q.out)
    BY <1>1, KnownSeq
  <2>4. DOMAIN Append(q.out, l) = 1..(Len(q.out) + 1)
    BY <2>2, KnownSeq
  <2>5. QED
    BY <1>1, <2>1, <2>2, <2>3, <2>4
<1>2. ASSUME NEW q, Keeps(q), NEW k \in {"terminalSeen", "doneSent"} PROVE Keeps([q EXCEPT ![k] = TRUE])
  BY <1>2 DEF RelayFields
<1>3. Keeps(r)
  BY DEF Passes
<1> HIDE DEF Keeps
<1>4. Keeps(s)
  <2>1. Keeps(write(r, Data(Failure)))
    BY <1>1, <1>3
  <2>2. Keeps([write(r, Data(Failure)) EXCEPT !.terminalSeen = TRUE])
    BY <1>2, <2>1
  <2>3. QED
    BY <1>3, <2>2 DEF synthesizeFailure
<1> HIDE DEF s
<1>5. Keeps(sendDone(s))
  <2>1. Keeps(write(s, DoneLine))
    BY <1>1, <1>4
  <2>2. Keeps([write(s, DoneLine) EXCEPT !.doneSent = TRUE])
    BY <1>2, <2>1
  <2>3. QED
    BY <1>4, <2>2 DEF sendDone
<1>6. QED
  BY <1>5 DEF Keeps, s, emitResponsesDone

\* The end of the body, after a whole line or inside one, ends what a
\* passthrough client gets, unless the line that was cut went out.
LEMMA PassEndKeeps ==
    ASSUME Passing, source = "responses", target = "responses", conformant \in BOOLEAN,
           BodyEnds \/ \E line \in AnyLine(target, sent) : BodyEndsInLine(line)
    PROVE  ResponsesEndOnce'
<1>0. ~Translates /\ Passes(relay, out) /\ relay.out = <<>> /\ IsSeq(out)
  BY DEF Translates, Passing, Passes
<1>1. source' = "responses" /\ ~Translates'
  BY <1>0, Zenon DEF BodyEnds, BodyEndsInLine, Translates
<1>2. out \o relay.out = out
  BY <1>0, ConcatEmpty
<1>3. CASE BodyEnds
  <2> DEFINE r2 == emitResponsesDone(relay)
             o2 == out \o r2.out
  <2>1. out' = o2 /\ conformant' = conformant
    BY <1>0, <1>3, Zenon DEF BodyEnds, Writes, Flush, passFlush
  <2>2. /\ Passes(r2, out) /\ r2.terminalSeen = TRUE /\ r2.doneSent = TRUE
        /\ PassStrict(out \o relay.out, relay.terminalSeen, relay.doneSent) =>
              PassStrict(o2, TRUE, TRUE)
    BY <1>0, DoneTells
  <2> HIDE DEF r2
  <2>3. PassTold(o2, TRUE, TRUE)
    BY <2>2 DEF Passes
  <2>4. conformant => PassStrict(o2, TRUE, TRUE)
    BY <1>2, <2>2 DEF Passing
  <2> HIDE DEF o2
  <2>5. EndsOnce(o2, FALSE, conformant)
    BY <2>3, <2>4, PassEndsOnce
  <2>6. EndsOnce(out', FALSE, conformant')
    BY <2>1, <2>5
  <2>7. QED
    BY <1>1, <2>6 DEF EndsOnce, ResponsesEndOnce, Terminals, DoneLines, TerminalsOf, DonesOf
<1>4. CASE \E line \in AnyLine(target, sent) : BodyEndsInLine(line)
  <2>1. PICK line \in AnyLine(target, sent) : BodyEndsInLine(line)
    BY <1>4
  <2> DEFINE r2 == passTail(relay, line)
             r3 == emitResponsesDone(r2)
  <2>2. out' = out \o r3.out /\ ending' = "tail"
    BY <1>0, <2>1, Zenon DEF BodyEndsInLine, Writes, Flush, passFlush, ProcessTail
  <2>3. CASE line = DoneLine
    <3>1. r2 = emitResponsesDone(relay)
      BY <2>3 DEF passTail
    <3>2. Passes(r2, out)
      BY <1>0, <3>1, DoneTells
    <3> HIDE DEF r2
    <3>3. Passes(r3, out) /\ r3.terminalSeen = TRUE /\ r3.doneSent = TRUE
      BY <3>2, DoneTells
    <3> HIDE DEF r3
    <3>4. PassTold(out \o r3.out, TRUE, TRUE)
      BY <3>3 DEF Passes
    <3>5. EndsOnce(out \o r3.out, FALSE, FALSE)
      BY <3>4, PassEndsOnce
    <3>6. EndsOnce(out', FALSE, FALSE)
      BY <2>2, <3>5
    <3>7. QED
      BY <1>1, <2>2, <3>6 DEF EndsOnce, ResponsesEndOnce, Terminals, DoneLines, TerminalsOf, DonesOf
  <2>4. CASE line # DoneLine
    <3> DEFINE l == [class |-> "tail", line |-> line]
    <3>1. r2 = write(relay, l)
      BY <2>4 DEF passTail
    <3>2. l.class = "tail" /\ ~IsObject(l) /\ l # DoneLine
      BY LineFields DEF IsObject
    <3> HIDE DEF l
    <3>3. /\ RelayFields \subseteq DOMAIN r2 /\ IsSeq(r2.out)
          /\ out \o r2.out = Append(out \o relay.out, l)
          /\ r2.terminalSeen = relay.terminalSeen /\ r2.doneSent = relay.doneSent
      BY <1>0, <3>1, WriteOut DEF Passes
    <3>4. r2.out = Append(<<>>, l)
      BY <1>0, <3>1 DEF write, Passes, RelayFields
    <3> HIDE DEF r2
    <3>5. Passes(r2, out)
      <4>1. PassTold(out \o relay.out, relay.terminalSeen, relay.doneSent)
        BY <1>0 DEF Passes
      <4>2. PassTold(Append(out \o relay.out, l), relay.terminalSeen, relay.doneSent)
        BY <3>2, <4>1, ToldOther
      <4>3. QED
        BY <1>0, <3>3, <4>2 DEF Passes
    <3>6. 1 \in DOMAIN r2.out /\ r2.out[1] = l
      BY <3>4
    <3>7. 1 \in DOMAIN r3.out /\ r3.out[1] = l
      BY <3>5, <3>6, DoneKeepsLines
    <3>8. IsSeq(r3.out)
      BY <3>5, DoneTells DEF Passes
    <3> HIDE DEF r3
    <3>9. /\ IsSeq(out \o r3.out) /\ Len(out \o r3.out) = Len(out) + Len(r3.out)
          /\ \A i \in 1..Len(r3.out) : (out \o r3.out)[Len(out) + i] = r3.out[i]
      BY <1>0, <3>8, ConcatOf
    <3>10. /\ Len(out) \in Nat /\ Len(r3.out) \in Nat /\ DOMAIN r3.out = 1..Len(r3.out)
           /\ DOMAIN (out \o r3.out) = 1..Len(out \o r3.out)
      BY <1>0, <3>8, <3>9, KnownSeq
    <3>11. Len(out) + 1 \in DOMAIN (out \o r3.out) /\ (out \o r3.out)[Len(out) + 1] = l
      BY <3>7, <3>9, <3>10
    <3>12. Torn'
      BY <2>2, <3>2, <3>11 DEF Torn
    <3>13. QED
      BY <3>12 DEF ResponsesEndOnce, Closes
  <2>5. QED
    BY <2>3, <2>4
<1>5. QED
  BY <1>3, <1>4

-----------------------------------------------------------------------------
\* Every step of a stream keeps its invariant.
LEMMA StreamStep == StreamInv /\ [Next]_vars => StreamInv'
<1> SUFFICES ASSUME StreamInv, [Next]_vars PROVE StreamInv'
  OBVIOUS
<1>1. CASE UNCHANGED relayVars
  <2>1. /\ source' = source /\ target' = target /\ relay' = relay /\ out' = out
        /\ ending' = ending /\ sent' = sent /\ conformant' = conformant
    BY <1>1 DEF relayVars
  <2>2. ResponsesEndOnce' = ResponsesEndOnce
    BY <2>1, Zenon DEF ResponsesEndOnce, Closes, Torn, Terminals, DoneLines, Translates
  <2>3. Translating' = Translating /\ Passing' = Passing /\ Translates' = Translates
    BY <2>1, Zenon DEF Translating, Passing, Translates
  <2>4. QED
    BY <2>1, <2>2, <2>3, Zenon DEF StreamInv
<1>2. CASE RelayNext
  <2>0. source' = source /\ target' = target
    BY <1>2, Zenon DEF RelayNext, Line, BodyEnds, BodyEndsInLine, Aborts
  <2>1. IsSeq(sent') /\ conformant' \in BOOLEAN
    <3>1. \/ sent' = sent /\ conformant' = conformant
          \/ \E l, x : sent' = Append(sent, l) /\ conformant' = (conformant /\ x)
      BY <1>2, Zenon DEF RelayNext, Line, BodyEnds, BodyEndsInLine, Aborts, Brings
    <3>2. QED
      BY <3>1, AppendOf DEF StreamInv
  <2>2. CASE source # "responses"
    BY <2>0, <2>1, <2>2 DEF StreamInv, ResponsesEndOnce
  <2>3. CASE source = "responses"
    <3>0. /\ Translates <=> target = "chat"
          /\ ~Translates <=> target = "responses"
          /\ Translates' <=> Translates
      BY <2>0, <2>3 DEF Translates, StreamInv
    <3>1. ending = ""
      BY <1>2, Zenon DEF RelayNext, Line, BodyEnds, BodyEndsInLine, Aborts, Brings
    <3>2. IF Translates THEN Translating ELSE Passing
      BY <2>3, <3>1, Zenon DEF StreamInv
    <3>3. IsSeq(sent) /\ conformant \in BOOLEAN
      BY DEF StreamInv
    <3>4. CASE \E line \in AnyLine(target, sent) : Line(line)
      <4>1. PICK line \in AnyLine(target, sent) : Line(line)
        BY <3>4
      <4>2. IF Translates' THEN Translating' ELSE Passing'
        <5>1. CASE Translates
          <6>1. Translating'
            BY <2>3, <3>0, <3>2, <3>3, <4>1, <5>1, TranslateLineKeeps
          <6>2. QED
            BY <3>0, <5>1, <6>1
        <5>2. CASE ~Translates
          <6>1. Passing'
            BY <2>3, <3>0, <3>2, <3>3, <4>1, <5>2, PassLineKeeps
          <6>2. QED
            BY <3>0, <5>2, <6>1
        <5>3. QED
          BY <5>1, <5>2
      <4>3. ending' = ending
        BY <4>1, Zenon DEF Line
      <4>4. ending' \notin {"flush", "tail"}
        BY <3>1, <4>3, Zenon
      <4>5. ResponsesEndOnce'
        BY <4>4, Zenon DEF ResponsesEndOnce, Closes
      <4>6. QED
        BY <2>0, <2>1, <4>2, <4>5, Zenon DEF StreamInv
    <3>5. CASE BodyEnds \/ \E line \in AnyLine(target, sent) : BodyEndsInLine(line)
      <4>1. ResponsesEndOnce'
        <5>1. CASE Translates
          BY <2>3, <3>0, <3>2, <3>3, <3>5, <5>1, TranslateEndKeeps
        <5>2. CASE ~Translates
          BY <2>3, <3>0, <3>2, <3>3, <3>5, <5>2, PassEndKeeps
        <5>3. QED
          BY <5>1, <5>2
      <4>2. ending' = "flush" \/ ending' = "tail"
        BY <3>5, Zenon DEF BodyEnds, BodyEndsInLine
      <4>3. ending' # ""
        BY <4>2, Zenon
      <4>4. QED
        BY <2>0, <2>1, <4>1, <4>3, Zenon DEF StreamInv
    <3>6. CASE Aborts
      <4>1. ending' = "abort"
        BY <3>6, Zenon DEF Aborts
      <4>2. ending' # "" /\ ending' \notin {"flush", "tail"}
        BY <4>1, Zenon
      <4>3. ResponsesEndOnce'
        BY <4>2, Zenon DEF ResponsesEndOnce, Closes
      <4>4. QED
        BY <2>0, <2>1, <4>2, <4>3, Zenon DEF StreamInv
    <3>7. QED
      BY <1>2, <3>4, <3>5, <3>6, Zenon DEF RelayNext
  <2>4. QED
    BY <2>2, <2>3
<1>3. QED
  BY <1>1, <1>2 DEF Next, vars

\* At all times the relay's terminalSeen, doneSent and completed agree with
\* what its client has been told, and a stream that has closed was ended.
THEOREM StreamInvariant == Spec => []StreamInv
BY StreamInit, StreamStep, PTL DEF Spec

\* A Responses client knows how its response ended: when the relay closes the
\* stream, the client has a terminal event, whether the upstream sent one, the
\* translator completed the response at a finish_reason or in Flush, or the
\* passthrough relay synthesized the failure; it has [DONE] exactly once where
\* the relay sends it; and of a conformant body it has one terminal event, with
\* no event after it.
THEOREM ResponsesEnd == Spec => []ResponsesEndOnce
<1>1. StreamInv => ResponsesEndOnce
  BY DEF StreamInv
<1>2. QED
  BY <1>1, StreamInvariant, PTL

=============================================================================
