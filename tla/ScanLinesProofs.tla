-------------------------- MODULE ScanLinesProofs --------------------------
(***************************************************************************)
(* What the line scanner delivers and how a stream's end is judged, for    *)
(* bodies of any length and a channel of any capacity.                     *)
(***************************************************************************)
EXTENDS ScanLines, TLAPS, SequenceTheorems

-----------------------------------------------------------------------------
(***************************************************************************)
(* The inductive invariant.                                                *)
(***************************************************************************)

TypeOK ==
    /\ reader \in {"read", "push", "tail", "exited"}
    /\ cut \in Nat /\ total \in Nat
    /\ rest \in BOOLEAN /\ tails \in BOOLEAN /\ readErr \in BOOLEAN
    /\ readEnd \in {"nil", "EOF", "error"}
    /\ lines \in Seq(Nat) /\ delivered \in Seq(Nat)
    /\ progress \in BOOLEAN /\ canceled \in BOOLEAN /\ tailed \in BOOLEAN
    /\ timer \in {"armed", "fired"}
    /\ scan \in {"select", "fn", "returned", "done"}
    /\ result \in Results /\ ending \in Endings
    /\ silent \in BOOLEAN /\ left \in BOOLEAN /\ slow \in BOOLEAN

\* The lines of the body in three places: with fn, in the channel, in hand.
Numbered ==
    /\ \A i \in 1..Len(delivered) : delivered[i] = i
    /\ \A i \in 1..Len(lines) : lines[i] = Len(delivered) + i
    /\ Len(delivered) + Len(lines) + cut = total

\* Where the reader stands says what it has in hand; the tail waits for a body
\* that ended cleanly inside a line, all of whose lines are pushed.
ReaderPlace ==
    /\ reader = "read" => cut = 0
    /\ reader = "push" => cut > 0
    /\ reader = "tail" => cut = 0 /\ readEnd = "EOF" /\ rest
    /\ tails => reader = "exited" /\ cut = 0 /\ readEnd = "EOF" /\ rest

\* A reader that stopped without an error, and that nobody told to stop, has
\* nothing left to push.
ExitIsHonest ==
    reader = "exited" /\ ~left /\ ~readErr /\ scan # "done" =>
        readEnd = "EOF" /\ cut = 0 /\ (tails <=> rest)

\* Until stream() is over the context dies only because of the client, and
\* never comes back to life.
ContextIsTheClients ==
    /\ canceled /\ scan # "done" => left
    /\ left => canceled

\* What a result of the scan implies of the two goroutines.
ResultPlace ==
    /\ result # "none" <=> scan \in {"returned", "done"}
    /\ ending # "" => scan = "done"
    /\ result = "nil" => reader = "exited"
    /\ tailed => tails /\ lines = <<>> /\ scan \in {"returned", "done"}
    /\ result = "nil" /\ ~left => WholeBody

\* Bytes read since the last reset have left a ping behind.
BytesPing == ~silent => progress

\* The timer only fires on silence or during a write.
FiredForReason ==
    /\ timer = "fired" => silent \/ slow
    /\ result = "stall" => timer = "fired"

ScanInv ==
    /\ TypeOK /\ Numbered /\ ReaderPlace /\ ExitIsHonest
    /\ ContextIsTheClients /\ ResultPlace
    /\ BytesPing /\ FiredForReason
    /\ LeavingIsTheClients

-----------------------------------------------------------------------------
\* The invariant holds when the scan starts.
LEMMA ScanInit == Init => ScanInv
<1> SUFFICES ASSUME Init PROVE ScanInv
  OBVIOUS
<1>0. lines \in Seq(Nat) /\ delivered \in Seq(Nat) /\ Len(lines) = 0 /\ Len(delivered) = 0
  BY EmptySeq DEF Init
<1>1. TypeOK
  BY <1>0 DEF Init, TypeOK, Results, Endings
<1>2. Numbered /\ ReaderPlace
  <2>0. cut = 0 /\ total = 0
    BY DEF Init
  <2>1. Numbered
    BY <1>0, <2>0 DEF Numbered
  <2>2. ReaderPlace
    BY <1>1 DEF Init, ReaderPlace, TypeOK
  <2>3. QED
    BY <2>1, <2>2
<1>3. ExitIsHonest /\ ContextIsTheClients /\ ResultPlace
  BY DEF Init, ExitIsHonest, ContextIsTheClients, ResultPlace
<1>4. BytesPing /\ FiredForReason /\ LeavingIsTheClients
  BY DEF Init, BytesPing, FiredForReason, LeavingIsTheClients
<1>5. QED
  BY <1>1, <1>2, <1>3, <1>4 DEF ScanInv

\* Where a reader goes that has pushed every line of a chunk.
LEMMA AfterLinesCases ==
    ASSUME NEW end \in {"nil", "EOF", "error"}, NEW open \in BOOLEAN
    PROVE  /\ AfterLines(end, open) \in {"read", "tail", "exited"}
           /\ AfterLines(end, open) = "read" <=> end = "nil"
           /\ AfterLines(end, open) = "tail" <=> end = "EOF" /\ open
           /\ AfterLines(end, open) = "exited" <=> end = "error" \/ (end = "EOF" /\ ~open)
<1>1. CASE end = "nil"
  BY <1>1 DEF AfterLines
<1>2. CASE end = "EOF" /\ open
  BY <1>2 DEF AfterLines
<1>3. CASE end = "EOF" /\ ~open
  BY <1>3 DEF AfterLines
<1>4. CASE end = "error"
  BY <1>4 DEF AfterLines
<1>5. QED
  BY <1>1, <1>2, <1>3, <1>4

\* A step that touches neither the reader nor the lines keeps their account.
LEMMA LinesFrame ==
    ASSUME ScanInv, UNCHANGED <<readerVars, lines, delivered>>
    PROVE  Numbered' /\ ReaderPlace'
BY DEF ScanInv, Numbered, ReaderPlace, readerVars

\* A read: its lines are in hand, its bytes ping, its end is remembered.
LEMMA ReadStep ==
    ASSUME ScanInv, NEW n \in 0..2, NEW open \in BOOLEAN, NEW grew \in BOOLEAN,
           NEW end \in {"nil", "EOF", "error"}, Read(n, open, grew, end)
    PROVE  ScanInv'
<1>1. TypeOK'
  BY AfterLinesCases DEF ScanInv, TypeOK, Read
<1>2. Numbered'
  BY DEF ScanInv, TypeOK, Numbered, ReaderPlace, Read
<1>3. ReaderPlace'
  BY AfterLinesCases DEF ScanInv, TypeOK, ReaderPlace, Read
<1>4. ExitIsHonest'
  <2>1. SUFFICES ASSUME reader' = "exited", ~readErr' PROVE end = "EOF" /\ cut' = 0 /\ (tails' <=> rest')
    BY DEF ExitIsHonest, Read
  <2>2. n = 0 /\ AfterLines(end, open) = "exited"
    BY <2>1 DEF Read
  <2>3. end # "error"
    BY <2>1, <2>2 DEF Read, SendsReadErr
  <2>4. end = "EOF" /\ ~open /\ ~tails
    BY <2>2, <2>3, AfterLinesCases DEF ScanInv, ReaderPlace, Read
  <2>5. QED
    BY <2>2, <2>4 DEF Read
<1>5. ContextIsTheClients'
  BY DEF ScanInv, ContextIsTheClients, Read
<1>6. ResultPlace'
  BY DEF ScanInv, TypeOK, ResultPlace, ReaderPlace, WholeBody, Read
<1>7. BytesPing' /\ FiredForReason'
  BY DEF ScanInv, TypeOK, BytesPing, FiredForReason, Read, Pings
<1>8. LeavingIsTheClients'
  BY DEF ScanInv, LeavingIsTheClients, Read
<1>9. QED
  BY <1>1, <1>2, <1>3, <1>4, <1>5, <1>6, <1>7, <1>8 DEF ScanInv

\* The reader's own steps.
LEMMA ReaderStep == ScanInv /\ Reader => ScanInv'
<1> SUFFICES ASSUME ScanInv, Reader PROVE ScanInv'
  OBVIOUS
<1> USE DEF ScanInv, TypeOK
<1>1. CASE ReadFails
  BY <1>1 DEF ReadFails, Numbered, ReaderPlace, ExitIsHonest, ContextIsTheClients,
              ResultPlace, WholeBody, BytesPing, FiredForReason, LeavingIsTheClients
<1>2. CASE Push
  <2>0. lines \in Seq(Nat) /\ Len(lines) \in Nat /\ Len(delivered) \in Nat /\ cut \in Nat /\ cut > 0
    BY <1>2 DEF Push, ReaderPlace
  <2>a. Len(delivered) + Len(lines) + cut = total /\ total \in Nat
    BY DEF Numbered
  <2>b. \A i \in 1..Len(lines) : lines[i] = Len(delivered) + i
    BY DEF Numbered
  <2> HIDE DEF ScanInv, TypeOK
  <2>1. NextLine = Len(delivered) + Len(lines) + 1 /\ NextLine \in Nat
    BY <2>0, <2>a DEF NextLine
  <2>2. /\ lines' \in Seq(Nat) /\ Len(lines') = Len(lines) + 1
        /\ \A i \in 1..Len(lines) : lines'[i] = lines[i]
        /\ lines'[Len(lines) + 1] = NextLine
    BY <1>2, <2>0, <2>1 DEF Push
  <2>3. Numbered'
    <3>1. \A i \in 1..Len(lines') : lines'[i] = Len(delivered) + i
      <4> SUFFICES ASSUME NEW i \in 1..Len(lines') PROVE lines'[i] = Len(delivered) + i
        OBVIOUS
      <4>1. CASE i \in 1..Len(lines)
        BY <4>1, <2>2, <2>b
      <4>2. CASE i = Len(lines) + 1
        BY <4>2, <2>0, <2>1, <2>2
      <4>3. i \in 1..Len(lines) \/ i = Len(lines) + 1
        BY <2>0, <2>2
      <4>4. QED
        BY <4>1, <4>2, <4>3
    <3>2. Len(delivered) + Len(lines') + cut' = total
      BY <1>2, <2>0, <2>2, <2>a DEF Push
    <3>3. QED
      BY <1>2, <3>1, <3>2 DEF Push, Numbered, ScanInv
  <2>4. TypeOK' /\ ReaderPlace'
    BY <1>2, <2>0, <2>2, AfterLinesCases DEF Push, ReaderPlace, ScanInv, TypeOK
  <2>5. ExitIsHonest'
    <3>1. SUFFICES ASSUME reader' = "exited", ~readErr'
                   PROVE  readEnd = "EOF" /\ cut' = 0 /\ (tails <=> rest)
      BY <1>2 DEF ExitIsHonest, Push
    <3>2. cut = 1 /\ AfterLines(readEnd, rest) = "exited"
      BY <1>2, <2>0, <3>1 DEF Push
    <3>3. readEnd # "error"
      BY <1>2, <3>1, <3>2 DEF Push, SendsReadErr
    <3>4. readEnd = "EOF" /\ ~rest /\ ~tails
      BY <1>2, <3>2, <3>3, AfterLinesCases DEF Push, ReaderPlace, ScanInv, TypeOK
    <3>5. QED
      BY <1>2, <3>2, <3>4 DEF Push
  <2>6. ContextIsTheClients' /\ ResultPlace'
    BY <1>2 DEF Push, ContextIsTheClients, ResultPlace, ReaderPlace, WholeBody, ScanInv, TypeOK
  <2>7. BytesPing' /\ FiredForReason' /\ LeavingIsTheClients'
    BY <1>2 DEF Push, BytesPing, FiredForReason, LeavingIsTheClients, ScanInv, TypeOK
  <2>8. QED
    BY <2>3, <2>4, <2>5, <2>6, <2>7 DEF ScanInv
<1>3. CASE PushTail
  BY <1>3 DEF PushTail, Numbered, ReaderPlace, ExitIsHonest, ContextIsTheClients,
              ResultPlace, WholeBody, BytesPing, FiredForReason, LeavingIsTheClients
<1>4. CASE ReaderGivesUp
  BY <1>4 DEF ReaderGivesUp, Numbered, ReaderPlace, ExitIsHonest, ContextIsTheClients,
              ResultPlace, WholeBody, BytesPing, FiredForReason, LeavingIsTheClients
<1>5. QED
  BY <1>1, <1>2, <1>3, <1>4 DEF Reader

\* The consumer takes a line off the channel.
LEMMA TakeLineStep == ScanInv /\ TakeLine => ScanInv'
<1> SUFFICES ASSUME ScanInv, TakeLine PROVE ScanInv'
  OBVIOUS
<1>1. /\ lines \in Seq(Nat) /\ lines # <<>> /\ delivered \in Seq(Nat)
      /\ lines' = Tail(lines) /\ delivered' = Append(delivered, Head(lines))
      /\ UNCHANGED <<cut, total>>
  BY DEF ScanInv, TypeOK, TakeLine, readerVars
<1>2. /\ Len(lines) \in Nat \ {0} /\ Head(lines) = lines[1] /\ Head(lines) \in Nat
      /\ Len(Tail(lines)) = Len(lines) - 1 /\ Tail(lines) \in Seq(Nat)
      /\ \A i \in 1..Len(lines) - 1 : Tail(lines)[i] = lines[i + 1]
  BY <1>1
<1>3. /\ Len(delivered') = Len(delivered) + 1 /\ Len(delivered) \in Nat
      /\ \A i \in 1..Len(delivered) : delivered'[i] = delivered[i]
      /\ delivered'[Len(delivered) + 1] = Head(lines)
  BY <1>1, <1>2
<1>4. Numbered'
  <2>1. Head(lines) = Len(delivered) + 1
    BY <1>2, <1>3 DEF ScanInv, Numbered
  <2>2. \A i \in 1..Len(delivered') : delivered'[i] = i
    BY <1>3, <2>1 DEF ScanInv, Numbered
  <2>3. \A i \in 1..Len(lines') : lines'[i] = Len(delivered') + i
    BY <1>1, <1>2, <1>3 DEF ScanInv, Numbered
  <2>4. Len(delivered') + Len(lines') + cut' = total'
    <3>1. Len(delivered) + Len(lines) + cut = total /\ total \in Nat /\ cut \in Nat
      BY DEF ScanInv, TypeOK, Numbered
    <3>2. QED
      <4>1. Len(lines') = Len(lines) - 1 /\ cut' = cut /\ total' = total
        BY <1>1, <1>2
      <4>2. QED
        BY <4>1, <1>2, <1>3, <3>1
  <2>5. QED
    BY <2>2, <2>3, <2>4 DEF Numbered
<1>5. TypeOK'
  BY <1>1, <1>2 DEF ScanInv, TypeOK, TakeLine, Reset, readerVars
<1>6. ReaderPlace' /\ ExitIsHonest' /\ ContextIsTheClients'
  BY DEF ScanInv, TypeOK, ReaderPlace, ExitIsHonest, ContextIsTheClients, TakeLine, readerVars
<1>7. ResultPlace'
  BY DEF ScanInv, TypeOK, ResultPlace, TakeLine, readerVars
<1>8. BytesPing' /\ FiredForReason' /\ LeavingIsTheClients'
  BY DEF ScanInv, TypeOK, BytesPing, FiredForReason, ResultPlace, LeavingIsTheClients,
         TakeLine, Reset
<1>9. QED
  BY <1>4, <1>5, <1>6, <1>7, <1>8 DEF ScanInv

\* The channel is closed and drained: nil is returned only for a whole body.
LEMMA LinesClosedStep == ScanInv /\ LinesClosed => ScanInv'
<1> SUFFICES ASSUME ScanInv, LinesClosed PROVE ScanInv'
  OBVIOUS
<1>1. TypeOK'
  BY DEF ScanInv, TypeOK, LinesClosed, Return, readerVars, Results
<1>2. Numbered' /\ ReaderPlace' /\ ContextIsTheClients'
  BY DEF ScanInv, TypeOK, Numbered, ReaderPlace, ContextIsTheClients, LinesClosed, Return,
         readerVars
<1>3. ExitIsHonest'
  BY DEF ScanInv, TypeOK, ExitIsHonest, LinesClosed, Return, readerVars
<1>4. ResultPlace'
  <2>1. lines = <<>> /\ Len(lines) = 0 /\ reader = "exited" /\ scan = "select"
    BY DEF LinesClosed
  <2>2. ~left /\ ~readErr => readEnd = "EOF" /\ cut = 0 /\ (tails <=> rest)
    BY <2>1 DEF ScanInv, ExitIsHonest
  <2>3. cut = 0 => Len(delivered) = total
    BY <2>1 DEF ScanInv, TypeOK, Numbered
  <2>4. QED
    BY <2>1, <2>2, <2>3 DEF ScanInv, TypeOK, ResultPlace, WholeBody, LinesClosed, Return,
          readerVars
<1>5. BytesPing' /\ FiredForReason' /\ LeavingIsTheClients'
  BY DEF ScanInv, TypeOK, BytesPing, FiredForReason, ResultPlace, LeavingIsTheClients,
         LinesClosed, Return, readerVars
<1>6. QED
  BY <1>1, <1>2, <1>3, <1>4, <1>5 DEF ScanInv

\* The consumer's other steps.
LEMMA ConsumerStep == ScanInv /\ Consumer => ScanInv'
<1> SUFFICES ASSUME ScanInv, Consumer PROVE ScanInv'
  OBVIOUS
<1> USE DEF ScanInv, TypeOK, readerVars
<1>1. CASE FnReturns
  <2>1. Numbered' /\ ReaderPlace'
    BY <1>1, LinesFrame DEF FnReturns
  <2>2. TypeOK'
    <3>1. result' \in Results /\ scan' \in {"select", "returned"}
      BY <1>1 DEF FnReturns, Return, Results
    <3>2. canceled' \in BOOLEAN /\ left' \in BOOLEAN
      BY <1>1 DEF FnReturns
    <3>3. QED
      BY <1>1, <3>1, <3>2 DEF FnReturns
  <2>3. ExitIsHonest' /\ ContextIsTheClients'
    BY <1>1 DEF FnReturns, Return, Results, ExitIsHonest, ContextIsTheClients
  <2>4. ResultPlace'
    BY <1>1 DEF FnReturns, Return, Results, ResultPlace, WholeBody
  <2>5. BytesPing' /\ FiredForReason' /\ LeavingIsTheClients'
    BY <1>1 DEF FnReturns, Return, Results, BytesPing, FiredForReason, ResultPlace,
           ContextIsTheClients, LeavingIsTheClients
  <2>6. QED
    BY <2>1, <2>2, <2>3, <2>4, <2>5
<1>2. CASE TakeProgress
  <2>1. Numbered' /\ ReaderPlace'
    BY <1>2, LinesFrame DEF TakeProgress
  <2>2. TypeOK'
    BY <1>2 DEF TakeProgress, Reset
  <2>3. ExitIsHonest' /\ ContextIsTheClients'
    BY <1>2 DEF TakeProgress, Reset, ExitIsHonest, ContextIsTheClients
  <2>4. ResultPlace'
    BY <1>2 DEF TakeProgress, Reset, ResultPlace, WholeBody
  <2>5. BytesPing' /\ FiredForReason' /\ LeavingIsTheClients'
    BY <1>2 DEF TakeProgress, Reset, BytesPing, FiredForReason, ResultPlace,
           ContextIsTheClients, LeavingIsTheClients
  <2>6. QED
    BY <2>1, <2>2, <2>3, <2>4, <2>5
<1>3. CASE Stalled
  <2>1. Numbered' /\ ReaderPlace'
    BY <1>3, LinesFrame DEF Stalled
  <2>2. TypeOK'
    BY <1>3 DEF Stalled, Return, Results
  <2>3. ExitIsHonest' /\ ContextIsTheClients'
    BY <1>3 DEF Stalled, Return, Results, ExitIsHonest, ContextIsTheClients
  <2>4. ResultPlace'
    BY <1>3 DEF Stalled, Return, Results, ResultPlace, WholeBody
  <2>5. BytesPing' /\ FiredForReason' /\ LeavingIsTheClients'
    BY <1>3 DEF Stalled, Return, Results, BytesPing, FiredForReason, ResultPlace,
           ContextIsTheClients, LeavingIsTheClients
  <2>6. QED
    BY <2>1, <2>2, <2>3, <2>4, <2>5
<1>4. CASE ContextDone
  <2>1. Numbered' /\ ReaderPlace'
    BY <1>4, LinesFrame DEF ContextDone
  <2>2. TypeOK'
    BY <1>4 DEF ContextDone, Return, Results
  <2>3. ExitIsHonest' /\ ContextIsTheClients'
    BY <1>4 DEF ContextDone, Return, Results, ExitIsHonest, ContextIsTheClients
  <2>4. ResultPlace'
    BY <1>4 DEF ContextDone, Return, Results, ResultPlace, WholeBody
  <2>5. BytesPing' /\ FiredForReason' /\ LeavingIsTheClients'
    BY <1>4 DEF ContextDone, Return, Results, BytesPing, FiredForReason, ResultPlace,
           ContextIsTheClients, LeavingIsTheClients
  <2>6. QED
    BY <2>1, <2>2, <2>3, <2>4, <2>5
<1>5. CASE StreamEnds
  <2>1. Numbered' /\ ReaderPlace'
    BY <1>5, LinesFrame DEF StreamEnds
  <2>0. /\ AbortReason \in Endings
        /\ canceled => AbortReason = "client_disconnect"
    BY DEF AbortReason, Endings
  <2>2. TypeOK'
    <3>1. ending' \in Endings
      BY <1>5, <2>0 DEF StreamEnds, Endings
    <3>2. QED
      BY <1>5, <3>1 DEF StreamEnds
  <2>3. ExitIsHonest' /\ ContextIsTheClients'
    BY <1>5 DEF StreamEnds, ExitIsHonest, ContextIsTheClients
  <2>4. ResultPlace'
    BY <1>5 DEF StreamEnds, ResultPlace, WholeBody
  <2>5. BytesPing' /\ FiredForReason' /\ LeavingIsTheClients'
    BY <1>5, <2>0 DEF StreamEnds, BytesPing, FiredForReason, ResultPlace,
           ContextIsTheClients, LeavingIsTheClients
  <2>6. QED
    BY <2>1, <2>2, <2>3, <2>4, <2>5
<1>6. QED
  BY <1>1, <1>2, <1>3, <1>4, <1>5, TakeLineStep, LinesClosedStep DEF Consumer

\* Every step of the reader, the consumer and the client keeps the invariant...
LEMMA ScanStep == ScanInv /\ [Next]_vars => ScanInv'
<1> SUFFICES ASSUME ScanInv, [Next]_vars PROVE ScanInv'
  OBVIOUS
<1> USE DEF ScanInv, TypeOK, readerVars
<1>1. CASE WindowPasses
  <2>1. Numbered' /\ ReaderPlace'
    BY <1>1, LinesFrame DEF WindowPasses
  <2>2. TypeOK'
    BY <1>1 DEF WindowPasses, NothingReady
  <2>3. ExitIsHonest' /\ ContextIsTheClients'
    BY <1>1 DEF WindowPasses, NothingReady, ExitIsHonest, ContextIsTheClients
  <2>4. ResultPlace'
    BY <1>1 DEF WindowPasses, NothingReady, ResultPlace, WholeBody
  <2>5. BytesPing' /\ FiredForReason' /\ LeavingIsTheClients'
    BY <1>1 DEF WindowPasses, NothingReady, BytesPing, FiredForReason, ResultPlace,
           ContextIsTheClients, LeavingIsTheClients
  <2>6. QED
    BY <2>1, <2>2, <2>3, <2>4, <2>5
<1>2. CASE ClientLeaves
  <2>1. Numbered' /\ ReaderPlace'
    BY <1>2, LinesFrame DEF ClientLeaves
  <2>2. TypeOK'
    BY <1>2 DEF ClientLeaves
  <2>3. ExitIsHonest' /\ ContextIsTheClients'
    BY <1>2 DEF ClientLeaves, ExitIsHonest, ContextIsTheClients
  <2>4. ResultPlace'
    BY <1>2 DEF ClientLeaves, ResultPlace, WholeBody
  <2>5. BytesPing' /\ FiredForReason' /\ LeavingIsTheClients'
    BY <1>2 DEF ClientLeaves, BytesPing, FiredForReason, ResultPlace,
           ContextIsTheClients, LeavingIsTheClients
  <2>6. QED
    BY <2>1, <2>2, <2>3, <2>4, <2>5
<1>3. CASE UNCHANGED vars
  <2>1. Numbered' /\ ReaderPlace'
    BY <1>3, LinesFrame DEF vars
  <2>2. TypeOK'
    BY <1>3 DEF vars
  <2>3. ExitIsHonest' /\ ContextIsTheClients'
    BY <1>3 DEF vars, ExitIsHonest, ContextIsTheClients
  <2>4. ResultPlace'
    BY <1>3 DEF vars, ResultPlace, WholeBody
  <2>5. BytesPing' /\ FiredForReason' /\ LeavingIsTheClients'
    BY <1>3 DEF vars, BytesPing, FiredForReason, ResultPlace,
           ContextIsTheClients, LeavingIsTheClients
  <2>6. QED
    BY <2>1, <2>2, <2>3, <2>4, <2>5
<1>4. CASE Body
  BY <1>4, ReadStep DEF Body
<1>5. QED
  BY <1>1, <1>2, <1>3, <1>4, ReaderStep, ConsumerStep DEF Next

\* ...so it always holds, for bodies and channels of any size.
THEOREM ScanInvariant == Spec => []ScanInv
BY ScanInit, ScanStep, PTL DEF Spec

-----------------------------------------------------------------------------
\* Lines reach fn once and in order however the two goroutines interleave, and
\* a scan that returns nil to a client that stayed has delivered the whole
\* body: stream() never flushes a truncated answer as complete.
THEOREM CleanEndDeliversAll == Spec => []CleanEndIsWhole
<1>1. ASSUME ScanInv PROVE CleanEndIsWhole
  <2>1. lines \in Seq(Nat) /\ delivered \in Seq(Nat) /\ Len(lines) \in Nat /\ Len(delivered) \in Nat
    BY <1>1 DEF ScanInv, TypeOK
  <2>2. /\ Len(delivered \o lines) = Len(delivered) + Len(lines)
        /\ \A i \in 1..Len(delivered) + Len(lines) :
              (delivered \o lines)[i] = IF i <= Len(delivered) THEN delivered[i]
                                        ELSE lines[i - Len(delivered)]
        /\ DOMAIN (delivered \o lines) = 1..Len(delivered) + Len(lines)
    BY <2>1
  <2>3. \A i \in DOMAIN (delivered \o lines) : (delivered \o lines)[i] = i
    BY <1>1, <2>1, <2>2 DEF ScanInv, Numbered
  <2>4. Len(delivered \o lines) + cut = total
    BY <1>1, <2>2 DEF ScanInv, Numbered
  <2>5. tailed => readEnd = "EOF" /\ Len(delivered) = total /\ rest
    <3>1. SUFFICES ASSUME tailed PROVE readEnd = "EOF" /\ Len(delivered) = total /\ rest
      OBVIOUS
    <3>2. readEnd = "EOF" /\ rest /\ cut = 0 /\ Len(lines) = 0
      BY <1>1, <3>1 DEF ScanInv, ReaderPlace, ResultPlace
    <3>3. QED
      BY <1>1, <2>1, <3>2 DEF ScanInv, TypeOK, Numbered
  <2>6. QED
    BY <1>1, <2>3, <2>4, <2>5 DEF CleanEndIsWhole, LinesInOrder, ScanInv, ResultPlace
<1>2. QED
  BY <1>1, ScanInvariant, PTL

\* "The stall deadline resets on ANY read progress" (client.go): a stall is
\* only reported of a silent body or after a write slower than the window.
THEOREM StallMeansSilence == Spec => []StallOnlyWhenSilent
<1>1. ScanInv => StallOnlyWhenSilent
  BY DEF ScanInv, FiredForReason, StallOnlyWhenSilent
<1>2. QED
  BY <1>1, ScanInvariant, PTL

\* streamAbortReason never blames the upstream for a client that left.
THEOREM LeavingIsNotBlamed == Spec => []LeavingIsTheClients
<1>1. ScanInv => LeavingIsTheClients
  BY DEF ScanInv
<1>2. QED
  BY <1>1, ScanInvariant, PTL

=============================================================================
