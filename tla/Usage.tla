------------------------------- MODULE Usage -------------------------------
(***************************************************************************)
(* Token accounting (internal/usage/usage.go) as the relays use it.        *)
(*                                                                         *)
(* A usage block is what is left of it after Normalize: its input and      *)
(* output counts, the reasoning share, and the marker of an estimate.  The *)
(* field names of the two wire families, the totals (always the sum of the *)
(* two counts) and the coercions of malformed numbers are left out.        *)
(***************************************************************************)
EXTENDS Integers

CONSTANTS
    BufferTokens,   \* bufferTokens, 2000 in the code
    BodyTokens,     \* EstimateInput of the request's body
    SynthMaxOutput  \* up to this output no reasoning is assumed (10)

ASSUME UsageAssumption ==
    /\ BufferTokens \in Nat \ {0}
    /\ BodyTokens \in Nat
    /\ SynthMaxOutput \in Nat

NoUsage == [present |-> FALSE, prompt |-> 0, completion |-> 0, reasoning |-> 0,
            estimated |-> FALSE]

\* A block as an upstream reports it.
Reported(p, c) == [NoUsage EXCEPT !.present = TRUE, !.prompt = p, !.completion = c]

Greater(m, n) == IF m > n THEN m ELSE n

HasValid(u) == u.present /\ (u.prompt > 0 \/ u.completion > 0)

\* Field-wise maximum of the counts; a marker never crosses.
Merge(prev, next) ==
    IF ~prev.present \/ ~next.present
    THEN IF next.present THEN next ELSE prev
    ELSE [prev EXCEPT !.prompt = Greater(@, next.prompt),
                      !.completion = Greater(@, next.completion),
                      !.reasoning = Greater(@, next.reasoning)]

AddBuffer(u) == IF u.present THEN [u EXCEPT !.prompt = @ + BufferTokens] ELSE u

\* A quarter of the characters, at least one token for any text.
EstimateOutput(len) == IF len <= 0 THEN 0 ELSE Greater(1, len \div 4)

Estimate(len) ==
    AddBuffer([Reported(BodyTokens, EstimateOutput(len)) EXCEPT !.estimated = TRUE])

\* Three quarters of a long output are put down to silent thinking, unless
\* the block reports reasoning already.
SynthesizeThinking(u) ==
    IF ~u.present \/ u.completion <= 0 \/ u.reasoning > 0 THEN u
    ELSE [u EXCEPT !.reasoning =
             IF u.completion > SynthMaxOutput THEN (u.completion * 3) \div 4 ELSE 0]

=============================================================================
