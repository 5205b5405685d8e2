------------------------------ MODULE Limiter ------------------------------
(***************************************************************************)
(* upstream.Limiter (internal/upstream/limits.go): the per-egress          *)
(* concurrency gate, keyed by egress id and shared by every config         *)
(* generation.  Each operator is one critical section of Limiter.mu, as a  *)
(* function of the table.                                                  *)
(***************************************************************************)
EXTENDS Integers

\* Limiter.Peek: a slot is free now (max <= 0 is unlimited).
Peek(cur, e, max) == max <= 0 \/ cur[e] < max

\* Mutant of AcquireOK: the comparison admits one too many.
AcquireOKOffByOne(cur, e, max) == max <= 0 \/ cur[e] <= max

\* Limiter.Acquire: refused at capacity; an uncapped acquire is not counted.
AcquireOK(cur, e, max) == max <= 0 \/ cur[e] < max
Acquired(cur, e, max) == IF max <= 0 THEN cur ELSE [cur EXCEPT ![e] = @ + 1]

\* Limiter.Release: never below zero.
Released(cur, e) == IF cur[e] > 0 THEN [cur EXCEPT ![e] = @ - 1] ELSE cur

\* Limiter.InFlight
InFlight(cur, e) == cur[e]

=============================================================================
