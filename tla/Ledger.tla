------------------------------- MODULE Ledger -------------------------------
(***************************************************************************)
(* Run-scoped consumption tracking: js/src/budget/ledger.ts.               *)
(*                                                                         *)
(* A ledger is the record its snapshot() returns.  The mutating methods    *)
(* are operators from a ledger to the next one; a method that throws has   *)
(* no value here, its caller guards the step with RequireConsumption.      *)
(***************************************************************************)
EXTENDS Integers

CONSTANT None   \* null, and undefined: here startedAt before the first metered event

\* Mutant: a figure is not validated.
AnyConsumption(figure) == TRUE

\* A figure the ledger accepts.  Figures are integers, so that a negative one
\* stands for every figure the code refuses (negative, NaN, infinite).
RequireConsumption(figure) == figure >= 0

Unused == [calls |-> 0, tokens |-> 0, usd |-> 0, bytes |-> 0, startedAt |-> None]

\* The time budget starts at the first metered event.
Started(usage, at) ==
    IF usage.startedAt = None THEN [usage EXCEPT !.startedAt = at] ELSE usage

CountCall(usage, at) == [Started(usage, at) EXCEPT !.calls = @ + 1]

AddTokens(usage, tokens, usd, at) ==
    [Started(usage, at) EXCEPT !.tokens = @ + tokens, !.usd = @ + usd]

AddBytes(usage, bytes, at) == [Started(usage, at) EXCEPT !.bytes = @ + bytes]

AddSpend(usage, usd, at) == [Started(usage, at) EXCEPT !.usd = @ + usd]

=============================================================================
