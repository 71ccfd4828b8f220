------------------------------- MODULE MCAtom -------------------------------
(***************************************************************************)
(* TLC instance of Atom: values 0..2; swaps that increment modulo 3, one   *)
(* of which throws on 1; a reset; compare-and-sets that succeed, fail or   *)
(* meet the same value again; a validator that rejects 2; a good watch     *)
(* that is added and a faulty one that is removed.                         *)
(***************************************************************************)
EXTENDS Atom, TLC

CONSTANTS w1, w2

MCValue == 0..2

Swap(f) == [kind |-> "swap", fn |-> f]
Inc == Swap([v \in MCValue |-> (v + 1) % 3])
IncOrThrow == Swap([v \in MCValue |-> IF v = 1 THEN Raises ELSE (v + 1) % 3])
Reset(v) == [kind |-> "reset", new |-> v]
Cas(e, n) == [kind |-> "cas", expect |-> e, new |-> n]
Validator(s) == [kind |-> "validator", accepts |-> s]

MCMenu == {Inc, IncOrThrow, Reset(2), Cas(0, 1), Cas(1, 0), Validator({0, 1}),
           [kind |-> "add", watch |-> w1], [kind |-> "remove", watch |-> w2]}
=============================================================================
