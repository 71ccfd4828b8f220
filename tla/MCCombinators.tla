---------------------------- MODULE MCCombinators ----------------------------
(***************************************************************************)
(* Constants of the runs of Combinators: every kind of combinator, topics  *)
(* that alternate.                                                         *)
(***************************************************************************)
EXTENDS Combinators

CONSTANTS s1, s2, s3

MCKinds == DOMAIN Wiring
MCTopicOf == [i \in 1..N |-> IF i % 2 = 1 THEN "yes" ELSE "no"]
=============================================================================
