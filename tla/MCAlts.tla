------------------------------- MODULE MCAlts -------------------------------
(***************************************************************************)
(* TLC instances of Alts: an unbuffered channel u, a channel b of capacity *)
(* one and a timeout channel t; every call is one of a few puts and takes  *)
(* alone, or an alts! that mixes directions, channels, a timeout or a      *)
(* default.                                                                *)
(***************************************************************************)
EXTENDS Alts, TLC

CONSTANTS u, b, t

MCCap == [c \in Chans |-> IF c = u THEN 0 ELSE 1]

Put(c)  == [ch |-> c, put |-> TRUE]
Take(c) == [ch |-> c, put |-> FALSE]
Plain(p) == [ports |-> <<p>>, default |-> FALSE, plain |-> TRUE, error |-> FALSE]
Fail(p) == [Plain(p) EXCEPT !.error = TRUE]
Alt(ps, d) == [ports |-> ps, default |-> d, plain |-> FALSE, error |-> FALSE]

MCMenu == { Plain(Put(u)), Plain(Take(u)), Fail(Put(b)),
            Alt(<<Take(b), Put(u)>>, FALSE),
            Alt(<<Put(u), Take(u)>>, FALSE),
            Alt(<<Take(u), Put(b)>>, TRUE),
            Alt(<<Put(u), Take(t)>>, FALSE) }
=============================================================================
