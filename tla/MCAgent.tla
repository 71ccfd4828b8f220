------------------------------ MODULE MCAgent ------------------------------
(***************************************************************************)
(* TLC instances of Agent: actions of agent a1 that succeed, throw or      *)
(* panic, and actions of agent a2 that use a1 (MCMenu).                    *)
(***************************************************************************)
EXTENDS Agent, TLC

CONSTANTS a1, a2

SendOf(a, does) == [kind |-> "send", to |-> a, act |-> [does |-> does]]
SendCall(a, o) == [kind |-> "send", to |-> a, act |-> [does |-> "call", call |-> o]]
Use(kind, a) == [kind |-> kind, to |-> a]

MCMenu == {SendOf(a1, "succeed"), SendOf(a1, "throw"), SendOf(a1, "panic"), Use("await", a1),
            SendCall(a2, Use("await", a1)), SendCall(a2, Use("deref", a1))}
=============================================================================
