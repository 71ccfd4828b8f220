------------------------------ MODULE AtomSpec ------------------------------
(***************************************************************************)
(* What an atom promises its callers: every update takes effect at one     *)
(* instant between its call and its return, or not at all, and returns     *)
(* the value it replaced with the value it put there.                      *)
(***************************************************************************)
CONSTANTS
    Calls,   \* the calls
    Value,   \* the values of the atom
    Menu,    \* what a call may be (see Atom)
    Raises,  \* what a swap function returns to say it threw
    NoOp     \* no operation

VARIABLES
    value,   \* the value of the atom
    op,      \* op[t]: what call t does
    effect   \* effect[t]: what call t did to the atom

avars == <<value, op, effect>>

Pending == [kind |-> "pending"]
Refused == [kind |-> "refused"]   \* the update failed and changed nothing
Changed(old, new) == [kind |-> "changed", old |-> old, new |-> new]

\* The value operation o turns v into, or Raises if it does not apply to v.
Image(o, v) ==
    CASE o.kind = "swap"  -> o.fn[v]
      [] o.kind = "reset" -> o.new
      [] o.kind = "cas"   -> IF v = o.expect THEN o.new ELSE Raises

Init ==
    /\ value \in Value
    /\ op = [t \in Calls |-> NoOp]
    /\ effect = [t \in Calls |-> Pending]

Call(t) ==
    /\ op[t] = NoOp
    /\ \E o \in Menu : op' = [op EXCEPT ![t] = o]
    /\ UNCHANGED <<value, effect>>

\* The instant at which an update happens.
Update(t) ==
    /\ op[t] # NoOp
    /\ op[t].kind \in {"swap", "reset", "cas"}
    /\ effect[t] = Pending
    /\ Image(op[t], value) # Raises
    /\ value' = Image(op[t], value)
    /\ effect' = [effect EXCEPT ![t] = Changed(value, value')]
    /\ UNCHANGED op

\* A call that changes nothing: a function or a validator threw, the value is
\* not the one expected, or the call is no update at all.
Refuse(t) ==
    /\ op[t] # NoOp
    /\ effect[t] = Pending
    /\ effect' = [effect EXCEPT ![t] = Refused]
    /\ UNCHANGED <<value, op>>

Next == \E t \in Calls : Call(t) \/ Update(t) \/ Refuse(t)

Spec == Init /\ [][Next]_avars
=============================================================================
