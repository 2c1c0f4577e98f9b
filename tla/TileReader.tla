----------------------------- MODULE TileReader -----------------------------
(***************************************************************************)
(* What a tile cache promises to those who read from it: an area that is   *)
(* asked for is delivered position by position, each position once, and    *)
(* the call ends when nothing is left to deliver, not before.  Readers     *)
(* share nothing here.                                                     *)
(***************************************************************************)
CONSTANTS Calls,      \* the calls that may be under way
          Positions

VARIABLES reading,    \* the calls under way
          pending     \* pending[f]: what call f has not been given yet

Init == reading = {} /\ pending = [f \in Calls |-> {}]

Ask(f, area) ==
  /\ f \notin reading
  /\ reading' = reading \cup {f}
  /\ pending' = [pending EXCEPT ![f] = area]

Deliver(f, p) ==
  /\ f \in reading /\ p \in pending[f]
  /\ pending' = [pending EXCEPT ![f] = @ \ {p}]
  /\ UNCHANGED reading

End(f) ==
  /\ f \in reading /\ pending[f] = {}
  /\ reading' = reading \ {f}
  /\ UNCHANGED pending

Next == \E f \in Calls :
  \/ \E area \in SUBSET Positions : Ask(f, area)
  \/ \E p \in Positions : Deliver(f, p)
  \/ End(f)

Spec == Init /\ [][Next]_<<reading, pending>>
=============================================================================
