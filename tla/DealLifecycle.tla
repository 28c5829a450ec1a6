--------------------------- MODULE DealLifecycle ---------------------------
(***************************************************************************)
(* What the API promises about one deal, whatever requests race.           *)
(*                                                                         *)
(* `held' is the set of statuses the deal has had.  Each handler reads the *)
(* status, asserts that the transition from it is legal and then writes,   *)
(* under READ COMMITTED and with no condition on the write; so the status  *)
(* it starts from is one the deal HAS HAD, and maybe not the one it has.   *)
(* Money enters when a payment is secured and leaves with completion only. *)
(***************************************************************************)
EXTENDS DealStateMachine, Naturals

VARIABLES status, held, secured, released
vars == <<status, held, secured, released>>

\* A deal starts unpaid, in the hands of its two parties.
Init ==
  /\ status \in {"WAITING_COUNTERPARTY", "WAITING_PAYMENT"}
  /\ held = {status}
  /\ secured = 0
  /\ released = 0

Reachable(to) == \E from \in held : CanTransition(from, to)

\* The buyer's payment: two transitions committed together, and the money.
Fund ==
  /\ Reachable("FUNDS_SECURED")
  /\ status' = "WAITING_SHIPMENT"
  /\ held' = held \cup {"FUNDS_SECURED", "WAITING_SHIPMENT"}
  /\ secured' = secured + 1
  /\ UNCHANGED released

\* Completion releases all the money the deal holds, and there is some,
\* now or released before.
Complete ==
  /\ Reachable("COMPLETED")
  /\ secured + released > 0
  /\ status' = "COMPLETED"
  /\ held' = held \cup {"COMPLETED"}
  /\ released' = released + secured
  /\ secured' = 0

\* Any other move leaves the money alone.
Move(to) ==
  /\ Reachable(to)
  /\ status' = to
  /\ held' = held \cup {to}
  /\ UNCHANGED <<secured, released>>

Next ==
  \/ Fund
  \/ Complete
  \/ \E to \in DealStatus \ {"FUNDS_SECURED", "COMPLETED"} : Move(to)

Spec == Init /\ [][Next]_vars

=============================================================================
