------------------------- MODULE MCBookingCheckout -------------------------
(* BookingCheckout on a few requests, slots and customers.  Requests are    *)
(* interchangeable, and so are slots and customers.                         *)
EXTENDS BookingCheckout, TLC

Symmetry ==
  Permutations(Requests) \cup Permutations(Slots) \cup Permutations(Customers)
=============================================================================
