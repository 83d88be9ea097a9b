------------------------------ MODULE MCListing ------------------------------
(***************************************************************************)
(* A client that lists and another one from the same address.              *)
(***************************************************************************)
EXTENDS ListingProperties

CONSTANTS c1, c2, a1, b1, b2

MCAddressOf == [c \in Clients |-> a1]
=============================================================================
