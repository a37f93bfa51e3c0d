----------------------------- MODULE MCLoyalty -----------------------------
(***************************************************************************)
(* A small instance of Loyalty for TLC.  The records lie on either side of *)
(* the thresholds for SILVER and GOLD; a 4 and a 5 average to 4.5.         *)
(***************************************************************************)
EXTENDS Loyalty

CONSTANTS Seller   \* the member all deals belong to

MCReviewee == [d \in Deals |-> Seller]
MCRecords == {[services |-> 20, events |-> 2], [services |-> 4, events |-> 10]}
=============================================================================
