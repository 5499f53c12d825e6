------------------------------ MODULE MCListing ------------------------------
(* Instances of Listing for TLC.                                           *)
EXTENDS Listing, TLC

RowSymmetry == Permutations(Row)

=============================================================================
