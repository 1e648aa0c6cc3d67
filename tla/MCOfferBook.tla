---------------------------- MODULE MCOfferBook ----------------------------
(* OfferBook on small instances: the sponsor's node and one peer. *)
EXTENDS OfferBook, TLC

\* Every claimant runs the peer's node.
FarHomes == [c \in Claimants |-> "peer"]

\* Claimants are interchangeable in every invariant.
ClaimantSymmetry == Permutations(Claimants)
=============================================================================
