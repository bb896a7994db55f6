------------------------------- MODULE MCTags -------------------------------
(***************************************************************************)
(* Tags on a small instance.  Names are only compared for equality, so all *)
(* of them are interchangeable.                                            *)
(***************************************************************************)
EXTENDS Tags, TLC

TagSymmetry == Permutations(Resource) \cup Permutations(Tag) \cup Permutations(Client)
=============================================================================
