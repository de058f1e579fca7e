------------------------------ MODULE MCChannel ------------------------------
(* TLC instances of Channel, with the refinement of ChannelRefinement.  The  *)
(* thread and data values are model values.                                 *)
EXTENDS ChannelRefinement, TLC

Symmetry == Permutations(Producers) \cup Permutations(Data)
=============================================================================
