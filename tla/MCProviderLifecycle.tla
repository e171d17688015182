------------------------- MODULE MCProviderLifecycle -------------------------
(* ProviderLifecycle for TLC: objects of one kind are interchangeable, and so  *)
(* are the user arrays that hold a user.                                       *)
EXTENDS ProviderLifecycle, TLC

Symmetry == Permutations(Providers) \cup Permutations(Tiles) \cup Permutations(Callbacks)
            \cup Permutations(Arrays \ EmptyArrays)
=============================================================================
