-------------------------- MODULE MCNativeEpisode --------------------------
(* Instances of NativeEpisode for TLC.                                     *)
EXTENDS NativeEpisode, TLC

Symmetry == Permutations(Clients) \union Permutations(Handlers)

=============================================================================
