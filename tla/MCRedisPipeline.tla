--------------------------- MODULE MCRedisPipeline ---------------------------
(* Small instances of RedisPipeline for TLC.                                 *)
EXTENDS RedisPipeline, TLC

Symmetry ==
  Permutations(Jobs) \cup Permutations(Requests) \cup Permutations(Workers)

=============================================================================
