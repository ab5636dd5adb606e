-------------------------- MODULE MCUsagePipeline --------------------------
(* Instances of UsagePipeline for TLC. *)
EXTENDS UsagePipeline, TLC

\* The instances of one service are interchangeable.
WorkerSymmetry ==
    Permutations(Publishers) \union Permutations(Validators)
    \union Permutations(Aggregators)

=============================================================================
