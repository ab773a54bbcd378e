--------------------------- MODULE MCLogPipeline ---------------------------
(* Small instances of LogPipeline for TLC. *)
EXTENDS LogPipeline

CONSTANTS h1, h2, h3, k1, k2, k3

MCTopic == <<k1, k2, k3>>
WorkerSymmetry == Permutations(Workers)
=============================================================================
