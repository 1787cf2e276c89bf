--------------------------- MODULE MCEvidenceStream ---------------------------
(* Instances of EvidenceStream for TLC. *)
EXTENDS EvidenceStream, TLC

\* Random ids compare in an order of their own.
Shuffled == <<3, 1, 4, 2>>
ThreeShuffled == <<2, 3, 1>>
OneId == <<1>>

Symmetry == Permutations(Sessions) \cup Permutations(Runs) \cup Permutations(Payloads)
=============================================================================
