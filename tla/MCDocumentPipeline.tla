------------------------ MODULE MCDocumentPipeline ------------------------
(* One upload. *)
EXTENDS DocumentPipeline, TLC

Symmetry == Permutations(Workers)
=============================================================================
