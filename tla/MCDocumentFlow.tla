--------------------------- MODULE MCDocumentFlow ---------------------------
(* Small instances of DocumentFlow for TLC. *)
EXTENDS DocumentFlow
CONSTANTS p1, p2
=============================================================================
