--------------------------- MODULE MCEvidenceView ---------------------------
(* A result without evidence, one with one output, a run with two. *)
EXTENDS EvidenceView

CONSTANTS a, b

MCContexts == {<<>>, <<b>>, <<a, b>>}
=============================================================================
