--------------------------- MODULE MCEvalCapture ---------------------------
(* Two or three runs over one output path with a target of two focal turns. *)
EXTENDS EvalCapture
=============================================================================
