-------------------------- MODULE MCEnvelopeQueues --------------------------
(* Small instance of EnvelopeQueues: a queue of three, so that an overflow  *)
(* keeps one old entry, and enough envelopes for a warning to be dropped by *)
(* a later overflow.                                                       *)
EXTENDS EnvelopeQueues
=============================================================================
