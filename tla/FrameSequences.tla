--------------------------- MODULE FrameSequences ---------------------------
(* What can be read off a queue of frames, each of a kind and with a number. *)
EXTENDS Integers, Sequences

NumbersOf(t, kind) == {t[i].n : i \in {k \in DOMAIN t : t[k].kind = kind}}

(* The numbers behind the last frame of kind warning, if there is one. *)
Behind(t, kind, warning) ==
  {t[i].n : i \in {k \in DOMAIN t :
                     /\ t[k].kind = kind
                     /\ \E j \in DOMAIN t : j < k /\ t[j].kind = warning
                     /\ \A j \in DOMAIN t : j > k => t[j].kind # warning}}
=============================================================================
