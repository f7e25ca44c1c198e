--------------------------- MODULE AnnouncedStream ---------------------------
(***************************************************************************)
(* What a bounded outbound queue promises its one reader: a prologue, then  *)
(* the envelopes meant for it, in order and each once.  Envelopes are only  *)
(* lost to make room for a newer one, and that one is sealed: the reader    *)
(* meets a warning before it.  A later loss may take the warning of an      *)
(* earlier one with it, so only the newest envelopes are sealed.           *)
(***************************************************************************)
EXTENDS Integers, Sequences

CONSTANTS Numbers,           \* the envelopes
          Prologue,          \* the frames a reader gets first
          EnvelopeKind,      \* the kind of their frames
          WarningKind        \* the kind of the frames that tell of a loss

VARIABLES open,              \* there is a reader
          seen,              \* the frames it got
          due,               \* the envelopes that arrived for it
          waiting,           \* those neither shown nor lost
          sealed             \* those a warning comes before

streamVars == <<open, seen, due, waiting, sealed>>

Init == /\ open \in BOOLEAN
        /\ seen = (IF open THEN Prologue ELSE <<>>)
        /\ due = {} /\ waiting = {} /\ sealed = {}

Open == /\ ~open /\ open'
        /\ seen' = Prologue
        /\ UNCHANGED <<due, waiting, sealed>>

Close == /\ open /\ ~open'
         /\ seen' = <<>> /\ due' = {} /\ waiting' = {} /\ sealed' = {}

Arrival(n) == /\ open /\ \A m \in due : m < n
              /\ due' = due \cup {n}
              /\ UNCHANGED <<open, seen>>

(* What comes after a sealed envelope is sealed with it or behind it. *)
Arrive(n) == /\ Arrival(n)
             /\ waiting' = waiting \cup {n}
             /\ sealed' \in {sealed, sealed \cup {n}}

Overflow(n) == /\ Arrival(n)
               /\ \E kept \in SUBSET waiting : waiting' = kept \cup {n}
               /\ sealed' = {n}

Show(n) == /\ open
           /\ n \in waiting \ sealed /\ \A m \in waiting : n =< m
           /\ seen' = Append(seen, [kind |-> EnvelopeKind, n |-> n])
           /\ waiting' = waiting \ {n}
           /\ UNCHANGED <<open, due, sealed>>

Warn == /\ open
        /\ seen' # <<>>
        /\ LET w == seen'[Len(seen')] IN w.kind = WarningKind /\ seen' = Append(seen, w)
        /\ sealed' \in {sealed, {}}
        /\ UNCHANGED <<open, due, waiting>>

Next == Open \/ Close \/ Warn \/ \E n \in Numbers : Arrive(n) \/ Overflow(n) \/ Show(n)

Spec == Init /\ [][Next]_streamVars
=============================================================================
