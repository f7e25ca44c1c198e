-------------------------- MODULE EnvelopePath_proofs --------------------------
(***************************************************************************)
(* Proofs about the path of an envelope from the runtime to a client: the    *)
(* queues of WorldRuntime with their broadcaster (EnvelopeQueues), for any   *)
(* capacity of at least two, and the sessions of the gateway (Gateway), for  *)
(* any number of clients, any session cap and any backlog of at least two.  *)
(* The two overflow alike, and their proofs share the lemmas on sequences.  *)
(***************************************************************************)
EXTENDS EnvelopeQueues, Gateway, FiniteSetTheorems, SequenceTheorems, TLAPS

-----------------------------------------------------------------------------
(* Sequences. *)

LEMMA ToSetType ==
  ASSUME NEW S, NEW s \in Seq(S) PROVE ToSet(s) \subseteq S
  BY DEF ToSet

LEMMA ToSetConcat ==
  ASSUME NEW S, NEW s \in Seq(S), NEW t \in Seq(S)
  PROVE  ToSet(s \o t) = ToSet(s) \cup ToSet(t)
<1>1. /\ DOMAIN s = 1..Len(s) /\ DOMAIN t = 1..Len(t) /\ Len(s) \in Nat /\ Len(t) \in Nat
      /\ DOMAIN (s \o t) = 1..(Len(s) + Len(t))
      /\ \A k \in 1..(Len(s) + Len(t)) : (s \o t)[k] = IF k =< Len(s) THEN s[k] ELSE t[k - Len(s)]
  OBVIOUS
<1>2. ASSUME NEW k \in 1..(Len(s) + Len(t)) PROVE (s \o t)[k] \in ToSet(s) \cup ToSet(t)
  <2>1. CASE k =< Len(s)
    BY <1>1, <2>1 DEF ToSet
  <2>2. CASE k > Len(s)
    <3>1. k - Len(s) \in 1..Len(t) /\ (s \o t)[k] = t[k - Len(s)]
      BY <1>1, <2>2
    <3>2. QED
      BY <1>1, <3>1 DEF ToSet
  <2>3. QED
    BY <1>1, <2>1, <2>2
<1>3. ASSUME NEW k \in 1..Len(s) PROVE s[k] \in ToSet(s \o t)
  <2>1. k \in 1..(Len(s) + Len(t)) /\ (s \o t)[k] = s[k]
    BY <1>1
  <2>2. QED
    BY <1>1, <2>1 DEF ToSet
<1>4. ASSUME NEW k \in 1..Len(t) PROVE t[k] \in ToSet(s \o t)
  <2>1. Len(s) + k \in 1..(Len(s) + Len(t)) /\ (s \o t)[Len(s) + k] = t[k]
    BY <1>1
  <2>2. QED
    BY <1>1, <2>1 DEF ToSet
<1>5. ToSet(s \o t) \subseteq ToSet(s) \cup ToSet(t)
  BY <1>1, <1>2 DEF ToSet
<1>6. ToSet(s) \subseteq ToSet(s \o t) /\ ToSet(t) \subseteq ToSet(s \o t)
  BY <1>1, <1>3, <1>4 DEF ToSet
<1>7. QED
  BY <1>5, <1>6

(* An element moved from the head of one sequence to the end of another     *)
(* stays where it was in their concatenation.                              *)
LEMMA HeadThenTail ==
  ASSUME NEW S, NEW r \in Seq(S), NEW s \in Seq(S), s # <<>>
  PROVE  (r \o <<Head(s)>>) \o Tail(s) = r \o s
<1> DEFINE first == <<Head(s)>>
<1>1. first \in Seq(S) /\ Tail(s) \in Seq(S) /\ first \o Tail(s) = s
  <2>1. Len(s) \in Nat /\ Len(s) # 0
    OBVIOUS
  <2>2. QED
    BY <2>1
<1> HIDE DEF first
<1>2. (r \o first) \o Tail(s) = r \o (first \o Tail(s))
  BY <1>1, ConcatAssociative
<1>3. QED
  BY <1>1, <1>2 DEF first

LEMMA ConcatAppend ==
  ASSUME NEW S, NEW s \in Seq(S), NEW t \in Seq(S), NEW x \in S
  PROVE  s \o Append(t, x) = Append(s \o t, x)
<1>1. /\ <<x>> \in Seq(S) /\ Append(t, x) = t \o <<x>>
      /\ s \o t \in Seq(S) /\ Append(s \o t, x) = (s \o t) \o <<x>>
  OBVIOUS
<1>2. QED
  BY <1>1, ConcatAssociative

(* What a full queue of at least two entries keeps and appends fits again. *)
LEMMA KeepNewest ==
  ASSUME NEW S, NEW q \in Seq(S), NEW room \in Nat, room >= 2, Len(q) = room,
         NEW x \in S, NEW y \in S
  PROVE  LET kept == SubSeq(q, Len(q) - (room - 2) + 1, Len(q))
         IN  /\ kept \in Seq(S) /\ Len(kept) = room - 2
             /\ \A k \in 1..(room - 2) : kept[k] = q[k + 2]
             /\ kept \o <<x, y>> \in Seq(S) /\ Len(kept \o <<x, y>>) = room
<1> DEFINE first == Len(q) - (room - 2) + 1
           kept == SubSeq(q, first, Len(q))
<1>1. first = 3 /\ first \in Int /\ Len(q) \in Int
  OBVIOUS
<1>2. \A i \in first..Len(q) : q[i] \in S
  BY <1>1
<1>3. /\ kept \in Seq(S)
      /\ Len(kept) = IF first =< Len(q) THEN Len(q) - first + 1 ELSE 0
      /\ \A i \in 1..(Len(q) - first + 1) : kept[i] = q[first + i - 1]
  BY <1>1, <1>2, SubSeqProperties
<1> HIDE DEF kept
<1>4. Len(kept) = room - 2 /\ \A k \in 1..(room - 2) : kept[k] = q[k + 2]
  BY <1>1, <1>3
<1>5. <<x, y>> \in Seq(S) /\ Len(<<x, y>>) = 2
  OBVIOUS
<1>6. kept \o <<x, y>> \in Seq(S) /\ Len(kept \o <<x, y>>) = Len(kept) + 2
  BY <1>3, <1>5, ConcatProperties
<1>7. QED
  BY <1>3, <1>4, <1>6 DEF kept

-----------------------------------------------------------------------------
(* Frame sequences: the numbers of one kind, and those behind a warning. *)

Has(t, kind) == \E j \in DOMAIN t : t[j].kind = kind

Rising(t, kind) ==
  \A i, j \in DOMAIN t : i < j /\ t[i].kind = kind /\ t[j].kind = kind => t[i].n < t[j].n

(* Where the parts of a concatenation are. *)
Parts(s, t, u) ==
  /\ Len(s) \in Nat
  /\ \A k \in DOMAIN s : k \in DOMAIN u /\ u[k] = s[k] /\ k \in Nat /\ k =< Len(s)
  /\ \A k \in DOMAIN t : Len(s) + k \in DOMAIN u /\ u[Len(s) + k] = t[k] /\ k \in Nat /\ k >= 1
  /\ \A k \in DOMAIN u : k \in DOMAIN s \/ \E j \in DOMAIN t : k = Len(s) + j

LEMMA ConcatParts ==
  ASSUME NEW S, NEW s \in Seq(S), NEW t \in Seq(S)
  PROVE  Parts(s, t, s \o t)
<1>1. /\ Len(s) \in Nat /\ Len(t) \in Nat /\ Len(s \o t) = Len(s) + Len(t)
      /\ DOMAIN s = 1..Len(s) /\ DOMAIN t = 1..Len(t) /\ DOMAIN (s \o t) = 1..(Len(s) + Len(t))
      /\ \A k \in 1..(Len(s) + Len(t)) : (s \o t)[k] = IF k =< Len(s) THEN s[k] ELSE t[k - Len(s)]
  OBVIOUS
<1>2. ASSUME NEW k \in DOMAIN s PROVE k \in 1..(Len(s) + Len(t)) /\ k =< Len(s) /\ k \in Nat
  BY <1>1
<1>3. ASSUME NEW k \in DOMAIN t
      PROVE  /\ Len(s) + k \in 1..(Len(s) + Len(t)) /\ ~(Len(s) + k =< Len(s))
             /\ (Len(s) + k) - Len(s) = k /\ k \in Nat /\ k >= 1
  BY <1>1
<1>4. ASSUME NEW k \in 1..(Len(s) + Len(t))
      PROVE  k \in DOMAIN s \/ \E j \in DOMAIN t : k = Len(s) + j
  <2>1. CASE k =< Len(s)
    BY <1>1, <2>1
  <2>2. CASE ~(k =< Len(s))
    <3>1. k - Len(s) \in DOMAIN t /\ k = Len(s) + (k - Len(s))
      BY <1>1, <2>2
    <3>2. QED
      BY <3>1
  <2>3. QED
    BY <2>1, <2>2
<1>5. QED
  BY <1>1, <1>2, <1>3, <1>4 DEF Parts

LEMMA NumbersConcat ==
  ASSUME NEW S, NEW s \in Seq(S), NEW t \in Seq(S), NEW kind
  PROVE  /\ NumbersOf(s \o t, kind) = NumbersOf(s, kind) \cup NumbersOf(t, kind)
         /\ Has(s \o t, kind) <=> Has(s, kind) \/ Has(t, kind)
<1> DEFINE u == s \o t
<1>1. /\ \A k \in DOMAIN s : k \in DOMAIN u /\ u[k] = s[k]
      /\ \A k \in DOMAIN t : Len(s) + k \in DOMAIN u /\ u[Len(s) + k] = t[k]
      /\ \A k \in DOMAIN u : k \in DOMAIN s \/ \E j \in DOMAIN t : k = Len(s) + j
  <2>1. Parts(s, t, u)
    BY ConcatParts
  <2>2. QED
    BY <2>1 DEF Parts
<1> HIDE DEF u
<1>2. NumbersOf(u, kind) \subseteq NumbersOf(s, kind) \cup NumbersOf(t, kind)
  BY <1>1 DEF NumbersOf
<1>3. NumbersOf(s, kind) \subseteq NumbersOf(u, kind)
  BY <1>1 DEF NumbersOf
<1>4. NumbersOf(t, kind) \subseteq NumbersOf(u, kind)
  BY <1>1 DEF NumbersOf
<1>5. Has(u, kind) <=> Has(s, kind) \/ Has(t, kind)
  BY <1>1 DEF Has
<1>6. QED
  BY <1>2, <1>3, <1>4, <1>5 DEF u

(* A warning in the second part hides the first; without one, the second    *)
(* part is behind the last warning of the first.                           *)
LEMMA BehindConcat ==
  ASSUME NEW S, NEW s \in Seq(S), NEW t \in Seq(S), NEW kind, NEW warning, kind # warning
  PROVE  Behind(s \o t, kind, warning) =
           IF Has(t, warning) THEN Behind(t, kind, warning)
           ELSE Behind(s, kind, warning)
                  \cup (IF Has(s, warning) THEN NumbersOf(t, kind) ELSE {})
<1> DEFINE u == s \o t
           Stands(r, k) == /\ r[k].kind = kind
                           /\ \E j \in DOMAIN r : j < k /\ r[j].kind = warning
                           /\ \A j \in DOMAIN r : j > k => r[j].kind # warning
<1>1. /\ Len(s) \in Nat
      /\ \A k \in DOMAIN s : k \in DOMAIN u /\ u[k] = s[k] /\ k \in Nat /\ k =< Len(s)
      /\ \A k \in DOMAIN t : Len(s) + k \in DOMAIN u /\ u[Len(s) + k] = t[k] /\ k \in Nat /\ k >= 1
      /\ \A k \in DOMAIN u : k \in DOMAIN s \/ \E j \in DOMAIN t : k = Len(s) + j
  <2>1. Parts(s, t, u)
    BY ConcatParts
  <2>2. QED
    BY <2>1 DEF Parts
<1> HIDE DEF u
<1>2. \A r : Behind(r, kind, warning) = {r[k].n : k \in {i \in DOMAIN r : Stands(r, i)}}
  BY DEF Behind
<1>3. ASSUME NEW k \in DOMAIN s
      PROVE  Stands(u, k) <=> Stands(s, k) /\ ~Has(t, warning)
  <2>1. ASSUME Stands(u, k) PROVE Stands(s, k) /\ ~Has(t, warning)
    <3>1. PICK j \in DOMAIN u : j < k /\ u[j].kind = warning
      BY <2>1
    <3>2. j \in DOMAIN s
      BY <1>1, <3>1
    <3>3. \A i \in DOMAIN t : Len(s) + i > k
      BY <1>1
    <3>4. QED
      BY <1>1, <2>1, <3>1, <3>2, <3>3 DEF Has
  <2>2. ASSUME Stands(s, k), ~Has(t, warning) PROVE Stands(u, k)
    <3>1. /\ u[k] = s[k] /\ s[k].kind = kind
          /\ \E j \in DOMAIN s : j < k /\ s[j].kind = warning
      BY <1>1, <2>2
    <3>2. \E j \in DOMAIN u : j < k /\ u[j].kind = warning
      BY <1>1, <3>1
    <3>3. ASSUME NEW j \in DOMAIN u, j > k PROVE u[j].kind # warning
      BY <1>1, <2>2, <3>3 DEF Has
    <3>4. QED
      BY <3>1, <3>2, <3>3
  <2>3. QED
    BY <2>1, <2>2
<1>4. ASSUME NEW k \in DOMAIN t
      PROVE  Stands(u, Len(s) + k) <=>
               Stands(t, k) \/ (t[k].kind = kind /\ Has(s, warning) /\ ~Has(t, warning))
  <2>1. \A j \in DOMAIN t : /\ Len(s) + j < Len(s) + k <=> j < k
                            /\ Len(s) + j > Len(s) + k <=> j > k
    BY <1>1
  <2>2. \A j \in DOMAIN s : j < Len(s) + k /\ ~(j > Len(s) + k)
    BY <1>1
  <2>3. \A j \in DOMAIN u : j > Len(s) + k /\ u[j].kind = warning
                              <=> \E i \in DOMAIN t : j = Len(s) + i /\ i > k /\ t[i].kind = warning
    BY <1>1, <2>1, <2>2
  <2>4. (\A j \in DOMAIN u : j > Len(s) + k => u[j].kind # warning)
          <=> \A i \in DOMAIN t : i > k => t[i].kind # warning
    BY <1>1, <2>1, <2>3
  <2>5. (\E j \in DOMAIN u : j < Len(s) + k /\ u[j].kind = warning)
          <=> Has(s, warning) \/ \E i \in DOMAIN t : i < k /\ t[i].kind = warning
    BY <1>1, <2>1, <2>2 DEF Has
  <2>6. ASSUME \A i \in DOMAIN t : i > k => t[i].kind # warning,
               ~\E i \in DOMAIN t : i < k /\ t[i].kind = warning, t[k].kind = kind
        PROVE  ~Has(t, warning)
    <3>1. \A i \in DOMAIN t : i > k \/ i < k \/ i = k
      BY <1>1
    <3>2. QED
      BY <2>6, <3>1 DEF Has
  <2>7. u[Len(s) + k] = t[k]
    BY <1>1
  <2>8. QED
    BY <2>4, <2>5, <2>6, <2>7 DEF Has
<1>5. Behind(u, kind, warning) =
        {s[k].n : k \in {i \in DOMAIN s : Stands(u, i)}}
          \cup {t[k].n : k \in {i \in DOMAIN t : Stands(u, Len(s) + i)}}
  <2> HIDE DEF Stands
  <2>1. {u[k].n : k \in {i \in DOMAIN u : Stands(u, i)}} \subseteq
          {s[k].n : k \in {i \in DOMAIN s : Stands(u, i)}}
            \cup {t[k].n : k \in {i \in DOMAIN t : Stands(u, Len(s) + i)}}
    BY <1>1
  <2>2. {s[k].n : k \in {i \in DOMAIN s : Stands(u, i)}}
          \subseteq {u[k].n : k \in {i \in DOMAIN u : Stands(u, i)}}
    BY <1>1
  <2>3. {t[k].n : k \in {i \in DOMAIN t : Stands(u, Len(s) + i)}}
          \subseteq {u[k].n : k \in {i \in DOMAIN u : Stands(u, i)}}
    BY <1>1
  <2>4. QED
    BY <1>2, <2>1, <2>2, <2>3
<1>6. CASE Has(t, warning)
  <2>1. {s[k].n : k \in {i \in DOMAIN s : Stands(u, i)}} = {}
    BY <1>3, <1>6
  <2>2. {t[k].n : k \in {i \in DOMAIN t : Stands(u, Len(s) + i)}}
          = {t[k].n : k \in {i \in DOMAIN t : Stands(t, i)}}
    BY <1>4, <1>6
  <2>3. QED
    BY <1>2, <1>5, <1>6, <2>1, <2>2 DEF u
<1>7. CASE ~Has(t, warning)
  <2>1. {s[k].n : k \in {i \in DOMAIN s : Stands(u, i)}}
          = {s[k].n : k \in {i \in DOMAIN s : Stands(s, i)}}
    BY <1>3, <1>7
  <2>2. \A k \in DOMAIN t : Stands(u, Len(s) + k) <=> t[k].kind = kind /\ Has(s, warning)
    BY <1>4, <1>7 DEF Has
  <2>3. {t[k].n : k \in {i \in DOMAIN t : Stands(u, Len(s) + i)}}
          = IF Has(s, warning) THEN NumbersOf(t, kind) ELSE {}
    BY <2>2 DEF NumbersOf
  <2>4. QED
    BY <1>2, <1>5, <1>7, <2>1, <2>3 DEF u
<1>8. QED
  BY <1>6, <1>7

LEMMA RisingConcat ==
  ASSUME NEW S, NEW s \in Seq(S), NEW t \in Seq(S), NEW kind
  PROVE  Rising(s \o t, kind) <=>
           /\ Rising(s, kind) /\ Rising(t, kind)
           /\ \A m \in NumbersOf(s, kind), n \in NumbersOf(t, kind) : m < n
<1> DEFINE u == s \o t
<1>1. /\ Len(s) \in Nat
      /\ \A k \in DOMAIN s : k \in DOMAIN u /\ u[k] = s[k] /\ k \in Nat /\ k =< Len(s)
      /\ \A k \in DOMAIN t : Len(s) + k \in DOMAIN u /\ u[Len(s) + k] = t[k] /\ k \in Nat /\ k >= 1
      /\ \A k \in DOMAIN u : k \in DOMAIN s \/ \E j \in DOMAIN t : k = Len(s) + j
  <2>1. Parts(s, t, u)
    BY ConcatParts
  <2>2. QED
    BY <2>1 DEF Parts
<1> HIDE DEF u
<1>2. /\ \A i \in DOMAIN s, j \in DOMAIN t : i < Len(s) + j /\ ~(Len(s) + j < i)
      /\ \A i, j \in DOMAIN t : Len(s) + i < Len(s) + j <=> i < j
  BY <1>1
<1>3. ASSUME Rising(u, kind)
      PROVE  /\ Rising(s, kind) /\ Rising(t, kind)
             /\ \A m \in NumbersOf(s, kind), n \in NumbersOf(t, kind) : m < n
  BY <1>1, <1>2, <1>3 DEF Rising, NumbersOf
<1>4. ASSUME Rising(s, kind), Rising(t, kind),
             \A m \in NumbersOf(s, kind), n \in NumbersOf(t, kind) : m < n,
             NEW i \in DOMAIN u, NEW j \in DOMAIN u, i < j, u[i].kind = kind, u[j].kind = kind
      PROVE  u[i].n < u[j].n
  <2>1. CASE i \in DOMAIN s /\ j \in DOMAIN s
    BY <1>1, <1>4, <2>1 DEF Rising
  <2>2. CASE i \in DOMAIN s /\ \E k \in DOMAIN t : j = Len(s) + k
    BY <1>1, <1>4, <2>2 DEF NumbersOf
  <2>3. CASE (\E k \in DOMAIN t : i = Len(s) + k) /\ \E k \in DOMAIN t : j = Len(s) + k
    BY <1>1, <1>2, <1>4, <2>3 DEF Rising
  <2>4. ~(j \in DOMAIN s /\ \E k \in DOMAIN t : i = Len(s) + k)
    BY <1>2, <1>4
  <2>5. QED
    BY <1>1, <2>1, <2>2, <2>3, <2>4
<1>5. Rising(u, kind) <=>
           /\ Rising(s, kind) /\ Rising(t, kind)
           /\ \A m \in NumbersOf(s, kind), n \in NumbersOf(t, kind) : m < n
  BY <1>3, <1>4 DEF Rising
<1>6. QED
  BY <1>5 DEF u

LEMMA OneFrame ==
  ASSUME NEW x, NEW kind, NEW warning, kind # warning
  PROVE  /\ NumbersOf(<<>>, kind) = {} /\ ~Has(<<>>, kind) /\ Behind(<<>>, kind, warning) = {}
         /\ NumbersOf(<<x>>, kind) = (IF x.kind = kind THEN {x.n} ELSE {})
         /\ Has(<<x>>, kind) <=> x.kind = kind
         /\ Behind(<<x>>, kind, warning) = {}
         /\ Rising(<<>>, kind) /\ Rising(<<x>>, kind)
<1>1. DOMAIN <<>> = {} /\ DOMAIN <<x>> = {1} /\ <<x>>[1] = x
  OBVIOUS
<1>2. NumbersOf(<<>>, kind) = {} /\ ~Has(<<>>, kind) /\ Behind(<<>>, kind, warning) = {}
  BY <1>1 DEF NumbersOf, Has, Behind
<1>3. /\ NumbersOf(<<x>>, kind) = (IF x.kind = kind THEN {x.n} ELSE {})
      /\ Has(<<x>>, kind) <=> x.kind = kind
  BY <1>1 DEF NumbersOf, Has
<1>4. Behind(<<x>>, kind, warning) = {}
  BY <1>1 DEF Behind
<1>5. Rising(<<>>, kind) /\ Rising(<<x>>, kind)
  BY <1>1 DEF Rising
<1>6. QED
  BY <1>2, <1>3, <1>4, <1>5

(* The newcomer and the warning before it. *)
LEMMA WarningAndNewcomer ==
  ASSUME NEW w, NEW x, w.kind # x.kind
  PROVE  /\ NumbersOf(<<w, x>>, x.kind) = {x.n} /\ Has(<<w, x>>, w.kind)
         /\ Behind(<<w, x>>, x.kind, w.kind) = {x.n} /\ Rising(<<w, x>>, x.kind)
<1>1. DOMAIN <<w, x>> = {1, 2} /\ <<w, x>>[1] = w /\ <<w, x>>[2] = x
  OBVIOUS
<1>2. NumbersOf(<<w, x>>, x.kind) = {x.n} /\ Has(<<w, x>>, w.kind)
  BY <1>1 DEF NumbersOf, Has
<1>3. Behind(<<w, x>>, x.kind, w.kind) = {x.n}
  BY <1>1 DEF Behind
<1>4. Rising(<<w, x>>, x.kind)
  BY <1>1 DEF Rising
<1>5. QED
  BY <1>2, <1>3, <1>4

LEMMA BehindIsBehind ==
  ASSUME NEW t, NEW kind, NEW warning
  PROVE  /\ Behind(t, kind, warning) \subseteq NumbersOf(t, kind)
         /\ ~Has(t, warning) => Behind(t, kind, warning) = {}
  BY DEF Behind, NumbersOf, Has

-----------------------------------------------------------------------------
(* What becomes of a queue's unread frames, in the terms of AnnouncedStream. *)

(* A newcomer that finds room. *)
LEMMA Enters ==
  ASSUME NEW S, NEW p \in Seq(S), NEW x \in S, NEW kind, NEW warning, kind # warning,
         x.kind = kind, Rising(p, kind), \A m \in NumbersOf(p, kind) : m < x.n
  PROVE  /\ NumbersOf(Append(p, x), kind) = NumbersOf(p, kind) \cup {x.n}
         /\ Behind(Append(p, x), kind, warning)
              \in {Behind(p, kind, warning), Behind(p, kind, warning) \cup {x.n}}
         /\ Rising(Append(p, x), kind)
<1> DEFINE new == <<x>>
<1>1. new \in Seq(S) /\ Append(p, x) = p \o new
  OBVIOUS
<1>2. /\ NumbersOf(new, kind) = {x.n} /\ ~Has(new, warning)
      /\ Behind(new, kind, warning) = {} /\ Rising(new, kind)
  BY OneFrame
<1> HIDE DEF new
<1>3. NumbersOf(p \o new, kind) = NumbersOf(p, kind) \cup {x.n}
  BY <1>1, <1>2, NumbersConcat
<1>4. Behind(p \o new, kind, warning)
        = Behind(p, kind, warning) \cup (IF Has(p, warning) THEN {x.n} ELSE {})
  BY <1>1, <1>2, BehindConcat
<1>5. Rising(p \o new, kind)
  BY <1>1, <1>2, RisingConcat
<1>6. QED
  BY <1>1, <1>3, <1>4, <1>5

LEMMA NumbersOfThree ==
  ASSUME NEW S, NEW s \in Seq(S), NEW t \in Seq(S), NEW u \in Seq(S), NEW kind
  PROVE  NumbersOf(s \o (t \o u), kind)
           = (NumbersOf(s, kind) \cup NumbersOf(t, kind)) \cup NumbersOf(u, kind)
<1> DEFINE q == t \o u
<1>1. q \in Seq(S)
  BY ConcatProperties
<1>2. NumbersOf(q, kind) = NumbersOf(t, kind) \cup NumbersOf(u, kind)
  BY NumbersConcat
<1> HIDE DEF q
<1>3. NumbersOf(s \o q, kind) = NumbersOf(s, kind) \cup NumbersOf(q, kind)
  BY <1>1, NumbersConcat
<1>4. NumbersOf(s \o q, kind)
        = (NumbersOf(s, kind) \cup NumbersOf(t, kind)) \cup NumbersOf(u, kind)
  BY <1>2, <1>3
<1>5. QED
  BY <1>4 DEF q

Precede(A, B) == \A m \in A, n \in B : m < n

(* One that pushes out the entries in the middle: those before are in a      *)
(* reader's hands, those behind are kept, and the news start with a warning. *)
LEMMA Crowds ==
  ASSUME NEW S, NEW h \in Seq(S), NEW dropped \in Seq(S), NEW kept \in Seq(S),
         NEW news \in Seq(S), NEW kind, NEW warning, kind # warning,
         Has(news, warning), Behind(news, kind, warning) = NumbersOf(news, kind),
         Rising(news, kind), Rising(h \o (dropped \o kept), kind),
         Precede(NumbersOf(h \o (dropped \o kept), kind), NumbersOf(news, kind))
  PROVE  /\ Behind(h \o (kept \o news), kind, warning) = NumbersOf(news, kind)
         /\ Rising(h \o (kept \o news), kind)
<1> DEFINE q == dropped \o kept
           tail == kept \o news
<1>1. news \in Seq(S)
  OBVIOUS
<1>2. /\ Has(news, warning) /\ Rising(news, kind)
      /\ Behind(news, kind, warning) = NumbersOf(news, kind)
  OBVIOUS
<1>3. q \in Seq(S) /\ tail \in Seq(S)
  BY <1>1, ConcatProperties
<1>4. /\ NumbersOf(q, kind) = NumbersOf(dropped, kind) \cup NumbersOf(kept, kind)
      /\ NumbersOf(tail, kind) = NumbersOf(kept, kind) \cup NumbersOf(news, kind)
      /\ Has(tail, warning)
      /\ Behind(tail, kind, warning) = NumbersOf(news, kind)
  BY <1>1, <1>2, NumbersConcat, BehindConcat
<1> HIDE DEF q, tail
<1>5. NumbersOf(h \o q, kind) = NumbersOf(h, kind) \cup NumbersOf(q, kind)
  BY <1>3, NumbersConcat
<1>6. /\ Rising(h, kind) /\ Rising(q, kind)
      /\ \A m \in NumbersOf(h, kind), n \in NumbersOf(q, kind) : m < n
      /\ \A m \in NumbersOf(h \o q, kind), n \in NumbersOf(news, kind) : m < n
  <2>1. Rising(h \o q, kind) /\ \A m \in NumbersOf(h \o q, kind), n \in NumbersOf(news, kind) : m < n
    BY DEF q, Precede
  <2>2. QED
    BY <1>3, <2>1, RisingConcat
<1>7. Rising(kept, kind)
  BY <1>6, RisingConcat DEF q
<1>8. Rising(tail, kind)
  <2>1. \A m \in NumbersOf(kept, kind), n \in NumbersOf(news, kind) : m < n
    BY <1>2, <1>4, <1>5, <1>6
  <2>2. QED
    BY <1>1, <1>2, <1>7, <2>1, RisingConcat DEF tail
<1>9. Rising(h \o tail, kind)
  <2>1. \A m \in NumbersOf(h, kind), n \in NumbersOf(tail, kind) : m < n
    BY <1>4, <1>5, <1>6
  <2>2. QED
    BY <1>3, <1>6, <1>8, <2>1, RisingConcat
<1>10. Behind(h \o tail, kind, warning) = NumbersOf(news, kind)
  BY <1>3, <1>4, BehindConcat
<1>11. QED
  BY <1>9, <1>10 DEF tail, q

(* What the first frame x of <<x>> \o q takes with it when it is read: the least of the waiting
   numbers, which no warning had announced, or an announcement. *)
Departs(x, q, kind, warning) ==
  /\ x.kind = kind =>
       /\ x.n \in NumbersOf(<<x>> \o q, kind) \ Behind(<<x>> \o q, kind, warning)
       /\ \A m \in NumbersOf(<<x>> \o q, kind) : x.n =< m
       /\ NumbersOf(q, kind) = NumbersOf(<<x>> \o q, kind) \ {x.n}
       /\ Behind(q, kind, warning) = Behind(<<x>> \o q, kind, warning)
  /\ x.kind = warning =>
       /\ NumbersOf(q, kind) = NumbersOf(<<x>> \o q, kind)
       /\ Behind(q, kind, warning) \in {Behind(<<x>> \o q, kind, warning), {}}

(* The first frame is read. *)
LEMMA Leaves ==
  ASSUME NEW S, NEW x \in S, NEW q \in Seq(S), NEW kind, NEW warning, kind # warning,
         Rising(<<x>> \o q, kind), NumbersOf(<<x>> \o q, kind) \subseteq Nat
  PROVE  Rising(q, kind) /\ Departs(x, q, kind, warning)
<1> DEFINE first == <<x>>
<1>1. first \in Seq(S)
  OBVIOUS
<1>2. /\ NumbersOf(first, kind) = (IF x.kind = kind THEN {x.n} ELSE {})
      /\ Has(first, warning) <=> x.kind = warning
      /\ Behind(first, kind, warning) = {}
  <2>1. /\ NumbersOf(<<x>>, kind) = (IF x.kind = kind THEN {x.n} ELSE {})
        /\ Behind(<<x>>, kind, warning) = {}
    BY OneFrame, Zenon
  <2>2. Has(<<x>>, warning) <=> x.kind = warning
    BY OneFrame, Zenon
  <2>3. QED
    BY <2>1, <2>2
<1> HIDE DEF first
<1>3. /\ NumbersOf(first \o q, kind) = NumbersOf(first, kind) \cup NumbersOf(q, kind)
      /\ Rising(first \o q, kind) /\ NumbersOf(first \o q, kind) \subseteq Nat
  <2>1. Rising(first \o q, kind) /\ NumbersOf(first \o q, kind) \subseteq Nat
    BY DEF first
  <2>2. NumbersOf(first \o q, kind) = NumbersOf(first, kind) \cup NumbersOf(q, kind)
    BY <1>1, NumbersConcat
  <2>3. QED
    BY <2>1, <2>2
<1>4. /\ Rising(q, kind)
      /\ \A m \in NumbersOf(first, kind), n \in NumbersOf(q, kind) : m < n
  BY <1>1, <1>3, RisingConcat
<1>5. Behind(first \o q, kind, warning) =
        IF Has(q, warning) THEN Behind(q, kind, warning)
        ELSE IF Has(first, warning) THEN NumbersOf(q, kind) ELSE {}
  <2>1. Behind(first \o q, kind, warning) =
          IF Has(q, warning) THEN Behind(q, kind, warning)
          ELSE Behind(first, kind, warning)
                 \cup (IF Has(first, warning) THEN NumbersOf(q, kind) ELSE {})
    BY <1>1, BehindConcat
  <2>2. QED
    BY <1>2, <2>1
<1>6. /\ Behind(q, kind, warning) \subseteq NumbersOf(q, kind)
      /\ ~Has(q, warning) => Behind(q, kind, warning) = {}
  BY BehindIsBehind
<1>7. ASSUME x.kind = kind
      PROVE  /\ x.n \in NumbersOf(first \o q, kind) \ Behind(first \o q, kind, warning)
             /\ \A m \in NumbersOf(first \o q, kind) : x.n =< m
             /\ NumbersOf(q, kind) = NumbersOf(first \o q, kind) \ {x.n}
             /\ Behind(q, kind, warning) = Behind(first \o q, kind, warning)
  <2>1. x.n \in NumbersOf(first \o q, kind) /\ x.n \in Nat /\ NumbersOf(q, kind) \subseteq Nat
    BY <1>2, <1>3, <1>7
  <2>2. x.n \notin NumbersOf(q, kind)
    BY <1>2, <1>4, <1>7, <2>1
  <2>3. Behind(q, kind, warning) = Behind(first \o q, kind, warning)
    BY <1>2, <1>5, <1>6, <1>7
  <2>4. \A m \in NumbersOf(first \o q, kind) : x.n =< m
    BY <1>2, <1>3, <1>4, <1>7, <2>1
  <2>5. NumbersOf(q, kind) = NumbersOf(first \o q, kind) \ {x.n}
    BY <1>2, <1>3, <1>7, <2>2
  <2>6. QED
    BY <1>6, <2>1, <2>2, <2>3, <2>4, <2>5
<1>8. ASSUME x.kind = warning
      PROVE  /\ NumbersOf(q, kind) = NumbersOf(first \o q, kind)
             /\ Behind(q, kind, warning) \in {Behind(first \o q, kind, warning), {}}
  BY <1>2, <1>3, <1>5, <1>6, <1>8
<1>9. Departs(x, q, kind, warning)
  BY <1>7, <1>8 DEF Departs, first
<1>10. QED
  BY <1>4, <1>9

(* A queue is what it drops and what it keeps. *)
LEMMA DroppedAndKept ==
  ASSUME NEW S, NEW q \in Seq(S), NEW i \in 1..(Len(q) + 1)
  PROVE  /\ SubSeq(q, 1, i - 1) \in Seq(S) /\ SubSeq(q, i, Len(q)) \in Seq(S)
         /\ q = SubSeq(q, 1, i - 1) \o SubSeq(q, i, Len(q))
<1> DEFINE d == SubSeq(q, 1, i - 1)
           k == SubSeq(q, i, Len(q))
<1>0. Len(q) \in Nat /\ i \in Nat /\ i >= 1 /\ i =< Len(q) + 1 /\ \A j \in 1..Len(q) : q[j] \in S
  OBVIOUS
<1>1. d \in Seq(S) /\ Len(d) = i - 1 /\ \A j \in 1..(i - 1) : d[j] = q[j]
  <2>1. \A j \in 1..(i - 1) : q[j] \in S
    BY <1>0
  <2>2. /\ d \in Seq(S)
        /\ Len(d) = IF 1 =< i - 1 THEN (i - 1) - 1 + 1 ELSE 0
        /\ \A j \in 1..((i - 1) - 1 + 1) : d[j] = q[1 + j - 1]
    BY <1>0, <2>1, SubSeqProperties
  <2> HIDE DEF d
  <2>3. QED
    BY <1>0, <2>2
<1>2. k \in Seq(S) /\ Len(k) = Len(q) - i + 1 /\ \A j \in 1..(Len(q) - i + 1) : k[j] = q[i + j - 1]
  <2>1. \A j \in i..Len(q) : q[j] \in S
    BY <1>0
  <2>2. /\ k \in Seq(S)
        /\ Len(k) = IF i =< Len(q) THEN Len(q) - i + 1 ELSE 0
        /\ \A j \in 1..(Len(q) - i + 1) : k[j] = q[i + j - 1]
    BY <1>0, <2>1, SubSeqProperties
  <2> HIDE DEF k
  <2>3. QED
    BY <1>0, <2>2
<1> HIDE DEF d, k
<1>3. /\ d \o k \in Seq(S) /\ Len(d \o k) = Len(q)
      /\ \A j \in 1..Len(q) : (d \o k)[j] = IF j =< Len(d) THEN d[j] ELSE k[j - Len(d)]
  <2>1. d \o k \in Seq(S) /\ Len(d \o k) = Len(d) + Len(k)
    BY <1>1, <1>2, ConcatProperties
  <2>2. \A j \in 1..(Len(d) + Len(k)) : (d \o k)[j] = IF j =< Len(d) THEN d[j] ELSE k[j - Len(d)]
    BY <1>1, <1>2, ConcatProperties
  <2>3. Len(d) + Len(k) = Len(q)
    BY <1>0, <1>1, <1>2
  <2>4. QED
    BY <2>1, <2>2, <2>3
<1>4. \A j \in 1..Len(q) : (d \o k)[j] = q[j]
  <2> SUFFICES ASSUME NEW j \in 1..Len(q) PROVE (d \o k)[j] = q[j]
    OBVIOUS
  <2>1. CASE j =< Len(d)
    <3>1. j \in 1..(i - 1)
      BY <1>0, <1>1, <2>1
    <3>2. QED
      BY <1>1, <1>3, <2>1, <3>1
  <2>2. CASE ~(j =< Len(d))
    <3>1. j - Len(d) \in 1..(Len(q) - i + 1) /\ i + (j - Len(d)) - 1 = j
      BY <1>0, <1>1, <2>2
    <3>2. (d \o k)[j] = k[j - Len(d)]
      BY <1>3, <2>2
    <3>3. k[j - Len(d)] = q[i + (j - Len(d)) - 1]
      BY <1>2, <3>1
    <3>4. QED
      BY <3>1, <3>2, <3>3
  <2>3. QED
    BY <2>1, <2>2
<1>5. d \o k = q
  BY <1>3, <1>4, SeqEqual
<1>6. QED
  BY <1>1, <1>2, <1>5 DEF d, k

-----------------------------------------------------------------------------
(* Gateway: slots. *)

SlotInv == phase \in [Sessions -> Phases] /\ SlotPerSession

LEMMA InitSlot == Init => SlotInv
  BY DEF Init, SlotInv, SlotPerSession, Phases, InTaskGroup

(* A session that moves neither into nor out of its task group keeps its     *)
(* slot, or goes on without one.                                           *)
LEMMA GoesKeepsSlot ==
  ASSUME SlotInv, NEW s \in Sessions, NEW from, NEW to \in Phases, Goes(s, from, to),
         from \in InTaskGroup <=> to \in InTaskGroup, registry' = registry
  PROVE  SlotInv'
  BY DEF SlotInv, SlotPerSession, Goes

LEMMA StepSlot == SlotInv /\ [Next]_vars => SlotInv'
<1> SUFFICES ASSUME SlotInv, [Next]_vars PROVE SlotInv'
  OBVIOUS
<1>1. ASSUME NEW s \in Sessions, Session(s) PROVE SlotInv'
  <2>1. CASE Refuse(s) \/ RefuseHandshake(s) \/ HandshakeTimeout(s) \/ ReserveRaced(s)
    BY <2>1, GoesKeepsSlot
       DEF Refuse, RefuseHandshake, HandshakeTimeout, ReserveRaced, Returns, Phases, InTaskGroup
  <2>2. CASE (\E f \in Filters : Accept(s, f)) \/ ReceiveHandshake(s) \/ SendLayout(s)
    BY <2>2, GoesKeepsSlot DEF Accept, ReceiveHandshake, SendLayout, Phases, InTaskGroup
  <2>3. CASE IdleTimeout(s) \/ Expire(s)
    BY <2>3, GoesKeepsSlot DEF IdleTimeout, Expire, Phases, InTaskGroup
  <2>4. CASE Reserve(s)
    BY <2>4 DEF Reserve, Goes, SlotInv, SlotPerSession, Phases, InTaskGroup
  <2>5. CASE Release(s)
    BY <2>5 DEF Release, Returns, Goes, SlotInv, SlotPerSession, Phases, InTaskGroup
  <2>6. CASE Disconnect(s)
    <3>1. CASE \E p \in {"handshaking", "snapshotting", "joining"} : Returns(s, p)
                                                                   /\ UNCHANGED registry
      BY <3>1, GoesKeepsSlot DEF Returns, Phases, InTaskGroup
    <3>2. CASE \E p \in {"active", "expiring"} : Goes(s, p, "stopping") /\ UNCHANGED registry
      BY <3>2, GoesKeepsSlot DEF Phases, InTaskGroup
    <3>3. QED
      BY <2>6, <3>1, <3>2 DEF Disconnect
  <2>7. CASE Dequeue(s) \/ Write(s) \/ GoSilent(s)
    BY <2>7 DEF Dequeue, Write, GoSilent, connection, SlotInv, SlotPerSession
  <2>8. QED
    BY <1>1, <2>1, <2>2, <2>3, <2>4, <2>5, <2>6, <2>7 DEF Session
<1>2. ASSUME NEW to \in Filters, FanOut(to) PROVE SlotInv'
  BY <1>2 DEF FanOut, connection, SlotInv, SlotPerSession
<1>3. CASE UNCHANGED vars
  BY <1>3 DEF vars, connection, SlotInv, SlotPerSession
<1>4. QED
  BY <1>1, <1>2, <1>3 DEF Next

(* Whichever way a session ends, its slot is released with its task group,   *)
(* and no task group runs without a slot, for any number of clients.       *)
THEOREM SlotPerSessionHolds == Spec => []SlotPerSession
<1>1. SlotInv => SlotPerSession
  BY DEF SlotInv
<1>2. QED
  BY <1>1, InitSlot, StepSlot, PTL DEF Spec

-----------------------------------------------------------------------------
(* Gateway: the cap. *)

CapInv == IsFiniteSet(registry) /\ CapRespected

LEMMA InitCap == Init => CapInv
  BY FS_EmptySet, GatewayAssumption DEF Init, CapInv, CapRespected, GatewayAssumption

(* Only Reserve adds a slot, and it checks the cap in the same breath. *)
LEMMA RegistrySteps ==
  ASSUME [Next]_vars
  PROVE  \/ registry' = registry
         \/ \E s \in Sessions : registry' = registry \ {s}
         \/ ~Full /\ \E s \in Sessions : registry' = registry \cup {s}
<1>1. ASSUME NEW s \in Sessions, Session(s)
      PROVE  \/ registry' = registry
             \/ registry' = registry \ {s}
             \/ ~Full /\ registry' = registry \cup {s}
  BY <1>1 DEF Session, Refuse, Accept, ReceiveHandshake, RefuseHandshake, HandshakeTimeout,
              SendLayout, Reserve, ReserveRaced, Dequeue, Write, IdleTimeout, Expire,
              Disconnect, Release, GoSilent, connection
<1>2. ASSUME NEW to \in Filters, FanOut(to) PROVE registry' = registry
  BY <1>2 DEF FanOut, connection
<1>3. CASE UNCHANGED vars
  BY <1>3 DEF vars, connection
<1>4. QED
  BY <1>1, <1>2, <1>3 DEF Next

LEMMA StepCap == CapInv /\ [Next]_vars => CapInv'
<1> SUFFICES ASSUME CapInv, [Next]_vars PROVE CapInv'
  OBVIOUS
<1>0. Cardinality(registry) \in Nat /\ MaxSessions \in Nat
  BY FS_CardinalityType, GatewayAssumption DEF CapInv, GatewayAssumption
<1>1. CASE registry' = registry
  BY <1>1 DEF CapInv, CapRespected
<1>2. ASSUME NEW s \in Sessions, registry' = registry \ {s} PROVE CapInv'
  <2>1. registry' \in SUBSET registry
    BY <1>2
  <2>2. IsFiniteSet(registry') /\ Cardinality(registry') =< Cardinality(registry)
    BY <2>1, FS_Subset DEF CapInv
  <2>3. Cardinality(registry') \in Nat
    BY <2>2, FS_CardinalityType
  <2>4. QED
    BY <1>0, <2>2, <2>3 DEF CapInv, CapRespected
<1>3. ASSUME ~Full, NEW s \in Sessions, registry' = registry \cup {s} PROVE CapInv'
  <2>1. /\ IsFiniteSet(registry')
        /\ Cardinality(registry') \in {Cardinality(registry), Cardinality(registry) + 1}
    BY <1>3, FS_AddElement DEF CapInv
  <2>2. QED
    BY <1>0, <1>3, <2>1 DEF CapInv, CapRespected, Full
<1>4. QED
  BY <1>1, <1>2, <1>3, RegistrySteps

(* However many handshakes overlap, there are never more sessions than the   *)
(* cap allows, for any cap.                                                *)
THEOREM CapRespectedHolds == Spec => []CapRespected
<1>1. CapInv => CapRespected
  BY DEF CapInv
<1>2. QED
  BY <1>1, InitCap, StepCap, PTL DEF Spec

(* Slots are held exactly while a session's loops exist, and never more of   *)
(* them than the cap, whatever handshakes overlap and however they end.    *)
THEOREM SlotsKeptHolds == Spec => []SlotsKept
<1>1. SlotPerSession /\ CapRespected => SlotsKept
  BY DEF SlotsKept
<1>2. QED
  BY <1>1, SlotPerSessionHolds, CapRespectedHolds, PTL

-----------------------------------------------------------------------------
(* Gateway: types, and what stands at the head of the wire. *)

Hydrated == {"joining", "active", "expiring", "stopping"}

LayoutFirst ==
  \A s \in Sessions :
    /\ phase[s] \in Hydrated => wire[s] # <<>> /\ wire[s][1] = Layout
    /\ phase[s] \notin Hydrated => wire[s] = <<>>

WireInv == TypeOK /\ LayoutFirst

LEMMA FramesTypes ==
  /\ Layout \in Frames /\ Warning \in Frames
  /\ \A n \in 0..MaxSent : Envelope(n) \in Frames
  /\ <<>> \in Seq(Frames) /\ Len(<<>>) = 0
  /\ All \in Filters
<1>1. 0 \in 0..MaxSent
  BY GatewayAssumption DEF GatewayAssumption
<1>2. QED
  BY <1>1 DEF Layout, Warning, Envelope, Frames, Filters

LEMMA ConcatFrames ==
  ASSUME NEW q \in Seq(Frames), NEW r \in Seq(Frames)
  PROVE  /\ q \o r \in Seq(Frames) /\ Len(q \o r) = Len(q) + Len(r)
         /\ q # <<>> => q \o r # <<>> /\ (q \o r)[1] = q[1]
<1>1. q \o r \in Seq(Frames) /\ Len(q \o r) = Len(q) + Len(r)
  OBVIOUS
<1>2. ASSUME q # <<>> PROVE q \o r # <<>> /\ (q \o r)[1] = q[1]
  <2>1. Len(q) \in Nat /\ Len(r) \in Nat /\ Len(q) >= 1
    BY <1>2
  <2>2. 1 \in 1..(Len(q) + Len(r)) /\ 1 =< Len(q) /\ Len(q \o r) # 0
    BY <1>1, <2>1
  <2>3. (q \o r)[1] = q[1]
    BY <2>2, ConcatProperties
  <2>4. QED
    BY <1>1, <2>2, <2>3
<1>3. QED
  BY <1>1, <1>2

(* A push never overfills a queue: the warning and the envelope take the     *)
(* places of the entries it drops.                                         *)
LEMMA PushedType ==
  ASSUME NEW q \in Seq(Frames), Len(q) =< Backlog, NEW env \in Frames
  PROVE  Pushed(q, env) \in Seq(Frames) /\ Len(Pushed(q, env)) =< Backlog
<1>0. Len(q) \in Nat /\ Backlog \in Nat /\ Backlog >= 2
  BY GatewayAssumption DEF GatewayAssumption
<1>1. CASE Len(q) < Backlog
  BY <1>0, <1>1, AppendProperties DEF Pushed
<1>2. CASE ~(Len(q) < Backlog)
  <2>1. Len(q) = Backlog /\ Warning \in Frames
    BY <1>0, <1>2, FramesTypes
  <2>2. QED
    BY <1>0, <1>2, <2>1, KeepNewest DEF Pushed
<1>3. QED
  BY <1>1, <1>2

LEMMA InitWire == Init => WireInv
<1> SUFFICES ASSUME Init PROVE WireInv
  OBVIOUS
<1>1. 0 \in 0..MaxSent /\ 0 =< Backlog
  BY GatewayAssumption DEF GatewayAssumption
<1>2. TypeOK
  BY <1>1, FramesTypes DEF Init, TypeOK, Phases
<1>3. LayoutFirst
  BY DEF Init, LayoutFirst, Hydrated
<1>4. QED
  BY <1>2, <1>3 DEF WireInv

(* A handler that returns leaves nothing behind. *)
LEMMA ReturnsKeepsWire ==
  ASSUME WireInv, NEW s \in Sessions, NEW from, Returns(s, from),
         registry' \in SUBSET Sessions
  PROVE  WireInv'
<1>1. 0 =< Backlog
  BY GatewayAssumption DEF GatewayAssumption
<1>2. TypeOK'
  BY <1>1, FramesTypes DEF Returns, Goes, WireInv, TypeOK, Phases
<1>3. LayoutFirst'
  BY DEF Returns, Goes, WireInv, TypeOK, LayoutFirst, Hydrated
<1>4. QED
  BY <1>2, <1>3 DEF WireInv

(* A phase change on one side of the layout leaves the wire alone. *)
LEMMA GoesKeepsWire ==
  ASSUME WireInv, NEW s \in Sessions, NEW from, NEW to \in Phases, Goes(s, from, to),
         from \in Hydrated <=> to \in Hydrated,
         registry' \in SUBSET Sessions, subscription' \in [Sessions -> Filters],
         UNCHANGED <<gone, stream, wire, history>>
  PROVE  WireInv'
<1>1. TypeOK'
  BY DEF Goes, WireInv, TypeOK, stream, history
<1>2. LayoutFirst'
  BY DEF Goes, WireInv, TypeOK, LayoutFirst
<1>3. QED
  BY <1>1, <1>2 DEF WireInv

LEMMA SessionKeepsWire ==
  ASSUME WireInv, NEW s \in Sessions, Session(s) PROVE WireInv'
<1>0. /\ registry \in SUBSET Sessions /\ subscription \in [Sessions -> Filters]
      /\ registry \cup {s} \in SUBSET Sessions /\ registry \ {s} \in SUBSET Sessions
  BY DEF WireInv, TypeOK
<1>1. CASE Refuse(s) \/ RefuseHandshake(s) \/ HandshakeTimeout(s) \/ ReserveRaced(s) \/ Release(s)
  BY <1>0, <1>1, ReturnsKeepsWire
     DEF Refuse, RefuseHandshake, HandshakeTimeout, ReserveRaced, Release
<1>2. ASSUME NEW f \in Filters, Accept(s, f) PROVE WireInv'
  <2>1. subscription' \in [Sessions -> Filters]
    BY <1>0, <1>2 DEF Accept
  <2>2. QED
    BY <1>0, <1>2, <2>1, GoesKeepsWire DEF Accept, Phases, Hydrated
<1>3. CASE ReceiveHandshake(s) \/ IdleTimeout(s) \/ Expire(s) \/ Reserve(s)
  BY <1>0, <1>3, GoesKeepsWire
     DEF ReceiveHandshake, IdleTimeout, Expire, Reserve, Phases, Hydrated
<1>4. CASE SendLayout(s)
  <2>1. wire[s] = <<>> /\ wire[s] \in Seq(Frames)
    BY <1>4 DEF SendLayout, Goes, WireInv, TypeOK, LayoutFirst, Hydrated
  <2>2. /\ Append(wire[s], Layout) \in Seq(Frames)
        /\ Append(wire[s], Layout) # <<>>
        /\ Append(wire[s], Layout)[1] = Layout
    BY <2>1, FramesTypes
  <2>3. TypeOK'
    BY <1>4, <2>2 DEF SendLayout, Goes, WireInv, TypeOK, Phases, stream, history
  <2>4. LayoutFirst'
    BY <1>4, <2>2 DEF SendLayout, Goes, WireInv, TypeOK, LayoutFirst, Hydrated
  <2>5. QED
    BY <2>3, <2>4 DEF WireInv
<1>5. CASE Dequeue(s)
  <2>1. /\ queue[s] \in Seq(Frames) /\ queue[s] # <<>> /\ Len(queue[s]) =< Backlog
        /\ Backlog \in Nat
    BY <1>5, GatewayAssumption DEF Dequeue, WireInv, TypeOK, GatewayAssumption
  <2>2. /\ Tail(queue[s]) \in Seq(Frames) /\ Len(Tail(queue[s])) =< Backlog
        /\ <<Head(queue[s])>> \in Seq(Frames) /\ Len(<<Head(queue[s])>>) = 1
    BY <2>1, HeadTailProperties
  <2>3. TypeOK'
    BY <1>5, <2>2 DEF Dequeue, WireInv, TypeOK, connection, history
  <2>4. LayoutFirst'
    BY <1>5 DEF Dequeue, WireInv, LayoutFirst, connection
  <2>5. QED
    BY <2>3, <2>4 DEF WireInv
<1>6. CASE Write(s)
  <2>1. wire[s] \in Seq(Frames) /\ held[s] \in Seq(Frames) /\ phase[s] \in Hydrated
    BY <1>6 DEF Write, WireInv, TypeOK, Hydrated
  <2>2. wire[s] # <<>> /\ wire[s][1] = Layout
    BY <2>1 DEF WireInv, LayoutFirst
  <2>3. /\ wire[s] \o held[s] \in Seq(Frames)
        /\ wire[s] \o held[s] # <<>>
        /\ (wire[s] \o held[s])[1] = Layout
    BY <2>1, <2>2, ConcatFrames
  <2>4. TypeOK'
    BY <1>6, <2>3, FramesTypes DEF Write, WireInv, TypeOK, connection, history
  <2>5. LayoutFirst'
    BY <1>6, <2>3 DEF Write, WireInv, TypeOK, LayoutFirst, connection, Hydrated
  <2>6. QED
    BY <2>4, <2>5 DEF WireInv
<1>7. CASE Disconnect(s)
  <2>1. CASE \E p \in {"handshaking", "snapshotting", "joining"} : Returns(s, p)
                                                                 /\ UNCHANGED registry
    BY <1>0, <2>1, ReturnsKeepsWire
  <2>2. CASE \E p \in {"active", "expiring"} :
               Goes(s, p, "stopping")
               /\ UNCHANGED <<registry, subscription, gone, stream, wire, history>>
    BY <1>0, <2>2, GoesKeepsWire DEF Phases, Hydrated
  <2>3. QED
    BY <1>7, <2>1, <2>2 DEF Disconnect
<1>8. CASE GoSilent(s)
  <2>1. TypeOK'
    BY <1>8 DEF GoSilent, WireInv, TypeOK, stream, history
  <2>2. LayoutFirst'
    BY <1>8 DEF GoSilent, WireInv, LayoutFirst
  <2>3. QED
    BY <2>1, <2>2 DEF WireInv
<1>9. QED
  BY <1>1, <1>2, <1>3, <1>4, <1>5, <1>6, <1>7, <1>8 DEF Session

LEMMA FanOutKeepsWire ==
  ASSUME WireInv, NEW to \in Filters, FanOut(to) PROVE WireInv'
<1>1. sent' \in 0..MaxSent /\ sent' \in 1..MaxSent
  BY GatewayAssumption DEF FanOut, WireInv, TypeOK, GatewayAssumption
<1>2. Envelope(sent') \in Frames
  BY <1>1, FramesTypes
<1>3. \A s \in Sessions : /\ queue[s] \in Seq(Frames) /\ Len(queue[s]) =< Backlog
                          /\ Pushed(queue[s], Envelope(sent')) \in Seq(Frames)
                          /\ Len(Pushed(queue[s], Envelope(sent'))) =< Backlog
  BY <1>2, PushedType DEF WireInv, TypeOK
<1>4. queue' \in [Sessions -> Seq(Frames)] /\ \A s \in Sessions : Len(queue'[s]) =< Backlog
  BY <1>3 DEF FanOut
<1>5. due' \in [Sessions -> SUBSET (1..MaxSent)]
  BY <1>1 DEF FanOut, WireInv, TypeOK
<1>6. TypeOK'
  BY <1>1, <1>4, <1>5 DEF FanOut, WireInv, TypeOK, connection
<1>7. LayoutFirst'
  BY DEF FanOut, WireInv, LayoutFirst, connection
<1>8. QED
  BY <1>6, <1>7 DEF WireInv

LEMMA StepWire == WireInv /\ [Next]_vars => WireInv'
<1> SUFFICES ASSUME WireInv, [Next]_vars PROVE WireInv'
  OBVIOUS
<1>1. CASE UNCHANGED vars
  BY <1>1 DEF vars, connection, stream, history, WireInv, TypeOK, LayoutFirst
<1>2. QED
  BY <1>1, SessionKeepsWire, FanOutKeepsWire DEF Next

(* The gateway's state is well formed; in particular no outbound queue ever  *)
(* exceeds its backlog, whatever the number of clients and envelopes.      *)
THEOREM TypeCorrect == Spec => []TypeOK
<1>1. WireInv => TypeOK
  BY DEF WireInv
<1>2. QED
  BY <1>1, InitWire, StepWire, PTL DEF Spec

(* Nothing the broadcaster forwards reaches a client before its layout. *)
THEOREM LayoutBeforeStreamHolds == Spec => []LayoutBeforeStream
<1>1. WireInv => LayoutBeforeStream
  <2> SUFFICES ASSUME WireInv, NEW s \in Sessions, NEW k \in 1..Len(wire[s]),
                      wire[s][k].kind \in {"envelope", "backlog_overflow"}
               PROVE  \E j \in 1..(k - 1) : wire[s][j].kind = "world_layout"
    BY DEF LayoutBeforeStream
  <2>1. wire[s] \in Seq(Frames) /\ k \in Nat /\ k >= 1
    BY DEF WireInv, TypeOK
  <2>2. wire[s][1] = Layout
    BY <2>1 DEF WireInv, LayoutFirst
  <2>3. k # 1
    BY <2>2 DEF Layout
  <2>4. 1 \in 1..(k - 1) /\ wire[s][1].kind = "world_layout"
    BY <2>1, <2>2, <2>3 DEF Layout
  <2>5. QED
    BY <2>4
<1>2. QED
  BY <1>1, InitWire, StepWire, PTL DEF Spec

-----------------------------------------------------------------------------
(* Gateway: gaps. *)

(* A warning of stream t covers m when only later envelopes follow it. *)
Announced(t, m) ==
  \E k \in 1..Len(t) :
    /\ t[k].kind = "backlog_overflow"
    /\ \A j \in (k + 1)..Len(t) : t[j].kind = "envelope" => t[j].n > m

(* Stream t accounts for the envelopes d: it shows no other, and what it     *)
(* does not show it announces.                                             *)
Accounts(t, d) ==
  /\ \A k \in 1..Len(t) : t[k].kind = "envelope" => t[k].n \in d
  /\ \A m \in d : (\E k \in 1..Len(t) : t[k] = Envelope(m)) \/ Announced(t, m)

(* GapsAnnounced alone is not inductive: a session without a slot must have  *)
(* nothing pending, and no envelope can be due before it is fanned out.     *)
GapInv ==
  /\ WireInv /\ SlotInv
  /\ \A s \in Sessions :
       /\ s \notin registry => held[s] = <<>> /\ queue[s] = <<>> /\ due[s] = {}
       /\ due[s] \subseteq 1..sent
       /\ Accounts(Streamed(s), due[s])

LEMMA StreamType ==
  ASSUME TypeOK, NEW s \in Sessions
  PROVE  /\ wire[s] \in Seq(Frames) /\ held[s] \in Seq(Frames) /\ queue[s] \in Seq(Frames)
         /\ wire[s] \o held[s] \in Seq(Frames)
         /\ Streamed(s) \in Seq(Frames)
<1>1. wire[s] \in Seq(Frames) /\ held[s] \in Seq(Frames) /\ queue[s] \in Seq(Frames)
  BY DEF TypeOK
<1>2. QED
  BY <1>1, ConcatFrames DEF Streamed

(* With nothing due, a stream of layouts accounts for everything. *)
LEMMA AccountsForNothing ==
  Accounts(<<>>, {}) /\ Accounts(<<Layout>>, {})
  BY DEF Accounts, Layout

(* A push that finds room shows the new envelope and hides no other. *)
LEMMA AppendAccounts ==
  ASSUME NEW t \in Seq(Frames), NEW d, NEW n \in Nat, d \subseteq 1..n, Accounts(t, d),
         n + 1 \in 0..MaxSent
  PROVE  Accounts(Append(t, Envelope(n + 1)), d \cup {n + 1})
<1> DEFINE u == Append(t, Envelope(n + 1))
<1>1. /\ Len(t) \in Nat /\ Len(u) = Len(t) + 1 /\ u[Len(t) + 1] = Envelope(n + 1)
      /\ \A k \in 1..Len(t) : u[k] = t[k]
  <2>1. Envelope(n + 1) \in Frames
    BY FramesTypes
  <2>2. QED
    BY <2>1, AppendProperties
<1> HIDE DEF u
<1>2. ASSUME NEW k \in 1..Len(u), u[k].kind = "envelope" PROVE u[k].n \in d \cup {n + 1}
  <2>1. CASE k \in 1..Len(t)
    BY <1>1, <1>2, <2>1 DEF Accounts
  <2>2. CASE k = Len(t) + 1
    BY <1>1, <2>2 DEF Envelope
  <2>3. QED
    BY <1>1, <2>1, <2>2
<1>3. ASSUME NEW m \in d, Announced(t, m) PROVE Announced(u, m)
  <2>1. PICK k \in 1..Len(t) : /\ t[k].kind = "backlog_overflow"
                              /\ \A j \in (k + 1)..Len(t) : t[j].kind = "envelope" => t[j].n > m
    BY <1>3 DEF Announced
  <2>2. ASSUME NEW j \in (k + 1)..Len(u), u[j].kind = "envelope" PROVE u[j].n > m
    <3>1. CASE j \in 1..Len(t)
      <4>1. j \in (k + 1)..Len(t) /\ u[j] = t[j]
        BY <1>1, <3>1
      <4>2. QED
        BY <2>1, <2>2, <4>1
    <3>2. CASE j = Len(t) + 1
      <4>1. m \in 1..n
        OBVIOUS
      <4>2. QED
        BY <1>1, <3>2, <4>1 DEF Envelope
    <3>3. j \in 1..Len(t) \/ j = Len(t) + 1
      BY <1>1, <2>1
    <3>4. QED
      BY <3>1, <3>2, <3>3
  <2>3. k \in 1..Len(u) /\ u[k].kind = "backlog_overflow"
    BY <1>1, <2>1
  <2>4. QED
    BY <2>2, <2>3 DEF Announced
<1>4. ASSUME NEW m \in d \cup {n + 1}
      PROVE  (\E k \in 1..Len(u) : u[k] = Envelope(m)) \/ Announced(u, m)
  <2>1. CASE m = n + 1
    BY <1>1, <2>1
  <2>2. CASE m \in d
    <3>1. CASE Announced(t, m)
      BY <1>3, <2>2, <3>1
    <3>2. CASE \E k \in 1..Len(t) : t[k] = Envelope(m)
      BY <1>1, <3>2
    <3>3. QED
      BY <2>2, <3>1, <3>2 DEF Accounts
  <2>3. QED
    BY <2>1, <2>2
<1>5. QED
  BY <1>2, <1>4 DEF Accounts, u

(* A push that overflows hides whatever it drops, but its own warning stands *)
(* before the new envelope only, so that it covers every gap at once.       *)
LEMMA OverflowAccounts ==
  ASSUME NEW p \in Seq(Frames), NEW q \in Seq(Frames), NEW kept \in Seq(Frames),
         \A k \in 1..Len(kept) : \E i \in 1..Len(q) : kept[k] = q[i],
         NEW d, NEW n \in Nat, d \subseteq 1..n, Accounts(p \o q, d), n + 1 \in 0..MaxSent
  PROVE  Accounts(p \o (kept \o <<Warning, Envelope(n + 1)>>), d \cup {n + 1})
<1> DEFINE news == <<Warning, Envelope(n + 1)>>
           w == kept \o news
           u == p \o w
           last == Len(p) + Len(kept) + 2
<1>1. news \in Seq(Frames) /\ Len(news) = 2 /\ news[1] = Warning /\ news[2] = Envelope(n + 1)
  BY FramesTypes
<1> HIDE DEF news
<1>2. /\ Len(p) \in Nat /\ Len(q) \in Nat /\ Len(kept) \in Nat
      /\ w \in Seq(Frames) /\ Len(w) = Len(kept) + 2
      /\ \A i \in 1..(Len(kept) + 2) : w[i] = IF i =< Len(kept) THEN kept[i] ELSE news[i - Len(kept)]
  <2>1. /\ w \in Seq(Frames) /\ Len(w) = Len(kept) + Len(news)
        /\ \A i \in 1..(Len(kept) + Len(news)) :
             w[i] = IF i =< Len(kept) THEN kept[i] ELSE news[i - Len(kept)]
    BY <1>1, ConcatProperties
  <2>2. QED
    BY <1>1, <2>1
<1> HIDE DEF w
<1>3. /\ Len(u) = last
      /\ \A i \in 1..last : u[i] = IF i =< Len(p) THEN p[i] ELSE w[i - Len(p)]
  <2>0. w \in Seq(Frames)
    BY <1>2
  <2>1. /\ Len(u) = Len(p) + Len(w)
        /\ \A i \in 1..(Len(p) + Len(w)) : u[i] = IF i =< Len(p) THEN p[i] ELSE w[i - Len(p)]
    BY <2>0, ConcatProperties
  <2>2. Len(p) + Len(w) = last
    BY <1>2
  <2>3. QED
    BY <2>1, <2>2
<1>4. /\ Len(p \o q) = Len(p) + Len(q)
      /\ \A i \in 1..(Len(p) + Len(q)) : (p \o q)[i] = IF i =< Len(p) THEN p[i] ELSE q[i - Len(p)]
  BY ConcatProperties
<1> HIDE DEF u
<1>5. ASSUME NEW i \in 1..Len(p) PROVE u[i] = (p \o q)[i]
  BY <1>2, <1>3, <1>4
<1>6. ASSUME NEW i \in 1..Len(kept)
      PROVE  \E j \in 1..(Len(p) + Len(q)) : u[Len(p) + i] = (p \o q)[j]
  <2>1. u[Len(p) + i] = kept[i]
    <3>1. Len(p) + i \in 1..last /\ ~(Len(p) + i =< Len(p)) /\ (Len(p) + i) - Len(p) = i
      BY <1>2
    <3>2. u[Len(p) + i] = w[i]
      BY <1>3, <3>1
    <3>3. QED
      BY <1>2, <3>2
  <2>2. PICK j \in 1..Len(q) : kept[i] = q[j]
    OBVIOUS
  <2>3. Len(p) + j \in 1..(Len(p) + Len(q)) /\ (p \o q)[Len(p) + j] = q[j]
    BY <1>2, <1>4
  <2>4. QED
    BY <2>1, <2>2, <2>3
<1>7. u[last - 1] = Warning /\ u[last] = Envelope(n + 1) /\ last \in Nat /\ last >= 2
  <2>1. /\ Len(kept) + 1 \in 1..(Len(kept) + 2) /\ Len(kept) + 2 \in 1..(Len(kept) + 2)
        /\ ~(Len(kept) + 1 =< Len(kept)) /\ ~(Len(kept) + 2 =< Len(kept))
        /\ (Len(kept) + 1) - Len(kept) = 1 /\ (Len(kept) + 2) - Len(kept) = 2
    BY <1>2
  <2>2. w[Len(kept) + 1] = Warning /\ w[Len(kept) + 2] = Envelope(n + 1)
    BY <1>1, <1>2, <2>1
  <2>3. /\ last - 1 \in 1..last /\ last \in 1..last
        /\ ~(last - 1 =< Len(p)) /\ ~(last =< Len(p))
        /\ (last - 1) - Len(p) = Len(kept) + 1 /\ last - Len(p) = Len(kept) + 2
        /\ last \in Nat /\ last >= 2
    BY <1>2, <1>3
  <2>4. u[last - 1] = w[Len(kept) + 1] /\ u[last] = w[Len(kept) + 2]
    BY <1>3, <2>3
  <2>5. QED
    BY <2>2, <2>3, <2>4
<1>8. ASSUME NEW k \in 1..last, u[k].kind = "envelope" PROVE u[k].n \in d \cup {n + 1}
  <2>1. CASE k \in 1..Len(p)
    <3>1. u[k] = (p \o q)[k] /\ k \in 1..Len(p \o q)
      BY <1>2, <1>4, <1>5, <2>1
    <3>2. QED
      BY <1>8, <3>1 DEF Accounts
  <2>2. CASE k - Len(p) \in 1..Len(kept)
    <3>1. PICK j \in 1..(Len(p) + Len(q)) : u[Len(p) + (k - Len(p))] = (p \o q)[j]
      BY <1>6, <2>2
    <3>2. u[k] = (p \o q)[j]
      BY <1>2, <3>1
    <3>3. QED
      BY <1>4, <1>8, <3>2 DEF Accounts
  <2>3. CASE k = last - 1
    BY <1>7, <1>8, <2>3 DEF Warning
  <2>4. CASE k = last
    BY <1>7, <2>4 DEF Envelope
  <2>5. k \in 1..Len(p) \/ k - Len(p) \in 1..Len(kept) \/ k = last - 1 \/ k = last
    <3> DEFINE a == Len(p)
               b == Len(kept)
    <3>1. a \in Nat /\ b \in Nat /\ last = a + b + 2 /\ k \in 1..last
      BY <1>2
    <3> HIDE DEF a, b, last
    <3>2. k \in 1..a \/ k - a \in 1..b \/ k = last - 1 \/ k = last
      BY ONLY <3>1
    <3>3. QED
      BY <3>2 DEF a, b
  <2>6. QED
    BY <2>1, <2>2, <2>3, <2>4, <2>5
<1>9. ASSUME NEW m \in d PROVE Announced(u, m)
  <2>1. m < n + 1 /\ last - 1 \in 1..last
    BY <1>7
  <2>2. \A j \in ((last - 1) + 1)..last : j = last
    BY <1>7
  <2>3. u[last - 1].kind = "backlog_overflow" /\ u[last].n = n + 1
    BY <1>7 DEF Warning, Envelope
  <2>4. \A j \in ((last - 1) + 1)..Len(u) : u[j].n > m
    BY <1>3, <2>1, <2>2, <2>3
  <2>5. last - 1 \in 1..Len(u)
    BY <1>3, <2>1
  <2>6. QED
    BY <2>3, <2>4, <2>5 DEF Announced
<1>10. \E k \in 1..Len(u) : u[k] = Envelope(n + 1)
  <2>1. last \in 1..Len(u)
    BY <1>3, <1>7
  <2>2. QED
    BY <1>7, <2>1
<1>11. QED
  BY <1>3, <1>8, <1>9, <1>10 DEF Accounts, u, w, news

LEMMA InitGap == Init => GapInv
<1> SUFFICES ASSUME Init PROVE GapInv
  OBVIOUS
<1>1. \A s \in Sessions : Streamed(s) = <<>>
  BY DEF Init, Streamed
<1>2. QED
  BY <1>1, InitWire, InitSlot, AccountsForNothing DEF Init, GapInv

(* What a step of one session leaves alone. *)
OthersAlone(s) ==
  /\ UNCHANGED sent
  /\ \A r \in Sessions \ {s} :
       /\ r \in registry' <=> r \in registry
       /\ wire'[r] = wire[r] /\ held'[r] = held[r] /\ queue'[r] = queue[r]
       /\ due'[r] = due[r]

LEMMA SessionLeavesOthers ==
  ASSUME TypeOK, NEW s \in Sessions, Session(s) PROVE OthersAlone(s)
<1>1. CASE Refuse(s) \/ RefuseHandshake(s) \/ HandshakeTimeout(s) \/ ReserveRaced(s)
  BY <1>1 DEF Refuse, RefuseHandshake, HandshakeTimeout, ReserveRaced, Returns, TypeOK, OthersAlone
<1>2. CASE Release(s) \/ Disconnect(s)
  BY <1>2 DEF Release, Disconnect, Returns, TypeOK, OthersAlone, stream, history
<1>3. CASE (\E f \in Filters : Accept(s, f)) \/ ReceiveHandshake(s) \/ SendLayout(s) \/ Reserve(s)
  BY <1>3 DEF Accept, ReceiveHandshake, SendLayout, Reserve, TypeOK, OthersAlone, stream, history
<1>4. CASE Dequeue(s) \/ Write(s)
  BY <1>4 DEF Dequeue, Write, TypeOK, OthersAlone, connection, history
<1>5. CASE IdleTimeout(s) \/ Expire(s) \/ GoSilent(s)
  BY <1>5 DEF IdleTimeout, Expire, GoSilent, OthersAlone, stream, history
<1>6. QED
  BY <1>1, <1>2, <1>3, <1>4, <1>5 DEF Session

(* A session that returns forgets what was due. *)
LEMMA ReturnsAccounts ==
  ASSUME GapInv, NEW s \in Sessions, NEW from, Returns(s, from)
  PROVE  /\ held'[s] = <<>> /\ queue'[s] = <<>> /\ due'[s] = {}
         /\ Accounts(Streamed(s)', due'[s])
<1>1. held'[s] = <<>> /\ queue'[s] = <<>> /\ wire'[s] = <<>> /\ due'[s] = {}
  BY DEF Returns, GapInv, WireInv, TypeOK
<1>2. QED
  BY <1>1, AccountsForNothing DEF Streamed

(* The session that moves keeps its account: dequeueing and writing only     *)
(* move a frame along its stream.                                          *)
LEMMA SessionAccounts ==
  ASSUME GapInv, NEW s \in Sessions, Session(s)
  PROVE  /\ s \notin registry' => held'[s] = <<>> /\ queue'[s] = <<>> /\ due'[s] = {}
         /\ due'[s] \subseteq 1..sent
         /\ Accounts(Streamed(s)', due'[s])
<1>0. /\ s \notin registry => held[s] = <<>> /\ queue[s] = <<>> /\ due[s] = {}
      /\ due[s] \subseteq 1..sent /\ Accounts(Streamed(s), due[s])
      /\ TypeOK
  BY DEF GapInv, WireInv
<1>1. CASE \E from \in Phases : Returns(s, from)
  BY <1>1, ReturnsAccounts
<1>2. CASE /\ s \notin registry' => s \notin registry
           /\ UNCHANGED <<wire, held, queue, due>>
  BY <1>0, <1>2 DEF Streamed
<1>3. CASE SendLayout(s)
  <2>1. s \notin registry /\ wire[s] = <<>>
    BY <1>3 DEF SendLayout, Goes, GapInv, SlotInv, SlotPerSession, InTaskGroup,
                WireInv, LayoutFirst, Hydrated
  <2>2. /\ wire'[s] = <<Layout>> /\ held'[s] = <<>> /\ queue'[s] = <<>> /\ due'[s] = {}
    BY <1>0, <1>3, <2>1 DEF SendLayout, TypeOK, stream, history
  <2>3. Streamed(s)' = <<Layout>>
    BY <2>2, FramesTypes DEF Streamed
  <2>4. QED
    BY <2>2, <2>3, AccountsForNothing
<1>4. CASE Dequeue(s)
  <2>1. /\ held[s] = <<>> /\ queue[s] # <<>> /\ queue[s] \in Seq(Frames) /\ wire[s] \in Seq(Frames)
        /\ held'[s] = <<Head(queue[s])>> /\ queue'[s] = Tail(queue[s])
        /\ UNCHANGED <<wire, due, registry>>
    BY <1>0, <1>4, StreamType DEF Dequeue, TypeOK, connection, history
  <2>2. Head(queue[s]) \in Frames /\ Tail(queue[s]) \in Seq(Frames)
    BY <2>1
  <2>3. Streamed(s)' = (wire[s] \o <<Head(queue[s])>>) \o Tail(queue[s])
    BY <2>1 DEF Streamed
  <2>4. Streamed(s)' = wire[s] \o queue[s]
    BY <2>1, <2>3, HeadThenTail
  <2>5. Streamed(s) = wire[s] \o queue[s]
    BY <2>1 DEF Streamed
  <2>6. s \in registry
    BY <1>0, <2>1
  <2>7. QED
    BY <1>0, <2>1, <2>4, <2>5, <2>6
<1>5. CASE Write(s)
  <2>1. /\ wire'[s] = wire[s] \o held[s] /\ held'[s] = <<>> /\ held[s] # <<>>
        /\ UNCHANGED <<queue, due, registry>>
        /\ wire[s] \o held[s] \in Seq(Frames)
    BY <1>0, <1>5, StreamType DEF Write, TypeOK, connection, history
  <2>2. Streamed(s)' = Streamed(s)
    BY <2>1 DEF Streamed
  <2>3. QED
    BY <1>0, <2>1, <2>2
<1>6. Session(s) =>
        \/ \E from \in Phases : Returns(s, from)
        \/ (s \notin registry' => s \notin registry) /\ UNCHANGED <<wire, held, queue, due>>
        \/ SendLayout(s) \/ Dequeue(s) \/ Write(s)
  <2>1. (\E f \in Filters : Accept(s, f)) \/ ReceiveHandshake(s) \/ Reserve(s) \/ IdleTimeout(s)
        \/ Expire(s) \/ GoSilent(s)
        => (s \notin registry' => s \notin registry) /\ UNCHANGED <<wire, held, queue, due>>
    BY DEF Accept, ReceiveHandshake, Reserve, IdleTimeout, Expire, GoSilent, stream, history
  <2>2. Refuse(s) \/ RefuseHandshake(s) \/ HandshakeTimeout(s) \/ ReserveRaced(s) \/ Release(s)
        => \E from \in Phases : Returns(s, from)
    BY DEF Refuse, RefuseHandshake, HandshakeTimeout, ReserveRaced, Release, Phases
  <2>3. Disconnect(s) =>
          \/ \E from \in Phases : Returns(s, from)
          \/ (s \notin registry' => s \notin registry) /\ UNCHANGED <<wire, held, queue, due>>
    BY DEF Disconnect, Phases, stream, history
  <2>4. QED
    BY <2>1, <2>2, <2>3 DEF Session
<1>7. QED
  BY <1>1, <1>2, <1>3, <1>4, <1>5, <1>6

(* A session gets an envelope exactly when its filter and the envelope's     *)
(* targets stand for a common agent, or one of them for everything.         *)
LEMMA WantedIsCovered ==
  ASSUME TypeOK, NEW s \in Sessions, NEW to \in Filters
  PROVE  Wanted(s, to) <=> Covered(subscription[s]) \cap Covered(to) # {}
<1>1. subscription[s] \in Filters
  BY DEF TypeOK
<1>2. \A f \in Filters : f = All \/ (f \subseteq Agents /\ f # {})
  BY DEF Filters
<1>3. CASE subscription[s] = All
  BY <1>2, <1>3 DEF Wanted, Covered
<1>4. CASE subscription[s] # All
  BY <1>1, <1>2, <1>4 DEF Wanted, Covered
<1>5. QED
  BY <1>3, <1>4

LEMMA FanOutAccounts ==
  ASSUME GapInv, NEW to \in Filters, FanOut(to), NEW s \in Sessions
  PROVE  /\ s \notin registry' => held'[s] = <<>> /\ queue'[s] = <<>> /\ due'[s] = {}
         /\ due'[s] \subseteq 1..sent'
         /\ Accounts(Streamed(s)', due'[s])
<1>0. /\ s \notin registry => held[s] = <<>> /\ queue[s] = <<>> /\ due[s] = {}
      /\ due[s] \subseteq 1..sent /\ Accounts(Streamed(s), due[s])
      /\ TypeOK
  BY DEF GapInv, WireInv
<1>1. /\ sent \in Nat /\ sent' = sent + 1 /\ sent + 1 \in 0..MaxSent
      /\ UNCHANGED <<registry, held, wire>>
  BY <1>0, GatewayAssumption DEF FanOut, TypeOK, GatewayAssumption, connection
<1>2. /\ wire[s] \o held[s] \in Seq(Frames) /\ queue[s] \in Seq(Frames)
      /\ Len(queue[s]) \in Nat /\ Len(queue[s]) =< Backlog /\ Backlog \in Nat /\ Backlog >= 2
  BY <1>0, StreamType, GatewayAssumption DEF TypeOK, GatewayAssumption
<1>3. CASE ~(s \in registry /\ Wanted(s, to))
  <2>1. queue'[s] = queue[s] /\ due'[s] = due[s]
    BY <1>0, <1>3, WantedIsCovered DEF FanOut
  <2>2. \A m \in 1..sent : m \in 1..(sent + 1)
    BY <1>1
  <2>3. QED
    BY <1>0, <1>1, <2>1, <2>2 DEF Streamed
<1>4. CASE s \in registry /\ Wanted(s, to)
  <2>1. /\ queue'[s] = Pushed(queue[s], Envelope(sent + 1))
        /\ due'[s] = due[s] \cup {sent + 1}
    BY <1>0, <1>1, <1>4, WantedIsCovered DEF FanOut
  <2>2. due'[s] \subseteq 1..(sent + 1)
    <3>1. \A m \in 1..sent : m \in 1..(sent + 1)
      BY <1>1
    <3>2. sent + 1 \in 1..(sent + 1)
      BY <1>1
    <3>3. QED
      BY <1>0, <2>1, <3>1, <3>2
  <2>3. Streamed(s)' = (wire[s] \o held[s]) \o Pushed(queue[s], Envelope(sent + 1))
    BY <1>1, <2>1 DEF Streamed
  <2>4. CASE Len(queue[s]) < Backlog
    <3>1. Envelope(sent + 1) \in Frames
      BY <1>1, FramesTypes
    <3>2. (wire[s] \o held[s]) \o Append(queue[s], Envelope(sent + 1))
            = Append(Streamed(s), Envelope(sent + 1))
      <4> DEFINE written == wire[s] \o held[s]
                 env == Envelope(sent + 1)
      <4>1. written \in Seq(Frames) /\ queue[s] \in Seq(Frames) /\ env \in Frames
        BY <1>2, <3>1
      <4> HIDE DEF written, env
      <4>2. written \o Append(queue[s], env) = Append(written \o queue[s], env)
        BY <4>1, ConcatAppend
      <4>3. QED
        BY <4>2 DEF written, env, Streamed
    <3>3. Streamed(s)' = Append(Streamed(s), Envelope(sent + 1))
      BY <2>3, <2>4, <3>2 DEF Pushed
    <3>4. Accounts(Append(Streamed(s), Envelope(sent + 1)), due[s] \cup {sent + 1})
      BY <1>0, <1>1, StreamType, AppendAccounts
    <3>5. QED
      BY <1>1, <1>4, <2>1, <2>2, <3>3, <3>4
  <2>5. CASE Len(queue[s]) >= Backlog
    <3> DEFINE kept == SubSeq(queue[s], Len(queue[s]) - (Backlog - 2) + 1, Len(queue[s]))
    <3>1. Len(queue[s]) = Backlog /\ Warning \in Frames
      BY <1>2, <2>5, FramesTypes
    <3>2. /\ kept \in Seq(Frames) /\ Len(kept) = Backlog - 2
          /\ \A k \in 1..(Backlog - 2) : kept[k] = queue[s][k + 2]
      BY <1>2, <3>1, KeepNewest
    <3>3. \A k \in 1..Len(kept) : \E i \in 1..Len(queue[s]) : kept[k] = queue[s][i]
      BY <1>2, <3>1, <3>2
    <3>4. Pushed(queue[s], Envelope(sent + 1)) = kept \o <<Warning, Envelope(sent + 1)>>
      <4>1. ~(Len(queue[s]) < Backlog)
        BY <1>2, <2>5
      <4>2. QED
        BY <4>1 DEF Pushed
    <3>5. Accounts((wire[s] \o held[s]) \o queue[s], due[s])
      BY <1>0 DEF Streamed
    <3> HIDE DEF kept
    <3>6. Accounts((wire[s] \o held[s]) \o (kept \o <<Warning, Envelope(sent + 1)>>),
                   due[s] \cup {sent + 1})
      BY <1>0, <1>1, <1>2, <3>2, <3>3, <3>5, OverflowAccounts
    <3>7. QED
      BY <1>1, <1>4, <2>1, <2>2, <2>3, <3>4, <3>6
  <2>6. QED
    BY <1>2, <2>4, <2>5
<1>5. QED
  BY <1>3, <1>4

LEMMA StepGap == GapInv /\ [Next]_vars => GapInv'
<1> SUFFICES ASSUME GapInv, [Next]_vars PROVE GapInv'
  OBVIOUS
<1>0. WireInv' /\ SlotInv' /\ TypeOK
  BY StepWire, StepSlot DEF GapInv, WireInv
<1>1. ASSUME NEW s \in Sessions, Session(s) PROVE GapInv'
  <2>1. OthersAlone(s)
    BY <1>0, <1>1, SessionLeavesOthers
  <2>2. ASSUME NEW r \in Sessions
        PROVE  /\ r \notin registry' => held'[r] = <<>> /\ queue'[r] = <<>> /\ due'[r] = {}
               /\ due'[r] \subseteq 1..sent'
               /\ Accounts(Streamed(r)', due'[r])
    <3>1. CASE r = s
      BY <1>1, <2>1, <3>1, SessionAccounts DEF OthersAlone
    <3>2. CASE r # s
      BY <2>1, <3>2 DEF OthersAlone, GapInv, Streamed
    <3>3. QED
      BY <3>1, <3>2
  <2>3. QED
    BY <1>0, <2>2 DEF GapInv
<1>2. ASSUME NEW to \in Filters, FanOut(to) PROVE GapInv'
  BY <1>0, <1>2, FanOutAccounts DEF GapInv
<1>3. CASE UNCHANGED vars
  BY <1>0, <1>3 DEF vars, connection, stream, history, GapInv, Streamed
<1>4. QED
  BY <1>1, <1>2, <1>3 DEF Next

(* No client is shown an envelope it did not subscribe to, and none misses   *)
(* one without a warning behind the gap, however often its queue overflows  *)
(* and whatever the warnings themselves overwrite.                         *)
THEOREM GapsAnnouncedHolds == Spec => []GapsAnnounced
<1>1. ASSUME GapInv PROVE GapsAnnounced
  <2> SUFFICES ASSUME NEW s \in registry
               PROVE  /\ Shown(s) \subseteq due[s]
                      /\ \A m \in due[s] \ Shown(s) : Announced(Streamed(s), m)
    BY DEF GapsAnnounced, Announced
  <2>1. s \in Sessions /\ Streamed(s) \in Seq(Frames) /\ Accounts(Streamed(s), due[s])
    BY <1>1, StreamType DEF GapInv, WireInv, TypeOK
  <2>2. ToSet(Streamed(s)) = {Streamed(s)[k] : k \in 1..Len(Streamed(s))}
    BY <2>1 DEF ToSet
  <2>3. Shown(s) \subseteq due[s]
    BY <2>1, <2>2 DEF Shown, Accounts
  <2>4. ASSUME NEW m \in due[s], NEW k \in 1..Len(Streamed(s)), Streamed(s)[k] = Envelope(m)
        PROVE  m \in Shown(s)
    BY <2>2, <2>4 DEF Shown, Envelope
  <2>5. QED
    BY <2>1, <2>3, <2>4 DEF Accounts
<1>2. QED
  BY <1>1, InitGap, StepGap, PTL DEF Spec

-----------------------------------------------------------------------------
(* Gateway: every session is an announced stream. *)

Queued == {f \in Frames : f.kind # "world_layout"}

(* What a session has not written yet: envelopes and warnings, in order. *)
ClientFits(s) ==
  /\ held[s] \in Seq(Queued) /\ queue[s] \in Seq(Queued)
  /\ Rising(Pending(s), "envelope")
  /\ NumbersOf(Pending(s), "envelope") \subseteq 1..sent

ClientInv == GapInv /\ \A s \in Sessions : ClientFits(s)

Keeps(s) == [Client(s)!Next]_(Client(s)!streamVars)

(* A session with nothing pending. *)
LEMMA NothingPending ==
  /\ <<>> \in Seq(Queued) /\ <<>> \o <<>> = <<>>
  /\ NumbersOf(<<>>, "envelope") = {} /\ Rising(<<>>, "envelope")
  /\ Behind(<<>>, "envelope", "backlog_overflow") = {}
<1>1. DOMAIN <<>> = {}
  OBVIOUS
<1>2. QED
  BY <1>1 DEF NumbersOf, Rising, Behind

LEMMA InitClients ==
  ASSUME Init PROVE ClientInv /\ \A s \in Sessions : Client(s)!Init
<1> SUFFICES ASSUME NEW s \in Sessions PROVE ClientFits(s) /\ Client(s)!Init
  BY InitGap DEF ClientInv
<1>1. held[s] = <<>> /\ queue[s] = <<>> /\ wire[s] = <<>> /\ due[s] = {}
      /\ phase[s] = "connecting"
  BY DEF Init
<1>2. Pending(s) = <<>>
  BY <1>1, NothingPending DEF Pending
<1>3. ClientFits(s)
  BY <1>1, <1>2, NothingPending DEF ClientFits
<1>4. Client(s)!Init
  BY <1>1, <1>2, NothingPending DEF Client!Init, InTaskGroup
<1>5. QED
  BY <1>3, <1>4

(* The parts of the state AnnouncedStream is told of. *)
LEMMA SameStream ==
  ASSUME NEW s \in Sessions, Pending(s)' = Pending(s), wire'[s] = wire[s], due'[s] = due[s],
         phase[s] \in {"joining"} \cup InTaskGroup <=> phase'[s] \in {"joining"} \cup InTaskGroup
  PROVE  Keeps(s)
<1>1. (phase[s] \in {"joining"} \cup InTaskGroup)' = (phase[s] \in {"joining"} \cup InTaskGroup)
  OBVIOUS
<1>2. /\ NumbersOf(Pending(s), "envelope")' = NumbersOf(Pending(s), "envelope")
      /\ Behind(Pending(s), "envelope", "backlog_overflow")'
           = Behind(Pending(s), "envelope", "backlog_overflow")
  BY DEF NumbersOf, Behind
<1>3. QED
  BY <1>1, <1>2 DEF Keeps, Client!streamVars

(* A handler that returns closes the stream, if it was open. *)
LEMMA ReturnsCloses ==
  ASSUME ClientInv, NEW s \in Sessions, NEW from, Returns(s, from)
  PROVE  ClientFits(s)' /\ Keeps(s)
<1>0. TypeOK /\ LayoutFirst /\ SlotPerSession
  BY DEF ClientInv, GapInv, WireInv, SlotInv
<1>1. /\ held'[s] = <<>> /\ queue'[s] = <<>> /\ wire'[s] = <<>> /\ due'[s] = {}
      /\ phase'[s] = "closed"
  BY <1>0 DEF Returns, Goes, TypeOK
<1>2. Pending(s)' = <<>>
  BY <1>1, NothingPending DEF Pending
<1>3. ClientFits(s)'
  BY <1>1, <1>2, NothingPending DEF ClientFits
<1>4. CASE phase[s] \in {"joining"} \cup InTaskGroup
  <2>1. Client(s)!Close
    BY <1>1, <1>2, <1>4, NothingPending DEF Client!Close, InTaskGroup
  <2>2. QED
    BY <1>3, <2>1 DEF Keeps, Client!Next
<1>5. CASE phase[s] \notin {"joining"} \cup InTaskGroup
  <2>1. wire[s] = <<>>
    BY <1>0, <1>5 DEF LayoutFirst, Hydrated, InTaskGroup
  <2>2. s \notin registry
    BY <1>0, <1>5 DEF SlotPerSession
  <2>3. held[s] = <<>> /\ queue[s] = <<>> /\ due[s] = {}
    BY <2>2 DEF ClientInv, GapInv
  <2>4. Pending(s) = <<>>
    BY <2>3, NothingPending DEF Pending
  <2>5. phase'[s] \notin {"joining"} \cup InTaskGroup
    BY <1>1 DEF InTaskGroup
  <2>6. QED
    BY <1>1, <1>2, <1>3, <1>5, <2>1, <2>3, <2>4, <2>5, SameStream
<1>6. QED
  BY <1>4, <1>5

LEMMA SendLayoutOpens ==
  ASSUME ClientInv, NEW s \in Sessions, SendLayout(s)
  PROVE  ClientFits(s)' /\ Keeps(s)
<1>0. TypeOK /\ LayoutFirst /\ SlotPerSession /\ phase[s] = "snapshotting"
  BY DEF ClientInv, GapInv, WireInv, SlotInv, SendLayout, Goes
<1>1. wire[s] = <<>> /\ s \notin registry
  BY <1>0 DEF LayoutFirst, Hydrated, InTaskGroup, SlotPerSession
<1>2. held[s] = <<>> /\ queue[s] = <<>> /\ due[s] = {}
  BY <1>1 DEF ClientInv, GapInv
<1>3. /\ wire'[s] = <<Layout>> /\ phase'[s] = "joining"
      /\ held' = held /\ queue' = queue /\ due' = due /\ sent' = sent
  BY <1>0, <1>1 DEF SendLayout, Goes, TypeOK, stream, history
<1>4. Pending(s) = <<>> /\ Pending(s)' = <<>>
  BY <1>2, <1>3, NothingPending DEF Pending
<1>5. Client(s)!Open
  BY <1>0, <1>2, <1>3, <1>4 DEF Client!Open, InTaskGroup
<1>6. QED
  BY <1>2, <1>3, <1>4, <1>5, NothingPending DEF ClientFits, Keeps, Client!Next

(* Dequeueing moves a frame within what is pending. *)
LEMMA DequeueKeeps ==
  ASSUME ClientInv, NEW s \in Sessions, Dequeue(s)
  PROVE  ClientFits(s)' /\ Keeps(s)
<1>0. TypeOK /\ ClientFits(s)
  BY DEF ClientInv, GapInv, WireInv
<1>1. /\ held[s] = <<>> /\ queue[s] # <<>>
      /\ held'[s] = <<Head(queue[s])>> /\ queue'[s] = Tail(queue[s])
      /\ UNCHANGED <<phase, wire, due, sent>>
  BY <1>0 DEF Dequeue, TypeOK, connection, history
<1> DEFINE q == queue[s]
<1>2. q \in Seq(Queued) /\ q # <<>>
  BY <1>0, <1>1 DEF ClientFits
<1> HIDE DEF q
<1>3. /\ <<Head(q)>> \in Seq(Queued) /\ Tail(q) \in Seq(Queued) /\ <<>> \in Seq(Queued)
      /\ <<>> \o q = q /\ <<>> \o <<Head(q)>> = <<Head(q)>>
  BY <1>2
<1>4. (<<>> \o <<Head(q)>>) \o Tail(q) = <<>> \o q
  BY <1>2, <1>3, HeadThenTail
<1>5. <<Head(q)>> \o Tail(q) = q
  BY <1>3, <1>4
<1>6. Pending(s)' = Pending(s)
  BY <1>1, <1>3, <1>5 DEF Pending, q
<1>7. ClientFits(s)'
  BY <1>0, <1>1, <1>3, <1>6 DEF ClientFits, q
<1>8. QED
  BY <1>1, <1>6, <1>7, SameStream

(* Writing shows the oldest pending envelope, or warns. *)
LEMMA WriteShows ==
  ASSUME ClientInv, NEW s \in Sessions, Write(s)
  PROVE  ClientFits(s)' /\ Keeps(s)
<1>0. TypeOK /\ ClientFits(s) /\ sent \in Nat
  BY GatewayAssumption DEF ClientInv, GapInv, WireInv, TypeOK, GatewayAssumption
<1>1. /\ held[s] # <<>> /\ Len(held[s]) =< 1 /\ held[s] \in Seq(Queued) /\ queue[s] \in Seq(Queued)
      /\ wire[s] \in Seq(Frames)
      /\ wire'[s] = wire[s] \o held[s] /\ held'[s] = <<>> /\ queue'[s] = queue[s]
      /\ UNCHANGED <<phase, due, sent>> /\ phase[s] \in {"active", "expiring"}
  BY <1>0 DEF Write, TypeOK, ClientFits, connection, history
<1>2. PICK f \in Queued : held[s] = <<f>>
  BY <1>1
<1> DEFINE q == queue[s]
<1>3. q \in Seq(Queued) /\ <<>> \o q = q
  BY <1>1
<1>4. Pending(s) = <<f>> \o q /\ Pending(s)' = q
  BY <1>1, <1>2, <1>3 DEF Pending
<1>5. /\ Rising(<<f>> \o q, "envelope") /\ NumbersOf(<<f>> \o q, "envelope") \subseteq 1..sent
      /\ NumbersOf(<<f>> \o q, "envelope") \subseteq Nat
  <2>1. \A n \in 1..sent : n \in Nat
    BY <1>0
  <2>2. QED
    BY <1>0, <1>4, <2>1 DEF ClientFits
<1>6. f \in Frames /\ f.kind \in {"envelope", "backlog_overflow"} /\ f = [kind |-> f.kind, n |-> f.n]
  BY DEF Queued, Frames
<1>7. /\ wire'[s] = Append(wire[s], f) /\ wire'[s] # <<>> /\ wire'[s][Len(wire'[s])] = f
  <2>1. wire[s] \o <<f>> = Append(wire[s], f)
    BY <1>1, <1>6
  <2>2. Append(wire[s], f) # <<>> /\ Append(wire[s], f)[Len(Append(wire[s], f))] = f
    BY <1>1, <1>6
  <2>3. QED
    BY <1>1, <1>2, <2>1, <2>2
<1> HIDE DEF q
<1>8. /\ Rising(q, "envelope")
      /\ f.kind = "envelope" =>
           /\ f.n \in NumbersOf(<<f>> \o q, "envelope")
                        \ Behind(<<f>> \o q, "envelope", "backlog_overflow")
           /\ \A m \in NumbersOf(<<f>> \o q, "envelope") : f.n =< m
           /\ NumbersOf(q, "envelope") = NumbersOf(<<f>> \o q, "envelope") \ {f.n}
           /\ Behind(q, "envelope", "backlog_overflow")
                = Behind(<<f>> \o q, "envelope", "backlog_overflow")
      /\ f.kind = "backlog_overflow" =>
           /\ NumbersOf(q, "envelope") = NumbersOf(<<f>> \o q, "envelope")
           /\ Behind(q, "envelope", "backlog_overflow")
                \in {Behind(<<f>> \o q, "envelope", "backlog_overflow"), {}}
  <2>1. "envelope" # "backlog_overflow"
    OBVIOUS
  <2>2. QED
    BY <1>3, <1>5, <2>1, Leaves DEF Departs
<1>9. NumbersOf(q, "envelope") \subseteq 1..sent
  BY <1>5, <1>6, <1>8
<1>10. ClientFits(s)'
  BY <1>1, <1>3, <1>4, <1>8, <1>9, NothingPending DEF ClientFits, q
<1>11. CASE f.kind = "envelope"
  <2>1. f.n \in 1..MaxSent
    <3>1. \A n \in 1..sent : n \in 1..MaxSent
      BY <1>0, GatewayAssumption DEF TypeOK, GatewayAssumption
    <3>2. QED
      BY <1>5, <1>8, <1>11, <3>1
  <2>2. Client(s)!Show(f.n)
    BY <1>1, <1>4, <1>6, <1>7, <1>8, <1>11 DEF Client!Show, InTaskGroup
  <2>3. QED
    BY <1>10, <2>1, <2>2 DEF Keeps, Client!Next
<1>12. CASE f.kind = "backlog_overflow"
  <2>1. Client(s)!Warn
    BY <1>1, <1>4, <1>7, <1>8, <1>12 DEF Client!Warn, InTaskGroup
  <2>2. QED
    BY <1>10, <2>1 DEF Keeps, Client!Next
<1>13. QED
  BY <1>6, <1>11, <1>12

LEMMA SessionKeeps ==
  ASSUME ClientInv, NEW s \in Sessions, Session(s)
  PROVE  ClientFits(s)' /\ Keeps(s)
<1>0. TypeOK /\ ClientFits(s)
  BY DEF ClientInv, GapInv, WireInv
<1>1. CASE \E from : Returns(s, from)
  BY <1>1, ReturnsCloses
<1>2. CASE /\ phase[s] \in {"joining"} \cup InTaskGroup
                <=> phase'[s] \in {"joining"} \cup InTaskGroup
           /\ UNCHANGED <<wire, held, queue, due, sent>>
  <2>1. Pending(s)' = Pending(s)
    BY <1>2 DEF Pending
  <2>2. ClientFits(s)'
    BY <1>0, <1>2, <2>1 DEF ClientFits
  <2>3. QED
    BY <1>2, <2>1, <2>2, SameStream
<1>3. Session(s) =>
        \/ \E from : Returns(s, from)
        \/ /\ phase[s] \in {"joining"} \cup InTaskGroup
                <=> phase'[s] \in {"joining"} \cup InTaskGroup
           /\ UNCHANGED <<wire, held, queue, due, sent>>
        \/ SendLayout(s) \/ Dequeue(s) \/ Write(s)
  <2> DEFINE Aside == /\ phase[s] \in {"joining"} \cup InTaskGroup
                           <=> phase'[s] \in {"joining"} \cup InTaskGroup
                      /\ UNCHANGED <<wire, held, queue, due, sent>>
  <2>1. (\E f \in Filters : Accept(s, f)) \/ ReceiveHandshake(s) \/ Reserve(s) \/ IdleTimeout(s)
        \/ Expire(s) \/ GoSilent(s) => Aside
    BY <1>0 DEF Accept, ReceiveHandshake, Reserve, IdleTimeout, Expire, GoSilent, Goes, TypeOK,
                InTaskGroup, stream, history
  <2>2. Refuse(s) \/ RefuseHandshake(s) \/ HandshakeTimeout(s) \/ ReserveRaced(s) \/ Release(s)
        => \E from : Returns(s, from)
    BY DEF Refuse, RefuseHandshake, HandshakeTimeout, ReserveRaced, Release
  <2>3. Disconnect(s) => (\E from : Returns(s, from)) \/ Aside
    BY <1>0 DEF Disconnect, Goes, TypeOK, InTaskGroup, stream, history
  <2>4. QED
    BY <2>1, <2>2, <2>3 DEF Session
<1>4. QED
  BY <1>1, <1>2, <1>3, SendLayoutOpens, DequeueKeeps, WriteShows

LEMMA ArrivalKeeps ==
  ASSUME NEW s \in Sessions, NEW n \in 1..MaxSent, Client(s)!Arrive(n) \/ Client(s)!Overflow(n)
  PROVE  Keeps(s)
  BY DEF Keeps, Client!Next

(* A full queue sheds its oldest frames for a warning and the newcomer. *)
LEMMA EnvelopeCrowds ==
  ASSUME NEW h \in Seq(Queued), NEW dropped \in Seq(Queued),
         NEW kept \in Seq(Queued), NEW w \in Queued, NEW env \in Queued,
         w.kind = "backlog_overflow", env.kind = "envelope",
         Rising(h \o (dropped \o kept), "envelope"),
         \A m \in NumbersOf(h \o (dropped \o kept), "envelope") : m < env.n
  PROVE  /\ \E K \in SUBSET NumbersOf(h \o (dropped \o kept), "envelope") :
               NumbersOf(h \o (kept \o <<w, env>>), "envelope") = K \cup {env.n}
         /\ Behind(h \o (kept \o <<w, env>>), "envelope", "backlog_overflow") = {env.n}
         /\ Rising(h \o (kept \o <<w, env>>), "envelope")
<1> DEFINE news == <<w, env>>
           kind == "envelope"
           warning == "backlog_overflow"
<1>1. kind # warning /\ w.kind = warning /\ env.kind = kind /\ news \in Seq(Queued)
  OBVIOUS
<1>2. /\ NumbersOf(news, kind) = {env.n} /\ Has(news, warning)
      /\ Behind(news, kind, warning) = {env.n} /\ Rising(news, kind)
  <2> HIDE DEF kind, warning
  <2>1. /\ NumbersOf(<<w, env>>, env.kind) = {env.n} /\ Has(<<w, env>>, w.kind)
        /\ Behind(<<w, env>>, env.kind, w.kind) = {env.n} /\ Rising(<<w, env>>, env.kind)
    BY <1>1, WarningAndNewcomer
  <2> HIDE DEF news
  <2>2. QED
    BY <1>1, <2>1 DEF news
<1>3. /\ Rising(h \o (dropped \o kept), kind)
      /\ Precede(NumbersOf(h \o (dropped \o kept), kind), NumbersOf(news, kind))
  BY <1>2 DEF Precede
<1>4. Behind(news, kind, warning) = NumbersOf(news, kind)
  BY <1>2
<1>5. Has(news, warning) /\ Rising(news, kind) /\ news \in Seq(Queued) /\ kind # warning
  BY <1>1, <1>2
<1> HIDE DEF news, kind, warning
<1>6. NumbersOf(h \o (kept \o news), kind)
        = (NumbersOf(h, kind) \cup NumbersOf(kept, kind)) \cup NumbersOf(news, kind)
  BY <1>5, NumbersOfThree
<1>7. NumbersOf(h \o (dropped \o kept), kind)
        = (NumbersOf(h, kind) \cup NumbersOf(dropped, kind)) \cup NumbersOf(kept, kind)
  BY <1>5, NumbersOfThree
<1>8. Behind(h \o (kept \o news), kind, warning) = NumbersOf(news, kind)
  BY <1>3, <1>4, <1>5, Crowds
<1>9. Rising(h \o (kept \o news), kind)
  BY <1>3, <1>4, <1>5, Crowds
<1>10. QED
  <2> DEFINE K == NumbersOf(h, kind) \cup NumbersOf(kept, kind)
  <2>1. /\ K \in SUBSET NumbersOf(h \o (dropped \o kept), kind)
        /\ NumbersOf(h \o (kept \o news), kind) = K \cup {env.n}
    BY <1>2, <1>6, <1>7
  <2>2. Behind(h \o (kept \o news), kind, warning) = {env.n}
    BY <1>2, <1>8
  <2> HIDE DEF K
  <2>3. QED
    BY <1>9, <2>1, <2>2 DEF news, kind, warning

(* A newcomer arrives, or pushes others out and is announced. *)
LEMMA FanOutKeeps ==
  ASSUME ClientInv, NEW to \in Filters, FanOut(to), NEW s \in Sessions
  PROVE  ClientFits(s)' /\ Keeps(s)
<1>0. /\ TypeOK /\ ClientFits(s) /\ SlotPerSession /\ due[s] \subseteq 1..sent
      /\ sent \in Nat /\ sent' = sent + 1 /\ sent + 1 \in 1..MaxSent
      /\ UNCHANGED <<phase, registry, held, wire>>
  BY GatewayAssumption
     DEF ClientInv, GapInv, WireInv, SlotInv, FanOut, TypeOK, GatewayAssumption, connection
<1>1. PICK n \in 1..MaxSent : n = sent + 1
  BY <1>0
<1>2. CASE ~(s \in registry /\ Wanted(s, to))
  <2>1. queue'[s] = queue[s] /\ due'[s] = due[s]
    BY <1>0, <1>2, WantedIsCovered DEF FanOut
  <2>2. Pending(s)' = Pending(s)
    BY <1>0, <2>1 DEF Pending
  <2>3. \A m \in 1..sent : m \in 1..(sent + 1)
    BY <1>0
  <2>4. ClientFits(s)'
    BY <1>0, <2>1, <2>2, <2>3 DEF ClientFits
  <2>5. QED
    BY <1>0, <2>1, <2>2, <2>4, SameStream
<1>3. CASE s \in registry /\ Wanted(s, to)
  <2> DEFINE env == Envelope(sent + 1)
             h == held[s]
             q == queue[s]
  <2>1. /\ queue'[s] = Pushed(q, env) /\ due'[s] = due[s] \cup {sent + 1}
        /\ phase[s] \in {"joining"} \cup InTaskGroup
    BY <1>0, <1>3, WantedIsCovered DEF FanOut, SlotPerSession
  <2>2. /\ h \in Seq(Queued) /\ q \in Seq(Queued) /\ Len(q) \in Nat /\ Len(q) =< Backlog
        /\ Backlog \in Nat /\ Backlog >= 2
    BY <1>0, GatewayAssumption DEF ClientFits, TypeOK, GatewayAssumption
  <2>3. /\ env \in Queued /\ env.kind = "envelope" /\ env.n = sent + 1
        /\ Warning \in Queued /\ Warning.kind = "backlog_overflow"
        /\ "envelope" # "backlog_overflow"
    <3>1. env \in Frames /\ Warning \in Frames
      BY <1>0, FramesTypes
    <3>2. QED
      BY <3>1 DEF Queued, Envelope, Warning
  <2> HIDE DEF env, h, q
  <2>4. /\ Pending(s) = h \o q /\ Pending(s)' = h \o Pushed(q, env) /\ h \o q \in Seq(Queued)
        /\ Rising(h \o q, "envelope") /\ \A m \in NumbersOf(h \o q, "envelope") : m < env.n
        /\ \A m \in due[s] : m < env.n
    <3>1. Pending(s) = h \o q /\ Pending(s)' = h \o Pushed(q, env)
      BY <1>0, <2>1 DEF Pending, h, q
    <3>2. \A m \in 1..sent : m < env.n
      BY <1>0, <2>3
    <3>3. QED
      BY <1>0, <2>2, <3>1, <3>2 DEF ClientFits
  <2>5. Client(s)!Arrival(n)
    <3>1. (phase[s] \in {"joining"} \cup InTaskGroup)' = (phase[s] \in {"joining"} \cup InTaskGroup)
      BY <1>0
    <3>2. \A m \in due[s] : m < sent + 1
      BY <2>3, <2>4
    <3>3. QED
      BY <1>0, <1>1, <2>1, <3>1, <3>2 DEF Client!Arrival
  <2>6. ASSUME NumbersOf(Pending(s)', "envelope")
                 \in {K \cup {sent + 1} : K \in SUBSET NumbersOf(Pending(s), "envelope")}
        PROVE  NumbersOf(Pending(s)', "envelope") \subseteq 1..(sent + 1)
    <3>1. \A m \in 1..sent : m \in 1..(sent + 1)
      BY <1>0
    <3>2. sent + 1 \in 1..(sent + 1)
      BY <1>0
    <3>3. NumbersOf(Pending(s), "envelope") \subseteq 1..(sent + 1)
      BY <1>0, <3>1 DEF ClientFits
    <3>4. QED
      BY <2>6, <3>2, <3>3
  <2>7. CASE Len(q) < Backlog
    <3>1. Pushed(q, env) = Append(q, env) /\ Pushed(q, env) \in Seq(Queued)
      BY <2>2, <2>3, <2>7 DEF Pushed
    <3>2. Pending(s)' = Append(h \o q, env)
      BY <2>2, <2>3, <2>4, <3>1, ConcatAppend
    <3>3. /\ NumbersOf(Pending(s)', "envelope") = NumbersOf(Pending(s), "envelope") \cup {sent + 1}
          /\ Behind(Pending(s)', "envelope", "backlog_overflow")
               \in {Behind(Pending(s), "envelope", "backlog_overflow"),
                    Behind(Pending(s), "envelope", "backlog_overflow") \cup {sent + 1}}
          /\ Rising(Pending(s)', "envelope")
      <4>1. /\ NumbersOf(Append(h \o q, env), "envelope")
                 = NumbersOf(h \o q, "envelope") \cup {env.n}
            /\ Behind(Append(h \o q, env), "envelope", "backlog_overflow")
                 \in {Behind(h \o q, "envelope", "backlog_overflow"),
                      Behind(h \o q, "envelope", "backlog_overflow") \cup {env.n}}
            /\ Rising(Append(h \o q, env), "envelope")
        BY <2>3, <2>4, Enters
      <4>2. QED
        BY <2>3, <2>4, <3>2, <4>1
    <3>4. ClientFits(s)'
      BY <1>0, <2>1, <2>2, <2>6, <3>1, <3>3 DEF ClientFits, h
    <3>5. Client(s)!Arrive(n)
      BY <1>1, <2>5, <3>3 DEF Client!Arrive
    <3>6. QED
      BY <3>4, <3>5, ArrivalKeeps
  <2>8. CASE ~(Len(q) < Backlog)
    <3> DEFINE i == Len(q) - (Backlog - 2) + 1
               dropped == SubSeq(q, 1, i - 1)
               kept == SubSeq(q, i, Len(q))
    <3>1. i \in 1..(Len(q) + 1)
      BY <2>2, <2>8
    <3> HIDE DEF i
    <3>2. dropped \in Seq(Queued) /\ kept \in Seq(Queued) /\ q = dropped \o kept
      BY <2>2, <3>1, DroppedAndKept
    <3>3. Pushed(q, env) = kept \o <<Warning, env>>
      BY <2>8 DEF Pushed, i
    <3> HIDE DEF dropped, kept
    <3>4. Pushed(q, env) \in Seq(Queued)
      <4>1. <<Warning, env>> \in Seq(Queued)
        BY <2>3
      <4>2. QED
        BY <3>2, <3>3, <4>1, ConcatProperties
    <3>5. /\ \E K \in SUBSET NumbersOf(Pending(s), "envelope") :
               NumbersOf(Pending(s)', "envelope") = K \cup {sent + 1}
          /\ Behind(Pending(s)', "envelope", "backlog_overflow") = {sent + 1}
          /\ Rising(Pending(s)', "envelope")
      <4>1. /\ Rising(h \o (dropped \o kept), "envelope")
            /\ \A m \in NumbersOf(h \o (dropped \o kept), "envelope") : m < env.n
        BY <2>4, <3>2
      <4>2. /\ \E K \in SUBSET NumbersOf(h \o (dropped \o kept), "envelope") :
                 NumbersOf(h \o (kept \o <<Warning, env>>), "envelope") = K \cup {env.n}
            /\ Behind(h \o (kept \o <<Warning, env>>), "envelope", "backlog_overflow") = {env.n}
            /\ Rising(h \o (kept \o <<Warning, env>>), "envelope")
        BY <2>2, <2>3, <3>2, <4>1, EnvelopeCrowds
      <4>3. QED
        BY <2>3, <2>4, <3>2, <3>3, <4>2
    <3>6. ClientFits(s)'
      <4>1. NumbersOf(Pending(s)', "envelope") \subseteq 1..(sent + 1)
        BY <2>6, <3>5
      <4>2. QED
        BY <1>0, <2>1, <2>2, <3>4, <3>5, <4>1 DEF ClientFits, h
    <3>7. Client(s)!Overflow(n)
      BY <1>1, <2>5, <3>5 DEF Client!Overflow
    <3>8. QED
      BY <3>6, <3>7, ArrivalKeeps
  <2>9. QED
    BY <2>7, <2>8
<1>4. QED
  BY <1>2, <1>3

LEMMA StepClients ==
  ASSUME ClientInv, [Next]_vars PROVE ClientInv' /\ \A s \in Sessions : Keeps(s)
<1>0. GapInv' /\ TypeOK
  BY StepGap DEF ClientInv, GapInv, WireInv
<1>1. ASSUME NEW s \in Sessions, Session(s) PROVE \A r \in Sessions : ClientFits(r)' /\ Keeps(r)
  <2> SUFFICES ASSUME NEW r \in Sessions PROVE ClientFits(r)' /\ Keeps(r)
    OBVIOUS
  <2>1. CASE r = s
    BY <1>1, <2>1, SessionKeeps
  <2>2. CASE r # s
    <3>1. OthersAlone(s) /\ phase'[r] = phase[r]
      <4>1. OthersAlone(s)
        BY <1>0, <1>1, SessionLeavesOthers
      <4>2. phase'[r] = phase[r]
        BY <1>0, <1>1, <2>2
           DEF Session, Refuse, Accept, ReceiveHandshake, RefuseHandshake, HandshakeTimeout,
               SendLayout, Reserve, ReserveRaced, Dequeue, Write, IdleTimeout, Expire, Disconnect,
               Release, GoSilent, Returns, Goes, TypeOK, connection
      <4>3. QED
        BY <4>1, <4>2
    <3>2. /\ wire'[r] = wire[r] /\ due'[r] = due[r] /\ held'[r] = held[r] /\ queue'[r] = queue[r]
          /\ sent' = sent
      BY <2>2, <3>1 DEF OthersAlone
    <3>3. Pending(r)' = Pending(r)
      BY <3>2 DEF Pending
    <3>4. ClientFits(r)'
      BY <3>2, <3>3 DEF ClientInv, ClientFits
    <3>5. QED
      BY <3>1, <3>2, <3>3, <3>4, SameStream
  <2>3. QED
    BY <2>1, <2>2
<1>2. ASSUME NEW to \in Filters, FanOut(to) PROVE \A r \in Sessions : ClientFits(r)' /\ Keeps(r)
  BY <1>2, FanOutKeeps
<1>3. \A r \in Sessions : ClientFits(r)' /\ Keeps(r)
  <2>1. CASE UNCHANGED vars
    <3> SUFFICES ASSUME NEW r \in Sessions PROVE ClientFits(r)' /\ Keeps(r)
      OBVIOUS
    <3>1. Pending(r)' = Pending(r) /\ UNCHANGED <<phase, held, queue, wire, due, sent>>
      BY <2>1 DEF vars, connection, stream, history, Pending
    <3>2. ClientFits(r)'
      BY <3>1 DEF ClientInv, ClientFits
    <3>3. QED
      BY <3>1, <3>2, SameStream
  <2>2. QED
    BY <1>1, <1>2, <2>1 DEF Next
<1>4. QED
  BY <1>0, <1>3 DEF ClientInv

(* Every session implements an announced stream: after its layout a client   *)
(* is shown what it subscribed to, in order and each once, and an envelope  *)
(* that pushed others out comes behind a warning.                          *)
THEOREM ClientStreamsHold == Spec => ClientStreams
<1>1. Init => ClientInv /\ \A s \in Sessions : Client(s)!Init
  BY InitClients
<1>2. ClientInv /\ [Next]_vars =>
        ClientInv' /\ \A s \in Sessions : [Client(s)!Next]_(Client(s)!streamVars)
  BY StepClients DEF Keeps
<1>3. QED
  BY <1>1, <1>2, PTL DEF Spec, ClientStreams

-----------------------------------------------------------------------------
(* Runtime queues: order. *)

Before(s, t) == \A x \in ToSet(s), y \in ToSet(t) : x.kind = y.kind => x.n < y.n

(* Data entries are numbered up to n, the others up to d. *)
Numbered(t, n, d) == \A e \in ToSet(t) : e.n \in 1..(IF e.kind = "data" THEN n ELSE d)

LEMMA InOrderConcat ==
  ASSUME NEW S, NEW s \in Seq(S), NEW t \in Seq(S)
  PROVE  InOrder(s \o t) <=> InOrder(s) /\ InOrder(t) /\ Before(s, t)
<1> DEFINE u == s \o t
<1>1. /\ Len(s) \in Nat /\ Len(t) \in Nat /\ Len(u) = Len(s) + Len(t)
      /\ DOMAIN s = 1..Len(s) /\ DOMAIN t = 1..Len(t)
      /\ \A k \in 1..(Len(s) + Len(t)) : u[k] = IF k =< Len(s) THEN s[k] ELSE t[k - Len(s)]
  OBVIOUS
<1> HIDE DEF u
<1>2. \A k \in 1..Len(s) : k \in 1..Len(u) /\ u[k] = s[k]
  BY <1>1
<1>3. \A k \in 1..Len(t) : Len(s) + k \in 1..Len(u) /\ u[Len(s) + k] = t[k]
  BY <1>1
<1>4. ASSUME InOrder(u) PROVE InOrder(s) /\ InOrder(t) /\ Before(s, t)
  <2>1. InOrder(s)
    BY <1>2, <1>4 DEF InOrder
  <2>2. ASSUME NEW i \in 1..Len(t), NEW j \in 1..Len(t), i < j, t[i].kind = t[j].kind
        PROVE  t[i].n < t[j].n
    <3>1. Len(s) + i < Len(s) + j
      BY <1>1, <2>2
    <3>2. /\ Len(s) + i \in 1..Len(u) /\ u[Len(s) + i] = t[i]
          /\ Len(s) + j \in 1..Len(u) /\ u[Len(s) + j] = t[j]
      BY <1>3
    <3>3. u[Len(s) + i].n < u[Len(s) + j].n
      BY <1>4, <2>2, <3>1, <3>2 DEF InOrder
    <3>4. QED
      BY <3>2, <3>3
  <2>3. ASSUME NEW i \in 1..Len(s), NEW j \in 1..Len(t), s[i].kind = t[j].kind
        PROVE  s[i].n < t[j].n
    <3>1. i < Len(s) + j
      BY <1>1
    <3>2. /\ i \in 1..Len(u) /\ u[i] = s[i]
          /\ Len(s) + j \in 1..Len(u) /\ u[Len(s) + j] = t[j]
      BY <1>2, <1>3
    <3>3. u[i].n < u[Len(s) + j].n
      BY <1>4, <2>3, <3>1, <3>2 DEF InOrder
    <3>4. QED
      BY <3>2, <3>3
  <2>4. InOrder(t)
    BY <2>2 DEF InOrder
  <2>5. Before(s, t)
    BY <1>1, <2>3 DEF Before, ToSet
  <2>6. QED
    BY <2>1, <2>4, <2>5
<1>5. ASSUME InOrder(s), InOrder(t), Before(s, t) PROVE InOrder(u)
  <2> SUFFICES ASSUME NEW i \in 1..Len(u), NEW j \in 1..Len(u), i < j, u[i].kind = u[j].kind
               PROVE  u[i].n < u[j].n
    BY DEF InOrder
  <2>1. CASE j =< Len(s)
    <3>1. i \in 1..Len(s) /\ j \in 1..Len(s) /\ u[i] = s[i] /\ u[j] = s[j]
      BY <1>1, <2>1
    <3>2. QED
      BY <1>5, <3>1 DEF InOrder
  <2>2. CASE i =< Len(s) /\ ~(j =< Len(s))
    <3>1. i \in 1..Len(s) /\ j - Len(s) \in 1..Len(t) /\ u[i] = s[i] /\ u[j] = t[j - Len(s)]
      BY <1>1, <2>2
    <3>2. s[i] \in ToSet(s) /\ t[j - Len(s)] \in ToSet(t)
      BY <1>1, <3>1 DEF ToSet
    <3>3. QED
      BY <1>5, <3>1, <3>2 DEF Before
  <2>3. CASE ~(i =< Len(s))
    <3>1. /\ i - Len(s) \in 1..Len(t) /\ j - Len(s) \in 1..Len(t) /\ i - Len(s) < j - Len(s)
          /\ u[i] = t[i - Len(s)] /\ u[j] = t[j - Len(s)]
      BY <1>1, <2>3
    <3>2. QED
      BY <1>5, <3>1 DEF InOrder
  <2>4. QED
    BY <1>1, <2>1, <2>2, <2>3
<1>6. QED
  BY <1>4, <1>5 DEF u

LEMMA ToSetSmall ==
  ASSUME NEW x, NEW y
  PROVE  ToSet(<<>>) = {} /\ ToSet(<<x>>) = {x} /\ ToSet(<<x, y>>) = {x, y}
  BY DEF ToSet

LEMMA InOrderSmall ==
  ASSUME NEW x, NEW y, x.kind # y.kind
  PROVE  InOrder(<<>>) /\ InOrder(<<x>>) /\ InOrder(<<x, y>>)
  BY DEF InOrder

(* Entries taken out of the middle leave the rest in order. *)
LEMMA DropMiddle ==
  ASSUME NEW S, NEW r \in Seq(S), NEW s \in Seq(S), NEW t \in Seq(S), InOrder(r \o s \o t)
  PROVE  InOrder(r \o t) /\ ToSet(r \o t) \subseteq ToSet(r \o s \o t)
<1>1. /\ r \o s \in Seq(S) /\ ToSet(r \o s \o t) = ToSet(r) \cup ToSet(s) \cup ToSet(t)
      /\ ToSet(r \o s) = ToSet(r) \cup ToSet(s) /\ ToSet(r \o t) = ToSet(r) \cup ToSet(t)
  <2> DEFINE rs == r \o s
  <2>1. rs \in Seq(S)
    OBVIOUS
  <2> HIDE DEF rs
  <2>2. ToSet(rs \o t) = ToSet(rs) \cup ToSet(t)
    BY <2>1, ToSetConcat
  <2>3. ToSet(r \o s) = ToSet(r) \cup ToSet(s) /\ ToSet(r \o t) = ToSet(r) \cup ToSet(t)
    BY ToSetConcat
  <2>4. QED
    BY <2>1, <2>2, <2>3 DEF rs
<1>2. InOrder(r \o s) /\ InOrder(t) /\ Before(r \o s, t)
  BY <1>1, InOrderConcat
<1>3. InOrder(r)
  BY <1>2, InOrderConcat
<1>4. Before(r, t)
  BY <1>1, <1>2 DEF Before
<1>5. QED
  BY <1>1, <1>2, <1>3, <1>4, InOrderConcat

(* New entries, numbered past the old ones of their kind, keep the order. *)
LEMMA NewerConcat ==
  ASSUME NEW t \in Seq(MainEntries), NEW news \in Seq(MainEntries), NEW n \in Nat, NEW d \in Nat,
         NEW n2 \in Nat, NEW d2 \in Nat, n2 >= n, d2 >= d,
         InOrder(t), Numbered(t, n, d), InOrder(news), Numbered(news, n2, d2),
         \A e \in ToSet(news) : e.n > (IF e.kind = "data" THEN n ELSE d)
  PROVE  /\ InOrder(t \o news) /\ Numbered(t \o news, n2, d2)
         /\ ToSet(t \o news) = ToSet(t) \cup ToSet(news)
<1>1. ToSet(t \o news) = ToSet(t) \cup ToSet(news)
  BY ToSetConcat
<1>2. \A e \in ToSet(t) \cup ToSet(news) : e.n \in Nat
  <2>1. ToSet(t) \subseteq MainEntries /\ ToSet(news) \subseteq MainEntries
    BY ToSetType
  <2>2. QED
    BY <2>1 DEF MainEntries
<1>3. Before(t, news)
  BY <1>2 DEF Before, Numbered
<1>4. ASSUME NEW e \in ToSet(t) PROVE e.n \in 1..(IF e.kind = "data" THEN n2 ELSE d2)
  BY <1>2 DEF Numbered
<1>5. QED
  BY <1>1, <1>3, <1>4, InOrderConcat DEF Numbered

LEMMA EntryTypes ==
  ASSUME NEW n \in Nat
  PROVE  /\ Data(n) \in MainEntries /\ Data(n).n = n /\ Data(n).kind = "data"
         /\ OverflowWarning(n) \in MainEntries /\ OverflowWarning(n).n = n
         /\ OverflowWarning(n).kind = "runtime_backlog_overflow"
         /\ Beat(n) \in BeatEntries /\ Beat(n).n = n /\ Beat(n).kind = "world_tick"
  BY DEF Data, OverflowWarning, Beat, MainEntries, BeatEntries

-----------------------------------------------------------------------------
(* Runtime queues: types, and what the getter tasks hold. *)

(* A getter holds an entry only once it is done, and there are getters only  *)
(* while recv_envelope waits for them.                                     *)
DrainInv ==
  /\ QueueTypeOK
  /\ mainTask # "done" => result["main"] = <<>>
  /\ hbTask # "done" => result["hb"] = <<>>
  /\ receiver # "racing" => mainTask = "none" /\ hbTask = "none"

LEMMA EmptyResult ==
  LET none == [t \in {"main", "hb"} |-> <<>>]
  IN  /\ none \in [{"main", "hb"} -> Seq(MainEntries) \cup Seq(BeatEntries)]
      /\ none["main"] = <<>> /\ none["hb"] = <<>>
      /\ <<>> \in Seq(MainEntries) /\ <<>> \in Seq(BeatEntries) /\ Len(<<>>) = 0
  OBVIOUS

LEMMA InitDrain == QueueInit => DrainInv
<1> SUFFICES ASSUME QueueInit PROVE DrainInv
  OBVIOUS
<1>1. 0 \in 0..MaxPut /\ 0 \in 0..MaxBeats /\ 0 =< Capacity /\ 0 \in Nat
  BY QueueAssumption DEF QueueAssumption
<1>2. QED
  BY <1>1, EmptyResult DEF QueueInit, DrainInv, QueueTypeOK

(* Producers: an overflow trades two entries or more for two. *)
LEMMA EnqueuedKeepsRoom ==
  ASSUME QueueTypeOK, NEW n \in Nat, Enqueued(Data(n))
  PROVE  /\ main' \in Seq(MainEntries) /\ Len(main') =< Capacity
         /\ drops' \in Nat /\ warned' \in Nat
         /\ \/ /\ main' = main \o <<Data(n)>> /\ drops' = drops /\ warned' = warned
            \/ \E kept \in Seq(MainEntries) :
                 /\ main' = kept \o <<OverflowWarning(drops'), Data(n)>>
                 /\ Len(main) = Len(kept) + 2 /\ Len(main') = Len(kept) + 2
                 /\ \A k \in 1..Len(kept) : kept[k] = main[k + 2]
                 /\ drops' = drops + 2 /\ warned' = warned + 1
<1>0. /\ main \in Seq(MainEntries) /\ Len(main) \in Nat /\ Len(main) =< Capacity
      /\ Capacity \in Nat /\ Capacity >= 2 /\ drops \in Nat /\ warned \in Nat
  BY QueueAssumption DEF QueueTypeOK, QueueAssumption
<1>1. CASE Len(main) < Capacity
  <2>1. Data(n) \in MainEntries
    BY EntryTypes
  <2>2. main' = Append(main, Data(n)) /\ drops' = drops /\ warned' = warned
    BY <1>1 DEF Enqueued
  <2>3. /\ Append(main, Data(n)) \in Seq(MainEntries)
        /\ Len(Append(main, Data(n))) = Len(main) + 1
        /\ Append(main, Data(n)) = main \o <<Data(n)>>
    BY <1>0, <2>1
  <2>4. QED
    BY <1>0, <1>1, <2>2, <2>3
<1>2. CASE Len(main) = Capacity
  <2> DEFINE kept == SubSeq(main, Len(main) - (Capacity - 2) + 1, Len(main))
             warning == OverflowWarning(drops + 2)
  <2>1. Overflow = 2 /\ Overflow + 1 = Len(main) - (Capacity - 2) + 1
    BY <1>0, <1>2 DEF Overflow
  <2>2. /\ main' = kept \o <<OverflowWarning(drops'), Data(n)>>
        /\ drops' = drops + 2 /\ warned' = warned + 1
    BY <1>0, <1>2, <2>1 DEF Enqueued
  <2>3. warning \in MainEntries /\ Data(n) \in MainEntries
    BY <1>0, EntryTypes
  <2>4. /\ kept \in Seq(MainEntries) /\ Len(kept) = Capacity - 2
        /\ \A k \in 1..(Capacity - 2) : kept[k] = main[k + 2]
        /\ kept \o <<warning, Data(n)>> \in Seq(MainEntries)
        /\ Len(kept \o <<warning, Data(n)>>) = Capacity
    BY <1>0, <1>2, <2>3, KeepNewest
  <2> HIDE DEF kept
  <2>5. main' = kept \o <<warning, Data(n)>>
    BY <2>2
  <2>6. drops' \in Nat /\ warned' \in Nat /\ Len(main) = Len(kept) + 2 /\ Len(main') = Len(kept) + 2
    BY <1>0, <1>2, <2>2, <2>4, <2>5
  <2>7. main' \in Seq(MainEntries) /\ Len(main') =< Capacity
    BY <1>0, <2>4, <2>5
  <2>8. \A k \in 1..Len(kept) : kept[k] = main[k + 2]
    BY <2>4
  <2>9. QED
    BY <2>2, <2>4, <2>6, <2>7, <2>8
<1>3. Len(main) < Capacity \/ Len(main) = Capacity
  BY <1>0
<1>4. QED
  BY <1>1, <1>2, <1>3, Zenon

LEMMA StepDrain == DrainInv /\ [QueueNext]_queueVars => DrainInv'
<1> SUFFICES ASSUME DrainInv, [QueueNext]_queueVars PROVE DrainInv'
  OBVIOUS
<1>0. QueueTypeOK /\ MaxPut \in Nat /\ MaxBeats \in Nat
  BY QueueAssumption DEF DrainInv, QueueAssumption
<1>1. CASE InjectEnvelope
  <2>1. put' = put + 1 /\ put' \in 0..MaxPut /\ put' \in Nat /\ Enqueued(Data(put'))
    BY <1>0, <1>1 DEF InjectEnvelope, QueueTypeOK
  <2>2. main' \in Seq(MainEntries) /\ Len(main') =< Capacity /\ drops' \in Nat /\ warned' \in Nat
    BY <1>0, <2>1, EnqueuedKeepsRoom
  <2>3. QED
    BY <1>1, <2>1, <2>2 DEF InjectEnvelope, DrainInv, QueueTypeOK, tasks, handed
<1>2. CASE OnHeartbeatTick
  <2>1. beats' = beats + 1 /\ beats' \in 0..MaxBeats /\ beats' \in Nat
    BY <1>0, <1>2 DEF OnHeartbeatTick, QueueTypeOK
  <2>2. Beat(beats') \in BeatEntries
    BY <2>1, EntryTypes
  <2>3. slot' \in Seq(BeatEntries) /\ Len(slot') =< 1
    BY <1>2, <2>2 DEF OnHeartbeatTick
  <2>4. QED
    BY <1>2, <2>1, <2>3 DEF OnHeartbeatTick, DrainInv, QueueTypeOK, tasks, handed
<1>3. CASE CallRecv
  BY <1>3, EmptyResult DEF CallRecv, DrainInv, QueueTypeOK, queues, handed
<1>4. CASE GetMain
  <2>1. main \in Seq(MainEntries) /\ main # <<>> /\ Len(main) =< Capacity /\ Capacity \in Nat
    BY <1>0, <1>4, QueueAssumption DEF GetMain, QueueTypeOK, QueueAssumption
  <2>2. /\ Head(main) \in MainEntries /\ Tail(main) \in Seq(MainEntries)
        /\ Len(Tail(main)) =< Capacity
    BY <2>1, HeadTailProperties
  <2>3. <<Head(main)>> \in Seq(MainEntries) /\ Len(<<Head(main)>>) = 1
    BY <2>2
  <2>4. /\ result' \in [{"main", "hb"} -> Seq(MainEntries) \cup Seq(BeatEntries)]
        /\ result'["main"] = <<Head(main)>> /\ result'["hb"] = result["hb"]
    BY <1>0, <1>4, <2>3 DEF GetMain, QueueTypeOK
  <2>5. QueueTypeOK'
    BY <1>0, <1>4, <2>2, <2>3, <2>4 DEF GetMain, QueueTypeOK, handed
  <2>6. QED
    BY <1>4, <2>4, <2>5 DEF GetMain, DrainInv
<1>5. CASE GetHeartbeat
  <2>1. slot \in Seq(BeatEntries) /\ Len(slot) =< 1
    BY <1>0 DEF QueueTypeOK
  <2>2. /\ result' \in [{"main", "hb"} -> Seq(MainEntries) \cup Seq(BeatEntries)]
        /\ result'["hb"] = slot /\ result'["main"] = result["main"]
    BY <1>0, <1>5, <2>1 DEF GetHeartbeat, QueueTypeOK
  <2>3. QueueTypeOK'
    BY <1>0, <1>5, <2>1, <2>2, EmptyResult DEF GetHeartbeat, QueueTypeOK, handed
  <2>4. QED
    BY <1>5, <2>2, <2>3 DEF GetHeartbeat, DrainInv
<1>6. CASE RecvMain
  <2>1. forwarded' \in Seq(MainEntries)
    BY <1>0, <1>6, ConcatProperties DEF RecvMain, QueueTypeOK
  <2>2. slot' \in Seq(BeatEntries) /\ Len(slot') =< 1
    BY <1>0, <1>6 DEF RecvMain, Reinjected, QueueTypeOK
  <2>3. hbTask' = "none"
    BY <1>6 DEF RecvMain, Cancelled
  <2>4. QueueTypeOK'
    BY <1>0, <1>6, <2>1, <2>2, <2>3, EmptyResult DEF RecvMain, QueueTypeOK
  <2>5. QED
    BY <1>6, <2>3, <2>4, EmptyResult DEF RecvMain, DrainInv
<1>7. CASE RecvHeartbeat
  <2>1. shown' \in Seq(BeatEntries)
    BY <1>0, <1>7, ConcatProperties DEF RecvHeartbeat, QueueTypeOK
  <2>2. mainTask' = "none" /\ hbTask' = "none"
    BY <1>7 DEF RecvHeartbeat, Cancelled
  <2>3. QueueTypeOK'
    BY <1>0, <1>7, <2>1, <2>2, EmptyResult DEF RecvHeartbeat, QueueTypeOK, queues
  <2>4. QED
    BY <1>7, <2>2, <2>3, EmptyResult DEF RecvHeartbeat, DrainInv
<1>8. CASE CancelRecv
  BY <1>8, EmptyResult DEF CancelRecv, DrainInv, QueueTypeOK, queues, handed
<1>9. CASE UNCHANGED queueVars
  BY <1>9 DEF queueVars, queues, tasks, handed, DrainInv, QueueTypeOK
<1>10. QED
  BY <1>1, <1>2, <1>3, <1>4, <1>5, <1>6, <1>7, <1>8, <1>9 DEF QueueNext, Receive

(* The runtime's queues are well formed: the main queue never outgrows its   *)
(* capacity, the heartbeat queue and each getter hold one entry at most.    *)
THEOREM QueueTypeCorrect == QueueSpec => []QueueTypeOK
<1>1. DrainInv => QueueTypeOK
  BY DEF DrainInv
<1>2. QED
  BY <1>1, InitDrain, StepDrain, PTL DEF QueueSpec

-----------------------------------------------------------------------------
(* Runtime queues: the main stream. *)

(* NoneLostSilently and NewestWarningIsExact are not inductive: that a new   *)
(* envelope or warning is later than all of its kind needs their numbers    *)
(* bounded by the counters.                                                *)
StreamInv ==
  /\ DrainInv
  /\ InOrder(Stream) /\ Numbered(Stream, put, drops)
  /\ receiver # "down" =>
       /\ put + warned = Len(Stream) + drops
       /\ drops # 0 => OverflowWarning(drops) \in ToSet(Stream)

LEMMA StreamParts ==
  ASSUME QueueTypeOK
  PROVE  /\ forwarded \in Seq(MainEntries) /\ result["main"] \in Seq(MainEntries)
         /\ main \in Seq(MainEntries) /\ forwarded \o result["main"] \in Seq(MainEntries)
         /\ Stream \in Seq(MainEntries) /\ Len(Stream) \in Nat
         /\ Len(Stream) = Len(forwarded \o result["main"]) + Len(main)
         /\ put \in Nat /\ drops \in Nat /\ warned \in Nat
<1>1. /\ forwarded \in Seq(MainEntries) /\ result["main"] \in Seq(MainEntries)
      /\ main \in Seq(MainEntries) /\ put \in Nat /\ drops \in Nat /\ warned \in Nat
  BY QueueAssumption DEF QueueTypeOK, QueueAssumption
<1>2. forwarded \o result["main"] \in Seq(MainEntries)
  BY <1>1, ConcatProperties
<1>3. QED
  BY <1>1, <1>2, ConcatProperties DEF Stream

LEMMA InitStream == QueueInit => StreamInv
<1> SUFFICES ASSUME QueueInit PROVE StreamInv
  OBVIOUS
<1>1. Stream = <<>> /\ put = 0 /\ warned = 0 /\ drops = 0
  BY DEF QueueInit, Stream
<1>2. InOrder(<<>>) /\ ToSet(<<>>) = {} /\ Len(<<>>) = 0
  BY DEF InOrder, ToSet
<1>3. QED
  BY <1>1, <1>2, InitDrain DEF StreamInv, Numbered

LEMMA NewsSmall ==
  ASSUME NEW x \in MainEntries, NEW y \in MainEntries, x.kind # y.kind
  PROVE  /\ <<x>> \in Seq(MainEntries) /\ Len(<<x>>) = 1
         /\ <<x, y>> \in Seq(MainEntries) /\ Len(<<x, y>>) = 2
         /\ ToSet(<<x>>) = {x} /\ ToSet(<<x, y>>) = {x, y}
         /\ InOrder(<<x>>) /\ InOrder(<<x, y>>)
<1>1. <<x>> \in Seq(MainEntries) /\ Len(<<x>>) = 1
  OBVIOUS
<1>2. <<x, y>> \in Seq(MainEntries) /\ Len(<<x, y>>) = 2
  OBVIOUS
<1>3. QED
  BY <1>1, <1>2, ToSetSmall, InOrderSmall

(* An envelope put in a queue with room comes last in the stream. *)
LEMMA AppendKeepsOrder ==
  ASSUME NEW t \in Seq(MainEntries), NEW n \in Nat, NEW d \in Nat,
         InOrder(t), Numbered(t, n, d)
  PROVE  /\ InOrder(t \o <<Data(n + 1)>>) /\ Numbered(t \o <<Data(n + 1)>>, n + 1, d)
         /\ ToSet(t) \subseteq ToSet(t \o <<Data(n + 1)>>)
         /\ Len(t \o <<Data(n + 1)>>) = Len(t) + 1
<1> DEFINE env == Data(n + 1)
           news == <<env>>
<1>1. /\ env \in MainEntries /\ env.n = n + 1 /\ env.kind = "data"
      /\ OverflowWarning(n) \in MainEntries /\ OverflowWarning(n).kind # "data"
  BY EntryTypes
<1> HIDE DEF env
<1>2. news \in Seq(MainEntries) /\ Len(news) = 1 /\ ToSet(news) = {env} /\ InOrder(news)
  BY <1>1, NewsSmall
<1> HIDE DEF news
<1>3. Numbered(news, n + 1, d)
  BY <1>1, <1>2 DEF Numbered
<1>4. \A e \in ToSet(news) : e.n > (IF e.kind = "data" THEN n ELSE d)
  BY <1>1, <1>2
<1>5. /\ InOrder(t \o news) /\ Numbered(t \o news, n + 1, d)
      /\ ToSet(t \o news) = ToSet(t) \cup ToSet(news)
  <2>1. n + 1 \in Nat /\ n + 1 >= n /\ d >= d
    OBVIOUS
  <2>2. QED
    BY <1>2, <1>3, <1>4, <2>1, NewerConcat
<1>6. Len(t \o news) = Len(t) + 1
  <2>1. news \in Seq(MainEntries)
    BY <1>2
  <2>2. Len(t \o news) = Len(t) + Len(news)
    BY <2>1, ConcatProperties
  <2>3. QED
    BY <1>2, <2>2
<1>7. QED
  BY <1>5, <1>6 DEF news, env

(* What an overflow takes out of the stream is older than the warning that   *)
(* counts it, and the stream grows by the warning and the envelope.         *)
LEMMA OverflowKeepsOrder ==
  ASSUME NEW p \in Seq(MainEntries), NEW q \in Seq(MainEntries), NEW kept \in Seq(MainEntries),
         Len(q) = Len(kept) + 2, \A k \in 1..Len(kept) : kept[k] = q[k + 2],
         NEW n \in Nat, NEW d \in Nat, InOrder(p \o q), Numbered(p \o q, n, d)
  PROVE  /\ InOrder((p \o kept) \o <<OverflowWarning(d + 2), Data(n + 1)>>)
         /\ Numbered((p \o kept) \o <<OverflowWarning(d + 2), Data(n + 1)>>, n + 1, d + 2)
         /\ OverflowWarning(d + 2) \in ToSet((p \o kept) \o <<OverflowWarning(d + 2), Data(n + 1)>>)
         /\ Len((p \o kept) \o <<OverflowWarning(d + 2), Data(n + 1)>>) = Len(p) + Len(q)
<1> DEFINE env == Data(n + 1)
           warning == OverflowWarning(d + 2)
           news == <<warning, env>>
           old == p \o kept
<1>1. /\ env \in MainEntries /\ env.n = n + 1 /\ env.kind = "data"
      /\ warning \in MainEntries /\ warning.n = d + 2
      /\ warning.kind = "runtime_backlog_overflow"
  BY EntryTypes
<1> HIDE DEF env, warning
<1>2. /\ news \in Seq(MainEntries) /\ Len(news) = 2 /\ ToSet(news) = {warning, env}
      /\ InOrder(news)
  BY <1>1, NewsSmall
<1> HIDE DEF news
<1>3. Numbered(news, n + 1, d + 2)
  BY <1>1, <1>2 DEF Numbered
<1>4. \A e \in ToSet(news) : e.n > (IF e.kind = "data" THEN n ELSE d)
  BY <1>1, <1>2
<1>5. InOrder(p) /\ InOrder(q) /\ Before(p, q)
  BY InOrderConcat
<1>6. Len(kept) \in Nat /\ DOMAIN kept = 1..Len(kept) /\ DOMAIN q = 1..Len(q) /\ Len(p) \in Nat
  OBVIOUS
<1>7. InOrder(kept) /\ ToSet(kept) \subseteq ToSet(q)
  <2>1. \A k \in 1..Len(kept) : k + 2 \in 1..Len(q) /\ kept[k] = q[k + 2]
    BY <1>6
  <2>2. \A i, j \in 1..Len(kept) : i < j => i + 2 < j + 2
    BY <1>6
  <2>3. QED
    BY <1>5, <1>6, <2>1, <2>2 DEF InOrder, ToSet
<1>8. old \in Seq(MainEntries) /\ Len(old) = Len(p) + Len(kept)
  BY ConcatProperties
<1>9. InOrder(old) /\ Numbered(old, n, d)
  <2>1. Before(p, kept)
    BY <1>5, <1>7 DEF Before
  <2>2. ToSet(old) = ToSet(p) \cup ToSet(kept) /\ ToSet(p \o q) = ToSet(p) \cup ToSet(q)
    BY ToSetConcat
  <2>3. QED
    BY <1>5, <1>7, <2>1, <2>2, InOrderConcat DEF Numbered
<1> HIDE DEF old
<1>10. /\ InOrder(old \o news) /\ Numbered(old \o news, n + 1, d + 2)
       /\ ToSet(old \o news) = ToSet(old) \cup ToSet(news)
  <2>1. n + 1 \in Nat /\ d + 2 \in Nat /\ n + 1 >= n /\ d + 2 >= d
    OBVIOUS
  <2>2. QED
    BY <1>2, <1>3, <1>4, <1>8, <1>9, <2>1, NewerConcat
<1>11. Len(old \o news) = Len(p) + Len(q)
  <2>1. Len(old \o news) = Len(old) + Len(news)
    BY <1>2, <1>8, ConcatProperties
  <2>2. QED
    BY <1>2, <1>6, <1>8, <2>1
<1>12. warning \in ToSet(old \o news)
  BY <1>2, <1>10
<1>13. QED
  BY <1>10, <1>11, <1>12 DEF old, news, env, warning

LEMMA InjectKeepsStream ==
  ASSUME StreamInv, InjectEnvelope, DrainInv' PROVE StreamInv'
<1> DEFINE early == forwarded \o result["main"]
<1>0. /\ QueueTypeOK /\ InOrder(Stream) /\ Numbered(Stream, put, drops)
      /\ Stream = early \o main
      /\ receiver # "down" => /\ put + warned = Len(Stream) + drops
                              /\ drops # 0 => OverflowWarning(drops) \in ToSet(Stream)
  BY DEF StreamInv, DrainInv, Stream
<1>1. /\ put \in Nat /\ drops \in Nat /\ warned \in Nat /\ Len(early) \in Nat /\ Len(main) \in Nat
      /\ early \in Seq(MainEntries) /\ main \in Seq(MainEntries)
      /\ Stream \in Seq(MainEntries) /\ Len(Stream) = Len(early) + Len(main)
  BY <1>0, StreamParts
<1>2. /\ put' = put + 1 /\ put + 1 \in Nat /\ Enqueued(Data(put + 1))
      /\ receiver' = receiver /\ Stream' = early \o main'
  BY <1>1 DEF InjectEnvelope, tasks, handed, Stream
<1> HIDE DEF early
<1>3. CASE main' = main \o <<Data(put + 1)>> /\ drops' = drops /\ warned' = warned
  <2>1. Stream' = Stream \o <<Data(put + 1)>>
    <3> DEFINE news == <<Data(put + 1)>>
    <3>1. news \in Seq(MainEntries)
      BY <1>2, EntryTypes
    <3> HIDE DEF news
    <3>2. (early \o main) \o news = early \o (main \o news)
      BY <1>1, <3>1, ConcatAssociative
    <3>3. QED
      BY <1>0, <1>2, <1>3, <3>2 DEF news
  <2>2. /\ InOrder(Stream') /\ Numbered(Stream', put + 1, drops)
        /\ ToSet(Stream) \subseteq ToSet(Stream') /\ Len(Stream') = Len(Stream) + 1
    BY <1>0, <1>1, <2>1, AppendKeepsOrder
  <2>3. receiver' # "down" =>
          /\ put' + warned' = Len(Stream') + drops'
          /\ drops' # 0 => OverflowWarning(drops') \in ToSet(Stream')
    <3>1. receiver # "down" => put' + warned' = Len(Stream') + drops'
      BY <1>0, <1>1, <1>2, <1>3, <2>2
    <3>2. receiver # "down" /\ drops # 0 => OverflowWarning(drops) \in ToSet(Stream')
      BY <1>0, <2>2
    <3>3. QED
      BY <1>2, <1>3, <3>1, <3>2
  <2>4. QED
    BY <1>2, <1>3, <2>2, <2>3 DEF StreamInv
<1>4. ASSUME NEW kept \in Seq(MainEntries),
             main' = kept \o <<OverflowWarning(drops'), Data(put + 1)>>,
             Len(main) = Len(kept) + 2,
             \A k \in 1..Len(kept) : kept[k] = main[k + 2],
             drops' = drops + 2, warned' = warned + 1
      PROVE  StreamInv'
  <2>1. Stream' = (early \o kept) \o <<OverflowWarning(drops + 2), Data(put + 1)>>
    <3> DEFINE news == <<OverflowWarning(drops + 2), Data(put + 1)>>
    <3>1. news \in Seq(MainEntries)
      BY <1>1, <1>2, EntryTypes
    <3>2. Stream' = early \o (kept \o news)
      BY <1>2, <1>4
    <3> HIDE DEF news
    <3>3. early \o (kept \o news) = (early \o kept) \o news
      <4>1. early \in Seq(MainEntries) /\ kept \in Seq(MainEntries) /\ news \in Seq(MainEntries)
        BY <1>1, <3>1
      <4>2. QED
        BY <4>1
    <3>4. QED
      BY <3>2, <3>3 DEF news
  <2>2. InOrder(early \o main) /\ Numbered(early \o main, put, drops)
    BY <1>0
  <2>3. /\ InOrder(Stream') /\ Numbered(Stream', put + 1, drops + 2)
        /\ OverflowWarning(drops + 2) \in ToSet(Stream') /\ Len(Stream') = Len(early) + Len(main)
    <3>1. Len(main) = Len(kept) + 2 /\ \A k \in 1..Len(kept) : kept[k] = main[k + 2]
      BY <1>4
    <3>2. /\ put \in Nat /\ drops \in Nat /\ early \in Seq(MainEntries)
          /\ main \in Seq(MainEntries)
      BY <1>1
    <3> DEFINE after == (early \o kept) \o <<OverflowWarning(drops + 2), Data(put + 1)>>
    <3>3. /\ InOrder(after) /\ Numbered(after, put + 1, drops + 2)
          /\ OverflowWarning(drops + 2) \in ToSet(after) /\ Len(after) = Len(early) + Len(main)
      BY ONLY <2>2, <3>1, <3>2, OverflowKeepsOrder
    <3> HIDE DEF after
    <3>4. Stream' = after
      BY <2>1 DEF after
    <3>5. QED
      BY <3>3, <3>4
  <2>4. receiver' # "down" =>
          /\ put' + warned' = Len(Stream') + drops'
          /\ drops' # 0 => OverflowWarning(drops') \in ToSet(Stream')
    <3>1. receiver # "down" => put + warned = Len(early) + Len(main) + drops
      BY <1>0, <1>1
    <3>2. receiver # "down" => put' + warned' = Len(Stream') + drops'
      <4>1. put' = put + 1 /\ warned' = warned + 1 /\ drops' = drops + 2
        BY <1>2, <1>4
      <4>2. Len(Stream') = Len(early) + Len(main)
        BY <2>3
      <4>3. CASE receiver # "down"
        <5>1. put + warned = Len(early) + Len(main) + drops
          BY <3>1, <4>3
        <5>2. (put + 1) + (warned + 1) = (Len(early) + Len(main)) + (drops + 2)
          BY <1>1, <5>1
        <5>3. QED
          BY <4>1, <4>2, <5>2
      <4>4. QED
        BY <4>3
    <3>3. OverflowWarning(drops') \in ToSet(Stream')
      BY <1>4, <2>3
    <3>4. QED
      BY <1>2, <3>2, <3>3
  <2>5. QED
    BY <1>2, <1>4, <2>3, <2>4 DEF StreamInv
<1>5. QED
  BY <1>0, <1>2, <1>3, <1>4, EnqueuedKeepsRoom

LEMMA StepStream == StreamInv /\ [QueueNext]_queueVars => StreamInv'
<1> SUFFICES ASSUME StreamInv, [QueueNext]_queueVars PROVE StreamInv'
  OBVIOUS
<1>0. DrainInv /\ DrainInv' /\ QueueTypeOK
  BY StepDrain DEF StreamInv, DrainInv
<1>1. CASE UNCHANGED <<Stream, put, warned, drops>> /\ (receiver' # "down" => receiver # "down")
  BY <1>0, <1>1 DEF StreamInv
<1>2. CASE InjectEnvelope
  BY <1>0, <1>2, InjectKeepsStream
<1>3. CASE OnHeartbeatTick
  BY <1>1, <1>3 DEF OnHeartbeatTick, tasks, handed, Stream
<1>4. CASE CallRecv
  <2>1. result["main"] = <<>> /\ result'["main"] = <<>>
    BY <1>0, <1>4 DEF CallRecv, DrainInv
  <2>2. QED
    BY <1>1, <1>4, <2>1 DEF CallRecv, queues, handed, Stream
<1>5. CASE GetMain
  <2>1. /\ result["main"] = <<>> /\ result'["main"] = <<Head(main)>> /\ main' = Tail(main)
        /\ main # <<>> /\ main \in Seq(MainEntries) /\ forwarded \in Seq(MainEntries)
        /\ forwarded' = forwarded
    BY <1>0, <1>5 DEF GetMain, DrainInv, QueueTypeOK, handed
  <2>2. Stream' = (forwarded \o <<Head(main)>>) \o Tail(main)
    BY <2>1 DEF Stream
  <2>3. Stream = forwarded \o main
    BY <2>1 DEF Stream
  <2>4. Stream' = Stream
    BY <2>1, <2>2, <2>3, HeadThenTail
  <2>5. QED
    BY <1>1, <1>5, <2>4 DEF GetMain
<1>6. CASE GetHeartbeat
  <2>1. result'["main"] = result["main"]
    BY <1>0, <1>6 DEF GetHeartbeat, QueueTypeOK
  <2>2. QED
    BY <1>1, <1>6, <2>1 DEF GetHeartbeat, handed, Stream
<1>7. CASE RecvMain
  <2>1. forwarded' = forwarded \o result["main"] /\ result'["main"] = <<>> /\ main' = main
    BY <1>7 DEF RecvMain
  <2>2. forwarded \o result["main"] \in Seq(MainEntries)
    BY <1>0, StreamParts
  <2>3. Stream' = Stream
    BY <2>1, <2>2, ConcatEmptySeq DEF Stream
  <2>4. QED
    BY <1>1, <1>7, <2>3 DEF RecvMain
<1>8. CASE RecvHeartbeat
  <2>1. result["main"] = <<>> /\ result'["main"] = <<>>
    BY <1>0, <1>8 DEF RecvHeartbeat, DrainInv
  <2>2. QED
    BY <1>1, <1>8, <2>1 DEF RecvHeartbeat, queues, Stream
<1>9. CASE CancelRecv
  <2>1. /\ forwarded' = forwarded /\ result'["main"] = <<>> /\ main' = main /\ receiver' = "down"
        /\ put' = put /\ drops' = drops
    BY <1>9 DEF CancelRecv, queues, handed
  <2>2. forwarded \in Seq(MainEntries) /\ result["main"] \in Seq(MainEntries) /\ main \in Seq(MainEntries)
    BY <1>0, StreamParts
  <2>3. Stream' = forwarded \o main
    BY <2>1, <2>2, ConcatEmptySeq DEF Stream
  <2>4. InOrder(Stream') /\ ToSet(Stream') \subseteq ToSet(Stream)
    BY <2>2, <2>3, DropMiddle DEF StreamInv, Stream
  <2>5. Numbered(Stream', put', drops')
    BY <2>1, <2>4 DEF StreamInv, Numbered
  <2>6. QED
    BY <1>0, <2>1, <2>4, <2>5 DEF StreamInv
<1>10. CASE UNCHANGED queueVars
  BY <1>1, <1>10 DEF queueVars, queues, tasks, handed, Stream
<1>11. QED
  BY <1>2, <1>3, <1>4, <1>5, <1>6, <1>7, <1>8, <1>9, <1>10 DEF QueueNext, Receive

(* Every envelope and warning of the main queue is forwarded, held, queued   *)
(* or counted, once and in order, for any capacity and any number of        *)
(* envelopes.                                                              *)
THEOREM NoneLostSilentlyHolds == QueueSpec => []NoneLostSilently
<1>1. StreamInv => NoneLostSilently
  BY DEF StreamInv, DrainInv, QueueTypeOK, NoneLostSilently
<1>2. QED
  BY <1>1, InitStream, StepStream, PTL DEF QueueSpec

(* A consumer that reads the stream to its end knows exactly how many        *)
(* entries were dropped, whatever became of earlier warnings.              *)
THEOREM NewestWarningIsExactHolds == QueueSpec => []NewestWarningIsExact
<1>1. ASSUME StreamInv PROVE NewestWarningIsExact
  <2> SUFFICES ASSUME receiver # "down" PROVE NewestWarningIsExact
    BY DEF NewestWarningIsExact
  <2>1. /\ Stream \in Seq(MainEntries) /\ DOMAIN Stream = 1..Len(Stream) /\ Len(Stream) \in Nat
        /\ drops \in Nat /\ InOrder(Stream) /\ Numbered(Stream, put, drops)
        /\ drops # 0 => OverflowWarning(drops) \in ToSet(Stream)
    BY <1>1, StreamParts DEF StreamInv, DrainInv
  <2>2. \A i \in 1..Len(Stream) : /\ Stream[i] \in MainEntries /\ Stream[i].n \in Nat
                                  /\ Stream[i].kind # "data" => /\ Stream[i].n \in 1..drops
                                        /\ Stream[i].kind = "runtime_backlog_overflow"
    <3> TAKE i \in 1..Len(Stream)
    <3>1. Stream[i] \in MainEntries /\ Stream[i] \in ToSet(Stream)
      BY <2>1 DEF ToSet
    <3>2. QED
      BY <2>1, <3>1 DEF Numbered, MainEntries
  <2>3. CASE drops = 0
    BY <2>1, <2>2, <2>3 DEF NewestWarningIsExact
  <2>4. CASE drops # 0
    <3>1. PICK i \in 1..Len(Stream) : Stream[i] = OverflowWarning(drops)
      BY <2>1, <2>4 DEF ToSet
    <3>2. ASSUME NEW j \in (i + 1)..Len(Stream), Stream[j].kind # "data" PROVE FALSE
      <4>1. j \in 1..Len(Stream) /\ i < j
        BY <2>1
      <4>2. Stream[j].kind = Stream[i].kind /\ Stream[j].n =< Stream[i].n
        BY <2>1, <2>2, <3>1, <3>2, <4>1, EntryTypes
      <4>3. Stream[i].n < Stream[j].n
        BY <2>1, <4>1, <4>2 DEF InOrder
      <4>4. QED
        BY <2>2, <4>1, <4>2, <4>3
    <3>3. QED
      BY <2>4, <3>1, <3>2 DEF NewestWarningIsExact
  <2>5. QED
    BY <2>3, <2>4
<1>2. QED
  BY <1>1, InitStream, StepStream, PTL DEF QueueSpec

-----------------------------------------------------------------------------
(* Runtime queues: the broadcaster reads an announced stream. *)

Handed == [Broadcast!Next]_(Broadcast!streamVars)

LEMMA BroadcastStarts == QueueInit => Broadcast!Init
<1> SUFFICES ASSUME QueueInit PROVE Broadcast!Init
  OBVIOUS
<1>1. /\ receiver = "idle" /\ forwarded = <<>> /\ put = 0
      /\ result["main"] = <<>> /\ main = <<>>
  BY DEF QueueInit
<1>2. Unread = <<>> /\ DOMAIN <<>> = {} /\ 1..put = {}
  BY <1>1 DEF Unread
<1>3. NumbersOf(<<>>, "data") = {} /\ Behind(<<>>, "data", "runtime_backlog_overflow") = {}
  BY <1>2 DEF NumbersOf, Behind
<1>4. QED
  BY <1>1, <1>2, <1>3 DEF Broadcast!Init, Reading

(* What the getter holds and what is queued: numbered up to put, in order. *)
LEMMA UnreadFits ==
  ASSUME StreamInv
  PROVE  /\ result["main"] \in Seq(MainEntries) /\ main \in Seq(MainEntries)
         /\ Unread \in Seq(MainEntries) /\ put \in Nat
         /\ Rising(Unread, "data") /\ NumbersOf(Unread, "data") \subseteq 1..put
<1>1. /\ forwarded \in Seq(MainEntries) /\ result["main"] \in Seq(MainEntries)
      /\ main \in Seq(MainEntries) /\ put \in Nat
  BY StreamParts DEF StreamInv, DrainInv
<1>2. Unread \in Seq(MainEntries) /\ DOMAIN Unread = 1..Len(Unread)
  <2> DEFINE h == result["main"]
  <2>1. Unread \in Seq(MainEntries)
    <3>1. h \in Seq(MainEntries) /\ main \in Seq(MainEntries) /\ Unread = h \o main
      BY <1>1 DEF Unread
    <3> HIDE DEF h
    <3>2. QED
      BY <3>1, ConcatProperties
  <2>2. QED
    BY <2>1
<1>3. Stream = forwarded \o Unread
  <2> DEFINE h == result["main"]
  <2>1. h \in Seq(MainEntries) /\ Unread = h \o main /\ Stream = (forwarded \o h) \o main
    BY <1>1 DEF Stream, Unread
  <2> HIDE DEF h
  <2>2. (forwarded \o h) \o main = forwarded \o (h \o main)
    <3>1. forwarded \in Seq(MainEntries) /\ h \in Seq(MainEntries) /\ main \in Seq(MainEntries)
      BY <1>1, <2>1
    <3>2. QED
      BY ONLY <3>1, ConcatAssociative
  <2>3. QED
    BY <2>1, <2>2
<1>4. InOrder(Unread)
  BY <1>1, <1>2, <1>3, InOrderConcat DEF StreamInv
<1>5. Rising(Unread, "data")
  BY <1>2, <1>4 DEF InOrder, Rising
<1>6. \A k \in DOMAIN Unread : Unread[k] \in ToSet(Stream)
  <2>1. ToSet(Stream) = ToSet(forwarded) \cup ToSet(Unread)
    BY <1>1, <1>2, <1>3, ToSetConcat
  <2>2. \A k \in DOMAIN Unread : Unread[k] \in ToSet(Unread)
    BY DEF ToSet
  <2>3. QED
    BY <2>1, <2>2
<1>7. NumbersOf(Unread, "data") \subseteq 1..put
  BY <1>6 DEF StreamInv, Numbered, NumbersOf
<1>8. QED
  BY <1>1, <1>2, <1>5, <1>7

LEMMA SameUnread ==
  ASSUME UNCHANGED <<forwarded, Unread, put>>, receiver = "down" <=> receiver' = "down"
  PROVE  Handed
<1>1. Reading' = Reading
  BY DEF Reading
<1>2. /\ NumbersOf(Unread, "data")' = NumbersOf(Unread, "data")
      /\ Behind(Unread, "data", "runtime_backlog_overflow")'
           = Behind(Unread, "data", "runtime_backlog_overflow")
  BY DEF NumbersOf, Behind
<1>3. QED
  BY <1>1, <1>2 DEF Handed, Broadcast!streamVars

(* After a shutdown there is no reader any more, whatever is still queued. *)
LEMMA NobodyReads ==
  ASSUME receiver = "down", receiver' = "down" PROVE Handed
<1>1. ~Reading /\ ~Reading' /\ Reading' = Reading
  BY DEF Reading
<1>2. QED
  BY <1>1 DEF Handed, Broadcast!streamVars

(* A newcomer that finds room, and the entry read next. *)
LEMMA DataEnters ==
  ASSUME NEW p \in Seq(MainEntries), NEW env \in MainEntries, env.kind = "data",
         Rising(p, "data"), \A m \in NumbersOf(p, "data") : m < env.n
  PROVE  /\ NumbersOf(Append(p, env), "data") = NumbersOf(p, "data") \cup {env.n}
         /\ Behind(Append(p, env), "data", "runtime_backlog_overflow")
              \in {Behind(p, "data", "runtime_backlog_overflow"),
                   Behind(p, "data", "runtime_backlog_overflow") \cup {env.n}}
<1> DEFINE kind == "data"
           warning == "runtime_backlog_overflow"
<1>1. kind # warning /\ env.kind = kind /\ Rising(p, kind) /\ \A m \in NumbersOf(p, kind) : m < env.n
  OBVIOUS
<1> HIDE DEF kind, warning
<1>2. NumbersOf(Append(p, env), kind) = NumbersOf(p, kind) \cup {env.n}
  BY <1>1, Enters
<1>3. Behind(Append(p, env), kind, warning)
        \in {Behind(p, kind, warning), Behind(p, kind, warning) \cup {env.n}}
  BY <1>1, Enters
<1>4. QED
  BY <1>2, <1>3 DEF kind, warning

LEMMA FirstLeaves ==
  ASSUME NEW f \in MainEntries, NEW q \in Seq(MainEntries),
         Rising(<<f>> \o q, "data"), NumbersOf(<<f>> \o q, "data") \subseteq Nat
  PROVE  /\ f.kind = "data" =>
              /\ f.n \in NumbersOf(<<f>> \o q, "data")
                           \ Behind(<<f>> \o q, "data", "runtime_backlog_overflow")
              /\ \A m \in NumbersOf(<<f>> \o q, "data") : f.n =< m
              /\ NumbersOf(q, "data") = NumbersOf(<<f>> \o q, "data") \ {f.n}
              /\ Behind(q, "data", "runtime_backlog_overflow")
                   = Behind(<<f>> \o q, "data", "runtime_backlog_overflow")
         /\ f.kind = "runtime_backlog_overflow" =>
              /\ NumbersOf(q, "data") = NumbersOf(<<f>> \o q, "data")
              /\ Behind(q, "data", "runtime_backlog_overflow")
                   \in {Behind(<<f>> \o q, "data", "runtime_backlog_overflow"), {}}
<1> DEFINE kind == "data"
           warning == "runtime_backlog_overflow"
<1>1. kind # warning /\ Rising(<<f>> \o q, kind) /\ NumbersOf(<<f>> \o q, kind) \subseteq Nat
  OBVIOUS
<1> HIDE DEF kind, warning
<1>2. Departs(f, q, kind, warning)
  BY <1>1, Leaves
<1>3. QED
  BY <1>2 DEF Departs, kind, warning

LEMMA InjectArrives ==
  ASSUME StreamInv, InjectEnvelope PROVE Handed
<1>0. /\ result["main"] \in Seq(MainEntries) /\ main \in Seq(MainEntries) /\ put \in Nat
      /\ Unread \in Seq(MainEntries) /\ Rising(Unread, "data")
      /\ NumbersOf(Unread, "data") \subseteq 1..put
  BY UnreadFits
<1>1. /\ put' = put + 1 /\ put + 1 \in 1..MaxPut /\ Enqueued(Data(put + 1))
      /\ UNCHANGED <<result, receiver, forwarded>>
  BY <1>0, QueueAssumption DEF InjectEnvelope, tasks, handed, QueueAssumption
<1>2. PICK n \in 1..MaxPut : n = put + 1
  BY <1>1
<1>3. CASE receiver = "down"
  BY <1>1, <1>3, NobodyReads
<1>4. CASE receiver # "down"
  <2> DEFINE env == Data(n)
             h == result["main"]
  <2>1. /\ env \in MainEntries /\ env.kind = "data" /\ env.n = n
        /\ "data" # "runtime_backlog_overflow"
    BY <1>0, <1>2, EntryTypes DEF Data
  <2>2. Broadcast!Arrival(n)
    <3>1. Reading /\ Reading' /\ Reading' = Reading
      BY <1>1, <1>4 DEF Reading
    <3>2. 1..put' = 1..put \cup {n} /\ \A m \in 1..put : m < n
      BY <1>0, <1>1, <1>2
    <3>3. QED
      BY <1>1, <3>1, <3>2 DEF Broadcast!Arrival
  <2>3. /\ Unread = h \o main /\ Unread' = h \o main' /\ Enqueued(env)
        /\ Reading /\ Reading'
    BY <1>1, <1>2, <1>4 DEF Unread, Reading
  <2>4. \A m \in NumbersOf(Unread, "data") : m < env.n
    <3>1. \A m \in 1..put : m < n
      BY <1>0, <1>2
    <3>2. QED
      BY <1>0, <2>1, <3>1
  <2> HIDE DEF env, h
  <2>5. ASSUME Broadcast!Arrive(n) \/ Broadcast!Overflow(n) PROVE Handed
    BY <2>5 DEF Handed, Broadcast!Next
  <2>6. CASE Len(main) < Capacity
    <3>1. main' = Append(main, env)
      BY <2>3, <2>6 DEF Enqueued
    <3>2. Unread' = Append(Unread, env)
      <4>1. h \in Seq(MainEntries)
        BY <1>0 DEF h
      <4>2. QED
        BY <1>0, <2>1, <2>3, <3>1, <4>1, ConcatAppend
    <3>3. /\ NumbersOf(Append(Unread, env), "data") = NumbersOf(Unread, "data") \cup {env.n}
          /\ Behind(Append(Unread, env), "data", "runtime_backlog_overflow")
               \in {Behind(Unread, "data", "runtime_backlog_overflow"),
                    Behind(Unread, "data", "runtime_backlog_overflow") \cup {env.n}}
      BY <1>0, <2>1, <2>4, DataEnters
    <3>4. Broadcast!Arrive(n)
      BY <2>1, <2>2, <2>3, <3>2, <3>3 DEF Broadcast!Arrive
    <3>5. QED
      BY <2>5, <3>4
  <2>7. CASE ~(Len(main) < Capacity)
    <3> DEFINE i == Overflow + 1
               w == OverflowWarning(drops')
               dropped == SubSeq(main, 1, i - 1)
               kept == SubSeq(main, i, Len(main))
    <3>1. i \in 1..(Len(main) + 1) /\ drops + Overflow \in Nat
      BY <1>0, <2>7, QueueAssumption DEF Overflow, QueueAssumption, StreamInv, DrainInv, QueueTypeOK
    <3>2. main' = kept \o <<w, env>> /\ w \in MainEntries /\ w.kind = "runtime_backlog_overflow"
      <4>1. drops' = drops + Overflow /\ main' = kept \o <<w, env>>
        BY <2>3, <2>7 DEF Enqueued
      <4>2. QED
        BY <3>1, <4>1, EntryTypes DEF OverflowWarning
    <3> HIDE DEF i, w
    <3>3. dropped \in Seq(MainEntries) /\ kept \in Seq(MainEntries) /\ main = dropped \o kept
      BY <1>0, <3>1, DroppedAndKept
    <3> HIDE DEF dropped, kept
    <3>4. /\ Rising(h \o (dropped \o kept), "data") /\ h \in Seq(MainEntries)
          /\ \A m \in NumbersOf(h \o (dropped \o kept), "data") : m < env.n
      BY <1>0, <2>3, <2>4, <3>3 DEF h
    <3>5. /\ h \in Seq(MainEntries)
           /\ w \in MainEntries /\ w.kind = "runtime_backlog_overflow"
           /\ env \in MainEntries /\ env.kind = "data"
           /\ dropped \in Seq(MainEntries) /\ kept \in Seq(MainEntries)
      BY <2>1, <3>2, <3>3, <3>4
    <3>6. /\ \E K \in SUBSET NumbersOf(h \o (dropped \o kept), "data") :
               NumbersOf(h \o (kept \o <<w, env>>), "data") = K \cup {env.n}
          /\ Behind(h \o (kept \o <<w, env>>), "data", "runtime_backlog_overflow") = {env.n}
      <4> DEFINE news == <<w, env>>
                 kind == "data"
                 warning == "runtime_backlog_overflow"
      <4>1. kind # warning /\ w.kind = warning /\ env.kind = kind /\ news \in Seq(MainEntries)
        BY <3>5
      <4>2. /\ NumbersOf(news, kind) = {env.n} /\ Has(news, warning)
            /\ Behind(news, kind, warning) = {env.n} /\ Rising(news, kind)
        <5> HIDE DEF kind, warning
        <5>1. /\ NumbersOf(<<w, env>>, env.kind) = {env.n} /\ Has(<<w, env>>, w.kind)
              /\ Behind(<<w, env>>, env.kind, w.kind) = {env.n} /\ Rising(<<w, env>>, env.kind)
          BY <4>1, WarningAndNewcomer
        <5> HIDE DEF news
        <5>2. QED
          BY <4>1, <5>1 DEF news
      <4>3. /\ Rising(h \o (dropped \o kept), kind)
            /\ Precede(NumbersOf(h \o (dropped \o kept), kind), NumbersOf(news, kind))
        BY <3>4, <4>2 DEF Precede
      <4>4. Behind(news, kind, warning) = NumbersOf(news, kind)
        BY <4>2
      <4>5. Has(news, warning) /\ Rising(news, kind) /\ news \in Seq(MainEntries) /\ kind # warning
        BY <4>1, <4>2
      <4> HIDE DEF news, kind, warning
      <4>6. NumbersOf(h \o (kept \o news), kind)
              = (NumbersOf(h, kind) \cup NumbersOf(kept, kind)) \cup NumbersOf(news, kind)
        BY <3>5, <4>5, NumbersOfThree
      <4>7. NumbersOf(h \o (dropped \o kept), kind)
              = (NumbersOf(h, kind) \cup NumbersOf(dropped, kind)) \cup NumbersOf(kept, kind)
        BY <3>5, <4>5, NumbersOfThree
      <4>8. Behind(h \o (kept \o news), kind, warning) = NumbersOf(news, kind)
        BY <3>5, <4>3, <4>4, <4>5, Crowds
      <4>9. QED
        <5> DEFINE K == NumbersOf(h, kind) \cup NumbersOf(kept, kind)
        <5>1. /\ K \in SUBSET NumbersOf(h \o (dropped \o kept), kind)
              /\ NumbersOf(h \o (kept \o news), kind) = K \cup {env.n}
          BY <4>2, <4>6, <4>7
        <5>2. Behind(h \o (kept \o news), kind, warning) = {env.n}
          BY <4>2, <4>8
        <5> HIDE DEF K
        <5>3. QED
          BY <5>1, <5>2 DEF news, kind, warning
    <3>7. /\ \E K \in SUBSET NumbersOf(Unread, "data") : NumbersOf(Unread', "data") = K \cup {n}
          /\ Behind(Unread', "data", "runtime_backlog_overflow") = {n}
      BY <2>1, <2>3, <3>2, <3>3, <3>6
    <3>8. Broadcast!Overflow(n)
      BY <2>2, <2>3, <3>7 DEF Broadcast!Overflow
    <3>9. QED
      BY <2>5, <3>8
  <2>8. QED
    BY <2>6, <2>7
<1>5. QED
  BY <1>3, <1>4

(* recv_envelope hands over the oldest unread entry. *)
LEMMA RecvShows ==
  ASSUME StreamInv, RecvMain PROVE Handed
<1>0. /\ result["main"] \in Seq(MainEntries) /\ main \in Seq(MainEntries) /\ put \in Nat
      /\ Rising(Unread, "data") /\ NumbersOf(Unread, "data") \subseteq 1..put
      /\ forwarded \in Seq(MainEntries) /\ Len(result["main"]) =< 1 /\ put \in 0..MaxPut
  BY UnreadFits DEF StreamInv, DrainInv, QueueTypeOK
<1>1. /\ forwarded' = forwarded \o result["main"] /\ result'["main"] = <<>>
      /\ UNCHANGED <<main, put>> /\ receiver = "racing" /\ receiver' = "idle"
      /\ Reading /\ Reading' /\ Reading' = Reading
  BY DEF RecvMain, Reading
<1>2. Unread' = main
  BY <1>0, <1>1 DEF Unread
<1>3. CASE result["main"] = <<>>
  <2>1. Unread = main /\ forwarded' = forwarded
    BY <1>0, <1>1, <1>3 DEF Unread
  <2>2. QED
    BY <1>1, <1>2, <2>1, SameUnread
<1>4. CASE result["main"] # <<>>
  <2>1. PICK f \in MainEntries : result["main"] = <<f>>
    BY <1>0, <1>4
  <2>2. /\ f.kind \in {"data", "runtime_backlog_overflow"} /\ f = [kind |-> f.kind, n |-> f.n]
    BY DEF MainEntries
  <2>3. /\ forwarded' = Append(forwarded, f) /\ forwarded' # <<>>
        /\ forwarded'[Len(forwarded')] = f
    <3>1. forwarded \o <<f>> = Append(forwarded, f)
      BY <1>0
    <3>2. Append(forwarded, f) # <<>> /\ Append(forwarded, f)[Len(Append(forwarded, f))] = f
      BY <1>0
    <3>3. QED
      BY <1>1, <2>1, <3>1, <3>2
  <2>4. Unread = <<f>> \o main
    BY <2>1 DEF Unread
  <2>5. /\ f.kind = "data" =>
             /\ f.n \in NumbersOf(Unread, "data")
                          \ Behind(Unread, "data", "runtime_backlog_overflow")
             /\ \A m \in NumbersOf(Unread, "data") : f.n =< m
             /\ NumbersOf(main, "data") = NumbersOf(Unread, "data") \ {f.n}
             /\ Behind(main, "data", "runtime_backlog_overflow")
                  = Behind(Unread, "data", "runtime_backlog_overflow")
        /\ f.kind = "runtime_backlog_overflow" =>
             /\ NumbersOf(main, "data") = NumbersOf(Unread, "data")
             /\ Behind(main, "data", "runtime_backlog_overflow")
                  \in {Behind(Unread, "data", "runtime_backlog_overflow"), {}}
    <3>1. \A m \in 1..put : m \in Nat
      BY <1>0
    <3>2. /\ Rising(<<f>> \o main, "data") /\ NumbersOf(<<f>> \o main, "data") \subseteq Nat
          /\ "data" # "runtime_backlog_overflow"
      BY <1>0, <2>4, <3>1
    <3>3. main \in Seq(MainEntries)
      BY <1>0
    <3>4. /\ f.kind = "data" =>
               /\ f.n \in NumbersOf(<<f>> \o main, "data")
                            \ Behind(<<f>> \o main, "data", "runtime_backlog_overflow")
               /\ \A m \in NumbersOf(<<f>> \o main, "data") : f.n =< m
               /\ NumbersOf(main, "data") = NumbersOf(<<f>> \o main, "data") \ {f.n}
               /\ Behind(main, "data", "runtime_backlog_overflow")
                    = Behind(<<f>> \o main, "data", "runtime_backlog_overflow")
          /\ f.kind = "runtime_backlog_overflow" =>
               /\ NumbersOf(main, "data") = NumbersOf(<<f>> \o main, "data")
               /\ Behind(main, "data", "runtime_backlog_overflow")
                    \in {Behind(<<f>> \o main, "data", "runtime_backlog_overflow"), {}}
      BY <3>2, <3>3, FirstLeaves
    <3>5. QED
      BY <2>4, <3>4
  <2>6. CASE f.kind = "data"
    <3>1. f.n \in 1..put /\ \A m \in 1..put : m \in 1..MaxPut
      BY <1>0, <2>5, <2>6, QueueAssumption DEF QueueAssumption
    <3>2. PICK n \in 1..MaxPut : n = f.n
      BY <3>1
    <3>3. Broadcast!Show(n)
      BY <1>1, <1>2, <2>2, <2>3, <2>5, <2>6, <3>2 DEF Broadcast!Show
    <3>4. QED
      BY <3>3 DEF Handed, Broadcast!Next
  <2>7. CASE f.kind = "runtime_backlog_overflow"
    <3>1. Broadcast!Warn
      BY <1>1, <1>2, <2>3, <2>5, <2>7 DEF Broadcast!Warn
    <3>2. QED
      BY <3>1 DEF Handed, Broadcast!Next
  <2>8. QED
    BY <2>2, <2>6, <2>7
<1>5. QED
  BY <1>3, <1>4

LEMMA StepBroadcast == StreamInv /\ [QueueNext]_queueVars => Handed
<1> SUFFICES ASSUME StreamInv, [QueueNext]_queueVars PROVE Handed
  OBVIOUS
<1>0. DrainInv /\ QueueTypeOK
  BY DEF StreamInv, DrainInv
<1>1. CASE OnHeartbeatTick
  BY <1>1, SameUnread DEF OnHeartbeatTick, tasks, handed, Unread
<1>2. CASE CallRecv
  <2>1. result["main"] = <<>> /\ result'["main"] = <<>>
    BY <1>0, <1>2 DEF CallRecv, DrainInv
  <2>2. QED
    BY <1>2, <2>1, SameUnread DEF CallRecv, queues, handed, Unread
<1>3. CASE GetMain
  <2>1. /\ result["main"] = <<>> /\ result'["main"] = <<Head(main)>> /\ main' = Tail(main)
        /\ main # <<>> /\ main \in Seq(MainEntries)
    BY <1>0, <1>3 DEF GetMain, DrainInv, QueueTypeOK
  <2>2. /\ <<Head(main)>> \in Seq(MainEntries) /\ <<>> \in Seq(MainEntries)
        /\ <<>> \o <<Head(main)>> = <<Head(main)>> /\ <<>> \o main = main
    BY <2>1
  <2>3. (<<>> \o <<Head(main)>>) \o Tail(main) = <<>> \o main
    BY <2>1, <2>2, HeadThenTail
  <2>4. Unread' = Unread
    BY <2>1, <2>2, <2>3 DEF Unread
  <2>5. QED
    BY <1>3, <2>4, SameUnread DEF GetMain, handed
<1>4. CASE GetHeartbeat
  <2>1. result'["main"] = result["main"]
    BY <1>0, <1>4 DEF GetHeartbeat, QueueTypeOK
  <2>2. QED
    BY <1>4, <2>1, SameUnread DEF GetHeartbeat, handed, Unread
<1>5. CASE RecvHeartbeat
  <2>1. result["main"] = <<>> /\ result'["main"] = <<>>
    BY <1>0, <1>5 DEF RecvHeartbeat, DrainInv
  <2>2. QED
    BY <1>5, <2>1, SameUnread DEF RecvHeartbeat, queues, Unread
<1>6. CASE CancelRecv
  <2>1. Reading /\ ~Reading'
    BY <1>6 DEF CancelRecv, Reading
  <2>2. Broadcast!Close
    BY <2>1 DEF Broadcast!Close
  <2>3. QED
    BY <2>2 DEF Handed, Broadcast!Next
<1>7. CASE UNCHANGED queueVars
  BY <1>7, SameUnread DEF queueVars, queues, tasks, handed, Unread
<1>8. QED
  BY <1>1, <1>2, <1>3, <1>4, <1>5, <1>6, <1>7, InjectArrives, RecvShows DEF QueueNext, Receive

(* The runtime's queue and recv_envelope implement an announced stream: the  *)
(* broadcaster is handed the envelopes in order and each once, and one that *)
(* pushed others out comes behind a warning.                               *)
THEOREM BroadcastStreamHolds == QueueSpec => BroadcastStream
<1>1. QueueInit => Broadcast!Init
  BY BroadcastStarts
<1>2. StreamInv /\ [QueueNext]_queueVars => [Broadcast!Next]_(Broadcast!streamVars)
  BY StepBroadcast DEF Handed
<1>3. QED
  BY <1>1, <1>2, InitStream, StepStream, PTL DEF QueueSpec, BroadcastStream, Broadcast!Spec

-----------------------------------------------------------------------------
(* Runtime queues: the beats. *)

(* The beats, oldest first: forwarded, held by the getter, in the slot. *)
BeatStream == shown \o result["hb"] \o slot

(* No beat is newer than the count, so that a beat in the slot is the only   *)
(* one that can be the newest.                                             *)
BeatInv ==
  /\ DrainInv
  /\ InOrder(BeatStream)
  /\ \A e \in ToSet(BeatStream) : e.n \in 1..beats
  /\ receiver # "down" /\ beats # 0 => Beat(beats) \in ToSet(BeatStream)

LEMMA BeatParts ==
  ASSUME QueueTypeOK
  PROVE  /\ shown \in Seq(BeatEntries) /\ result["hb"] \in Seq(BeatEntries)
         /\ slot \in Seq(BeatEntries) /\ shown \o result["hb"] \in Seq(BeatEntries)
         /\ ToSet(BeatStream) = ToSet(shown) \cup ToSet(result["hb"]) \cup ToSet(slot)
         /\ ToSet(BeatStream) \subseteq BeatEntries /\ beats \in Nat
<1>1. /\ shown \in Seq(BeatEntries) /\ result["hb"] \in Seq(BeatEntries)
      /\ slot \in Seq(BeatEntries) /\ beats \in Nat
  BY QueueAssumption DEF QueueTypeOK, QueueAssumption
<1>2. shown \o result["hb"] \in Seq(BeatEntries)
  BY <1>1, ConcatProperties
<1>3. ToSet(shown \o result["hb"]) = ToSet(shown) \cup ToSet(result["hb"])
  BY <1>1, ToSetConcat
<1>4. ToSet(BeatStream) = ToSet(shown \o result["hb"]) \cup ToSet(slot)
  <2> DEFINE early == shown \o result["hb"]
  <2>1. early \in Seq(BeatEntries) /\ slot \in Seq(BeatEntries) /\ BeatStream = early \o slot
    BY <1>1, <1>2 DEF BeatStream
  <2> HIDE DEF early
  <2>2. ToSet(early \o slot) = ToSet(early) \cup ToSet(slot)
    BY <2>1, ToSetConcat
  <2>3. QED
    BY <2>1, <2>2 DEF early
<1>5. /\ ToSet(shown) \subseteq BeatEntries /\ ToSet(result["hb"]) \subseteq BeatEntries
      /\ ToSet(slot) \subseteq BeatEntries
  BY <1>1, ToSetType
<1>6. QED
  BY <1>1, <1>2, <1>3, <1>4, <1>5

LEMMA InitBeat == QueueInit => BeatInv
<1> SUFFICES ASSUME QueueInit PROVE BeatInv
  OBVIOUS
<1>1. BeatStream = <<>> /\ beats = 0
  BY DEF QueueInit, BeatStream
<1>2. InOrder(<<>>) /\ ToSet(<<>>) = {}
  BY DEF InOrder, ToSet
<1>3. QED
  BY <1>1, <1>2, InitDrain DEF BeatInv

LEMMA StepBeat == BeatInv /\ [QueueNext]_queueVars => BeatInv'
<1> SUFFICES ASSUME BeatInv, [QueueNext]_queueVars PROVE BeatInv'
  OBVIOUS
<1>0. /\ DrainInv /\ DrainInv' /\ QueueTypeOK /\ QueueTypeOK' /\ InOrder(BeatStream)
      /\ \A e \in ToSet(BeatStream) : e.n \in 1..beats
      /\ receiver # "down" /\ beats # 0 => Beat(beats) \in ToSet(BeatStream)
  BY StepDrain DEF BeatInv, DrainInv
<1>1. CASE UNCHANGED <<BeatStream, beats>> /\ (receiver' # "down" => receiver # "down")
  BY <1>0, <1>1 DEF BeatInv
<1>2. CASE InjectEnvelope
  BY <1>1, <1>2 DEF InjectEnvelope, tasks, handed, BeatStream
<1>3. CASE OnHeartbeatTick
  <2> DEFINE early == shown \o result["hb"]
             news == <<Beat(beats + 1)>>
  <2>1. /\ beats' = beats + 1 /\ beats \in Nat /\ beats + 1 \in Nat
        /\ BeatStream' = early \o news /\ slot' = news /\ receiver' = receiver
        /\ early \in Seq(BeatEntries) /\ slot \in Seq(BeatEntries) /\ BeatStream = early \o slot
    BY <1>0, <1>3, BeatParts DEF OnHeartbeatTick, tasks, handed, BeatStream
  <2>2. /\ Beat(beats + 1).n = beats + 1 /\ news \in Seq(BeatEntries)
        /\ ToSet(news) = {Beat(beats + 1)} /\ InOrder(news)
    <3>1. Beat(beats + 1) \in BeatEntries /\ Beat(beats + 1).n = beats + 1
      BY <2>1, EntryTypes
    <3>2. InOrder(news)
      BY DEF InOrder
    <3>3. ToSet(news) = {Beat(beats + 1)}
      BY ToSetSmall
    <3>4. QED
      BY <3>1, <3>2, <3>3
  <2> HIDE DEF early, news
  <2>3. ToSet(BeatStream) = ToSet(early) \cup ToSet(slot)
    BY <2>1, ToSetConcat
  <2>4. ToSet(BeatStream') = ToSet(early) \cup {Beat(beats + 1)}
    BY <2>1, <2>2, ToSetConcat
  <2>5. InOrder(early)
    BY <1>0, <2>1, InOrderConcat
  <2>6. \A e \in ToSet(early) : e.n \in 1..beats
    BY <1>0, <2>3
  <2>7. Before(early, news)
    BY <2>1, <2>2, <2>6 DEF Before
  <2>8. InOrder(BeatStream')
    BY <2>1, <2>2, <2>5, <2>7, InOrderConcat
  <2>9. \A e \in ToSet(BeatStream') : e.n \in 1..(beats + 1)
    BY <2>1, <2>2, <2>4, <2>6
  <2>10. Beat(beats') \in ToSet(BeatStream')
    BY <2>1, <2>4
  <2>11. QED
    BY <1>0, <2>1, <2>8, <2>9, <2>10 DEF BeatInv
<1>4. CASE CallRecv
  <2>1. result["hb"] = <<>> /\ result'["hb"] = <<>>
    BY <1>0, <1>4 DEF CallRecv, DrainInv
  <2>2. QED
    BY <1>1, <1>4, <2>1 DEF CallRecv, queues, handed, BeatStream
<1>5. CASE GetMain
  <2>1. result'["hb"] = result["hb"]
    BY <1>0, <1>5 DEF GetMain, QueueTypeOK
  <2>2. QED
    BY <1>1, <1>5, <2>1 DEF GetMain, handed, BeatStream
<1>6. CASE GetHeartbeat
  <2>1. /\ result["hb"] = <<>> /\ result'["hb"] = slot /\ slot' = <<>> /\ shown' = shown
        /\ shown \in Seq(BeatEntries) /\ slot \in Seq(BeatEntries)
    BY <1>0, <1>6 DEF GetHeartbeat, DrainInv, QueueTypeOK, handed
  <2>2. BeatStream' = BeatStream
    BY <2>1 DEF BeatStream
  <2>3. QED
    BY <1>1, <1>6, <2>2 DEF GetHeartbeat
<1>7. CASE RecvMain
  <2>1. /\ shown' = shown /\ result'["hb"] = <<>> /\ beats' = beats /\ receiver # "down"
        /\ slot' = IF slot = <<>> THEN result["hb"] ELSE slot
    BY <1>7 DEF RecvMain, Reinjected
  <2>2. /\ shown \in Seq(BeatEntries) /\ result["hb"] \in Seq(BeatEntries)
        /\ slot \in Seq(BeatEntries) /\ beats \in Nat
        /\ ToSet(BeatStream) = ToSet(shown) \cup ToSet(result["hb"]) \cup ToSet(slot)
        /\ ToSet(BeatStream) \subseteq BeatEntries
    BY <1>0, BeatParts
  <2>3. CASE slot = <<>>
    <3>1. BeatStream' = BeatStream
      BY <2>1, <2>2, <2>3 DEF BeatStream
    <3>2. QED
      BY <1>1, <1>7, <2>1, <3>1
  <2>4. CASE slot # <<>>
    <3>1. BeatStream' = shown \o slot
      BY <2>1, <2>2, <2>4 DEF BeatStream
    <3>2. InOrder(BeatStream') /\ ToSet(BeatStream') \subseteq ToSet(BeatStream)
      BY <1>0, <2>2, <3>1, DropMiddle DEF BeatStream
    <3>3. ToSet(BeatStream') = ToSet(shown) \cup ToSet(slot)
      BY <2>2, <3>1, ToSetConcat
    <3>4. PICK b \in ToSet(slot) : b.n \in 1..beats
      <4>1. 1 \in DOMAIN slot
        BY <2>2, <2>4
      <4>2. slot[1] \in ToSet(slot)
        BY <4>1 DEF ToSet
      <4>3. QED
        BY <1>0, <2>2, <4>2
    <3>5. Beat(beats) \notin ToSet(result["hb"])
      <4>1. Before(shown \o result["hb"], slot) /\ ToSet(result["hb"]) \subseteq ToSet(shown \o result["hb"])
        <5> DEFINE early == shown \o result["hb"]
        <5>1. early \in Seq(BeatEntries) /\ slot \in Seq(BeatEntries)
          BY <2>2, ConcatProperties
        <5>2. ToSet(early) = ToSet(shown) \cup ToSet(result["hb"])
          BY <2>2, ToSetConcat
        <5>3. InOrder(early \o slot)
          BY <1>0 DEF BeatStream
        <5> HIDE DEF early
        <5>4. Before(early, slot)
          BY <5>1, <5>3, InOrderConcat
        <5>5. QED
          BY <5>2, <5>4 DEF early
      <4>2. b.kind = "world_tick" /\ Beat(beats).kind = "world_tick" /\ Beat(beats).n = beats
        BY <2>2, <3>4, EntryTypes DEF BeatEntries
      <4>3. ~(beats < b.n)
        BY <2>2, <3>4
      <4>4. QED
        BY <3>4, <4>1, <4>2, <4>3 DEF Before
    <3>6. beats # 0 => Beat(beats) \in ToSet(BeatStream')
      BY <1>0, <2>1, <2>2, <3>3, <3>5
    <3>7. QED
      BY <1>0, <2>1, <3>2, <3>6 DEF BeatInv
  <2>5. QED
    BY <2>3, <2>4
<1>8. CASE RecvHeartbeat
  <2>1. /\ shown' = shown \o result["hb"] /\ result'["hb"] = <<>> /\ slot' = slot
    BY <1>8 DEF RecvHeartbeat, queues
  <2>2. shown \o result["hb"] \in Seq(BeatEntries)
    BY <1>0, BeatParts
  <2>3. BeatStream' = BeatStream
    BY <2>1, <2>2, ConcatEmptySeq DEF BeatStream
  <2>4. QED
    BY <1>1, <1>8, <2>3 DEF RecvHeartbeat
<1>9. CASE CancelRecv
  <2>1. /\ shown' = shown /\ result'["hb"] = <<>> /\ slot' = slot /\ receiver' = "down"
        /\ beats' = beats
    BY <1>9 DEF CancelRecv, queues, handed
  <2>2. shown \in Seq(BeatEntries) /\ result["hb"] \in Seq(BeatEntries) /\ slot \in Seq(BeatEntries)
    BY <1>0, BeatParts
  <2>3. BeatStream' = shown \o slot
    BY <2>1, <2>2, ConcatEmptySeq DEF BeatStream
  <2>4. InOrder(BeatStream') /\ ToSet(BeatStream') \subseteq ToSet(BeatStream)
    BY <1>0, <2>2, <2>3, DropMiddle DEF BeatStream
  <2>5. QED
    BY <1>0, <2>1, <2>4 DEF BeatInv
<1>10. CASE UNCHANGED queueVars
  BY <1>1, <1>10 DEF queueVars, queues, tasks, handed, BeatStream
<1>11. QED
  BY <1>2, <1>3, <1>4, <1>5, <1>6, <1>7, <1>8, <1>9, <1>10 DEF QueueNext, Receive

(* However the getters, the re-injection and the ticks interleave, beats     *)
(* are forwarded in order and the newest one is never lost.                *)
THEOREM LatestBeatKeptHolds == QueueSpec => []LatestBeatKept
<1>1. BeatInv => LatestBeatKept
  <2> SUFFICES ASSUME BeatInv PROVE LatestBeatKept
    OBVIOUS
  <2>1. ToSet(BeatStream) = ToSet(shown) \cup ToSet(result["hb"]) \cup ToSet(slot)
    BY BeatParts DEF BeatInv, DrainInv
  <2>2. QED
    BY <2>1 DEF BeatInv, LatestBeatKept, BeatStream
<1>2. QED
  BY <1>1, InitBeat, StepBeat, PTL DEF QueueSpec
=============================================================================
