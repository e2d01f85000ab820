--------------------------- MODULE SequenceFacts ----------------------------
(***************************************************************************)
(* The elements of a queue and whether they are all different, with what   *)
(* the queue operations do to both.  The proofs reason about queues with   *)
(* these facts only.                                                       *)
(***************************************************************************)
EXTENDS Naturals, Sequences, SequenceTheorems, TLAPS

Elems(s) == {s[i] : i \in DOMAIN s}

Distinct(s) == \A i, j \in DOMAIN s : s[i] = s[j] => i = j

\* The empty queue has no element.
LEMMA EmptyFacts == Elems(<<>>) = {} /\ Distinct(<<>>) /\ \A S : <<>> \in Seq(S)
BY EmptySeq DEF Elems, Distinct

\* The elements of a queue are of its type.
LEMMA ElemsFacts ==
  ASSUME NEW S, NEW s \in Seq(S)
  PROVE  /\ Elems(s) \subseteq S
         /\ \A i \in DOMAIN s : s[i] \in Elems(s)
BY LenProperties, ElementOfSeq DEF Elems

\* push: the element joins the others, and stays unique if it is new.
LEMMA AppendFacts ==
  ASSUME NEW S, NEW s \in Seq(S), NEW e \in S
  PROVE  /\ Append(s, e) \in Seq(S)
         /\ Elems(Append(s, e)) = Elems(s) \cup {e}
         /\ Distinct(s) /\ e \notin Elems(s) => Distinct(Append(s, e))
<1> DEFINE t == Append(s, e)
           n == Len(s)
<1>1. /\ t \in Seq(S) /\ Len(t) = n + 1 /\ n \in Nat
      /\ DOMAIN t = 1..(n + 1) /\ DOMAIN s = 1..n
      /\ \A i \in 1..n : t[i] = s[i]
      /\ t[n + 1] = e
  BY AppendProperties, LenProperties
<1> HIDE DEF t, n
<1>2. Elems(t) = Elems(s) \cup {e}
  <2>1. Elems(t) \subseteq Elems(s) \cup {e}
    BY <1>1 DEF Elems
  <2>2. Elems(s) \subseteq Elems(t)
    BY <1>1 DEF Elems
  <2>3. e \in Elems(t)
    BY <1>1 DEF Elems
  <2> QED BY <2>1, <2>2, <2>3
<1>3. Distinct(s) /\ e \notin Elems(s) => Distinct(t)
  BY <1>1 DEF Distinct, Elems
<1> QED BY <1>1, <1>2, <1>3 DEF t

\* front and pop: the head leaves, and is not among the others if all differ.
LEMMA TailFacts ==
  ASSUME NEW S, NEW s \in Seq(S), s # <<>>
  PROVE  /\ Tail(s) \in Seq(S)
         /\ Head(s) \in S
         /\ Elems(s) = Elems(Tail(s)) \cup {Head(s)}
         /\ Distinct(s) => Distinct(Tail(s)) /\ Head(s) \notin Elems(Tail(s))
<1> DEFINE t == Tail(s)
           n == Len(s)
<1>1. /\ t \in Seq(S) /\ Len(t) = n - 1 /\ n \in Nat \ {0}
      /\ DOMAIN t = 1..(n - 1) /\ DOMAIN s = 1..n
      /\ \A i \in 1..(n - 1) : t[i] = s[i + 1]
      /\ Head(s) = s[1] /\ Head(s) \in S
  BY HeadTailProperties, LenProperties, EmptySeq
<1> HIDE DEF t, n
<1>2. Elems(s) = Elems(t) \cup {Head(s)}
  <2>1. Elems(t) \subseteq Elems(s)
    BY <1>1 DEF Elems
  <2>2. Head(s) \in Elems(s)
    BY <1>1 DEF Elems
  <2>3. ASSUME NEW x \in Elems(s), x # Head(s)
        PROVE  x \in Elems(t)
    <3>1. PICK i \in 1..n : x = s[i]
      BY <1>1 DEF Elems
    <3>2. i - 1 \in 1..(n - 1) /\ t[i - 1] = s[i]
      BY <1>1, <2>3, <3>1
    <3> QED BY <1>1, <3>1, <3>2 DEF Elems
  <2> QED BY <2>1, <2>2, <2>3
<1>3. ASSUME Distinct(s) PROVE Distinct(t) /\ Head(s) \notin Elems(t)
  <2>1. \A i, j \in 1..n : s[i] = s[j] => i = j
    BY <1>1, <1>3 DEF Distinct
  <2>2. \A i \in 1..(n - 1) : i + 1 \in 1..n /\ 1 \in 1..n
    BY <1>1
  <2>3. Distinct(t)
    BY <1>1, <2>1, <2>2 DEF Distinct
  <2>4. \A i \in 1..(n - 1) : t[i] # Head(s)
    BY <1>1, <2>1, <2>2
  <2> QED BY <1>1, <2>3, <2>4 DEF Elems
<1> QED BY <1>1, <1>2, <1>3 DEF t

\* A prefix of a queue has some of its elements.
LEMMA PrefixFacts ==
  ASSUME NEW S, NEW s \in Seq(S), NEW k \in 0..Len(s)
  PROVE  /\ SubSeq(s, 1, k) \in Seq(S)
         /\ Elems(SubSeq(s, 1, k)) \subseteq Elems(s)
<1> DEFINE t == SubSeq(s, 1, k)
<1>1. /\ Len(s) \in Nat /\ DOMAIN s = 1..Len(s)
      /\ \A i \in 1..k : s[i] \in S
  BY LenProperties, ElementOfSeq
<1>2. /\ t \in Seq(S)
      /\ Len(t) = IF 1 <= k THEN k - 1 + 1 ELSE 0
      /\ \A i \in 1..(k - 1 + 1) : t[i] = s[1 + i - 1]
  BY <1>1, SubSeqProperties
<1>3. DOMAIN t = 1..Len(t)
  BY <1>2, LenProperties
<1> HIDE DEF t
<1>4. Elems(t) \subseteq Elems(s)
  BY <1>1, <1>2, <1>3 DEF Elems
<1> QED BY <1>2, <1>4 DEF t

=============================================================================
