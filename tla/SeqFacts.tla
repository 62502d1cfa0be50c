------------------------------ MODULE SeqFacts ------------------------------
(***************************************************************************)
(* What appending, concatenating and taking the head of a sequence do to   *)
(* its type, its length, its positions and its set of elements.            *)
(***************************************************************************)
EXTENDS Naturals, Sequences, SequencesExt, TLAPS

(* A sequence with one more element.                                       *)
LEMMA AppendType ==
  ASSUME NEW S, NEW s \in Seq(S), NEW e \in S
  PROVE  /\ Append(s, e) \in Seq(S)
         /\ Len(Append(s, e)) = Len(s) + 1
         /\ ToSet(Append(s, e)) = ToSet(s) \cup {e}
  <1>1. Append(s, e) \in Seq(S) /\ Len(Append(s, e)) = Len(s) + 1
    OBVIOUS
  <1>2. DOMAIN s = 1 .. Len(s) /\ DOMAIN Append(s, e) = 1 .. (Len(s) + 1)
    BY <1>1
  <1>3. /\ \A i \in 1 .. Len(s) : Append(s, e)[i] = s[i]
        /\ Append(s, e)[Len(s) + 1] = e
    OBVIOUS
  <1>4. ToSet(Append(s, e)) = ToSet(s) \cup {e}
    BY <1>2, <1>3 DEF ToSet
  <1> QED BY <1>1, <1>4

(* Two sequences, one behind the other.                                    *)
LEMMA ConcatType ==
  ASSUME NEW S, NEW s \in Seq(S), NEW t \in Seq(S)
  PROVE  /\ s \o t \in Seq(S)
         /\ Len(s \o t) = Len(s) + Len(t)
         /\ \A i \in 1 .. Len(s) : (s \o t)[i] = s[i]
         /\ \A j \in 1 .. Len(t) : (s \o t)[Len(s) + j] = t[j]
         /\ ToSet(s \o t) = ToSet(s) \cup ToSet(t)
  <1>1. s \o t \in Seq(S) /\ Len(s \o t) = Len(s) + Len(t)
    OBVIOUS
  <1>2. /\ DOMAIN s = 1 .. Len(s) /\ DOMAIN t = 1 .. Len(t)
        /\ DOMAIN (s \o t) = 1 .. (Len(s) + Len(t))
    BY <1>1
  <1>3. /\ \A i \in 1 .. Len(s) : (s \o t)[i] = s[i]
        /\ \A j \in 1 .. Len(t) : (s \o t)[Len(s) + j] = t[j]
    OBVIOUS
  <1>4. \A k \in 1 .. (Len(s) + Len(t)) :
          k \in 1 .. Len(s) \/ \E j \in 1 .. Len(t) : k = Len(s) + j
    <2> TAKE k \in 1 .. (Len(s) + Len(t))
    <2>1. CASE k <= Len(s)  BY <2>1
    <2>2. CASE k > Len(s)
      <3>1. k - Len(s) \in 1 .. Len(t) /\ k = Len(s) + (k - Len(s))
        BY <2>2
      <3> QED BY <3>1
    <2> QED BY <2>1, <2>2
  <1>5. \A j \in 1 .. Len(t) : Len(s) + j \in 1 .. (Len(s) + Len(t))
    OBVIOUS
  <1>6. \A i \in 1 .. Len(s) : i \in 1 .. (Len(s) + Len(t))
    OBVIOUS
  <1>7. ToSet(s \o t) \subseteq ToSet(s) \cup ToSet(t)
    BY <1>2, <1>3, <1>4 DEF ToSet
  <1>8. ToSet(s) \subseteq ToSet(s \o t) /\ ToSet(t) \subseteq ToSet(s \o t)
    BY <1>2, <1>3, <1>5, <1>6 DEF ToSet
  <1> QED BY <1>1, <1>3, <1>7, <1>8

(* A sequence that is not empty, without its first element.                *)
LEMMA HeadTail ==
  ASSUME NEW S, NEW s \in Seq(S), s # <<>>
  PROVE  /\ Head(s) \in S /\ Tail(s) \in Seq(S) /\ Len(s) > 0
         /\ Head(s) = s[1] /\ Len(Tail(s)) = Len(s) - 1
         /\ \A i \in 1 .. Len(Tail(s)) : Tail(s)[i] = s[i + 1]
         /\ ToSet(s) = {Head(s)} \cup ToSet(Tail(s))
  <1>1. /\ Head(s) \in S /\ Tail(s) \in Seq(S) /\ Len(s) > 0
        /\ Head(s) = s[1] /\ Len(Tail(s)) = Len(s) - 1
    OBVIOUS
  <1>2. \A i \in 1 .. Len(Tail(s)) : Tail(s)[i] = s[i + 1]
    BY <1>1
  <1>3. DOMAIN s = 1 .. Len(s) /\ DOMAIN Tail(s) = 1 .. (Len(s) - 1)
    BY <1>1
  <1>4. \A k \in 1 .. Len(s) : k = 1 \/ \E i \in 1 .. (Len(s) - 1) : k = i + 1
    <2> TAKE k \in 1 .. Len(s)
    <2>1. CASE k # 1
      <3>1. k - 1 \in 1 .. (Len(s) - 1) /\ k = (k - 1) + 1
        BY <2>1
      <3> QED BY <3>1
    <2> QED BY <2>1
  <1>5. \A i \in 1 .. (Len(s) - 1) : i + 1 \in 1 .. Len(s)
    BY <1>1
  <1>6. 1 \in 1 .. Len(s)
    BY <1>1
  <1>7. ToSet(s) \subseteq {Head(s)} \cup ToSet(Tail(s))
    <2> SUFFICES ASSUME NEW k \in 1 .. Len(s)
                 PROVE  s[k] \in {Head(s)} \cup ToSet(Tail(s))
      BY <1>3 DEF ToSet
    <2>1. CASE k = 1  BY <2>1, <1>1
    <2>2. CASE k # 1
      <3>1. PICK i \in 1 .. (Len(s) - 1) : k = i + 1  BY <2>2, <1>4
      <3>2. s[k] = Tail(s)[i]  BY <3>1, <1>1, <1>2
      <3> QED BY <3>1, <3>2, <1>3 DEF ToSet
    <2> QED BY <2>1, <2>2
  <1>8. {Head(s)} \cup ToSet(Tail(s)) \subseteq ToSet(s)
    BY <1>1, <1>2, <1>3, <1>5, <1>6 DEF ToSet
  <1> QED BY <1>1, <1>2, <1>7, <1>8

(* No element occurs twice.                                                *)
NoTwice(q) == \A i, j \in 1 .. Len(q) : q[i] = q[j] => i = j

(* A queue without repetitions stays so when a new element joins it.       *)
LEMMA AppendOnce ==
  ASSUME NEW S, NEW q \in Seq(S), NEW r \in S, NoTwice(q), r \notin ToSet(q)
  PROVE  NoTwice(Append(q, r))
  <1>1. \A i \in 1 .. Len(q) : q[i] # r  BY DEF ToSet
  <1> QED BY <1>1 DEF NoTwice

(* It stays so when its head leaves, which is then gone.                   *)
LEMMA TailOnce ==
  ASSUME NEW S, NEW q \in Seq(S), NoTwice(q), q # <<>>
  PROVE  NoTwice(Tail(q)) /\ Head(q) \notin ToSet(Tail(q))
  <1>1. /\ Head(q) = q[1] /\ Len(Tail(q)) = Len(q) - 1 /\ Len(q) > 0
        /\ Tail(q) \in Seq(S)
        /\ \A i \in 1 .. Len(Tail(q)) : Tail(q)[i] = q[i + 1]
    BY HeadTail
  <1>2. NoTwice(Tail(q))
    <2> SUFFICES ASSUME NEW i \in 1 .. Len(Tail(q)), NEW j \in 1 .. Len(Tail(q)),
                        Tail(q)[i] = Tail(q)[j]
                 PROVE  i = j
      BY DEF NoTwice
    <2>1. q[i + 1] = q[j + 1]  BY <1>1
    <2>2. i + 1 \in 1 .. Len(q) /\ j + 1 \in 1 .. Len(q)  BY <1>1
    <2>3. i + 1 = j + 1  BY <2>1, <2>2 DEF NoTwice
    <2> QED BY <2>3
  <1>3. Head(q) \notin ToSet(Tail(q))
    <2> SUFFICES ASSUME NEW i \in 1 .. Len(Tail(q)), Tail(q)[i] = Head(q)
                 PROVE  FALSE
      BY <1>1 DEF ToSet
    <2>1. q[i + 1] = q[1] /\ i + 1 \in 1 .. Len(q) /\ 1 \in 1 .. Len(q)  BY <1>1
    <2> QED BY <2>1 DEF NoTwice
  <1> QED BY <1>2, <1>3

=============================================================================
