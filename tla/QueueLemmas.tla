---------------------------- MODULE QueueLemmas ----------------------------
(***************************************************************************)
(* Facts about a queue without repetitions: what dequeuing and enqueuing   *)
(* do to the set of its elements.                                          *)
(***************************************************************************)
EXTENDS Sequences, Functions, TLAPS

\* What is left of a queue when its head leaves.
LEMMA TailQueue ==
    ASSUME NEW S, NEW s \in Seq(S), s # <<>>, IsInjective(s)
    PROVE  /\ Tail(s) \in Seq(S)
           /\ IsInjective(Tail(s))
           /\ Head(s) \in S
           /\ Range(s) = Range(Tail(s)) \union {Head(s)}
           /\ Head(s) \notin Range(Tail(s))
<1>1. /\ Tail(s) \in Seq(S)
      /\ Len(s) \in Nat \ {0}
      /\ DOMAIN s = 1 .. Len(s)
      /\ DOMAIN Tail(s) = 1 .. (Len(s) - 1)
      /\ \A i \in 1 .. (Len(s) - 1) : Tail(s)[i] = s[i + 1]
      /\ Head(s) = s[1]
  OBVIOUS
<1>2. IsInjective(Tail(s))
  <2>1. SUFFICES ASSUME NEW i \in 1 .. (Len(s) - 1), NEW j \in 1 .. (Len(s) - 1),
                        Tail(s)[i] = Tail(s)[j]
                 PROVE  i = j
    BY <1>1 DEF IsInjective
  <2>2. s[i + 1] = s[j + 1] /\ i + 1 \in DOMAIN s /\ j + 1 \in DOMAIN s
    BY <1>1, <2>1
  <2>3. i + 1 = j + 1
    BY <2>2 DEF IsInjective
  <2>4. QED BY <2>3
<1>3. Range(s) = Range(Tail(s)) \union {Head(s)}
  <2>1. ASSUME NEW x \in Range(s)
        PROVE  x \in Range(Tail(s)) \union {Head(s)}
    <3>1. PICK i \in 1 .. Len(s) : x = s[i]
      BY <1>1, <2>1 DEF Range
    <3>2. CASE i = 1
      BY <1>1, <3>1, <3>2
    <3>3. CASE i # 1
      <4>1. i - 1 \in DOMAIN Tail(s) /\ Tail(s)[i - 1] = s[i]
        BY <1>1, <3>3
      <4>2. QED BY <3>1, <4>1 DEF Range
    <3>4. QED BY <3>2, <3>3
  <2>2. ASSUME NEW x \in Range(Tail(s))
        PROVE  x \in Range(s)
    <3>1. PICK i \in 1 .. (Len(s) - 1) : x = Tail(s)[i]
      BY <1>1, <2>2 DEF Range
    <3>2. x = s[i + 1] /\ i + 1 \in DOMAIN s
      BY <1>1, <3>1
    <3>3. QED BY <3>2 DEF Range
  <2>3. Head(s) \in Range(s)
    <3>1. 1 \in DOMAIN s /\ Head(s) = s[1]
      BY <1>1
    <3>2. QED BY <3>1 DEF Range
  <2>4. QED BY <2>1, <2>2, <2>3
<1>4. Head(s) \notin Range(Tail(s))
  <2>1. SUFFICES ASSUME NEW i \in 1 .. (Len(s) - 1), Head(s) = Tail(s)[i]
                 PROVE  FALSE
    BY <1>1 DEF Range
  <2>2. s[1] = s[i + 1] /\ 1 \in DOMAIN s /\ i + 1 \in DOMAIN s
    BY <1>1, <2>1
  <2>3. 1 = i + 1
    BY <2>2 DEF IsInjective
  <2>4. QED BY <2>3
<1>5. QED BY <1>1, <1>2, <1>3, <1>4

\* What a queue becomes when one more element enters it.
LEMMA AppendQueue ==
    ASSUME NEW S, NEW s \in Seq(S), NEW f \in S, IsInjective(s), f \notin Range(s)
    PROVE  /\ Append(s, f) \in Seq(S)
           /\ IsInjective(Append(s, f))
           /\ Range(Append(s, f)) = Range(s) \union {f}
<1>1. /\ Append(s, f) \in Seq(S)
      /\ Len(s) \in Nat
      /\ DOMAIN s = 1 .. Len(s)
      /\ DOMAIN Append(s, f) = 1 .. (Len(s) + 1)
      /\ \A i \in 1 .. Len(s) : Append(s, f)[i] = s[i]
      /\ Append(s, f)[Len(s) + 1] = f
  OBVIOUS
<1>2. \A i \in DOMAIN s : s[i] # f
  BY DEF Range
<1>3. IsInjective(Append(s, f))
  <2>1. SUFFICES ASSUME NEW i \in 1 .. (Len(s) + 1), NEW j \in 1 .. (Len(s) + 1),
                        Append(s, f)[i] = Append(s, f)[j]
                 PROVE  i = j
    BY <1>1 DEF IsInjective
  <2>2. CASE i = Len(s) + 1 \/ j = Len(s) + 1
    BY <1>1, <1>2, <2>1, <2>2
  <2>3. CASE i \in 1 .. Len(s) /\ j \in 1 .. Len(s)
    BY <1>1, <2>1, <2>3 DEF IsInjective
  <2>4. QED BY <1>1, <2>2, <2>3
<1>4. Range(Append(s, f)) = Range(s) \union {f}
  <2>1. \A x : x \in Range(Append(s, f)) <=> x \in Range(s) \union {f}
    <3>1. \A x : x \in Range(Append(s, f)) <=>
                  \E i \in 1 .. (Len(s) + 1) : x = Append(s, f)[i]
      BY <1>1 DEF Range
    <3>2. \A x : x \in Range(s) <=> \E i \in 1 .. Len(s) : x = s[i]
      BY <1>1 DEF Range
    <3>3. QED BY <1>1, <3>1, <3>2
  <2>2. QED BY <2>1
<1>5. QED BY <1>1, <1>3, <1>4
=============================================================================
