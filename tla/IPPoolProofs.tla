---------------------------- MODULE IPPoolProofs ----------------------------
(***************************************************************************)
(* The pool of pool.go is a FIFO pool, for every prefix: what is proved of *)
(* FakePool therefore holds of it.                                         *)
(***************************************************************************)
EXTENDS IPPool, SequenceTheorems, FiniteSetTheorems, TLAPS

\* The proofs about a FIFO pool, for this representation of it.
AbstractProofs == INSTANCE FakePoolProofs
    WITH Fakes <- Addresses, fresh <- Fresh, queue <- Waiting

(***************************************************************************)
(* The skip set may be dropped when the cursor passes maxAdopt because no  *)
(* adopted address is larger, and an address can be adopted because the    *)
(* cursor has not moved yet.                                               *)
(***************************************************************************)
MaxAdoptBounds == \A ip \in adopted : ip <= maxAdopt
CursorAtStart == adopting => cursor = Network

IInv == TypeOK /\ MaxAdoptBounds /\ CursorAtStart

\* What SubSeq makes of the live part of a slice.
LEMMA LivePart ==
    ASSUME NEW S, NEW s \in Seq(S), NEW h \in 0 .. Len(s)
    PROVE  /\ SubSeq(s, h + 1, Len(s)) \in Seq(S)
           /\ Len(SubSeq(s, h + 1, Len(s))) = Len(s) - h
           /\ \A i \in 1 .. (Len(s) - h) : SubSeq(s, h + 1, Len(s))[i] = s[h + i]
<1>1. Len(s) \in Nat /\ \A i \in (h + 1) .. Len(s) : s[i] \in S
  OBVIOUS
<1>2. /\ SubSeq(s, h + 1, Len(s)) \in Seq(S)
      /\ Len(SubSeq(s, h + 1, Len(s))) = IF h + 1 <= Len(s) THEN Len(s) - (h + 1) + 1 ELSE 0
      /\ \A i \in 1 .. (Len(s) - (h + 1) + 1) : SubSeq(s, h + 1, Len(s))[i] = s[(h + 1) + i - 1]
  BY <1>1, SubSeqProperties
<1>3. QED BY <1>1, <1>2

\* Moving the head index past the first live entry is taking the tail.
LEMMA AdvanceHead ==
    ASSUME NEW S, NEW s \in Seq(S), NEW h \in 0 .. Len(s), h < Len(s)
    PROVE  /\ SubSeq(s, h + 1, Len(s)) # <<>>
           /\ Head(SubSeq(s, h + 1, Len(s))) = s[h + 1]
           /\ Tail(SubSeq(s, h + 1, Len(s))) = SubSeq(s, h + 2, Len(s))
<1>1. Len(s) \in Nat /\ \A i \in (h + 1) .. Len(s) : s[i] \in S
  OBVIOUS
<1>2. Len(SubSeq(s, h + 1, Len(s))) = Len(s) - h /\ SubSeq(s, h + 1, Len(s)) \in Seq(S)
  BY LivePart
<1>3. /\ Head(SubSeq(s, h + 1, Len(s))) = s[h + 1]
      /\ Tail(SubSeq(s, h + 1, Len(s))) = SubSeq(s, (h + 1) + 1, Len(s))
  BY <1>1, HeadTailOfSubSeq
<1>4. (h + 1) + 1 = h + 2 /\ 1 <= Len(s) - h
  BY <1>1
<1>5. SubSeq(s, h + 1, Len(s)) # <<>>
  <2>1. \A q \in Seq(S) : 1 <= Len(q) => q # <<>>
    OBVIOUS
  <2>2. QED BY <1>2, <1>4, <2>1
<1>6. QED BY <1>3, <1>4, <1>5

\* Appending to the slice is appending to its live part.
LEMMA AppendLive ==
    ASSUME NEW S, NEW s \in Seq(S), NEW h \in 0 .. Len(s), NEW e \in S
    PROVE  SubSeq(Append(s, e), h + 1, Len(Append(s, e))) = Append(SubSeq(s, h + 1, Len(s)), e)
<1> DEFINE t == SubSeq(s, h + 1, Len(s))
           u == SubSeq(Append(s, e), h + 1, Len(Append(s, e)))
<1>1. /\ Append(s, e) \in Seq(S) /\ Len(s) \in Nat
      /\ Len(Append(s, e)) = Len(s) + 1
      /\ h \in 0 .. Len(Append(s, e))
  OBVIOUS
<1>2. /\ t \in Seq(S) /\ Len(t) = Len(s) - h
      /\ \A i \in 1 .. (Len(s) - h) : t[i] = s[h + i]
  BY LivePart
<1>3. /\ u \in Seq(S) /\ Len(u) = Len(s) + 1 - h
      /\ \A i \in 1 .. (Len(s) + 1 - h) : u[i] = Append(s, e)[h + i]
  BY <1>1, LivePart
<1> HIDE DEF t, u
<1>4. Append(t, e) \in Seq(S) /\ Len(Append(t, e)) = Len(s) + 1 - h
  BY <1>1, <1>2
<1>5. ASSUME NEW i \in 1 .. Len(u)
      PROVE  u[i] = Append(t, e)[i]
  <2>1. i \in 1 .. (Len(s) + 1 - h) /\ u[i] = Append(s, e)[h + i]
    BY <1>3
  <2>2. CASE i \in 1 .. (Len(s) - h)
    <3>1. h + i \in 1 .. Len(s) /\ i \in 1 .. Len(t)
      BY <1>1, <1>2, <2>2
    <3>2. Append(s, e)[h + i] = s[h + i] /\ Append(t, e)[i] = t[i]
      BY <1>2, <3>1
    <3>3. QED BY <1>2, <2>1, <2>2, <3>2
  <2>3. CASE i = Len(s) - h + 1
    <3>1. h + i = Len(s) + 1 /\ i = Len(t) + 1
      BY <1>1, <1>2, <2>3
    <3>2. Append(s, e)[h + i] = e /\ Append(t, e)[i] = e
      <4>1. \A q \in Seq(S) : Append(q, e)[Len(q) + 1] = e
        OBVIOUS
      <4>2. QED BY <1>2, <3>1, <4>1
    <3>3. QED BY <2>1, <3>2
  <2>4. i \in 1 .. (Len(s) - h) \/ i = Len(s) - h + 1
    BY <1>1, <2>1
  <2>5. QED BY <2>2, <2>3, <2>4
<1>6. u = Append(t, e)
  BY <1>3, <1>4, <1>5, SeqEqual
<1>7. QED BY <1>6 DEF t, u

\* allocate takes the head of the queue, whether or not it empties the slice.
LEMMA AllocateFreedTakesHead ==
    ASSUME TypeOK, AllocateFreed
    PROVE  /\ Waiting # <<>>
           /\ Head(Waiting) = freed[head + 1]
           /\ Waiting' = Tail(Waiting)
<1>1. freed \in Seq(Addresses) /\ head \in 0 .. Len(freed) /\ head < Len(freed) /\ Len(freed) \in Nat
  BY DEF TypeOK, AllocateFreed
<1>2. /\ Waiting # <<>>
      /\ Head(Waiting) = freed[head + 1]
      /\ Tail(Waiting) = SubSeq(freed, head + 2, Len(freed))
  BY <1>1, AdvanceHead DEF Waiting
<1>3. CASE head + 1 = Len(freed)
  <2>1. SubSeq(freed, head + 2, Len(freed)) = <<>>
    BY <1>1, <1>3, SubSeqEmpty
  <2>2. Waiting' = SubSeq(<<>>, 1, 0)
    BY <1>3 DEF AllocateFreed, Waiting
  <2>3. SubSeq(<<>>, 1, 0) = <<>>
    BY SubSeqEmpty
  <2>4. QED BY <1>2, <2>1, <2>2, <2>3
<1>4. CASE head + 1 # Len(freed)
  <2>1. freed' = freed /\ head' = head + 1
    BY <1>4 DEF AllocateFreed
  <2>2. Waiting' = SubSeq(freed, head + 2, Len(freed))
    BY <1>1, <2>1 DEF Waiting
  <2>3. QED BY <1>2, <2>2
<1>5. QED BY <1>3, <1>4

\* release appends to the queue, whether or not it compacts the slice.
LEMMA ReleaseAppends ==
    ASSUME TypeOK, NEW ip \in Addresses, release(ip)
    PROVE  Waiting' = Append(Waiting, ip)
<1>1. freed \in Seq(Addresses) /\ head \in 0 .. Len(freed) /\ Len(freed) \in Nat
  BY DEF TypeOK
<1>2. CASE mustCompact
  <2>1. Append(Waiting, ip) \in Seq(Addresses)
    BY <1>1, LivePart DEF Waiting
  <2>2. freed' = Append(Waiting, ip) /\ head' = 0
    BY <1>2 DEF release
  <2>3. Waiting' = SubSeq(Append(Waiting, ip), 1, Len(Append(Waiting, ip)))
    BY <2>2 DEF Waiting
  <2>4. QED BY <2>1, <2>3, SubSeqFull
<1>3. CASE ~mustCompact
  <2>1. freed' = Append(freed, ip) /\ head' = head
    BY <1>3 DEF release
  <2>2. QED BY <1>1, <2>1, AppendLive DEF Waiting
<1>4. QED BY <1>2, <1>3

-----------------------------------------------------------------------------
\* A new pool: nothing adopted, the cursor on the first address.
LEMMA IInvInit == Init => IInv
BY PrefixAssumption DEF Init, IInv, TypeOK, MaxAdoptBounds, CursorAtStart, Addresses

\* Each method keeps the cursor above what was issued and the adopted below maxAdopt.
LEMMA IInvStep == IInv /\ [Next]_vars => IInv'
<1> SUFFICES ASSUME IInv, [Next]_vars PROVE IInv'
  OBVIOUS
<1> USE PrefixAssumption DEF IInv, TypeOK, MaxAdoptBounds, CursorAtStart, Addresses
<1>1. ASSUME NEW ip \in Addresses, markAdopted(ip)
      PROVE  IInv'
  BY <1>1 DEF markAdopted
<1>2. CASE AdoptDone
  BY <1>2 DEF AdoptDone
<1>3. CASE AllocateFreed
  <2>1. freed[head + 1] \in Addresses
    BY <1>3 DEF AllocateFreed
  <2>2. freed' \in Seq(Addresses) /\ head' \in 0 .. Len(freed')
    <3>1. Len(freed) \in Nat /\ head < Len(freed)
      BY <1>3 DEF AllocateFreed
    <3>2. CASE head + 1 = Len(freed)
      <4>1. freed' = <<>> /\ head' = 0
        BY <1>3, <3>2 DEF AllocateFreed
      <4>2. QED BY <4>1
    <3>3. CASE head + 1 # Len(freed)
      <4>1. freed' = freed /\ head' = head + 1
        BY <1>3, <3>3 DEF AllocateFreed
      <4>2. QED BY <3>1, <3>3, <4>1
    <3>4. QED BY <3>2, <3>3
  <2>3. QED BY <1>3, <2>1, <2>2 DEF AllocateFreed
<1>4. CASE AllocateCursor
  <2>1. PICK ip \in Fresh : /\ cursor' = ip + 1
                            /\ adopted' = adoptedAfter(ip + 1)
                            /\ out' = out \union {ip}
    BY <1>4 DEF AllocateCursor
  <2>2. ip \in Addresses /\ cursor' \in Network .. Broadcast
    BY <2>1 DEF Fresh
  <2>3. adopted' \subseteq adopted
    BY <2>1 DEF adoptedAfter
  <2>4. QED BY <1>4, <2>1, <2>2, <2>3 DEF AllocateCursor
<1>5. CASE AllocateNone
  <2>1. adopted' \subseteq adopted
    BY <1>5 DEF AllocateNone, adoptedAfter
  <2>2. cursor' \in Network .. Broadcast /\ adopting' = FALSE /\ adopting = FALSE
    BY <1>5 DEF AllocateNone
  <2>3. UNCHANGED <<freed, head, maxAdopt, out>>
    BY <1>5 DEF AllocateNone
  <2>4. QED BY <2>1, <2>2, <2>3
<1>6. ASSUME NEW ip \in Addresses, release(ip)
      PROVE  IInv'
  <2>1. Waiting \in Seq(Addresses)
    BY LivePart DEF Waiting
  <2>2. freed' \in Seq(Addresses) /\ head' \in 0 .. Len(freed')
    <3>1. CASE mustCompact
      <4>1. freed' = Append(Waiting, ip) /\ head' = 0
        BY <1>6, <3>1 DEF release
      <4>2. QED BY <2>1, <4>1
    <3>2. CASE ~mustCompact
      <4>1. freed' = Append(freed, ip) /\ head' = head
        BY <1>6, <3>2 DEF release
      <4>2. Append(freed, ip) \in Seq(Addresses) /\ Len(Append(freed, ip)) = Len(freed) + 1
        OBVIOUS
      <4>3. QED BY <4>1, <4>2
    <3>3. QED BY <3>1, <3>2
  <2>3. QED BY <1>6, <2>2 DEF release
<1>7. CASE UNCHANGED vars
  BY <1>7 DEF vars
<1>8. QED BY <1>1, <1>2, <1>3, <1>4, <1>5, <1>6, <1>7 DEF Next

\* Every variable of the pool of pool.go keeps its type, for every prefix: the
\* head index stays within the slice, the cursor within the prefix.
THEOREM TypeCorrect == Spec => []TypeOK
<1>1. IInv => TypeOK
  BY DEF IInv
<1>2. QED BY IInvInit, IInvStep, <1>1, PTL DEF Spec

-----------------------------------------------------------------------------
\* A new pool is a pool whose addresses are all fresh.
LEMMA InitRefines == Init => Abstract!Init
<1>1. SUFFICES ASSUME Init PROVE Abstract!Init
  OBVIOUS
<1>2. Waiting = <<>>
  <2>1. SubSeq(<<>>, 1, 0) = <<>>
    BY SubSeqEmpty
  <2>2. QED BY <1>1, <2>1 DEF Init, Waiting
<1>3. Fresh = Addresses /\ out = {}
  BY <1>1 DEF Init, Fresh, Addresses
<1>4. QED BY <1>2, <1>3 DEF Abstract!Init

\* Each method is an operation of the abstract pool; AdoptDone is none.
LEMMA StepRefines == IInv /\ [Next]_vars => [Abstract!Next]_(Abstract!vars)
<1> SUFFICES ASSUME IInv, [Next]_vars PROVE [Abstract!Next]_(Abstract!vars)
  OBVIOUS
<1> USE PrefixAssumption DEF IInv, TypeOK
<1>1. ASSUME NEW ip \in Addresses, markAdopted(ip)
      PROVE  Abstract!Next
  <2>1. cursor = Network /\ cursor' = cursor
    BY <1>1 DEF markAdopted, CursorAtStart
  <2>2. ip \in Fresh /\ Fresh' = Fresh \ {ip}
    BY <1>1, <2>1 DEF markAdopted, Fresh, Addresses
  <2>3. Waiting' = Waiting /\ out' = out \union {ip}
    BY <1>1 DEF markAdopted, Waiting
  <2>4. Abstract!Adopt(ip)
    BY <2>2, <2>3 DEF Abstract!Adopt
  <2>5. QED BY <2>4 DEF Abstract!Next
<1>2. CASE AdoptDone
  BY <1>2 DEF AdoptDone, Fresh, Waiting, Abstract!vars
<1>3. CASE AllocateFreed
  <2>1. /\ Waiting # <<>>
        /\ Head(Waiting) = freed[head + 1]
        /\ Waiting' = Tail(Waiting)
    BY <1>3, AllocateFreedTakesHead
  <2>2. Fresh' = Fresh /\ out' = out \union {freed[head + 1]}
    BY <1>3 DEF AllocateFreed, Fresh
  <2>3. Abstract!AllocateQueued
    BY <2>1, <2>2 DEF Abstract!AllocateQueued
  <2>4. QED BY <2>3 DEF Abstract!Next
<1>4. CASE AllocateCursor
  <2>1. PICK ip \in Fresh : /\ \A other \in Fresh : ip <= other
                            /\ cursor' = ip + 1
                            /\ adopted' = adoptedAfter(ip + 1)
                            /\ out' = out \union {ip}
    BY <1>4 DEF AllocateCursor
  <2>2. Waiting = <<>> /\ Waiting' = Waiting
    <3>1. head = Len(freed) /\ Len(freed) \in Nat
      BY <1>4 DEF AllocateCursor
    <3>2. SubSeq(freed, head + 1, Len(freed)) = <<>>
      BY <3>1, SubSeqEmpty
    <3>3. QED BY <1>4, <3>2 DEF AllocateCursor, Waiting
  <2>3. Fresh' = Fresh \ {ip}
    <3>1. \A other \in (ip + 1) .. (Broadcast - 1) : other \in adopted' <=> other \in adopted
      BY <2>1 DEF adoptedAfter, MaxAdoptBounds, Fresh, Addresses
    <3>2. \A other \in Addresses : other \in Fresh' <=> other \in Fresh \ {ip}
      BY <2>1, <3>1 DEF Fresh, Addresses
    <3>3. Fresh' \subseteq Addresses /\ Fresh \subseteq Addresses
      BY <2>1 DEF Fresh, Addresses
    <3>4. QED BY <3>2, <3>3
  <2>4. ip \in Addresses
    BY DEF Fresh, Addresses
  <2>5. Abstract!AllocateFresh(ip)
    BY <2>1, <2>2, <2>3 DEF Abstract!AllocateFresh
  <2>6. QED BY <2>4, <2>5 DEF Abstract!Next
<1>5. CASE AllocateNone
  <2>1. Fresh = {} /\ Fresh' = {}
    BY <1>5 DEF AllocateNone, Fresh
  <2>2. Waiting' = Waiting /\ out' = out
    BY <1>5 DEF AllocateNone, Waiting
  <2>3. QED BY <2>1, <2>2 DEF Abstract!vars
<1>6. ASSUME NEW ip \in Addresses, release(ip)
      PROVE  Abstract!Next
  <2>1. Waiting' = Append(Waiting, ip)
    BY <1>6, ReleaseAppends
  <2>2. ip \in out /\ out' = out \ {ip} /\ Fresh' = Fresh
    BY <1>6 DEF release, Fresh
  <2>3. Abstract!Release(ip)
    BY <2>1, <2>2 DEF Abstract!Release
  <2>4. QED BY <1>6, <2>3 DEF Abstract!Next
<1>7. CASE UNCHANGED vars
  BY <1>7 DEF vars, Fresh, Waiting, Abstract!vars
<1>8. QED BY <1>1, <1>2, <1>3, <1>4, <1>5, <1>6, <1>7 DEF Next

\* The pool of pool.go implements the FIFO pool, for every prefix: its cursor,
\* its slice with a head index and its skip set are a representation of it.
THEOREM Refinement == Spec => RefinesFakePool
<1>1. Spec => []IInv
  BY IInvInit, IInvStep, PTL DEF Spec
<1>2. QED BY <1>1, InitRefines, StepRefines, PTL DEF Spec, RefinesFakePool, Abstract!Spec

\* What the ledger of the FIFO pool says of the cursor, the slice and the skip set.
LEMMA LedgerKept == Spec => [](NoDoubleIssue /\ NoLeak)
<1>1. AbstractProofs!Ledger => NoDoubleIssue /\ NoLeak
  BY DEF AbstractProofs!Ledger, AbstractProofs!NoDoubleIssue, AbstractProofs!NoLeak,
         AbstractProofs!Range, AbstractProofs!IsInjective,
         NoDoubleIssue, NoLeak, Range, IsInjective
<1>2. AbstractProofs!Spec => []AbstractProofs!Ledger
  BY AbstractProofs!LedgerInvariant
<1>3. Abstract!Init => AbstractProofs!Init
  BY DEF Abstract!Init, AbstractProofs!Init
<1>4. [Abstract!Next]_(Abstract!vars) => [AbstractProofs!Next]_(AbstractProofs!vars)
  BY DEF Abstract!Next, Abstract!vars, Abstract!Adopt, Abstract!AllocateQueued,
         Abstract!AllocateFresh, Abstract!Release, Abstract!Restart,
         AbstractProofs!Next, AbstractProofs!vars, AbstractProofs!Adopt,
         AbstractProofs!AllocateQueued, AbstractProofs!AllocateFresh,
         AbstractProofs!Release, AbstractProofs!Restart
<1>5. Abstract!Spec => AbstractProofs!Spec
  BY <1>3, <1>4, PTL DEF Abstract!Spec, AbstractProofs!Spec
<1>6. QED BY Refinement, <1>1, <1>2, <1>5, PTL DEF RefinesFakePool

\* pool.go:63-108: no address the mapper owns is issued again, for every prefix, by the
\* cursor or by the queue.
THEOREM NeverIssuedTwice == Spec => []NoDoubleIssue
BY LedgerKept, PTL

\* pool.go:63-116: no address is lost by the head index, the compaction or the cursor.
THEOREM NeverLost == Spec => []NoLeak
BY LedgerKept, PTL

-----------------------------------------------------------------------------
\* A queue of different addresses is no longer than there are addresses.
LEMMA QueueFits ==
    ASSUME NEW s \in Seq(Addresses), IsInjective(s)
    PROVE  Len(s) \in Nat /\ Len(s) <= capacity
<1> USE PrefixAssumption DEF Addresses, capacity
<1>1. Len(s) \in Nat /\ s \in [1 .. Len(s) -> Addresses]
  BY LenProperties
<1>2. IsFiniteSet(Addresses) /\ Cardinality(Addresses) = capacity
  <2>1. Network \in Int /\ Broadcast - 1 \in Int
    OBVIOUS
  <2>2. /\ IsFiniteSet(Network .. (Broadcast - 1))
        /\ Cardinality(Network .. (Broadcast - 1))
             = IF Network > Broadcast - 1 THEN 0 ELSE (Broadcast - 1) - Network + 1
    BY <2>1, FS_Interval, Zenon
  <2> QED BY <2>2
<1>3. IsFiniteSet(1 .. Len(s)) /\ Cardinality(1 .. Len(s)) = Len(s)
  <2>1. 1 \in Int /\ Len(s) \in Int
    BY <1>1
  <2>2. /\ IsFiniteSet(1 .. Len(s))
        /\ Cardinality(1 .. Len(s)) = IF 1 > Len(s) THEN 0 ELSE Len(s) - 1 + 1
    BY <2>1, FS_Interval, Zenon
  <2> QED BY <1>1, <2>2
<1>4. \A x, y \in 1 .. Len(s) : s[x] = s[y] => x = y
  BY <1>1 DEF IsInjective
<1>5. ~(Cardinality(Addresses) < Cardinality(1 .. Len(s)))
  BY <1>1, <1>2, <1>3, <1>4, FS_PigeonHole
<1> QED BY <1>1, <1>2, <1>3, <1>5

\* release: when nothing is compacted the issued part of the slice is shorter than the
\* queue, and the queue with the address released fits in the prefix.
LEMMA ReleaseBounded ==
    ASSUME TypeOK, BoundedMemory, NEW ip \in Addresses, release(ip), NoDoubleIssue'
    PROVE  BoundedMemory'
<1>1. /\ Waiting \in Seq(Addresses) /\ Len(Waiting) = Len(freed) - head
      /\ head \in 0 .. Len(freed) /\ Len(freed) \in Nat
  BY LivePart DEF TypeOK, Waiting
<1>2. Waiting' = Append(Waiting, ip)
  BY ReleaseAppends
<1>3. Waiting' \in Seq(Addresses) /\ Len(Waiting') = Len(Waiting) + 1
  BY <1>1, <1>2
<1>4. Len(freed) - head + 1 <= capacity
  BY <1>1, <1>3, QueueFits DEF NoDoubleIssue
<1>5. capacity \in Int
  BY PrefixAssumption DEF capacity
<1>6. CASE mustCompact
  <2>1. freed' = Waiting'
    BY <1>2, <1>6 DEF release
  <2> QED BY <1>1, <1>3, <1>4, <1>5, <2>1 DEF BoundedMemory, capacity
<1>7. CASE ~mustCompact
  <2>1. freed' = Append(freed, ip)
    BY <1>7 DEF release
  <2>2. Len(freed') = Len(freed) + 1
    BY <2>1 DEF TypeOK
  <2>3. head = 0 \/ head < Len(freed) - head
    BY <1>1, <1>7 DEF mustCompact
  <2> QED BY <1>1, <1>4, <1>5, <2>2, <2>3 DEF BoundedMemory, capacity
<1> QED BY <1>6, <1>7

\* The other methods do not lengthen the slice.
LEMMA BoundedStep ==
    IInv /\ BoundedMemory /\ [Next]_vars /\ NoDoubleIssue' => BoundedMemory'
<1> SUFFICES ASSUME IInv, BoundedMemory, [Next]_vars, NoDoubleIssue' PROVE BoundedMemory'
  OBVIOUS
<1>1. ASSUME NEW ip \in Addresses, release(ip) PROVE BoundedMemory'
  BY <1>1, ReleaseBounded DEF IInv
<1>2. ASSUME NEW ip \in Addresses, markAdopted(ip) PROVE BoundedMemory'
  BY <1>2 DEF markAdopted, BoundedMemory, capacity
<1>3. CASE AllocateFreed
  <2>1. freed' = <<>> \/ freed' = freed
    BY <1>3 DEF AllocateFreed
  <2>2. capacity \in Nat
    BY PrefixAssumption DEF capacity
  <2> QED BY <2>1, <2>2 DEF BoundedMemory, capacity
<1>4. CASE AdoptDone \/ AllocateCursor \/ AllocateNone \/ UNCHANGED vars
  BY <1>4 DEF AdoptDone, AllocateCursor, AllocateNone, vars, BoundedMemory, capacity
<1> QED BY <1>1, <1>2, <1>3, <1>4 DEF Next

\* pool.go:110-116: the compaction that release decides on is enough to keep the slice of
\* a pool that runs for ever within twice the prefix, for every prefix.
THEOREM SliceBounded == Spec => []BoundedMemory
<1>1. Init => BoundedMemory
  BY PrefixAssumption DEF Init, BoundedMemory, capacity
<1>2. Spec => []IInv
  BY IInvInit, IInvStep, PTL DEF Spec
<1> QED BY <1>1, <1>2, BoundedStep, NeverIssuedTwice, PTL DEF Spec
=============================================================================
