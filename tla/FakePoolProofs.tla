--------------------------- MODULE FakePoolProofs ---------------------------
(***************************************************************************)
(* Every FIFO pool, of any set of addresses, issues no address twice and   *)
(* loses none.                                                             *)
(***************************************************************************)
EXTENDS FakePool, QueueLemmas, TLAPS

Ledger == TypeOK /\ NoDoubleIssue /\ NoLeak

\* A pool starts with every address fresh.
LEMMA LedgerInit == Init => Ledger
<1>1. SUFFICES ASSUME Init PROVE Ledger
  OBVIOUS
<1>2. Range(queue) = {} /\ IsInjective(queue)
  BY <1>1 DEF Init, Range, IsInjective
<1>3. QED BY <1>1, <1>2 DEF Init, Ledger, TypeOK, NoDoubleIssue, NoLeak

\* Each operation moves an address from one of the three places to another.
LEMMA LedgerStep == Ledger /\ [Next]_vars => Ledger'
<1> SUFFICES ASSUME Ledger, [Next]_vars PROVE Ledger'
  OBVIOUS
<1> USE DEF Ledger, TypeOK, NoDoubleIssue, NoLeak
<1>1. CASE AllocateQueued
  <2>1. /\ Tail(queue) \in Seq(Fakes)
        /\ IsInjective(Tail(queue))
        /\ Head(queue) \in Fakes
        /\ Range(queue) = Range(Tail(queue)) \union {Head(queue)}
        /\ Head(queue) \notin Range(Tail(queue))
    BY <1>1, TailQueue DEF AllocateQueued
  <2>2. QED BY <1>1, <2>1 DEF AllocateQueued
<1>2. ASSUME NEW f \in Fakes, Adopt(f) \/ AllocateFresh(f)
      PROVE  Ledger'
  BY <1>2 DEF Adopt, AllocateFresh
<1>3. ASSUME NEW f \in Fakes, Release(f)
      PROVE  Ledger'
  <2>1. /\ Append(queue, f) \in Seq(Fakes)
        /\ IsInjective(Append(queue, f))
        /\ Range(Append(queue, f)) = Range(queue) \union {f}
    BY <1>3, AppendQueue DEF Release
  <2>2. QED BY <1>3, <2>1 DEF Release
<1>4. CASE Restart
  <2>1. Range(queue') = {} /\ IsInjective(queue')
    BY <1>4 DEF Restart, Range, IsInjective
  <2>2. QED BY <1>4, <2>1 DEF Restart
<1>5. CASE UNCHANGED vars
  BY <1>5 DEF vars
<1>6. QED BY <1>1, <1>2, <1>3, <1>4, <1>5 DEF Next

\* Every behaviour of a FIFO pool keeps its ledger: each address is fresh,
\* queued or out, and in one of these places only (pool.go:63-116 behave so).
THEOREM LedgerInvariant == Spec => []Ledger
<1>1. QED BY LedgerInit, LedgerStep, PTL DEF Spec
=============================================================================
