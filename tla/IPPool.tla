------------------------------- MODULE IPPool -------------------------------
(***************************************************************************)
(* The pool of fake addresses (src/server/mapper/pool.go): a cursor over   *)
(* [Network, Broadcast) for addresses never issued, a queue kept in a      *)
(* slice with a head index for released ones, and the set of addresses     *)
(* adopted at start, which the cursor skips and which is dropped once the  *)
(* cursor has passed the largest of them.  Every method runs under p.mu,   *)
(* so each is one action.                                                  *)
(*                                                                         *)
(* The caller is the IP mapper: it adopts first (NewIPMapper), releases    *)
(* only what it owns (`out'), and never adopts an address twice.  The      *)
(* cursor never exceeds Broadcast, which fits in 32 bits, so uint32        *)
(* arithmetic is exact.                                                    *)
(***************************************************************************)
EXTENDS Integers, Sequences, Functions

CONSTANTS Network, Broadcast

ASSUME PrefixAssumption ==
    /\ Network \in Nat
    /\ Broadcast \in Nat
    /\ Network <= Broadcast

VARIABLES
    cursor,       \* next address the loop of allocate looks at
    freed,        \* the slice of released addresses
    head,         \* number of entries of freed already issued again
    adopted,      \* addresses the cursor must skip ({} for the nil map)
    maxAdopt,     \* the largest adopted address, 0 if none
    adopting,     \* the mapper is still in adopt()
    out           \* addresses the mapper owns

vars == <<cursor, freed, head, adopted, maxAdopt, adopting, out>>

Addresses == Network .. (Broadcast - 1)

inRange(ip) == Network <= ip /\ ip < Broadcast

capacity == Broadcast - Network

\* What the cursor can still issue, and what the queue holds.
Fresh == {ip \in cursor .. (Broadcast - 1) : ip \notin adopted}
Waiting == SubSeq(freed, head + 1, Len(freed))

TypeOK ==
    /\ cursor \in Network .. Broadcast
    /\ freed \in Seq(Addresses)
    /\ head \in 0 .. Len(freed)
    /\ adopted \subseteq Addresses
    /\ maxAdopt \in Nat
    /\ adopting \in BOOLEAN
    /\ out \subseteq Addresses

Init ==
    /\ cursor = Network
    /\ freed = <<>>
    /\ head = 0
    /\ adopted = {}
    /\ maxAdopt = 0
    /\ adopting = TRUE
    /\ out = {}

\* adopt() checks inRange and isAdopted before it calls this.
markAdopted(ip) ==
    /\ adopting
    /\ inRange(ip)
    /\ ip \notin adopted
    /\ adopted' = adopted \union {ip}
    /\ maxAdopt' = IF ip > maxAdopt THEN ip ELSE maxAdopt
    /\ out' = out \union {ip}
    /\ UNCHANGED <<cursor, freed, head, adopting>>

AdoptDone ==
    /\ adopting
    /\ adopting' = FALSE
    /\ UNCHANGED <<cursor, freed, head, adopted, maxAdopt, out>>

-----------------------------------------------------------------------------
\* Mutation: head is not reset with the emptied slice.
AllocateFreedKeepingHead ==
    /\ ~adopting
    /\ head < Len(freed)
    /\ out' = out \union {freed[head + 1]}
    /\ freed' = IF head + 1 = Len(freed) THEN <<>> ELSE freed
    /\ head' = head + 1
    /\ UNCHANGED <<cursor, adopted, maxAdopt, adopting>>

\* Mutation: a stack, the last released address is issued first.
AllocateFreedStack ==
    /\ ~adopting
    /\ head < Len(freed)
    /\ out' = out \union {freed[Len(freed)]}
    /\ freed' = SubSeq(freed, 1, Len(freed) - 1)
    /\ UNCHANGED <<head, cursor, adopted, maxAdopt, adopting>>

\* allocate, when the queue has an entry.
AllocateFreed ==
    /\ ~adopting
    /\ head < Len(freed)
    /\ out' = out \union {freed[head + 1]}
    /\ IF head + 1 = Len(freed)
       THEN freed' = <<>> /\ head' = 0
       ELSE head' = head + 1 /\ UNCHANGED freed
    /\ UNCHANGED <<cursor, adopted, maxAdopt, adopting>>

\* Mutation: the skip set goes when the cursor reaches its last member.
adoptedAfterTooEarly(c) == IF c >= maxAdopt THEN {} ELSE adopted

\* The skip set once the cursor has reached c.
adoptedAfter(c) == IF c > maxAdopt THEN {} ELSE adopted

\* allocate, when the loop stops at the first address that is not adopted.
AllocateCursor ==
    /\ ~adopting
    /\ head >= Len(freed)
    /\ \E ip \in Fresh :
        /\ \A other \in Fresh : ip <= other
        /\ cursor' = ip + 1
        /\ adopted' = adoptedAfter(ip + 1)
        /\ out' = out \union {ip}
    /\ UNCHANGED <<freed, head, maxAdopt, adopting>>

\* allocate, when the loop runs to the end: no free address.
AllocateNone ==
    /\ ~adopting
    /\ head >= Len(freed)
    /\ Fresh = {}
    /\ cursor' = Broadcast
    /\ adopted' = adoptedAfter(Broadcast)
    /\ UNCHANGED <<freed, head, maxAdopt, adopting, out>>

\* Mutation: the slice is never compacted.
mustCompactNever == head > Len(freed)

\* compactFreed decides by this test whether to move the live entries to the front.
mustCompact == head > 0 /\ head >= Len(freed) - head

\* Mutation: compaction moves one live entry too few.
releaseDropping(ip) ==
    /\ ~adopting
    /\ ip \in out
    /\ out' = out \ {ip}
    /\ IF mustCompact
       THEN freed' = Append(SubSeq(freed, head + 2, Len(freed)), ip) /\ head' = 0
       ELSE freed' = Append(freed, ip) /\ UNCHANGED head
    /\ UNCHANGED <<cursor, adopted, maxAdopt, adopting>>

release(ip) ==
    /\ ~adopting
    /\ ip \in out
    /\ out' = out \ {ip}
    /\ IF mustCompact
       THEN freed' = Append(Waiting, ip) /\ head' = 0
       ELSE freed' = Append(freed, ip) /\ UNCHANGED head
    /\ UNCHANGED <<cursor, adopted, maxAdopt, adopting>>

Next ==
    \/ \E ip \in Addresses : markAdopted(ip) \/ release(ip)
    \/ AdoptDone
    \/ AllocateFreed
    \/ AllocateCursor
    \/ AllocateNone

Spec == Init /\ [][Next]_vars

-----------------------------------------------------------------------------
\* pool.go:63-108.  No address the mapper owns can be issued again, by the
\* cursor or by the queue: the skip set is dropped no earlier than the cursor
\* has passed its last member, and a released adopted address comes back
\* through the queue only.
NoDoubleIssue ==
    /\ Fresh \intersect out = {}
    /\ Fresh \intersect Range(Waiting) = {}
    /\ out \intersect Range(Waiting) = {}
    /\ IsInjective(Waiting)

\* pool.go:63-116.  No address is lost by the head index, by the compaction of
\* the slice or by the cursor: "no free IPs" means the mapper owns them all.
NoLeak == Fresh \union Range(Waiting) \union out = Addresses

\* pool.go:110-116.  compactFreed keeps the slice of a pool that runs for ever
\* within twice the number of addresses.
BoundedMemory == Len(freed) <= 2 * capacity

\* pool.go:17, 63-116.  The pool is a FIFO pool ("a queue, not a stack"): through
\* head index, compaction and the reuse of the emptied slice, the address issued
\* again is the one that has been released for the longest time.
Abstract == INSTANCE FakePool
    WITH Fakes <- Addresses, fresh <- Fresh, queue <- Waiting

RefinesFakePool == Abstract!Spec
=============================================================================
