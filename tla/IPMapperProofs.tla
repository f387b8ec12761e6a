--------------------------- MODULE IPMapperProofs ---------------------------
(***************************************************************************)
(* The mapper for any number of addresses, handlers and ticks: its types,  *)
(* the ownership of fakes, the use it makes of the pool and the promise to *)
(* its clients, and the rules in the kernel.                               *)
(***************************************************************************)
EXTENDS IPMapper, QueueLemmas, TLAPS

(***************************************************************************)
(* Types alone are not inductive: an action reads the real of a call and   *)
(* the fake of a flight, and what they are depends on the program point.   *)
(* A flight past its check works on a real that has no entry, because      *)
(* flights alone create entries once adoption is over.                     *)
(***************************************************************************)
CallOK ==
    \A c \in Callers :
        /\ call[c].pc \in {"do", "wait", "answer"} => call[c].real \in Reals
        /\ call[c].pc = "answer" => call[c].fake \in Fakes

FlightOK ==
    \A r \in Reals :
        /\ flight[r].pc \in {"add", "undo", "set"} => flight[r].fake \in Fakes
        /\ flight[r].pc \in {"allocate", "add", "undo", "set"} => table[r] = None
        /\ flight[r].pc # "none" => proc = "up"
        /\ flight[r].pc = "none" => flight[r].fake = None

\* Nothing but adoption happens before the process is up.
BeforeUp ==
    /\ proc # "up" =>
        /\ queue = <<>> /\ stale = {} /\ cleaner = "idle"
        /\ \A c \in Callers : call[c].pc = "idle"
    /\ proc = "down" =>
        /\ fresh = Fakes
        /\ \A r \in Reals : table[r] = None

Shape == TypeOK /\ CallOK /\ FlightOK /\ BeforeUp

\* A process that starts has no calls, no flights and no cleaner (ipmap.go:35-58).
LEMMA ShapeInit == Init => Shape
BY MapperAssumption
   DEF Init, Shape, TypeOK, CallOK, FlightOK, BeforeUp, Pairs, FakeOrNone, NoFlight, Flight, Idle, Call

\* Outcomes of the firewall stay within the pairs that exist.
LEMMA OutcomesInPairs ==
    ASSUME kernel \subseteq Pairs
    PROVE  /\ \A m \in Pairs, b \in BOOLEAN : \A o \in AddOutcomes(kernel, m, b) : o.kernel \subseteq Pairs
           /\ \A ms, b : \A o \in DeleteOutcomes(kernel, ms, b) : o.kernel \subseteq kernel
BY DEF AddOutcomes, DeleteOutcomes, Outcome

\* A function that is changed at one argument stays in its set of functions.
LEMMA UpdateInRange ==
    ASSUME NEW D, NEW R, NEW g \in [D -> R], NEW v \in R, NEW x
    PROVE  [g EXCEPT ![x] = v] \in [D -> R]
OBVIOUS

\* Every step of a handler, a flight, the cleaner, adoption or the outside keeps the shape.
LEMMA ShapeStep == Shape /\ [Next]_vars => Shape'
<1> SUFFICES ASSUME Shape, [Next]_vars PROVE Shape'
  OBVIOUS
<1> USE MapperAssumption
    DEF Shape, TypeOK, CallOK, FlightOK, BeforeUp, FakeOrNone, NoFlight, Flight, Idle, Call,
        procVars, poolVars, tableVars, cleanVars
<1>1. CASE Crash
  BY <1>1 DEF Crash
<1>2. CASE Start
  BY <1>2 DEF Start
<1>3. ASSUME NEW m \in unlisted, AdoptKeep(m)
      PROVE  Shape'
  <2>1. m[2] \in Reals /\ m[1] \in Fakes
    BY <1>3 DEF AdoptKeep, Adoptable, Pairs
  <2>2. QED BY <1>3, <2>1 DEF AdoptKeep
<1>4. ASSUME NEW m \in unlisted, AdoptDrop(m)
      PROVE  Shape'
  <2>1. kernel' \subseteq Pairs
    BY <1>4, OutcomesInPairs DEF AdoptDrop
  <2>2. QED BY <1>4, <2>1 DEF AdoptDrop
<1>5. CASE AdoptDone
  BY <1>5 DEF AdoptDone
<1>6. ASSUME NEW c \in Callers, NEW r \in Reals, MapHit(c, r)
      PROVE  Shape'
  BY <1>6 DEF MapHit
<1>7. ASSUME NEW c \in Callers, NEW r \in Reals, MapMiss(c, r)
      PROVE  Shape'
  BY <1>7 DEF MapMiss
<1>8. ASSUME NEW c \in Callers, MapDo(c)
      PROVE  Shape'
  BY <1>8 DEF MapDo
<1>9. ASSUME NEW c \in Callers, Deliver(c)
      PROVE  Shape'
  <2>1. lease' \in [Pairs -> 0..LeaseTTL]
    <3>1. LeaseTTL \in 0..LeaseTTL
      OBVIOUS
    <3>2. lease \in [Pairs -> 0..LeaseTTL]
      OBVIOUS
    <3>3. \/ lease' = [lease EXCEPT ![<<call[c].fake, call[c].real>>] = LeaseTTL]
          \/ lease' = lease
      BY <1>9 DEF Deliver
    <3>4. QED BY ONLY <3>1, <3>2, <3>3, UpdateInRange
  <2>2. QED BY <1>9, <2>1 DEF Deliver
<1>10. ASSUME NEW r \in Reals, FlightHit(r)
       PROVE  Shape'
  BY <1>10 DEF FlightHit
<1>11. ASSUME NEW r \in Reals, FlightMiss(r)
       PROVE  Shape'
  BY <1>11 DEF FlightMiss
<1>12. ASSUME NEW r \in Reals, FlightAllocateQueued(r)
       PROVE  Shape'
  BY <1>12 DEF FlightAllocateQueued
<1>13. ASSUME NEW r \in Reals, NEW f \in Fakes, FlightAllocateFresh(r, f)
       PROVE  Shape'
  BY <1>13 DEF FlightAllocateFresh
<1>14. ASSUME NEW r \in Reals, FlightNoFreeIPs(r)
       PROVE  Shape'
  BY <1>14 DEF FlightNoFreeIPs
<1>15. ASSUME NEW r \in Reals, FlightAdd(r)
       PROVE  Shape'
  BY <1>15, OutcomesInPairs DEF FlightAdd, Pairs
<1>16. ASSUME NEW r \in Reals, FlightUndo(r)
       PROVE  Shape'
  BY <1>16 DEF FlightUndo
<1>17. ASSUME NEW r \in Reals, FlightSet(r)
       PROVE  Shape'
  BY <1>17 DEF FlightSet
<1>18. ASSUME NEW r \in Reals, FlightReturn(r)
       PROVE  Shape'
  BY <1>18 DEF FlightReturn
<1>19. CASE CleanExpire
  BY <1>19 DEF CleanExpire, Expired
<1>20. ASSUME NEW ok \in BOOLEAN, CleanDelete(ok)
       PROVE  Shape'
  BY <1>20, OutcomesInPairs DEF CleanDelete
<1>21. ASSUME NEW p \in stale, CleanRelease(p)
       PROVE  Shape'
  BY <1>21 DEF CleanRelease
<1>22. CASE Tick
  <2>1. age' \in [Reals -> 0..TTL]
    BY <1>22 DEF Tick
  <2>2. lease' \in [Pairs -> 0..LeaseTTL]
    BY <1>22 DEF Tick
  <2>3. \A c \in Callers : call[c].pc = "answer" => call[c].wait + 1 \in 0..Slack
    BY <1>22 DEF Tick
  <2>4. \A r \in Reals : flight[r].pc = "return" => flight[r].wait + 1 \in 0..Slack
    BY <1>22 DEF Tick
  <2>5. TypeOK'
    BY <1>22, <2>1, <2>2, <2>3, <2>4 DEF Tick
  <2>6. CallOK' /\ FlightOK' /\ BeforeUp'
    BY <1>22 DEF Tick
  <2>7. QED BY <2>5, <2>6
<1>23. CASE UNCHANGED vars
  BY <1>23 DEF vars
<1>24. QED
  BY <1>1, <1>2, <1>3, <1>4, <1>5, <1>6, <1>7, <1>8, <1>9, <1>10, <1>11, <1>12, <1>13, <1>14,
     <1>15, <1>16, <1>17, <1>18, <1>19, <1>20, <1>21, <1>22, <1>23
     DEF Next, Adoption, Handler, Fly, Clean

\* Every variable of the mapper keeps its type, and no action reads a real or a
\* fake that is not there (ipmap.go:89-152).
THEOREM TypeCorrect == Spec => []TypeOK
<1>1. Shape => TypeOK
  BY DEF Shape
<1>2. QED BY ShapeInit, ShapeStep, <1>1, PTL DEF Spec

-----------------------------------------------------------------------------
(***************************************************************************)
(* Ownership.  That no fake has two owners is inductive only together with *)
(* the pool's side of it: what the pool can issue has no owner at all.     *)
(***************************************************************************)
Free == fresh \union Range(queue)

FreeHasNoOwner ==
    /\ \A r \in InTable : table[r] \notin Free
    /\ \A r \in InFlight : flight[r].fake \notin Free
    /\ \A p \in stale : p[1] \notin Free

QueueOnce == fresh \intersect Range(queue) = {} /\ IsInjective(queue)

Ownership == OneOwner /\ FreeHasNoOwner /\ QueueOnce

\* Before adoption every address is fresh.
LEMMA OwnershipInit == Init => Ownership
<1>1. Init => Range(queue) = {} /\ IsInjective(queue)
  BY DEF Init, Range, IsInjective
<1>2. QED
  BY <1>1 DEF Init, NoFlight, Flight, Ownership, OneOwner, FreeHasNoOwner, QueueOnce, InTable, InFlight

\* A step that moves no fake between owners.
LEMMA OwnersUnchanged ==
    ASSUME Ownership, UNCHANGED <<fresh, queue, table, stale>>,
           InFlight' = InFlight,
           \A r \in InFlight : flight'[r].fake = flight[r].fake
    PROVE  Ownership'
BY DEF Ownership, OneOwner, FreeHasNoOwner, QueueOnce, InTable, Free

\* Every step hands an address from one holder to the next, or leaves all as they are.
LEMMA OwnershipStep == Shape /\ Ownership /\ [Next]_vars => Ownership'
<1> SUFFICES ASSUME Shape, Ownership, [Next]_vars PROVE Ownership'
  OBVIOUS
<1> USE DEF procVars, poolVars, tableVars, cleanVars
<1>t. /\ fresh \subseteq Fakes /\ queue \in Seq(Fakes) /\ None \notin Fakes
      /\ table \in [Reals -> FakeOrNone]
      /\ DOMAIN flight = Reals
      /\ stale \subseteq Fakes \X Reals
      /\ FlightOK
  BY MapperAssumption DEF Shape, TypeOK
<1>1. CASE Crash
  <2>1. Range(queue') = {} /\ IsInjective(queue')
    BY <1>1 DEF Crash, Range, IsInjective
  <2>2. QED
    BY <1>1, <2>1 DEF Crash, NoFlight, Flight, Ownership, OneOwner, FreeHasNoOwner, QueueOnce, InTable, InFlight
<1>2. CASE Start
  BY <1>2, OwnersUnchanged DEF Start, InFlight
<1>3. ASSUME NEW m \in unlisted, AdoptKeep(m)
      PROVE  Ownership'
  <2>1. m[1] \in Free /\ table[m[2]] = None /\ Free' = Free \ {m[1]} /\ Range(queue') = Range(queue)
    BY <1>3 DEF AdoptKeep, Adoptable, Ownership, QueueOnce, Free
  <2>2. InFlight' = InFlight /\ InTable' \subseteq InTable \union {m[2]}
    BY <1>3, <1>t DEF AdoptKeep, InFlight, InTable
  <2>3. QED
    BY <1>3, <1>t, <2>1, <2>2
       DEF AdoptKeep, Ownership, OneOwner, FreeHasNoOwner, QueueOnce, InTable, Free
<1>4. ASSUME NEW m \in unlisted, AdoptDrop(m)
      PROVE  Ownership'
  BY <1>4, OwnersUnchanged DEF AdoptDrop, InFlight
<1>5. CASE AdoptDone
  BY <1>5, OwnersUnchanged DEF AdoptDone, InFlight
<1>6. ASSUME NEW c \in Callers, NEW r \in Reals, MapHit(c, r) \/ MapMiss(c, r)
      PROVE  Ownership'
  BY <1>6, OwnersUnchanged DEF MapHit, MapMiss, InFlight
<1>7. ASSUME NEW c \in Callers, MapDo(c)
      PROVE  Ownership'
  <2>1. InFlight' = InFlight /\ \A r \in InFlight : flight'[r].fake = flight[r].fake
    BY <1>7, <1>t DEF MapDo, InFlight, Flight
  <2>2. QED BY <1>7, <2>1, OwnersUnchanged DEF MapDo
<1>8. ASSUME NEW c \in Callers, Deliver(c)
      PROVE  Ownership'
  BY <1>8, OwnersUnchanged DEF Deliver, InFlight
<1>9. ASSUME NEW r \in Reals,
             FlightHit(r) \/ FlightMiss(r) \/ FlightNoFreeIPs(r) \/ FlightAdd(r) \/ FlightReturn(r)
      PROVE  Ownership'
  <2>1. InFlight' = InFlight /\ \A s \in InFlight : flight'[s].fake = flight[s].fake
    BY <1>9, <1>t DEF FlightHit, FlightMiss, FlightNoFreeIPs, FlightAdd, FlightReturn, InFlight, Flight, NoFlight
  <2>2. UNCHANGED <<fresh, queue, table, stale>>
    BY <1>9 DEF FlightHit, FlightMiss, FlightNoFreeIPs, FlightAdd, FlightReturn
  <2>3. QED BY <2>1, <2>2, OwnersUnchanged
<1>10. ASSUME NEW r \in Reals, FlightAllocateQueued(r)
       PROVE  Ownership'
  <2>1. /\ Tail(queue) \in Seq(Fakes) /\ IsInjective(Tail(queue))
        /\ Head(queue) \in Fakes
        /\ Range(queue) = Range(Tail(queue)) \union {Head(queue)}
        /\ Head(queue) \notin Range(Tail(queue))
    BY <1>10, <1>t, TailQueue DEF FlightAllocateQueued, Ownership, QueueOnce
  <2>2. queue' = Tail(queue) /\ UNCHANGED <<fresh, table, stale>>
    BY <1>10 DEF FlightAllocateQueued
  <2>3. Head(queue) \in Free /\ Free' = Free \ {Head(queue)} /\ QueueOnce'
    BY <2>1, <2>2 DEF Ownership, QueueOnce, Free
  <2>4. /\ InFlight' = InFlight \union {r} /\ r \notin InFlight
        /\ flight'[r].fake = Head(queue)
        /\ \A s \in InFlight : flight'[s].fake = flight[s].fake
    BY <1>10, <1>t DEF FlightAllocateQueued, InFlight, Flight
  <2>5. QED BY <2>2, <2>3, <2>4 DEF Ownership, OneOwner, FreeHasNoOwner, InTable
<1>11. ASSUME NEW r \in Reals, NEW f \in Fakes, FlightAllocateFresh(r, f)
       PROVE  Ownership'
  <2>1. f \in fresh /\ fresh' = fresh \ {f} /\ UNCHANGED <<queue, table, stale>>
    BY <1>11 DEF FlightAllocateFresh
  <2>2. f \in Free /\ Free' = Free \ {f} /\ QueueOnce'
    BY <2>1 DEF Ownership, QueueOnce, Free
  <2>3. /\ InFlight' = InFlight \union {r} /\ r \notin InFlight
        /\ flight'[r].fake = f
        /\ \A s \in InFlight : flight'[s].fake = flight[s].fake
    BY <1>11, <1>t DEF FlightAllocateFresh, InFlight, Flight
  <2>4. QED BY <2>1, <2>2, <2>3 DEF Ownership, OneOwner, FreeHasNoOwner, InTable
<1>12. ASSUME NEW r \in Reals, FlightUndo(r)
       PROVE  Ownership'
  <2> DEFINE f == flight[r].fake
  <2>1. /\ f \in Fakes /\ f \notin Free /\ r \in InFlight
        /\ queue' = Append(queue, f) /\ UNCHANGED <<fresh, table, stale>>
    BY <1>12, <1>t DEF FlightUndo, FlightOK, InFlight, Ownership, FreeHasNoOwner
  <2>2. IsInjective(queue') /\ Range(queue') = Range(queue) \union {f}
    BY <1>t, <2>1, AppendQueue DEF Ownership, QueueOnce, Free
  <2>3. /\ InFlight' = InFlight \ {r}
        /\ \A s \in InFlight \ {r} : flight'[s].fake = flight[s].fake
    BY <1>12, <1>t DEF FlightUndo, InFlight, Flight
  <2>4. Free' = Free \union {f} /\ QueueOnce'
    BY <2>1, <2>2 DEF Ownership, QueueOnce, Free
  <2>5. QED BY <2>1, <2>3, <2>4 DEF Ownership, OneOwner, FreeHasNoOwner, InTable
<1>13. ASSUME NEW r \in Reals, FlightSet(r)
       PROVE  Ownership'
  <2>1. /\ r \in InFlight /\ flight[r].fake \in Fakes /\ table[r] = None
        /\ UNCHANGED <<fresh, queue, stale>>
        /\ table' = [table EXCEPT ![r] = flight[r].fake]
    BY <1>13, <1>t DEF FlightSet, FlightOK, InFlight
  <2>2. /\ InFlight' = InFlight \ {r}
        /\ \A s \in InFlight \ {r} : flight'[s].fake = flight[s].fake
    BY <1>13, <1>t DEF FlightSet, InFlight, Flight
  <2>3. /\ InTable' = InTable \union {r} /\ table'[r] = flight[r].fake
        /\ r \notin InTable /\ \A s \in InTable : table'[s] = table[s]
    BY <1>t, <2>1 DEF InTable
  <2>4. Free' = Free /\ QueueOnce'
    BY <2>1 DEF Ownership, QueueOnce, Free
  <2>5. QED BY <2>1, <2>2, <2>3, <2>4 DEF Ownership, OneOwner, FreeHasNoOwner
<1>14. CASE CleanExpire
  <2>1. /\ InTable' = InTable \ Expired /\ Expired \subseteq InTable
        /\ \A s \in InTable \ Expired : table'[s] = table[s]
        /\ stale' = stale \union {<<table[r], r>> : r \in Expired}
    BY <1>14, <1>t DEF CleanExpire, InTable, Expired
  <2>2. UNCHANGED <<fresh, queue, flight>>
    BY <1>14 DEF CleanExpire
  <2>3. Free' = Free /\ QueueOnce' /\ InFlight' = InFlight
    BY <2>2 DEF Ownership, QueueOnce, Free, InFlight
  <2>4. QED BY <2>1, <2>2, <2>3 DEF Ownership, OneOwner, FreeHasNoOwner
<1>15. ASSUME NEW ok \in BOOLEAN, CleanDelete(ok)
       PROVE  Ownership'
  BY <1>15, OwnersUnchanged DEF CleanDelete, InFlight
<1>16. ASSUME NEW p \in stale, CleanRelease(p)
       PROVE  Ownership'
  <2>1. /\ p[1] \in Fakes /\ p[1] \notin Free
        /\ queue' = Append(queue, p[1]) /\ stale' = stale \ {p}
        /\ UNCHANGED <<fresh, table, flight>>
    BY <1>16, <1>t DEF CleanRelease, Ownership, FreeHasNoOwner
  <2>2. IsInjective(queue') /\ Range(queue') = Range(queue) \union {p[1]}
    BY <1>t, <2>1, AppendQueue DEF Ownership, QueueOnce, Free
  <2>3. Free' = Free \union {p[1]} /\ QueueOnce' /\ InFlight' = InFlight /\ InTable' = InTable
    BY <2>1, <2>2 DEF Ownership, QueueOnce, Free, InFlight, InTable
  <2>4. QED BY <2>1, <2>3 DEF Ownership, OneOwner, FreeHasNoOwner
<1>17. CASE Tick
  <2>1. InFlight' = InFlight /\ \A r \in InFlight : flight'[r].fake = flight[r].fake
    BY <1>17, <1>t DEF Tick, InFlight, Flight
  <2>2. QED BY <1>17, <2>1, OwnersUnchanged DEF Tick
<1>18. CASE UNCHANGED vars
  BY <1>18, OwnersUnchanged DEF vars, InFlight
<1>19. QED
  BY <1>1, <1>2, <1>3, <1>4, <1>5, <1>6, <1>7, <1>8, <1>9, <1>10, <1>11, <1>12, <1>13, <1>14,
     <1>15, <1>16, <1>17, <1>18
     DEF Next, Adoption, Handler, Fly, Clean

\* Two owners never hold one fake, whatever the numbers of handlers, addresses
\* and ticks, and however Add, Delete and the process fail (ipmap.go:94-152).
THEOREM NoTwoOwners == Spec => []OneOwner
<1>1. Shape /\ Ownership => OneOwner
  BY DEF Ownership
<1>2. QED BY ShapeInit, ShapeStep, OwnershipInit, OwnershipStep, <1>1, PTL DEF Spec

-----------------------------------------------------------------------------
(***************************************************************************)
(* The mapper uses its pool as FakePool prescribes.                        *)
(***************************************************************************)
LEMMA HeldUnchanged ==
    ASSUME UNCHANGED <<fresh, queue, table, stale>>,
           InFlight' = InFlight,
           \A r \in InFlight : flight'[r].fake = flight[r].fake
    PROVE  UNCHANGED Pool!vars
<1>1. Held' = Held
  BY DEF Held, InTable
<1>2. QED BY <1>1 DEF Pool!vars

\* Adoption starts with a new pool.
LEMMA PoolInit == Init => Pool!Init
<1>1. Init => Held = {}
  BY DEF Init, Held, InTable, InFlight, NoFlight, Flight
<1>2. QED BY <1>1 DEF Init, Pool!Init

\* Every step is an operation of the pool, its restart, or none of its business.
LEMMA PoolStep == Shape /\ Ownership /\ [Next]_vars => [Pool!Next]_(Pool!vars)
<1> SUFFICES ASSUME Shape, Ownership, [Next]_vars PROVE [Pool!Next]_(Pool!vars)
  OBVIOUS
<1> USE DEF procVars, poolVars, tableVars, cleanVars
<1>t. /\ fresh \subseteq Fakes /\ queue \in Seq(Fakes) /\ None \notin Fakes
      /\ table \in [Reals -> FakeOrNone]
      /\ DOMAIN flight = Reals
      /\ stale \subseteq Fakes \X Reals
      /\ FlightOK
  BY MapperAssumption DEF Shape, TypeOK
<1>1. CASE Crash
  <2>1. fresh' = Fakes /\ queue' = <<>> /\ Held' = {}
    BY <1>1 DEF Crash, NoFlight, Flight, Held, InTable, InFlight
  <2>2. QED BY <2>1 DEF Pool!Restart, Pool!Next
<1>2. CASE Start
  BY <1>2, HeldUnchanged DEF Start, InFlight
<1>3. ASSUME NEW m \in unlisted, AdoptKeep(m)
      PROVE  Pool!Next
  <2>1. m[1] \in fresh /\ fresh' = fresh \ {m[1]} /\ UNCHANGED <<queue, flight, stale>>
    BY <1>3 DEF AdoptKeep, Adoptable
  <2>2. m[2] \in Reals
    BY DEF Shape, TypeOK, Pairs
  <2>3. /\ InTable' = InTable \union {m[2]} /\ m[2] \notin InTable
        /\ table'[m[2]] = m[1] /\ \A r \in InTable : table'[r] = table[r]
    BY <1>3, <1>t, <2>1, <2>2 DEF AdoptKeep, Adoptable, InTable
  <2>4. Held' = Held \union {m[1]}
    BY <2>1, <2>3 DEF Held, InFlight
  <2>5. Pool!Adopt(m[1])
    BY <2>1, <2>4 DEF Pool!Adopt
  <2>6. QED BY <1>t, <2>1, <2>5 DEF Pool!Next
<1>4. ASSUME NEW m \in unlisted, AdoptDrop(m)
      PROVE  UNCHANGED Pool!vars
  BY <1>4, HeldUnchanged DEF AdoptDrop, InFlight
<1>5. CASE AdoptDone
  BY <1>5, HeldUnchanged DEF AdoptDone, InFlight
<1>6. ASSUME NEW c \in Callers, NEW r \in Reals, MapHit(c, r) \/ MapMiss(c, r)
      PROVE  UNCHANGED Pool!vars
  BY <1>6, HeldUnchanged DEF MapHit, MapMiss, InFlight
<1>7. ASSUME NEW c \in Callers, MapDo(c)
      PROVE  UNCHANGED Pool!vars
  <2>1. InFlight' = InFlight /\ \A r \in InFlight : flight'[r].fake = flight[r].fake
    BY <1>7, <1>t DEF MapDo, InFlight, Flight
  <2>2. QED BY <1>7, <2>1, HeldUnchanged DEF MapDo
<1>8. ASSUME NEW c \in Callers, Deliver(c)
      PROVE  UNCHANGED Pool!vars
  BY <1>8, HeldUnchanged DEF Deliver, InFlight
<1>9. ASSUME NEW r \in Reals,
             FlightHit(r) \/ FlightMiss(r) \/ FlightNoFreeIPs(r) \/ FlightAdd(r) \/ FlightReturn(r)
      PROVE  UNCHANGED Pool!vars
  <2>1. InFlight' = InFlight /\ \A s \in InFlight : flight'[s].fake = flight[s].fake
    BY <1>9, <1>t DEF FlightHit, FlightMiss, FlightNoFreeIPs, FlightAdd, FlightReturn, InFlight, Flight, NoFlight
  <2>2. UNCHANGED <<fresh, queue, table, stale>>
    BY <1>9 DEF FlightHit, FlightMiss, FlightNoFreeIPs, FlightAdd, FlightReturn
  <2>3. QED BY <2>1, <2>2, HeldUnchanged
<1>10. ASSUME NEW r \in Reals, FlightAllocateQueued(r)
       PROVE  Pool!Next
  <2>1. queue # <<>> /\ queue' = Tail(queue) /\ UNCHANGED <<fresh, table, stale>>
    BY <1>10 DEF FlightAllocateQueued
  <2>2. /\ InFlight' = InFlight \union {r} /\ r \notin InFlight
        /\ flight'[r].fake = Head(queue)
        /\ \A s \in InFlight : flight'[s].fake = flight[s].fake
    BY <1>10, <1>t DEF FlightAllocateQueued, InFlight, Flight
  <2>3. Held' = Held \union {Head(queue)}
    BY <2>1, <2>2 DEF Held, InTable
  <2>4. QED BY <2>1, <2>3 DEF Pool!AllocateQueued, Pool!Next
<1>11. ASSUME NEW r \in Reals, NEW f \in Fakes, FlightAllocateFresh(r, f)
       PROVE  Pool!Next
  <2>1. queue = <<>> /\ f \in fresh /\ fresh' = fresh \ {f} /\ UNCHANGED <<queue, table, stale>>
    BY <1>11 DEF FlightAllocateFresh
  <2>2. /\ InFlight' = InFlight \union {r} /\ r \notin InFlight
        /\ flight'[r].fake = f
        /\ \A s \in InFlight : flight'[s].fake = flight[s].fake
    BY <1>11, <1>t DEF FlightAllocateFresh, InFlight, Flight
  <2>3. Held' = Held \union {f}
    BY <2>1, <2>2 DEF Held, InTable
  <2>4. QED BY <2>1, <2>3 DEF Pool!AllocateFresh, Pool!Next
<1>12. ASSUME NEW r \in Reals, FlightUndo(r)
       PROVE  Pool!Next
  <2> DEFINE f == flight[r].fake
  <2>1. /\ f \in Fakes /\ r \in InFlight
        /\ queue' = Append(queue, f) /\ UNCHANGED <<fresh, table, stale>>
    BY <1>12, <1>t DEF FlightUndo, FlightOK, InFlight
  <2>2. /\ InFlight' = InFlight \ {r}
        /\ \A s \in InFlight \ {r} : flight'[s].fake = flight[s].fake
    BY <1>12, <1>t DEF FlightUndo, InFlight, Flight
  <2>3. f \in Held /\ Held' = Held \ {f}
    BY <2>1, <2>2 DEF Held, InTable, Ownership, OneOwner
  <2>4. QED BY <2>1, <2>3 DEF Pool!Release, Pool!Next
<1>13. ASSUME NEW r \in Reals, FlightSet(r)
       PROVE  UNCHANGED Pool!vars
  <2>1. /\ r \in InFlight /\ flight[r].fake \in Fakes /\ table[r] = None
        /\ UNCHANGED <<fresh, queue, stale>>
        /\ table' = [table EXCEPT ![r] = flight[r].fake]
    BY <1>13, <1>t DEF FlightSet, FlightOK, InFlight
  <2>2. /\ InFlight' = InFlight \ {r}
        /\ \A s \in InFlight \ {r} : flight'[s].fake = flight[s].fake
    BY <1>13, <1>t DEF FlightSet, InFlight, Flight
  <2>3. /\ InTable' = InTable \union {r} /\ table'[r] = flight[r].fake
        /\ r \notin InTable /\ \A s \in InTable : table'[s] = table[s]
    BY <1>t, <2>1 DEF InTable
  <2>4. Held' = Held
    BY <2>1, <2>2, <2>3 DEF Held
  <2>5. QED BY <2>1, <2>4 DEF Pool!vars
<1>14. CASE CleanExpire
  <2>1. /\ InTable' = InTable \ Expired /\ Expired \subseteq InTable
        /\ \A s \in InTable \ Expired : table'[s] = table[s]
        /\ stale' = stale \union {<<table[r], r>> : r \in Expired}
    BY <1>14, <1>t DEF CleanExpire, InTable, Expired
  <2>2. UNCHANGED <<fresh, queue, flight>> /\ InFlight' = InFlight
    BY <1>14 DEF CleanExpire, InFlight
  <2>3. {p[1] : p \in stale'} = {p[1] : p \in stale} \union {table[r] : r \in Expired}
    <3>1. ASSUME NEW r \in Expired
          PROVE  table[r] \in {p[1] : p \in stale'}
      <4>1. <<table[r], r>> \in stale' /\ <<table[r], r>>[1] = table[r]
        BY <2>1
      <4>2. QED BY <4>1
    <3>2. ASSUME NEW p \in stale'
          PROVE  p[1] \in {q[1] : q \in stale} \union {table[r] : r \in Expired}
      BY <2>1
    <3>3. stale \subseteq stale'
      BY <2>1
    <3>4. QED BY <3>1, <3>2, <3>3
  <2>4. {table'[r] : r \in InTable'} \union {table[r] : r \in Expired} = {table[r] : r \in InTable}
    BY <2>1
  <2>5. Held' = Held
    BY <2>2, <2>3, <2>4 DEF Held
  <2>6. QED BY <2>2, <2>5 DEF Pool!vars
<1>15. ASSUME NEW ok \in BOOLEAN, CleanDelete(ok)
       PROVE  UNCHANGED Pool!vars
  BY <1>15, HeldUnchanged DEF CleanDelete, InFlight
<1>16. ASSUME NEW p \in stale, CleanRelease(p)
       PROVE  Pool!Next
  <2>1. /\ p[1] \in Fakes /\ stale' = stale \ {p}
        /\ queue' = Append(queue, p[1])
        /\ UNCHANGED <<fresh, table, flight>>
    BY <1>16, <1>t DEF CleanRelease
  <2>2. p[1] \in Held /\ Held' = Held \ {p[1]}
    BY <2>1 DEF Held, InTable, InFlight, Ownership, OneOwner
  <2>3. QED BY <2>1, <2>2 DEF Pool!Release, Pool!Next
<1>17. CASE Tick
  <2>1. InFlight' = InFlight /\ \A r \in InFlight : flight'[r].fake = flight[r].fake
    BY <1>17, <1>t DEF Tick, InFlight, Flight
  <2>2. QED BY <1>17, <2>1, HeldUnchanged DEF Tick
<1>18. CASE UNCHANGED vars
  BY <1>18, HeldUnchanged DEF vars, InFlight
<1>19. QED
  BY <1>1, <1>2, <1>3, <1>4, <1>5, <1>6, <1>7, <1>8, <1>9, <1>10, <1>11, <1>12, <1>13, <1>14,
     <1>15, <1>16, <1>17, <1>18
     DEF Next, Adoption, Handler, Fly, Clean

\* The mapper takes from the pool and gives back to it as FakePool prescribes,
\* with all that it holds as the addresses that are out (ipmap.go:60-152).
THEOREM PoolRefinement == Spec => RefinesFakePool
<1>1. Spec => [](Shape /\ Ownership)
  BY ShapeInit, ShapeStep, OwnershipInit, OwnershipStep, PTL DEF Spec
<1>2. QED BY <1>1, PoolInit, PoolStep, PTL DEF Spec, RefinesFakePool, Pool!Spec

(***************************************************************************)
(* What the mapper promises of the kernel's rules and to its clients.      *)
(***************************************************************************)

\* adopt's Delete reports no error: it is not tried again if it does.
AdoptionDeletes == AdoptFails = FALSE

\* The process does not die while expired mappings wait for their deletion.
CrashesSettled == CrashWhen # "any"

\* An Add that reports an error has left the rules as they were.
LEMMA AddOutcomeIs ==
    ASSUME NEW k, NEW m, NEW b, NEW o \in AddOutcomes(k, m, b)
    PROVE  \/ o.ok /\ o.kernel = k \union {m}
           \/ ~o.ok /\ o.kernel = k
BY DEF AddOutcomes, Outcome

\* A Delete removes rules of its batch only, and all of them if it reports no error.
LEMMA DeleteOutcomeIs ==
    ASSUME NEW k, NEW ms, NEW b, NEW o \in DeleteOutcomes(k, ms, b)
    PROVE  /\ o.kernel \subseteq k
           /\ \A m \in k : m \in ms \/ m \in o.kernel
           /\ o.ok => o.kernel = k \ ms
<1>1. \A gone \in RemovedOnFailure(ms) : gone \subseteq ms
  BY DEF RemovedOnFailure
<1>2. CASE o = Outcome(TRUE, k \ ms)
  BY <1>2 DEF Outcome
<1>3. ASSUME NEW gone \in RemovedOnFailure(ms), o = Outcome(FALSE, k \ gone)
      PROVE  /\ o.kernel \subseteq k
             /\ \A m \in k : m \in ms \/ m \in o.kernel
             /\ o.ok => o.kernel = k \ ms
  <2>1. o.kernel = k \ gone /\ o.ok = FALSE
    BY <1>3 DEF Outcome
  <2>2. QED BY <1>1, <2>1
<1>4. o = Outcome(TRUE, k \ ms) \/ \E gone \in RemovedOnFailure(ms) : o = Outcome(FALSE, k \ gone)
  BY DEF DeleteOutcomes
<1>5. QED BY <1>2, <1>3, <1>4

\* A Delete that cannot fail removes what it is asked to.
LEMMA SureDelete ==
    ASSUME NEW k, NEW ms, NEW o \in DeleteOutcomes(k, ms, FALSE)
    PROVE  o.kernel = k \ ms
<1>1. o.ok
  BY DEF DeleteOutcomes
<1>2. QED BY <1>1, DeleteOutcomeIs

-----------------------------------------------------------------------------
(***************************************************************************)
(* Every rule of the kernel has an owner.  The rules a step may delete are *)
(* told from those it must not by what adoption has still to look at, and  *)
(* by the flights between Add and the table.                               *)
(***************************************************************************)
KernelOwned ==
    proc # "down" =>
        \A m \in kernel :
            \/ m \in unlisted
            \/ table[m[2]] = m[1]
            \/ m \in stale
            \/ flight[m[2]].pc = "set" /\ flight[m[2]].fake = m[1]

SetInKernel == \A r \in Reals : flight[r].pc = "set" => <<flight[r].fake, r>> \in kernel

Adopting ==
    /\ unlisted \subseteq kernel
    /\ proc # "adopting" => unlisted = {}
    /\ \A r \in InTable : <<table[r], r>> \notin unlisted
    /\ proc = "adopting" => \A f \in Fakes \ fresh : \E r \in InTable : table[r] = f

\* A batch is released only after its rules are gone, and they do not come back.
ReleasedGone == cleaner = "release" => stale \intersect kernel = {}

Rules == TableInKernel /\ DnatUnambiguous /\ KernelOwned /\ SetInKernel /\ Adopting /\ ReleasedGone

\* Before adoption every rule of the kernel is one that a former process has left.
LEMMA RulesInit == Init => Rules
BY DEF Init, Rules, TableInKernel, DnatUnambiguous, KernelOwned, SetInKernel, Adopting, ReleasedGone,
       InTable, NoFlight, Flight

\* A step that leaves alone all that Rules speaks of, but for flights that are not at "set".
LEMMA RulesUnchanged ==
    ASSUME Rules, UNCHANGED <<proc, unlisted, table, fresh, kernel, stale, cleaner>>,
           \A r \in Reals : /\ flight'[r].pc = "set" <=> flight[r].pc = "set"
                            /\ flight[r].pc = "set" => flight'[r].fake = flight[r].fake,
           kernel \subseteq Pairs
    PROVE  Rules'
BY DEF Rules, TableInKernel, DnatUnambiguous, KernelOwned, SetInKernel, Adopting, ReleasedGone,
       InTable, Pairs

\* Every step keeps rules and owners in step.
LEMMA RulesStep ==
    ASSUME AdoptionDeletes, Shape, Ownership, Rules, [Next]_vars
    PROVE  Rules'
<1> USE DEF procVars, poolVars, tableVars, cleanVars
<1>t. /\ fresh \subseteq Fakes /\ None \notin Fakes \union ForeignFakes
      /\ table \in [Reals -> FakeOrNone]
      /\ DOMAIN flight = Reals
      /\ kernel \subseteq Pairs /\ unlisted \subseteq Pairs /\ stale \subseteq Fakes \X Reals
      /\ Fakes \intersect ForeignFakes = {}
      /\ FlightOK /\ BeforeUp
  BY MapperAssumption DEF Shape, TypeOK
<1>1. CASE Crash
  BY <1>1, <1>t DEF Crash, NoFlight, Flight, InTable,
       Rules, TableInKernel, DnatUnambiguous, KernelOwned, SetInKernel, Adopting, ReleasedGone
<1>2. CASE Start
  <2>1. InTable = {} /\ InTable' = {} /\ fresh = Fakes /\ cleaner = "idle"
    BY <1>2, <1>t DEF Start, InTable, BeforeUp
  <2>2. /\ proc' = "adopting" /\ unlisted' = kernel
        /\ UNCHANGED <<fresh, table, kernel, flight, stale, cleaner>>
    BY <1>2 DEF Start
  <2>3. TableInKernel' /\ DnatUnambiguous' /\ SetInKernel' /\ ReleasedGone'
    BY <2>1, <2>2 DEF Rules, TableInKernel, DnatUnambiguous, SetInKernel, ReleasedGone
  <2>4. KernelOwned' /\ Adopting'
    BY <2>1, <2>2 DEF KernelOwned, Adopting
  <2>5. QED BY <2>3, <2>4 DEF Rules
<1>3. ASSUME NEW m \in unlisted, AdoptKeep(m)
      PROVE  Rules'
  <2>1. /\ proc = "adopting" /\ m \in kernel /\ m[1] \in fresh /\ table[m[2]] = None
        /\ m[1] \in Fakes /\ m[2] \in Reals /\ m = <<m[1], m[2]>>
        /\ unlisted' = unlisted \ {m} /\ fresh' = fresh \ {m[1]}
        /\ table' = [table EXCEPT ![m[2]] = m[1]]
        /\ UNCHANGED <<proc, kernel, flight, stale, cleaner>>
    BY <1>3, <1>t DEF AdoptKeep, Adoptable, Rules, Adopting, Pairs
  <2>2. /\ InTable' = InTable \union {m[2]} /\ m[2] \notin InTable
        /\ table'[m[2]] = m[1] /\ \A r \in InTable : table'[r] = table[r]
    BY <1>t, <2>1 DEF InTable
  <2>3. TableInKernel' /\ DnatUnambiguous' /\ SetInKernel' /\ ReleasedGone'
    BY <2>1, <2>2 DEF Rules, TableInKernel, DnatUnambiguous, SetInKernel, ReleasedGone
  <2>4. KernelOwned'
    <3>1. SUFFICES ASSUME NEW n \in kernel, n # m
                   PROVE  n \in unlisted' \/ table'[n[2]] = n[1]
      BY <2>1, <2>2 DEF KernelOwned
    <3>2. n \in unlisted \/ table[n[2]] = n[1]
      BY <1>t, <2>1 DEF Rules, KernelOwned, BeforeUp, FlightOK, Pairs
    <3>3. n \in Pairs /\ n[2] \in Reals /\ n[1] # None
      BY <1>t DEF Pairs
    <3>4. QED BY <2>1, <2>2, <3>1, <3>2, <3>3 DEF InTable
  <2>5. Adopting'
    BY <1>t, <2>1, <2>2 DEF Rules, Adopting, DnatUnambiguous, TableInKernel
  <2>6. QED BY <2>3, <2>4, <2>5 DEF Rules
<1>4. ASSUME NEW m \in unlisted, AdoptDrop(m)
      PROVE  Rules'
  <2>1. /\ kernel' = kernel \ {m} /\ unlisted' = unlisted \ {m}
        /\ UNCHANGED <<proc, fresh, table, flight, stale, cleaner>>
        /\ proc = "adopting" /\ InTable' = InTable
    <3>1. PICK o \in DeleteOutcomes(kernel, {m}, FALSE) : kernel' = o.kernel
      BY <1>4 DEF AdoptDrop, AdoptionDeletes
    <3>2. o.kernel = kernel \ {m}
      BY SureDelete
    <3>3. QED BY <1>4, <3>1, <3>2 DEF AdoptDrop, InTable
  <2>2. \A r \in Reals : flight[r].pc # "set"
    BY <1>t, <2>1 DEF FlightOK
  <2>3. TableInKernel'
    BY <2>1 DEF Rules, TableInKernel, Adopting
  <2>4. DnatUnambiguous' /\ SetInKernel' /\ ReleasedGone' /\ KernelOwned'
    BY <2>1, <2>2 DEF Rules, DnatUnambiguous, SetInKernel, ReleasedGone, KernelOwned
  <2>5. Adopting'
    BY <2>1 DEF Rules, Adopting
  <2>6. QED BY <2>3, <2>4, <2>5 DEF Rules
<1>5. CASE AdoptDone
  <2>1. UNCHANGED <<unlisted, table, fresh, kernel, flight, stale, cleaner>> /\ InTable' = InTable
        /\ proc = "adopting" /\ proc' = "up" /\ unlisted = {}
    BY <1>5 DEF AdoptDone, InTable
  <2>2. QED
    BY <2>1 DEF Rules, TableInKernel, DnatUnambiguous, KernelOwned, SetInKernel, Adopting, ReleasedGone
<1>6. ASSUME NEW c \in Callers, NEW r \in Reals, MapHit(c, r) \/ MapMiss(c, r)
      PROVE  Rules'
  BY <1>6, <1>t, RulesUnchanged DEF MapHit, MapMiss
<1>7. ASSUME NEW c \in Callers, MapDo(c)
      PROVE  Rules'
  <2>1. \A r \in Reals : /\ flight'[r].pc = "set" <=> flight[r].pc = "set"
                         /\ flight[r].pc = "set" => flight'[r].fake = flight[r].fake
    BY <1>7, <1>t DEF MapDo, Flight
  <2>2. QED BY <1>7, <1>t, <2>1, RulesUnchanged DEF MapDo
<1>8. ASSUME NEW c \in Callers, Deliver(c)
      PROVE  Rules'
  BY <1>8, <1>t, RulesUnchanged DEF Deliver
<1>9. ASSUME NEW r \in Reals,
             FlightHit(r) \/ FlightMiss(r) \/ FlightNoFreeIPs(r) \/ FlightReturn(r)
                \/ FlightAllocateQueued(r) \/ FlightUndo(r)
      PROVE  Rules'
  <2>1. \A s \in Reals : /\ flight'[s].pc = "set" <=> flight[s].pc = "set"
                         /\ flight[s].pc = "set" => flight'[s].fake = flight[s].fake
    BY <1>9, <1>t DEF FlightHit, FlightMiss, FlightNoFreeIPs, FlightReturn, FlightAllocateQueued, FlightUndo,
                      Flight, NoFlight
  <2>2. UNCHANGED <<proc, unlisted, table, fresh, kernel, stale, cleaner>>
    BY <1>9 DEF FlightHit, FlightMiss, FlightNoFreeIPs, FlightReturn, FlightAllocateQueued, FlightUndo
  <2>3. QED BY <1>t, <2>1, <2>2, RulesUnchanged
<1>10. ASSUME NEW r \in Reals, NEW f \in Fakes, FlightAllocateFresh(r, f)
       PROVE  Rules'
  <2>1. \A s \in Reals : /\ flight'[s].pc = "set" <=> flight[s].pc = "set"
                         /\ flight[s].pc = "set" => flight'[s].fake = flight[s].fake
    BY <1>10, <1>t DEF FlightAllocateFresh, Flight
  <2>2. UNCHANGED <<proc, unlisted, table, kernel, stale, cleaner>> /\ proc = "up" /\ InTable' = InTable
    BY <1>10, <1>t DEF FlightAllocateFresh, FlightOK, InTable
  <2>3. QED
    BY <1>t, <2>1, <2>2
       DEF Rules, TableInKernel, DnatUnambiguous, KernelOwned, SetInKernel, Adopting, ReleasedGone, Pairs
<1>11. ASSUME NEW r \in Reals, FlightAdd(r)
       PROVE  Rules'
  <2> DEFINE f == flight[r].fake
  <2>1. /\ f \in Fakes /\ r \in InFlight /\ flight[r].pc = "add" /\ proc = "up" /\ unlisted = {}
        /\ UNCHANGED <<proc, unlisted, table, fresh, stale, cleaner>> /\ InTable' = InTable
    BY <1>11, <1>t DEF FlightAdd, FlightOK, InFlight, Rules, Adopting, InTable
  <2>2. PICK o \in AddOutcomes(kernel, <<f, r>>, AddFails) :
          /\ kernel' = o.kernel
          /\ flight' = [flight EXCEPT ![r] = Flight(IF o.ok THEN "set" ELSE "undo", f, 0)]
    BY <1>11 DEF FlightAdd
  <2>3. \A s \in Reals \ {r} : flight'[s] = flight[s]
    BY <1>t, <2>2
  <2>4. CASE ~o.ok
    <3>1. kernel' = kernel /\ flight'[r].pc = "undo"
      BY <1>t, <2>2, <2>4, AddOutcomeIs DEF Flight
    <3>2. QED BY <1>t, <2>1, <2>3, <3>1, RulesUnchanged
  <2>5. CASE o.ok
    <3>1. kernel' = kernel \union {<<f, r>>} /\ flight'[r].pc = "set" /\ flight'[r].fake = f
      BY <1>t, <2>2, <2>5, AddOutcomeIs DEF Flight
    <3>2. ASSUME NEW m \in kernel, m[1] = f
          PROVE  FALSE
      <4>1. m[2] \in Reals /\ m = <<m[1], m[2]>>
        BY <1>t DEF Pairs
      <4>2. \/ table[m[2]] = f
            \/ m \in stale
            \/ flight[m[2]].pc = "set" /\ flight[m[2]].fake = f
        BY <2>1, <3>2 DEF Rules, KernelOwned
      <4>3. table[m[2]] = f => m[2] \in InTable
        BY <1>t, <2>1, <4>1 DEF InTable
      <4>4. flight[m[2]].pc = "set" => m[2] \in InFlight /\ m[2] # r
        BY <2>1, <4>1 DEF InFlight
      <4>5. QED BY <2>1, <3>2, <4>2, <4>3, <4>4 DEF Ownership, OneOwner
    <3>3. TableInKernel' /\ DnatUnambiguous' /\ SetInKernel' /\ Adopting'
      BY <2>1, <2>3, <3>1, <3>2 DEF Rules, TableInKernel, DnatUnambiguous, SetInKernel, Adopting
    <3>4. ReleasedGone'
      BY <2>1, <3>1 DEF Rules, ReleasedGone, Ownership, OneOwner
    <3>5. KernelOwned'
      BY <1>t, <2>1, <2>3, <3>1 DEF Rules, KernelOwned, Pairs
    <3>6. QED BY <3>3, <3>4, <3>5 DEF Rules
  <2>6. QED BY <2>4, <2>5
<1>12. ASSUME NEW r \in Reals, FlightSet(r)
       PROVE  Rules'
  <2>1. /\ flight[r].pc = "set" /\ flight[r].fake \in Fakes /\ table[r] = None /\ proc = "up" /\ unlisted = {}
        /\ UNCHANGED <<proc, unlisted, fresh, kernel, stale, cleaner>>
        /\ table' = [table EXCEPT ![r] = flight[r].fake]
        /\ flight'[r].pc = "return" /\ \A s \in Reals \ {r} : flight'[s] = flight[s]
    BY <1>12, <1>t DEF FlightSet, FlightOK, Rules, Adopting, Flight
  <2>2. /\ InTable' = InTable \union {r} /\ table'[r] = flight[r].fake
        /\ \A s \in Reals \ {r} : table'[s] = table[s]
    BY <1>t, <2>1 DEF InTable
  <2>3. TableInKernel' /\ DnatUnambiguous' /\ SetInKernel' /\ Adopting' /\ ReleasedGone'
    BY <2>1, <2>2 DEF Rules, TableInKernel, DnatUnambiguous, SetInKernel, Adopting, ReleasedGone, InTable
  <2>4. KernelOwned'
    <3>1. ASSUME NEW m \in kernel
          PROVE  table'[m[2]] = m[1] \/ m \in stale \/ (flight'[m[2]].pc = "set" /\ flight'[m[2]].fake = m[1])
      <4>1. m[2] \in Reals /\ m[1] # None
        BY <1>t DEF Pairs
      <4>2. QED BY <2>1, <2>2, <4>1 DEF Rules, KernelOwned
    <3>2. QED BY <2>1, <3>1 DEF KernelOwned
  <2>5. QED BY <2>3, <2>4 DEF Rules
<1>13. CASE CleanExpire
  <2>1. /\ InTable' = InTable \ Expired /\ Expired \subseteq InTable
        /\ \A s \in Reals \ Expired : table'[s] = table[s]
        /\ stale' = stale \union {<<table[r], r>> : r \in Expired}
        /\ UNCHANGED <<proc, unlisted, fresh, kernel, flight>>
        /\ proc = "up" /\ unlisted = {} /\ cleaner' = "delete"
    BY <1>13, <1>t DEF CleanExpire, InTable, Expired, Rules, Adopting
  <2>2. TableInKernel' /\ DnatUnambiguous' /\ SetInKernel' /\ Adopting' /\ ReleasedGone'
    BY <2>1 DEF Rules, TableInKernel, DnatUnambiguous, SetInKernel, Adopting, ReleasedGone, InTable
  <2>3. KernelOwned'
    <3>1. ASSUME NEW m \in kernel
          PROVE  table'[m[2]] = m[1] \/ m \in stale' \/ (flight[m[2]].pc = "set" /\ flight[m[2]].fake = m[1])
      <4>1. m[2] \in Reals /\ m = <<m[1], m[2]>>
        BY <1>t DEF Pairs
      <4>2. CASE m[2] \in Expired /\ table[m[2]] = m[1]
        <5>1. m \in {<<table[r], r>> : r \in Expired}
          BY <4>1, <4>2
        <5>2. QED BY <2>1, <5>1
      <4>3. CASE m[2] \notin Expired /\ table[m[2]] = m[1]
        BY <2>1, <4>1, <4>3
      <4>4. CASE m \in stale \/ (flight[m[2]].pc = "set" /\ flight[m[2]].fake = m[1])
        BY <2>1, <4>4
      <4>5. QED BY <2>1, <4>2, <4>3, <4>4 DEF Rules, KernelOwned
    <3>2. QED BY <2>1, <3>1 DEF KernelOwned
  <2>4. QED BY <2>2, <2>3 DEF Rules
<1>14. ASSUME NEW ok \in BOOLEAN, CleanDelete(ok)
       PROVE  Rules'
  <2>1. PICK o \in DeleteOutcomes(kernel, stale, CleanFails) : o.ok = ok /\ kernel' = o.kernel
    BY <1>14 DEF CleanDelete
  <2>2. /\ kernel' \subseteq kernel
        /\ \A m \in kernel : m \in stale \/ m \in kernel'
        /\ ok => kernel' = kernel \ stale
    <3>1. /\ o.kernel \subseteq kernel
          /\ \A m \in kernel : m \in stale \/ m \in o.kernel
          /\ o.ok => o.kernel = kernel \ stale
      BY ONLY <2>1, DeleteOutcomeIs
    <3>2. QED BY <2>1, <3>1
  <2>3. /\ UNCHANGED <<proc, unlisted, table, fresh, flight, stale>> /\ InTable' = InTable
        /\ proc = "up" /\ unlisted = {}
        /\ cleaner' = "release" => ok
    BY <1>14, <1>t DEF CleanDelete, InTable, BeforeUp, Rules, Adopting
  <2>4. \A r \in InTable : <<table[r], r>> \notin stale
    BY DEF Ownership, OneOwner
  <2>5. \A r \in Reals : flight[r].pc = "set" => <<flight[r].fake, r>> \notin stale
    BY DEF Ownership, OneOwner, InFlight
  <2>6. TableInKernel' /\ DnatUnambiguous' /\ SetInKernel' /\ Adopting' /\ ReleasedGone' /\ KernelOwned'
    BY <2>2, <2>3, <2>4, <2>5
       DEF Rules, TableInKernel, DnatUnambiguous, SetInKernel, Adopting, ReleasedGone, KernelOwned
  <2>7. QED BY <2>6 DEF Rules
<1>15. ASSUME NEW p \in stale, CleanRelease(p)
       PROVE  Rules'
  <2>1. /\ stale' = stale \ {p} /\ p \notin kernel /\ cleaner = "release"
        /\ UNCHANGED <<proc, unlisted, table, fresh, kernel, flight>> /\ InTable' = InTable
    BY <1>15 DEF CleanRelease, InTable, Rules, ReleasedGone
  <2>2. QED
    BY <2>1 DEF Rules, TableInKernel, DnatUnambiguous, SetInKernel, Adopting, ReleasedGone, KernelOwned
<1>16. CASE Tick
  <2>1. \A r \in Reals : /\ flight'[r].pc = "set" <=> flight[r].pc = "set"
                         /\ flight[r].pc = "set" => flight'[r].fake = flight[r].fake
    BY <1>16, <1>t DEF Tick, Flight
  <2>2. QED BY <1>16, <1>t, <2>1, RulesUnchanged DEF Tick
<1>17. CASE UNCHANGED vars
  BY <1>17, <1>t, RulesUnchanged DEF vars
<1>18. QED
  BY <1>1, <1>2, <1>3, <1>4, <1>5, <1>6, <1>7, <1>8, <1>9, <1>10, <1>11, <1>12, <1>13, <1>14,
     <1>15, <1>16, <1>17
     DEF Next, Adoption, Handler, Fly, Clean

\* The rules need no assumption on crashes: adoption takes over whatever it finds.
THEOREM RulesKept ==
    ASSUME AdoptionDeletes
    PROVE  Spec => [](Shape /\ Ownership /\ Rules)
<1>1. Init => Shape /\ Ownership /\ Rules
  BY ShapeInit, OwnershipInit, RulesInit
<1>2. Shape /\ Ownership /\ Rules /\ [Next]_vars => (Shape /\ Ownership /\ Rules)'
  BY ShapeStep, OwnershipStep, RulesStep
<1>3. QED BY <1>1, <1>2, PTL DEF Spec

\* ipmap.go:60-88, 110-124: where adopt's Delete does not fail, a fake leads to one real
\* address, through errors of Add and Clean and crashes at any point.
THEOREM OneTarget ==
    ASSUME AdoptionDeletes
    PROVE  Spec => []DnatUnambiguous
<1>1. Rules => DnatUnambiguous
  BY DEF Rules
<1>2. QED BY RulesKept, <1>1, PTL

\* ipmap.go:110-114, 145-152: an entry of the table has its rule, from before it can be
\* answered until it has left the table.
THEOREM EntriesServed ==
    ASSUME AdoptionDeletes
    PROVE  Spec => []TableInKernel
<1>1. Rules => TableInKernel
  BY DEF Rules
<1>2. QED BY RulesKept, <1>1, PTL

\* ipmap.go:60-152: once adoption is over every rule has an owner that will delete it.
THEOREM EveryRuleOwned ==
    ASSUME AdoptionDeletes
    PROVE  Spec => []NoOrphans
<1>1. Shape /\ Rules => NoOrphans
  BY DEF Rules, Adopting, KernelOwned, NoOrphans
<1>2. QED BY RulesKept, <1>1, PTL

-----------------------------------------------------------------------------
(***************************************************************************)
(* Leases.  While the process is up a leased pair is an entry of the table *)
(* that expires no earlier than the lease.  While it is not, the leased    *)
(* rule is the only one of its real address, so adoption takes it over.    *)
(***************************************************************************)
Backed ==
    \A p \in Pairs :
        lease[p] > 0 =>
            /\ p[1] \in Fakes
            /\ p \in kernel
            /\ proc # "down" => p \in unlisted \/ (table[p[2]] = p[1] /\ age[p[2]] + lease[p] <= TTL)
            /\ proc # "up" => \A m \in kernel : m[2] = p[2] => m = p

\* An answer on its way is not older than its entry allows.
AnswersFresh ==
    /\ \A c \in Callers : call[c].pc = "answer" =>
            table[call[c].real] = call[c].fake /\ age[call[c].real] <= call[c].wait
    /\ \A r \in Reals : flight[r].pc = "return" /\ flight[r].fake # None =>
            table[r] = flight[r].fake /\ age[r] <= flight[r].wait

Leases == Backed /\ AnswersFresh

\* At first no client has an answer.
LEMMA LeasesInit == Init => Leases
BY DEF Init, Leases, Backed, AnswersFresh, NoFlight, Flight, Idle, Call

\* Every step keeps what a client may still use within what its mapping has left.
LEMMA LeasesStep ==
    ASSUME AdoptionDeletes, CrashesSettled, Shape, Ownership, Rules, Leases, [Next]_vars
    PROVE  Leases'
<1> USE DEF procVars, poolVars, tableVars, cleanVars
<1>t. /\ fresh \subseteq Fakes /\ None \notin Fakes \union ForeignFakes
      /\ table \in [Reals -> FakeOrNone] /\ age \in [Reals -> 0..TTL]
      /\ lease \in [Pairs -> 0..LeaseTTL]
      /\ DOMAIN flight = Reals /\ DOMAIN call = Callers
      /\ \A c \in Callers : call[c].wait \in 0..Slack
      /\ \A r \in Reals : flight[r].wait \in 0..Slack /\ flight[r].fake \in FakeOrNone
      /\ kernel \subseteq Pairs /\ unlisted \subseteq kernel /\ (proc # "adopting" => unlisted = {})
      /\ FlightOK /\ BeforeUp /\ CallOK
      /\ TTL \in Nat /\ LeaseTTL \in Nat /\ Slack \in Nat /\ LeaseTTL > 0 /\ LeaseTTL + Slack <= TTL
  BY MapperAssumption DEF Shape, TypeOK, Rules, Adopting
<1>1. CASE Crash
  <2>1. /\ UNCHANGED <<kernel, lease>> /\ proc' = "down" /\ proc # "down"
        /\ stale = {} \/ proc # "up"
        /\ \A c \in Callers : call'[c].pc = "idle"
        /\ \A r \in Reals : flight'[r].pc = "none"
    BY <1>1, <1>t DEF Crash, MayCrash, CrashesSettled, BeforeUp, NoFlight, Flight, Idle, Call
  <2>2. ASSUME NEW p \in Pairs, lease[p] > 0, NEW m \in kernel, m[2] = p[2]
        PROVE  m = p
    <3>1. CASE proc # "up"
      BY <2>2, <3>1 DEF Leases, Backed
    <3>2. CASE proc = "up"
      <4>1. table[p[2]] = p[1] /\ p[1] \in Fakes /\ p[2] \in Reals /\ p = <<p[1], p[2]>> /\ m = <<m[1], m[2]>>
        BY <1>t, <2>1, <2>2, <3>2 DEF Leases, Backed, Pairs
      <4>2. table[m[2]] = m[1] \/ flight[m[2]].pc = "set"
        BY <1>t, <2>1, <3>2 DEF Rules, KernelOwned
      <4>3. QED BY <1>t, <2>2, <4>1, <4>2 DEF FlightOK
    <3>3. QED BY <3>1, <3>2
  <2>3. QED BY <2>1, <2>2 DEF Leases, Backed, AnswersFresh
<1>2. CASE Start
  BY <1>2, <1>t DEF Start, Leases, Backed, AnswersFresh
<1>3. ASSUME NEW m \in unlisted, AdoptKeep(m)
      PROVE  Leases'
  <2>1. /\ proc = "adopting" /\ m[1] \in Fakes /\ m[2] \in Reals /\ m = <<m[1], m[2]>>
        /\ unlisted' = unlisted \ {m} /\ table[m[2]] = None
        /\ table' = [table EXCEPT ![m[2]] = m[1]] /\ age' = [age EXCEPT ![m[2]] = 0]
        /\ UNCHANGED <<proc, kernel, flight, call, lease>>
    BY <1>3, <1>t DEF AdoptKeep, Adoptable, Pairs
  <2>2. /\ table'[m[2]] = m[1] /\ age'[m[2]] = 0
        /\ \A r \in Reals \ {m[2]} : table'[r] = table[r] /\ age'[r] = age[r]
    BY <1>t, <2>1
  <2>3. ASSUME NEW p \in Pairs, lease[p] > 0
        PROVE  p \in unlisted' \/ (table'[p[2]] = p[1] /\ age'[p[2]] + lease[p] <= TTL)
    <3>1. p[1] \in Fakes /\ p[2] \in Reals /\ lease[p] \in 0..LeaseTTL
      BY <1>t, <2>3 DEF Leases, Backed, Pairs
    <3>2. p \in unlisted \/ (table[p[2]] = p[1] /\ age[p[2]] + lease[p] <= TTL)
      BY <2>1, <2>3 DEF Leases, Backed
    <3>3. CASE p = m
      BY <1>t, <2>2, <3>1, <3>3
    <3>4. CASE p # m /\ p \in unlisted
      BY <2>1, <3>4
    <3>5. CASE table[p[2]] = p[1] /\ age[p[2]] + lease[p] <= TTL
      BY <1>t, <2>1, <2>2, <3>1, <3>5
    <3>6. QED BY <3>2, <3>3, <3>4, <3>5
  <2>4. Backed'
    BY <2>1, <2>3 DEF Leases, Backed
  <2>5. AnswersFresh'
    BY <1>t, <2>1 DEF AnswersFresh, BeforeUp, FlightOK
  <2>6. QED BY <2>4, <2>5 DEF Leases
<1>4. ASSUME NEW m \in unlisted, AdoptDrop(m)
      PROVE  Leases'
  <2>1. /\ kernel' = kernel \ {m} /\ unlisted' = unlisted \ {m} /\ proc = "adopting"
        /\ UNCHANGED <<proc, table, age, flight, call, lease>>
        /\ ~Adoptable(m) /\ m \in Pairs /\ m \in kernel /\ m[2] \in Reals
    <3>1. PICK o \in DeleteOutcomes(kernel, {m}, FALSE) : kernel' = o.kernel
      BY <1>4 DEF AdoptDrop, AdoptionDeletes
    <3>2. o.kernel = kernel \ {m}
      BY SureDelete
    <3>3. QED BY <1>4, <1>t, <3>1, <3>2 DEF AdoptDrop, Pairs
  <2>2. ASSUME lease[m] > 0
        PROVE  FALSE
    <3>1. m[1] \in Fakes /\ \A n \in kernel : n[2] = m[2] => n = m
      BY <2>1, <2>2 DEF Leases, Backed
    <3>2. \A r \in InTable : <<table[r], r>> \in kernel \ {m}
      BY DEF Rules, TableInKernel, Adopting
    <3>3. CASE table[m[2]] # None
      <4>1. m[2] \in InTable
        BY <2>1, <3>3 DEF InTable
      <4>2. QED BY <3>1, <3>2, <4>1
    <3>4. CASE m[1] \notin fresh
      <4>1. PICK r \in InTable : table[r] = m[1]
        BY <2>1, <3>1, <3>4 DEF Rules, Adopting
      <4>2. <<table[r], r>> = m
        BY <2>1, <3>2, <4>1 DEF Rules, DnatUnambiguous
      <4>3. QED BY <3>2, <4>2
    <3>5. QED BY <2>1, <3>3, <3>4 DEF Adoptable
  <2>3. Backed'
    BY <2>1, <2>2 DEF Leases, Backed
  <2>4. QED BY <2>1, <2>3 DEF Leases, AnswersFresh
<1>5. CASE AdoptDone
  BY <1>5, <1>t DEF AdoptDone, Leases, Backed, AnswersFresh
<1>6. ASSUME NEW c \in Callers, NEW r \in Reals, MapHit(c, r)
      PROVE  Leases'
  <2>1. /\ table[r] # None /\ age' = [age EXCEPT ![r] = 0] /\ proc = "up"
        /\ call' = [call EXCEPT ![c] = Call("answer", r, table[r], 0)]
        /\ UNCHANGED <<proc, unlisted, table, kernel, flight, lease>>
    BY <1>6 DEF MapHit
  <2>2. Backed'
    BY <1>t, <2>1 DEF Leases, Backed, Pairs
  <2>3. AnswersFresh'
    BY <1>t, <2>1 DEF Leases, AnswersFresh, Call, CallOK
  <2>4. QED BY <2>2, <2>3 DEF Leases
<1>7. ASSUME NEW c \in Callers, NEW r \in Reals, MapMiss(c, r)
      PROVE  Leases'
  BY <1>7, <1>t DEF MapMiss, Leases, Backed, AnswersFresh, Call
<1>8. ASSUME NEW c \in Callers, MapDo(c)
      PROVE  Leases'
  BY <1>8, <1>t DEF MapDo, Leases, Backed, AnswersFresh, Call, Flight
<1>9. ASSUME NEW c \in Callers, Deliver(c)
      PROVE  Leases'
  <2> DEFINE f == call[c].fake
             r == call[c].real
  <2>1. /\ call[c].pc = "answer" /\ call'[c].pc = "idle"
        /\ \A d \in Callers \ {c} : call'[d] = call[d]
        /\ \/ lease' = [lease EXCEPT ![<<f, r>>] = LeaseTTL]
           \/ lease' = lease
        /\ UNCHANGED <<proc, unlisted, table, age, kernel, flight>>
    BY <1>9, <1>t DEF Deliver, Idle, Call
  <2>2. /\ proc = "up" /\ f \in Fakes /\ r \in Reals /\ <<f, r>> \in Pairs
        /\ table[r] = f /\ age[r] + LeaseTTL <= TTL
    <3>1. r \in Reals /\ f # None
      BY <1>t, <2>1 DEF CallOK
    <3>2. proc = "up"
      BY <1>t, <2>1 DEF BeforeUp
    <3>3. table[r] = f /\ age[r] <= call[c].wait
      BY <2>1 DEF Leases, AnswersFresh
    <3>4. age[r] \in 0..TTL /\ call[c].wait \in 0..Slack /\ f \in Fakes
      BY <1>t, <3>1, <3>3 DEF FakeOrNone
    <3>5. age[r] + LeaseTTL <= TTL
      BY <1>t, <3>3, <3>4
    <3>6. QED BY <3>1, <3>2, <3>3, <3>4, <3>5 DEF Pairs
  <2>3. <<f, r>> \in kernel
    BY <1>t, <2>2 DEF Rules, TableInKernel, InTable
  <2>4. Backed'
    <3>1. ASSUME NEW p \in Pairs, lease'[p] > 0
          PROVE  p[1] \in Fakes /\ p \in kernel /\ table[p[2]] = p[1] /\ age[p[2]] + lease'[p] <= TTL
      <4>1. CASE p = <<f, r>> /\ lease'[p] = LeaseTTL
        BY <2>2, <2>3, <4>1
      <4>2. CASE lease'[p] = lease[p]
        BY <1>t, <2>2, <3>1, <4>2 DEF Leases, Backed
      <4>3. QED BY <1>t, <2>1, <2>2, <4>1, <4>2
    <3>2. QED BY <2>1, <2>2, <3>1 DEF Backed
  <2>5. AnswersFresh'
    BY <2>1 DEF Leases, AnswersFresh
  <2>6. QED BY <2>4, <2>5 DEF Leases
<1>10. ASSUME NEW r \in Reals, FlightHit(r)
       PROVE  Leases'
  <2>1. /\ table[r] # None /\ age' = [age EXCEPT ![r] = 0] /\ proc = "up"
        /\ flight' = [flight EXCEPT ![r] = Flight("return", table[r], 0)]
        /\ UNCHANGED <<proc, unlisted, table, kernel, call, lease>>
    BY <1>10, <1>t DEF FlightHit, FlightOK
  <2>2. Backed'
    BY <1>t, <2>1 DEF Leases, Backed, Pairs
  <2>3. AnswersFresh'
    BY <1>t, <2>1 DEF Leases, AnswersFresh, Flight, CallOK
  <2>4. QED BY <2>2, <2>3 DEF Leases
<1>11. ASSUME NEW r \in Reals,
              FlightMiss(r) \/ FlightAllocateQueued(r) \/ FlightNoFreeIPs(r) \/ FlightUndo(r)
                \/ \E f \in Fakes : FlightAllocateFresh(r, f)
       PROVE  Leases'
  <2>1. /\ UNCHANGED <<proc, unlisted, table, age, kernel, call, lease>>
        /\ \A s \in Reals \ {r} : flight'[s] = flight[s]
        /\ flight'[r].pc = "return" => flight'[r].fake = None
    BY <1>11, <1>t
       DEF FlightMiss, FlightAllocateQueued, FlightNoFreeIPs, FlightUndo, FlightAllocateFresh, Flight
  <2>2. QED BY <2>1 DEF Leases, Backed, AnswersFresh
<1>12. ASSUME NEW r \in Reals, FlightAdd(r)
       PROVE  Leases'
  <2>1. /\ UNCHANGED <<proc, unlisted, table, age, call, lease>> /\ proc = "up"
        /\ \A s \in Reals \ {r} : flight'[s] = flight[s]
        /\ flight'[r].pc # "return"
    BY <1>12, <1>t DEF FlightAdd, Flight, FlightOK
  <2>2. kernel \subseteq kernel'
    BY <1>12, AddOutcomeIs DEF FlightAdd
  <2>3. QED BY <2>1, <2>2 DEF Leases, Backed, AnswersFresh
<1>13. ASSUME NEW r \in Reals, FlightSet(r)
       PROVE  Leases'
  <2>1. /\ flight[r].fake \in Fakes /\ table[r] = None /\ proc = "up" /\ unlisted = {}
        /\ UNCHANGED <<proc, unlisted, kernel, call, lease>>
        /\ table'[r] = flight[r].fake /\ age'[r] = 0
        /\ \A s \in Reals \ {r} : table'[s] = table[s] /\ age'[s] = age[s]
        /\ flight'[r].pc = "return" /\ flight'[r].fake = flight[r].fake /\ flight'[r].wait = 0
        /\ \A s \in Reals \ {r} : flight'[s] = flight[s]
    BY <1>13, <1>t DEF FlightSet, FlightOK, Flight
  <2>2. Backed'
    <3>1. ASSUME NEW p \in Pairs, lease[p] > 0
          PROVE  p[2] \in Reals \ {r}
      BY <1>t, <2>1, <3>1 DEF Leases, Backed, Pairs
    <3>2. QED BY <2>1, <3>1 DEF Leases, Backed
  <2>3. AnswersFresh'
    <3>1. ASSUME NEW c \in Callers, call[c].pc = "answer"
          PROVE  call[c].real \in Reals \ {r}
      BY <1>t, <2>1, <3>1 DEF Leases, AnswersFresh, CallOK
    <3>2. QED BY <2>1, <3>1 DEF Leases, AnswersFresh
  <2>4. QED BY <2>2, <2>3 DEF Leases
<1>14. ASSUME NEW r \in Reals, FlightReturn(r)
       PROVE  Leases'
  <2>1. /\ flight[r].pc = "return" /\ flight'[r].pc = "none"
        /\ \A s \in Reals \ {r} : flight'[s] = flight[s]
        /\ UNCHANGED <<proc, unlisted, table, age, kernel, lease>>
        /\ \A c \in Callers :
             \/ call'[c] = call[c]
             \/ call'[c].pc = "idle"
             \/ flight[r].fake # None /\ call'[c] = Call("answer", r, flight[r].fake, flight[r].wait)
    BY <1>14, <1>t DEF FlightReturn, Idle, Call, NoFlight, Flight
  <2>2. QED BY <2>1 DEF Leases, Backed, AnswersFresh, Call
<1>15. CASE CleanExpire
  <2>1. /\ \A r \in Reals \ Expired : table'[r] = table[r] /\ age'[r] = age[r]
        /\ UNCHANGED <<proc, unlisted, kernel, flight, call, lease>>
        /\ proc = "up" /\ unlisted = {}
        /\ \A r \in Expired : age[r] >= TTL
    BY <1>15, <1>t DEF CleanExpire, Expired
  <2>2. ASSUME NEW p \in Pairs, lease[p] > 0
        PROVE  p[2] \in Reals \ Expired
    BY <1>t, <2>1, <2>2 DEF Leases, Backed, Pairs
  <2>3. ASSUME NEW c \in Callers, call[c].pc = "answer"
        PROVE  call[c].real \in Reals \ Expired
    BY <1>t, <2>1, <2>3 DEF Leases, AnswersFresh, CallOK
  <2>4. ASSUME NEW r \in Reals, flight[r].pc = "return", flight[r].fake # None
        PROVE  r \notin Expired
    BY <1>t, <2>1, <2>4 DEF Leases, AnswersFresh
  <2>5. QED BY <2>1, <2>2, <2>3, <2>4 DEF Leases, Backed, AnswersFresh
<1>16. ASSUME NEW ok \in BOOLEAN, CleanDelete(ok)
       PROVE  Leases'
  <2>1. PICK o \in DeleteOutcomes(kernel, stale, CleanFails) : kernel' = o.kernel
    BY <1>16 DEF CleanDelete
  <2>2. \A m \in kernel : m \in stale \/ m \in kernel'
    BY ONLY <2>1, DeleteOutcomeIs
  <2>3. /\ UNCHANGED <<proc, unlisted, table, age, flight, call, lease>>
        /\ proc = "up" /\ unlisted = {}
    BY <1>16, <1>t DEF CleanDelete, BeforeUp
  <2>4. ASSUME NEW p \in Pairs, lease[p] > 0
        PROVE  p \in kernel'
    <3>1. p[2] \in Reals /\ p[1] \in Fakes /\ table[p[2]] = p[1] /\ p \in kernel
      BY <1>t, <2>3, <2>4 DEF Leases, Backed, Pairs
    <3>2. p \notin stale
      BY <1>t, <3>1 DEF Ownership, OneOwner, InTable
    <3>3. QED BY <2>2, <3>1, <3>2
  <2>5. QED BY <2>3, <2>4 DEF Leases, Backed, AnswersFresh
<1>17. ASSUME NEW p \in stale, CleanRelease(p)
       PROVE  Leases'
  BY <1>17 DEF CleanRelease, Leases, Backed, AnswersFresh
<1>18. CASE Tick
  <2>1. /\ UNCHANGED <<proc, unlisted, table, kernel>>
        /\ \A r \in Reals : age'[r] <= age[r] + 1 /\ age'[r] \in 0..TTL
        /\ \A p \in Pairs : lease'[p] > 0 => lease'[p] = lease[p] - 1 /\ lease[p] > 0
    BY <1>18, <1>t DEF Tick
  <2>2. /\ \A c \in Callers : call'[c].pc = "answer" =>
               /\ call[c].pc = "answer" /\ call'[c].real = call[c].real /\ call'[c].fake = call[c].fake
               /\ call'[c].wait = call[c].wait + 1
        /\ \A r \in Reals : flight'[r].pc = "return" /\ flight'[r].fake # None =>
               /\ flight[r].pc = "return" /\ flight'[r].fake = flight[r].fake
               /\ flight'[r].wait = flight[r].wait + 1
    BY <1>18, <1>t DEF Tick, Call, Flight
  <2>3. Backed'
    <3>1. ASSUME NEW p \in Pairs, lease'[p] > 0, table[p[2]] = p[1], age[p[2]] + lease[p] <= TTL
          PROVE  age'[p[2]] + lease'[p] <= TTL
      <4>1. p[2] \in Reals
        BY DEF Pairs
      <4>2. QED BY <1>t, <2>1, <3>1, <4>1
    <3>2. QED BY <1>t, <2>1, <3>1 DEF Leases, Backed
  <2>4. AnswersFresh'
    BY <1>t, <2>1, <2>2 DEF Leases, AnswersFresh, CallOK
  <2>5. QED BY <2>3, <2>4 DEF Leases
<1>19. CASE UNCHANGED vars
  BY <1>19 DEF vars, Leases, Backed, AnswersFresh
<1>20. QED
  BY <1>1, <1>2, <1>3, <1>4, <1>5, <1>6, <1>7, <1>8, <1>9, <1>10, <1>11, <1>12, <1>13, <1>14,
     <1>15, <1>16, <1>17, <1>18, <1>19
     DEF Next, Adoption, Handler, Fly, Clean

\* As long as a client may use an answer, the fake in it leads to the real address
\* it stood for and to no other: across expiry, reuse of the fake, errors of Add
\* and Clean, and restarts (README.md:54-58, 200-201).
THEOREM ClientsKeepTheirAnswers ==
    ASSUME AdoptionDeletes, CrashesSettled
    PROVE  Spec => []LeaseHonoured
<1>1. Init => Shape /\ Ownership /\ Rules /\ Leases
  BY ShapeInit, OwnershipInit, RulesInit, LeasesInit
<1>2. Shape /\ Ownership /\ Rules /\ Leases /\ [Next]_vars => (Shape /\ Ownership /\ Rules /\ Leases)'
  BY ShapeStep, OwnershipStep, RulesStep, LeasesStep
<1>3. Shape /\ Rules /\ Leases => LeaseHonoured
  BY DEF Rules, DnatUnambiguous, Leases, Backed, LeaseHonoured
<1>4. QED BY <1>1, <1>2, <1>3, PTL DEF Spec
=============================================================================
