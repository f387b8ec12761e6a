------------------------------ MODULE IPMapper ------------------------------
(***************************************************************************)
(* The mapper of real addresses to fake ones (src/server/mapper/ipmap.go,  *)
(* table.go) with the actors that run on it at the same time: the DNS      *)
(* handlers calling Map, the single-flight calls that do the work of a     *)
(* miss, the cleaner goroutine calling Clean, the kernel that holds the    *)
(* DNAT rules, the clients whose caches hold answers, and crashes of the   *)
(* process.  Each action is what runs between two points where another     *)
(* goroutine can step in: a lock, a firewall call, a wait.                 *)
(*                                                                         *)
(* Time goes in ticks.  An entry's age is the time since lastSeen; a       *)
(* client may use an answer for LeaseTTL ticks (dns_handler.go sets the    *)
(* record's TTL to 0.8 of the mapping TTL), and an answer takes at most    *)
(* Slack ticks from the table to the client.                               *)
(***************************************************************************)
EXTENDS Naturals, Sequences, FiniteSets, Functions, Firewall

CONSTANTS
    Fakes,          \* addresses of the fake CIDR
    ForeignFakes,   \* addresses outside it that a former configuration used
    Reals,          \* real IPv4 addresses
    Callers,        \* DNS handler goroutines
    None,
    TTL,            \* firewall TTL
    LeaseTTL,       \* TTL of the answers
    Slack,          \* longest way of an answer to its client
    AddFails,       \* Add may report an error
    CleanFails,     \* Delete may report an error in Clean
    AdoptFails,     \* Delete may report an error in adopt
    CrashWhen       \* when the process may die

ASSUME MapperAssumption ==
    /\ Fakes \intersect ForeignFakes = {}
    /\ None \notin Fakes \union ForeignFakes
    /\ TTL \in Nat /\ LeaseTTL \in Nat /\ Slack \in Nat
    /\ LeaseTTL > 0
    /\ LeaseTTL + Slack <= TTL
    /\ {AddFails, CleanFails, AdoptFails} \subseteq BOOLEAN
    /\ CrashWhen \in {"never", "settled", "any"}

VARIABLES
    proc,           \* life of the process
    unlisted,       \* mappings List returned that adopt has not looked at
    fresh, queue,   \* the pool, see FakePool
    table,          \* mappingTable: real -> fake
    age,            \* ticks since the entry's lastSeen, at most TTL
    kernel,         \* DNAT rules installed
    flight,         \* the single-flight call of each real
    call,           \* what each handler is doing
    stale,          \* pairs taken from the table, still to be deleted and released
    cleaner,        \* where Clean stands
    lease           \* how long some client may still use the fake for the real

poolVars == <<fresh, queue>>
tableVars == <<table, age>>
procVars == <<proc, unlisted>>
cleanVars == <<stale, cleaner>>
vars == <<proc, unlisted, fresh, queue, table, age, kernel, flight, call, stale, cleaner, lease>>

Pairs == (Fakes \union ForeignFakes) \X Reals
FakeOrNone == Fakes \union {None}

Flight(pc, fake, wait) == [pc |-> pc, fake |-> fake, wait |-> wait]
NoFlight == Flight("none", None, 0)

Call(pc, real, fake, wait) == [pc |-> pc, real |-> real, fake |-> fake, wait |-> wait]
Idle == Call("idle", None, None, 0)

TypeOK ==
    /\ proc \in {"down", "adopting", "up"}
    /\ unlisted \subseteq Pairs
    /\ fresh \subseteq Fakes
    /\ queue \in Seq(Fakes)
    /\ table \in [Reals -> FakeOrNone]
    /\ age \in [Reals -> 0..TTL]
    /\ kernel \subseteq Pairs
    /\ flight \in [Reals -> [pc : {"none", "check", "allocate", "add", "undo", "set", "return"},
                             fake : FakeOrNone, wait : 0..Slack]]
    /\ call \in [Callers -> [pc : {"idle", "do", "wait", "answer"},
                             real : Reals \union {None}, fake : FakeOrNone, wait : 0..Slack]]
    /\ stale \subseteq Fakes \X Reals
    /\ cleaner \in {"idle", "delete", "release"}
    /\ lease \in [Pairs -> 0..LeaseTTL]

-----------------------------------------------------------------------------
(* A new process has nothing in memory. *)

Init ==
    /\ proc = "down"
    /\ unlisted = {}
    /\ fresh = Fakes
    /\ queue = <<>>
    /\ table = [r \in Reals |-> None]
    /\ age = [r \in Reals |-> 0]
    /\ kernel \in {k \in SUBSET Pairs : \A m, n \in k : m[1] = n[1] => m = n}
    /\ flight = [r \in Reals |-> NoFlight]
    /\ call = [c \in Callers |-> Idle]
    /\ stale = {}
    /\ cleaner = "idle"
    /\ lease = [p \in Pairs |-> 0]

MayCrash ==
    \/ CrashWhen = "any"
    \/ CrashWhen = "settled" /\ stale = {}

\* Memory is lost; the kernel's rules and the clients' caches are not.
Crash ==
    /\ MayCrash
    /\ proc # "down"
    /\ proc' = "down"
    /\ unlisted' = {}
    /\ fresh' = Fakes
    /\ queue' = <<>>
    /\ table' = [r \in Reals |-> None]
    /\ age' = [r \in Reals |-> 0]
    /\ flight' = [r \in Reals |-> NoFlight]
    /\ call' = [c \in Callers |-> Idle]
    /\ stale' = {}
    /\ cleaner' = "idle"
    /\ UNCHANGED <<kernel, lease>>

\* NewIPMapper; if List fails there is no process.
Start ==
    /\ proc = "down"
    /\ proc' = "adopting"
    /\ unlisted' = kernel
    /\ UNCHANGED <<poolVars, tableVars, kernel, flight, call, cleanVars, lease>>

\* The test adopt makes of a listed mapping; an adopted address is no longer fresh.
Adoptable(m) ==
    /\ m[1] \in fresh
    /\ table[m[2]] = None

AdoptKeep(m) ==
    /\ proc = "adopting"
    /\ Adoptable(m)
    /\ unlisted' = unlisted \ {m}
    /\ fresh' = fresh \ {m[1]}
    /\ table' = [table EXCEPT ![m[2]] = m[1]]
    /\ age' = [age EXCEPT ![m[2]] = 0]
    /\ UNCHANGED <<proc, queue, kernel, flight, call, cleanVars, lease>>

\* An error of this Delete is only logged.
AdoptDrop(m) ==
    /\ proc = "adopting"
    /\ ~Adoptable(m)
    /\ unlisted' = unlisted \ {m}
    /\ \E o \in DeleteOutcomes(kernel, {m}, AdoptFails) : kernel' = o.kernel
    /\ UNCHANGED <<proc, poolVars, tableVars, flight, call, cleanVars, lease>>

AdoptDone ==
    /\ proc = "adopting"
    /\ unlisted = {}
    /\ proc' = "up"
    /\ UNCHANGED <<unlisted, poolVars, tableVars, kernel, flight, call, cleanVars, lease>>

-----------------------------------------------------------------------------
(* Map, in the handler's goroutine. *)

\* Mutation: a hit does not renew lastSeen.
MapHitNotSeen(c, r) ==
    /\ proc = "up"
    /\ call[c].pc = "idle"
    /\ table[r] # None
    /\ call' = [call EXCEPT ![c] = Call("answer", r, table[r], 0)]
    /\ UNCHANGED <<procVars, poolVars, tableVars, kernel, flight, cleanVars, lease>>

MapHit(c, r) ==
    /\ proc = "up"
    /\ call[c].pc = "idle"
    /\ table[r] # None
    /\ age' = [age EXCEPT ![r] = 0]
    /\ call' = [call EXCEPT ![c] = Call("answer", r, table[r], 0)]
    /\ UNCHANGED <<procVars, poolVars, table, kernel, flight, cleanVars, lease>>

MapMiss(c, r) ==
    /\ proc = "up"
    /\ call[c].pc = "idle"
    /\ table[r] = None
    /\ call' = [call EXCEPT ![c] = Call("do", r, None, 0)]
    /\ UNCHANGED <<procVars, poolVars, tableVars, kernel, flight, cleanVars, lease>>

\* sf.Do joins the flight of the same real, or opens one.
MapDo(c) ==
    /\ call[c].pc = "do"
    /\ call' = [call EXCEPT ![c] = Call("wait", call[c].real, None, 0)]
    /\ LET r == call[c].real
       IN  flight' = IF flight[r].pc = "none"
                     THEN [flight EXCEPT ![r] = Flight("check", None, 0)]
                     ELSE flight
    /\ UNCHANGED <<procVars, poolVars, tableVars, kernel, cleanVars, lease>>

\* The answer reaches the client, which may keep it for LeaseTTL, or is lost.
Deliver(c) ==
    /\ call[c].pc = "answer"
    /\ call' = [call EXCEPT ![c] = Idle]
    /\ \/ lease' = [lease EXCEPT ![<<call[c].fake, call[c].real>>] = LeaseTTL]
       \/ UNCHANGED lease
    /\ UNCHANGED <<procVars, poolVars, tableVars, kernel, flight, cleanVars>>

-----------------------------------------------------------------------------
(* The function sf.Do runs once for all the handlers that wait for r. *)

FlightHit(r) ==
    /\ flight[r].pc = "check"
    /\ table[r] # None
    /\ age' = [age EXCEPT ![r] = 0]
    /\ flight' = [flight EXCEPT ![r] = Flight("return", table[r], 0)]
    /\ UNCHANGED <<procVars, poolVars, table, kernel, call, cleanVars, lease>>

\* Mutation: the table is not looked at again inside the flight.
FlightMissUnchecked(r) ==
    /\ flight[r].pc = "check"
    /\ flight' = [flight EXCEPT ![r] = Flight("allocate", None, 0)]
    /\ UNCHANGED <<procVars, poolVars, tableVars, kernel, call, cleanVars, lease>>

FlightMiss(r) ==
    /\ flight[r].pc = "check"
    /\ table[r] = None
    /\ flight' = [flight EXCEPT ![r] = Flight("allocate", None, 0)]
    /\ UNCHANGED <<procVars, poolVars, tableVars, kernel, call, cleanVars, lease>>

FlightAllocateQueued(r) ==
    /\ flight[r].pc = "allocate"
    /\ queue # <<>>
    /\ queue' = Tail(queue)
    /\ flight' = [flight EXCEPT ![r] = Flight("add", Head(queue), 0)]
    /\ UNCHANGED <<procVars, fresh, tableVars, kernel, call, cleanVars, lease>>

FlightAllocateFresh(r, f) ==
    /\ flight[r].pc = "allocate"
    /\ queue = <<>>
    /\ f \in fresh
    /\ fresh' = fresh \ {f}
    /\ flight' = [flight EXCEPT ![r] = Flight("add", f, 0)]
    /\ UNCHANGED <<procVars, queue, tableVars, kernel, call, cleanVars, lease>>

\* Mutation: the result "no free IPs" is not looked at.
FlightNoFreeIPsIgnored(r) ==
    /\ flight[r].pc = "allocate"
    /\ queue = <<>>
    /\ fresh = {}
    /\ flight' = [flight EXCEPT ![r] = Flight("add", None, 0)]
    /\ UNCHANGED <<procVars, poolVars, tableVars, kernel, call, cleanVars, lease>>

FlightNoFreeIPs(r) ==
    /\ flight[r].pc = "allocate"
    /\ queue = <<>>
    /\ fresh = {}
    /\ flight' = [flight EXCEPT ![r] = Flight("return", None, 0)]
    /\ UNCHANGED <<procVars, poolVars, tableVars, kernel, call, cleanVars, lease>>

FlightAdd(r) ==
    /\ flight[r].pc = "add"
    /\ \E o \in AddOutcomes(kernel, <<flight[r].fake, r>>, AddFails) :
        /\ kernel' = o.kernel
        /\ flight' = [flight EXCEPT ![r] =
                        Flight(IF o.ok THEN "set" ELSE "undo", flight[r].fake, 0)]
    /\ UNCHANGED <<procVars, poolVars, tableVars, call, cleanVars, lease>>

\* Mutation: no return after the release.
FlightUndoGoesOn(r) ==
    /\ flight[r].pc = "undo"
    /\ queue' = Append(queue, flight[r].fake)
    /\ flight' = [flight EXCEPT ![r] = Flight("set", flight[r].fake, 0)]
    /\ UNCHANGED <<procVars, fresh, tableVars, kernel, call, cleanVars, lease>>

FlightUndo(r) ==
    /\ flight[r].pc = "undo"
    /\ queue' = Append(queue, flight[r].fake)
    /\ flight' = [flight EXCEPT ![r] = Flight("return", None, 0)]
    /\ UNCHANGED <<procVars, fresh, tableVars, kernel, call, cleanVars, lease>>

FlightSet(r) ==
    /\ flight[r].pc = "set"
    /\ table' = [table EXCEPT ![r] = flight[r].fake]
    /\ age' = [age EXCEPT ![r] = 0]
    /\ flight' = [flight EXCEPT ![r] = Flight("return", flight[r].fake, 0)]
    /\ UNCHANGED <<procVars, poolVars, kernel, call, cleanVars, lease>>

\* Mutation: only a success wakes those that joined the flight.
FlightReturnOnSuccess(r) ==
    /\ flight[r].pc = "return"
    /\ flight' = [flight EXCEPT ![r] = NoFlight]
    /\ call' = [c \in Callers |->
                  IF call[c].pc = "wait" /\ call[c].real = r /\ flight[r].fake # None
                  THEN Call("answer", r, flight[r].fake, flight[r].wait)
                  ELSE call[c]]
    /\ UNCHANGED <<procVars, poolVars, tableVars, kernel, cleanVars, lease>>

\* The flight is closed and all that wait for it get its result.
FlightReturn(r) ==
    /\ flight[r].pc = "return"
    /\ flight' = [flight EXCEPT ![r] = NoFlight]
    /\ call' = [c \in Callers |->
                  IF call[c].pc = "wait" /\ call[c].real = r
                  THEN IF flight[r].fake = None
                       THEN Idle
                       ELSE Call("answer", r, flight[r].fake, flight[r].wait)
                  ELSE call[c]]
    /\ UNCHANGED <<procVars, poolVars, tableVars, kernel, cleanVars, lease>>

-----------------------------------------------------------------------------
(* Clean: m.pending and the expired entries are one batch. *)

Expired == {r \in Reals : table[r] # None /\ age[r] >= TTL}

\* Mutation: the expired entries are collected but stay in the table.
CleanExpireKeeping ==
    /\ proc = "up"
    /\ cleaner = "idle"
    /\ stale' = stale \union {<<table[r], r>> : r \in Expired}
    /\ stale' # {}
    /\ cleaner' = "delete"
    /\ UNCHANGED <<procVars, poolVars, tableVars, kernel, flight, call, lease>>

CleanExpire ==
    /\ proc = "up"
    /\ cleaner = "idle"
    /\ stale' = stale \union {<<table[r], r>> : r \in Expired}
    /\ stale' # {}
    /\ table' = [r \in Reals |-> IF r \in Expired THEN None ELSE table[r]]
    /\ age' = [r \in Reals |-> IF r \in Expired THEN 0 ELSE age[r]]
    /\ cleaner' = "delete"
    /\ UNCHANGED <<procVars, poolVars, kernel, flight, call, lease>>

\* Mutation: the batch is released though the firewall reported an error.
CleanDeleteRegardless(ok) ==
    /\ cleaner = "delete"
    /\ \E o \in DeleteOutcomes(kernel, stale, CleanFails) :
        /\ o.ok = ok
        /\ kernel' = o.kernel
    /\ cleaner' = "release"
    /\ UNCHANGED <<procVars, poolVars, tableVars, flight, call, stale, lease>>

\* Mutation: after an error the batch is forgotten, not kept pending.
CleanDeleteForgets(ok) ==
    /\ cleaner = "delete"
    /\ \E o \in DeleteOutcomes(kernel, stale, CleanFails) :
        /\ o.ok = ok
        /\ kernel' = o.kernel
    /\ cleaner' = IF ok THEN "release" ELSE "idle"
    /\ stale' = IF ok THEN stale ELSE {}
    /\ UNCHANGED <<procVars, poolVars, tableVars, flight, call, lease>>

\* On an error the whole batch stays pending for the next Clean.
CleanDelete(ok) ==
    /\ cleaner = "delete"
    /\ \E o \in DeleteOutcomes(kernel, stale, CleanFails) :
        /\ o.ok = ok
        /\ kernel' = o.kernel
    /\ cleaner' = IF ok THEN "release" ELSE "idle"
    /\ UNCHANGED <<procVars, poolVars, tableVars, flight, call, stale, lease>>

\* Mutation: the entry leaves the batch without its address going to the pool.
CleanReleaseLosing(p) ==
    /\ cleaner = "release"
    /\ p \in stale
    /\ stale' = stale \ {p}
    /\ cleaner' = IF stale' = {} THEN "idle" ELSE "release"
    /\ UNCHANGED <<procVars, poolVars, tableVars, kernel, flight, call, lease>>

CleanRelease(p) ==
    /\ cleaner = "release"
    /\ p \in stale
    /\ stale' = stale \ {p}
    /\ queue' = Append(queue, p[1])
    /\ cleaner' = IF stale' = {} THEN "idle" ELSE "release"
    /\ UNCHANGED <<procVars, fresh, tableVars, kernel, flight, call, lease>>

-----------------------------------------------------------------------------
\* No answer may be on its way for longer than Slack.
Tick ==
    /\ \A c \in Callers : call[c].pc = "answer" => call[c].wait < Slack
    /\ \A r \in Reals : flight[r].pc = "return" => flight[r].wait < Slack
    /\ age' = [r \in Reals |-> IF table[r] # None /\ age[r] < TTL THEN age[r] + 1 ELSE age[r]]
    /\ lease' = [p \in Pairs |-> IF lease[p] > 0 THEN lease[p] - 1 ELSE 0]
    /\ call' = [c \in Callers |->
                  IF call[c].pc = "answer"
                  THEN Call("answer", call[c].real, call[c].fake, call[c].wait + 1)
                  ELSE call[c]]
    /\ flight' = [r \in Reals |->
                    IF flight[r].pc = "return" /\ flight[r].fake # None
                    THEN Flight("return", flight[r].fake, flight[r].wait + 1)
                    ELSE flight[r]]
    /\ UNCHANGED <<procVars, poolVars, table, kernel, cleanVars>>

Adoption == (\E m \in unlisted : AdoptKeep(m) \/ AdoptDrop(m)) \/ AdoptDone

Handler(c) == MapDo(c) \/ Deliver(c)

Fly(r) ==
    \/ FlightHit(r) \/ FlightMiss(r)
    \/ FlightAllocateQueued(r) \/ FlightNoFreeIPs(r)
    \/ \E f \in Fakes : FlightAllocateFresh(r, f)
    \/ FlightAdd(r) \/ FlightUndo(r) \/ FlightSet(r) \/ FlightReturn(r)

Clean ==
    \/ CleanExpire
    \/ \E ok \in BOOLEAN : CleanDelete(ok)
    \/ \E p \in stale : CleanRelease(p)

Next ==
    \/ Crash \/ Start \/ Adoption
    \/ \E c \in Callers : Handler(c) \/ \E r \in Reals : MapHit(c, r) \/ MapMiss(c, r)
    \/ \E r \in Reals : Fly(r)
    \/ Clean
    \/ Tick

Spec == Init /\ [][Next]_vars

\* Goroutines run, time passes, and a Delete tried again and again succeeds at last.
Fairness ==
    /\ WF_vars(Start) /\ WF_vars(Adoption) /\ WF_vars(Tick) /\ WF_vars(Clean)
    /\ SF_vars(CleanDelete(TRUE))
    /\ \A c \in Callers : WF_vars(Handler(c))
    /\ \A r \in Reals : WF_vars(Fly(r))

FairSpec == Spec /\ Fairness

-----------------------------------------------------------------------------
InTable == {r \in Reals : table[r] # None}
InFlight == {r \in Reals : flight[r].pc \in {"add", "undo", "set"}}
Held == {table[r] : r \in InTable} \union {flight[r].fake : r \in InFlight} \union {p[1] : p \in stale}

\* ipmap.go:94-152.  Whatever the handlers, the flights, the cleaner and adoption
\* do at once, two owners never hold one fake: neither two entries of the
\* table, nor an entry and a flight, nor an entry and a batch being torn down.
OneOwner ==
    /\ \A r, s \in InTable : table[r] = table[s] => r = s
    /\ \A r, s \in InFlight : flight[r].fake = flight[s].fake => r = s
    /\ \A p, q \in stale : p[1] = q[1] => p = q
    /\ \A r \in InTable, s \in InFlight : table[r] # flight[s].fake
    /\ \A r \in InTable, p \in stale : table[r] # p[1]
    /\ \A r \in InFlight, p \in stale : flight[r].fake # p[1]

\* ipmap.go:60-87, 106-114, 135-154.  A fake the pool can issue is owned by
\* nobody, and no fake is lost, through restarts too: the mapper uses the pool
\* as FakePool prescribes, with all it holds as the addresses that are out.
Pool == INSTANCE FakePool WITH out <- Held

RefinesFakePool == Pool!Spec

\* README.md:35-36, 46-48.  A fake leads to one real address, always.
DnatUnambiguous == \A m, n \in kernel : m[1] = n[1] => m = n

\* ipmap.go:110-114, 145-152.  A rule is in the kernel before its mapping can be
\* answered, and until its mapping has left the table.
TableInKernel == \A r \in InTable : <<table[r], r>> \in kernel

\* ipmap_test.go:64.  Once adoption is over every rule in the kernel has an owner
\* that will delete it some day: none is orphaned by an error of Add or Delete,
\* by the race of a miss with the cleaner, or by a change of the fake CIDR.
NoOrphans ==
    proc = "up" =>
        \A m \in kernel :
            \/ table[m[2]] = m[1]
            \/ m \in stale
            \/ flight[m[2]].pc = "set" /\ flight[m[2]].fake = m[1]

\* README.md:54-58, 200-201.  As long as a client may use an answer the fake in it
\* leads to the real address it stood for, and to no other, across expiry,
\* reuse of the fake and restarts.
LeaseHonoured ==
    \A p \in Pairs : lease[p] > 0 => {m \in kernel : m[1] = p[1]} = {p}

\* ipmap.go:89-124.  Every call of Map returns.
CallsReturn == \A c \in Callers : call[c].pc # "idle" ~> call[c].pc = "idle"

\* ipmap.go:126-154.  If the process stays up and queries stop, every rule is removed
\* at last, a former process's too, and every fake is free again, however often
\* Delete fails before it succeeds.
PoolDrains ==
    <>[](proc # "down" /\ \A c \in Callers : call[c].pc = "idle") => <>[](kernel = {} /\ Held = {})
=============================================================================
