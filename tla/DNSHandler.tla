------------------------------ MODULE DNSHandler ------------------------------
(***************************************************************************)
(* A query from its arrival to its reply (src/server/dns_handler.go,       *)
(* answer.go): the router's decision, the cache of responses with its      *)
(* single-flight calls (src/server/cache/cache.go), the upstreams tried    *)
(* one after the other (src/server/resolver), and the rewriting of the     *)
(* response for the client.  The decision is taken first and used last;    *)
(* in between the router may be rebuilt, and other handlers wait for the   *)
(* same flight.  Since a rebuilt matcher may be published between any two  *)
(* lookups, a lookup may answer any action: what it answers is Router and  *)
(* Matcher.                                                                *)
(*                                                                         *)
(* A response is abstracted to its rcode, the addresses of its A records   *)
(* in Answer and Extra, whether anything of it would let the client        *)
(* bypass those (AAAA, the hints of HTTPS and SVCB, dohpath), the TC bit   *)
(* and the lifetime setByKey computes from its records, None if there is   *)
(* none.  Whether Map succeeds for an address is left open here; IPMapper  *)
(* has the details.                                                        *)
(***************************************************************************)
EXTENDS Naturals, FiniteSets

CONSTANTS
    Names,          \* names that are asked for, of one type and class
    Callers,        \* DNS handler goroutines
    None,
    NUpstreams,
    Healthy,        \* upstreams that never fail
    Responses,      \* what an upstream may answer
    Reals,          \* addresses in the responses
    Capacity,       \* of the cache
    MinTTL, MaxTTL  \* limits of a cached lifetime

ASSUME HandlerAssumption ==
    /\ NUpstreams \in Nat \ {0}
    /\ Healthy \subseteq 0..(NUpstreams - 1)
    /\ Capacity \in Nat \ {0}
    /\ MinTTL \in Nat \ {0} /\ MaxTTL \in Nat /\ MinTTL <= MaxTTL
    /\ None \notin Responses \union Nat
    /\ Responses \subseteq [rcode : {"success", "nxdomain", "servfail"}, addrs : SUBSET Reals,
                            bypass : BOOLEAN, tc : BOOLEAN, ttl : Nat \union {None}]

VARIABLES
    cached,         \* the cache: a response and the ticks it has left
    next,           \* Resolver.next, modulo the number of upstreams
    flight,         \* the single-flight call of each question
    call            \* what each handler is doing

\* A name that normalises to nothing has no key: it is a question of its caller's own.
Questions == Names \union Callers

vars == <<cached, next, flight, call>>

Actions == {"pass", "blackhole", "remap", "nxdomain"}

\* filterAnswer, on Answer and Extra.
filterAnswer(msg) == [msg EXCEPT !.bypass = FALSE]

Filtered == {filterAnswer(msg) : msg \in Responses}
MsgOrNone == Filtered \union {None}

ASSUME NoMsgAssumption == None \notin Filtered

Flight(pc, start, i, expired, msg) ==
    [pc |-> pc, start |-> start, i |-> i, expired |-> expired, msg |-> msg]
NoFlight == Flight("none", 0, 0, FALSE, None)

\* Addresses as the client gets them: as they are, mapped, or the sinkhole's.
Given == {"real", "fake", "sink"} \X Reals
Reply(rcode, given, bypass) == [rcode |-> rcode, given |-> given, bypass |-> bypass]

Call(pc, name, act, msg, reply) ==
    [pc |-> pc, name |-> name, act |-> act, msg |-> msg, reply |-> reply]
Idle == Call("idle", None, None, None, None)

ReplyMade == [rcode : {"success", "nxdomain", "servfail", "formerr"}, given : SUBSET Given,
              bypass : BOOLEAN]

TypeOK ==
    /\ cached \in [Names -> [msg : Filtered, left : 1..MaxTTL] \union {None}]
    /\ next \in 0..(NUpstreams - 1)
    /\ flight \in [Questions -> [pc : {"none", "try", "store", "return"}, start : 0..(NUpstreams - 1),
                             i : 0..NUpstreams, expired : BOOLEAN, msg : MsgOrNone]]
    /\ call \in [Callers -> [pc : {"idle", "get", "do", "wait", "answer", "reply"},
                             name : Questions \union {None}, act : Actions \union {None},
                             msg : MsgOrNone, reply : ReplyMade \union {None}]]

Init ==
    /\ cached = [n \in Names |-> None]
    /\ next = 0
    /\ flight = [n \in Questions |-> NoFlight]
    /\ call = [c \in Callers |-> Idle]

-----------------------------------------------------------------------------
(* DNSHandler up to the call of the cache. *)

Suppressed(rcode) == Reply(rcode, {}, FALSE)

\* There is not exactly one question.
QueryMalformed(c) ==
    /\ call[c].pc = "idle"
    /\ call' = [call EXCEPT ![c] = Call("reply", None, None, None, Suppressed("formerr"))]
    /\ UNCHANGED <<cached, next, flight>>

\* nxdomain is answered at once.
QuerySuppressed(c, n) ==
    /\ call[c].pc = "idle"
    /\ call' = [call EXCEPT ![c] = Call("reply", n, "nxdomain", None, Suppressed("nxdomain"))]
    /\ UNCHANGED <<cached, next, flight>>

\* AAAA and DDR queries get an empty answer.
QueryNoData(c, n, act) ==
    /\ call[c].pc = "idle"
    /\ act # "nxdomain"
    /\ call' = [call EXCEPT ![c] = Call("reply", n, act, None, Suppressed("success"))]
    /\ UNCHANGED <<cached, next, flight>>

Query(c, n, act) ==
    /\ call[c].pc = "idle"
    /\ act # "nxdomain"
    /\ call' = [call EXCEPT ![c] = Call("get", n, act, None, None)]
    /\ UNCHANGED <<cached, next, flight>>

\* A name without a key is in no list, and passes by cache and single-flight.
QueryUnkeyed(c) ==
    /\ call[c].pc = "idle"
    /\ call' = [call EXCEPT ![c] = Call("do", c, "pass", None, None)]
    /\ UNCHANGED <<cached, next, flight>>

-----------------------------------------------------------------------------
(* GetResponseLambda. *)

CacheHit(c) ==
    /\ call[c].pc = "get"
    /\ cached[call[c].name] # None
    /\ call' = [call EXCEPT ![c].pc = "answer", ![c].msg = cached[call[c].name].msg]
    /\ UNCHANGED <<cached, next, flight>>

CacheMiss(c) ==
    /\ call[c].pc = "get"
    /\ cached[call[c].name] = None
    /\ call' = [call EXCEPT ![c].pc = "do"]
    /\ UNCHANGED <<cached, next, flight>>

JoinFlight(c) ==
    /\ call[c].pc = "do"
    /\ flight[call[c].name].pc # "none"
    /\ call' = [call EXCEPT ![c].pc = "wait"]
    /\ UNCHANGED <<cached, next, flight>>

\* The flight begins with Resolve, which takes its first upstream from the counter.
OpenFlight(c) ==
    /\ call[c].pc = "do"
    /\ flight[call[c].name].pc = "none"
    /\ next' = (next + 1) % NUpstreams
    /\ flight' = [flight EXCEPT ![call[c].name] = Flight("try", next', 0, FALSE, None)]
    /\ call' = [call EXCEPT ![c].pc = "wait"]
    /\ UNCHANGED <<cached>>

-----------------------------------------------------------------------------
(* Resolver.Resolve: each upstream once, as long as the budget lasts. *)

\* Mutation: the end of the list is not wrapped around.
TargetUnwrapped(n) ==
    IF flight[n].start + flight[n].i < NUpstreams THEN flight[n].start + flight[n].i ELSE NUpstreams - 1

Target(n) == (flight[n].start + flight[n].i) % NUpstreams

Trying(n) == flight[n].pc = "try" /\ ~flight[n].expired /\ flight[n].i < NUpstreams

TryFails(n) ==
    /\ Trying(n)
    /\ Target(n) \notin Healthy
    /\ flight' = [flight EXCEPT ![n].i = @ + 1]
    /\ UNCHANGED <<cached, next, call>>

TryAnswers(n) ==
    /\ Trying(n)
    /\ \E msg \in Responses :
        flight' = [flight EXCEPT ![n] = Flight("store", 0, 0, FALSE, filterAnswer(msg))]
    /\ UNCHANGED <<cached, next, call>>

\* request_timeout ends the exchange that is under way.
BudgetExpires(n) ==
    /\ Trying(n)
    /\ flight' = [flight EXCEPT ![n].expired = TRUE]
    /\ UNCHANGED <<cached, next, call>>

ResolveFails(n) ==
    /\ flight[n].pc = "try"
    /\ ~Trying(n)
    /\ flight' = [flight EXCEPT ![n] = Flight("return", 0, 0, flight[n].expired, None)]
    /\ UNCHANGED <<cached, next, call>>

-----------------------------------------------------------------------------
(* setByKey, and the end of the flight. *)

\* Mutation: the rcode is not looked at.
StorableAny(msg) == ~msg.tc /\ msg.ttl # None

Storable(msg) ==
    /\ msg.rcode \in {"success", "nxdomain"}
    /\ ~msg.tc
    /\ msg.ttl # None

\* Mutation: a long lifetime is not cut.
ClampedBelow(ttl) == IF ttl < MinTTL THEN MinTTL ELSE ttl

Clamped(ttl) ==
    IF ttl < MinTTL THEN MinTTL ELSE IF ttl > MaxTTL THEN MaxTTL ELSE ttl

\* A full cache evicts another entry.
Store(n) ==
    /\ flight[n].pc = "store"
    /\ flight' = [flight EXCEPT ![n].pc = "return"]
    /\ LET msg == flight[n].msg
           others == {m \in Names \ {n} : cached[m] # None}
           entry == [msg |-> msg, left |-> Clamped(msg.ttl)]
       IN  IF n \notin Names \/ ~Storable(msg)
           THEN UNCHANGED cached
           ELSE IF cached[n] # None \/ Cardinality(others) < Capacity
           THEN cached' = [cached EXCEPT ![n] = entry]
           ELSE \E m \in others : cached' = [cached EXCEPT ![n] = entry, ![m] = None]
    /\ UNCHANGED <<next, call>>

\* Mutation: those that joined are not told of a failure.
ReturnOnSuccess(n) ==
    /\ flight[n].pc = "return"
    /\ flight' = [flight EXCEPT ![n] = NoFlight]
    /\ call' = [c \in Callers |->
                  IF call[c].pc = "wait" /\ call[c].name = n /\ flight[n].msg # None
                  THEN [call[c] EXCEPT !.pc = "answer", !.msg = flight[n].msg]
                  ELSE call[c]]
    /\ UNCHANGED <<cached, next>>

Return(n) ==
    /\ flight[n].pc = "return"
    /\ flight' = [flight EXCEPT ![n] = NoFlight]
    /\ call' = [c \in Callers |->
                  IF call[c].pc = "wait" /\ call[c].name = n
                  THEN [call[c] EXCEPT !.pc = "answer", !.msg = flight[n].msg]
                  ELSE call[c]]
    /\ UNCHANGED <<cached, next>>

-----------------------------------------------------------------------------
(* The rest of DNSHandler: the reply made from the response. *)

\* Mutation: a record that could not be mapped is passed on as it is.
RemappedLeaking(msg) ==
    {Reply("success", ({"fake"} \X mapped) \union ({"real"} \X (msg.addrs \ mapped)), msg.bypass) :
        mapped \in SUBSET msg.addrs}

\* Map may fail for any of the records; the reply fails if it did for all.
Remapped(msg) ==
    {IF msg.addrs # {} /\ mapped = {}
     THEN Reply("servfail", {}, FALSE)
     ELSE Reply("success", {"fake"} \X mapped, msg.bypass) :
        mapped \in SUBSET msg.addrs}

Replies(msg, act) ==
    IF msg = None THEN {Reply("servfail", {}, FALSE)}
    ELSE IF msg.rcode # "success" THEN {Reply(msg.rcode, {"real"} \X msg.addrs, msg.bypass)}
    ELSE IF act = "remap" THEN Remapped(msg)
    ELSE IF act = "blackhole" THEN {Reply("success", {"sink"} \X msg.addrs, msg.bypass)}
    ELSE {Reply("success", {"real"} \X msg.addrs, msg.bypass)}

MakeReply(c) ==
    /\ call[c].pc = "answer"
    /\ \E reply \in Replies(call[c].msg, call[c].act) :
        call' = [call EXCEPT ![c] = Call("reply", call[c].name, call[c].act, None, reply)]
    /\ UNCHANGED <<cached, next, flight>>

WriteTo(c) ==
    /\ call[c].pc = "reply"
    /\ call' = [call EXCEPT ![c] = Idle]
    /\ UNCHANGED <<cached, next, flight>>

-----------------------------------------------------------------------------
Tick ==
    /\ \E n \in Names : cached[n] # None
    /\ cached' = [n \in Names |->
                    IF cached[n] = None \/ cached[n].left = 1
                    THEN None
                    ELSE [cached[n] EXCEPT !.left = @ - 1]]
    /\ UNCHANGED <<next, flight, call>>

Handler(c) ==
    \/ CacheHit(c) \/ CacheMiss(c) \/ JoinFlight(c) \/ OpenFlight(c)
    \/ MakeReply(c) \/ WriteTo(c)

Fly(n) ==
    \/ TryFails(n) \/ TryAnswers(n) \/ BudgetExpires(n) \/ ResolveFails(n)
    \/ Store(n) \/ Return(n)

Arrive(c) ==
    \/ QueryMalformed(c) \/ QueryUnkeyed(c)
    \/ \E n \in Names :
        \/ QuerySuppressed(c, n)
        \/ \E act \in Actions : QueryNoData(c, n, act) \/ Query(c, n, act)

Next ==
    \/ \E n \in Questions : Fly(n)
    \/ \E c \in Callers : Arrive(c) \/ Handler(c)
    \/ Tick

Spec == Init /\ [][Next]_vars

\* Goroutines run, and an exchange ends: with an answer, an error or the timeout.
Fairness ==
    /\ \A c \in Callers : WF_vars(Handler(c))
    /\ \A n \in Questions : WF_vars(Fly(n))

FairSpec == Spec /\ Fairness

-----------------------------------------------------------------------------
\* dns_handler.go:40-126, README.md:44-53.  What the router decided when the query
\* came in is what the client gets, through cache hits, shared flights, partial
\* failures of Map and reloads: no real address of a name to be remapped or
\* blackholed, and nothing that bypasses the A records.
\* An error reply is passed on with the records it came with.
NothingEscapes ==
    \A c \in Callers : call[c].pc = "reply" =>
        /\ ~call[c].reply.bypass
        /\ call[c].reply.rcode = "success" =>
            \A g \in call[c].reply.given :
                g[1] = (CASE call[c].act = "remap" -> "fake"
                          [] call[c].act = "blackhole" -> "sink"
                          [] OTHER -> "real")

\* resolver.go:77-99, README.md:41-42.  From whatever upstream the counter starts,
\* a flight fails only when its budget is over or none of the upstreams answers.
FallbackReachesAll ==
    \A n \in Questions :
        flight[n].pc = "return" /\ flight[n].msg = None => flight[n].expired \/ Healthy = {}

\* cache.go:122-140.  A failure of an upstream lasts no longer than its reply: the
\* next query for the name, by any handler, is resolved again.
FailuresNotCached ==
    [][\A c \in Callers :
          call[c].pc = "get" /\ call'[c].pc = "answer" => call'[c].msg.rcode # "servfail"]_vars

\* cache.go:83-120.  Every query gets its reply, however its flight ends.
QueriesEnd == \A c \in Callers : call[c].pc # "idle" ~> call[c].pc = "idle"

================================================================================
