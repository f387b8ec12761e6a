----------------------------- MODULE HandlerProofs -----------------------------
(***************************************************************************)
(* The safety of DNSHandler, for any names, handlers, upstreams and        *)
(* responses, any capacity of the cache and any limits of its lifetimes:   *)
(* nothing escapes the router's decision, a failed resolution has asked    *)
(* every upstream, and no failure is answered from the cache.              *)
(***************************************************************************)
EXTENDS DNSHandler, TLAPS

USE HandlerAssumption, NoMsgAssumption

-----------------------------------------------------------------------------
\* TypeOK, by the records it is made of.
EntryType == [msg : Filtered, left : 1..MaxTTL]

FlightType == [pc : {"none", "try", "store", "return"}, start : 0..(NUpstreams - 1),
               i : 0..NUpstreams, expired : BOOLEAN, msg : MsgOrNone]

CallType == [pc : {"idle", "get", "do", "wait", "answer", "reply"},
             name : Questions \union {None}, act : Actions \union {None},
             msg : MsgOrNone, reply : ReplyMade \union {None}]

Types ==
    /\ cached \in [Names -> EntryType \union {None}]
    /\ next \in 0..(NUpstreams - 1)
    /\ flight \in [Questions -> FlightType]
    /\ call \in [Callers -> CallType]

\* dns_handler.go, cache.go, resolver.go: the state is as TypeOK has it when its records are.
LEMMA TypesHold == /\ TypeOK <=> Types
                   /\ TypeOK' <=> Types'
BY DEF TypeOK, Types, EntryType, FlightType, CallType

-----------------------------------------------------------------------------
\* What each program point of a handler, a flight and an entry vouches for.

Handlers ==
    \A c \in Callers :
        /\ call[c].pc = "get" => call[c].name \in Names
        /\ call[c].pc = "do" => call[c].name \in Questions

\* The upstreams that a flight has passed by do not answer.
Flights ==
    \A n \in Questions :
        /\ flight[n].pc = "try" =>
              \A j \in 0..(NUpstreams - 1) :
                 j < flight[n].i => (flight[n].start + j) % NUpstreams \notin Healthy
        /\ flight[n].pc = "store" => flight[n].msg # None

Entries == \A n \in Names : cached[n] # None => cached[n].msg.rcode \in {"success", "nxdomain"}

IInv == TypeOK /\ Handlers /\ Flights /\ Entries /\ NothingEscapes /\ FallbackReachesAll

-----------------------------------------------------------------------------
\* resolver.go:84-91: going round from any upstream meets all of them.
LEMMA RoundMeetsAll ==
    ASSUME NEW start \in 0..(NUpstreams - 1), NEW u \in 0..(NUpstreams - 1)
    PROVE  \E j \in 0..(NUpstreams - 1) : (start + j) % NUpstreams = u
<1>1. CASE u >= start
  <2>1. u - start \in 0..(NUpstreams - 1) /\ start + (u - start) = u
    BY <1>1
  <2>2. u % NUpstreams = u
    OBVIOUS
  <2> QED BY <2>1, <2>2
<1>2. CASE u < start
  <2>1. (u - start) + NUpstreams \in 0..(NUpstreams - 1)
        /\ start + ((u - start) + NUpstreams) = u + NUpstreams
    BY <1>2
  <2>2. (u + NUpstreams) % NUpstreams = u
    OBVIOUS
  <2> QED BY <2>1, <2>2
<1> QED BY <1>1, <1>2

\* answer.go: a filtered response has nothing in it that would bypass the A records.
LEMMA FilteredFields ==
    ASSUME NEW msg \in Filtered
    PROVE  /\ msg.rcode \in {"success", "nxdomain", "servfail"} /\ msg.addrs \in SUBSET Reals
           /\ msg.bypass = FALSE /\ msg.ttl \in Nat \union {None}
BY DEF Filtered, filterAnswer

\* dns_handler.go:98-126: a reply is made of records that fit the decision, in every way
\* that Map may fail.
LEMMA RepliesFit ==
    ASSUME NEW msg \in MsgOrNone, NEW act, NEW reply \in Replies(msg, act)
    PROVE  /\ reply \in ReplyMade
           /\ ~reply.bypass
           /\ reply.rcode = "success" =>
                \A g \in reply.given :
                    g[1] = (CASE act = "remap" -> "fake" [] act = "blackhole" -> "sink" [] OTHER -> "real")
<1>1. Reply("servfail", {}, FALSE) \in ReplyMade
  BY DEF Reply, ReplyMade
<1>2. ASSUME NEW tag \in {"real", "fake", "sink"}, NEW addrs \in SUBSET Reals,
             NEW rcode \in {"success", "nxdomain", "servfail"}
      PROVE  /\ Reply(rcode, {tag} \X addrs, FALSE) \in ReplyMade
             /\ \A g \in {tag} \X addrs : g[1] = tag
  <2>1. {tag} \X addrs \in SUBSET Given
    BY DEF Given
  <2> QED BY <2>1 DEF Reply, ReplyMade
<1>3. CASE msg = None
  <2>1. reply = Reply("servfail", {}, FALSE)
    BY <1>3 DEF Replies
  <2> QED BY <1>1, <2>1 DEF Reply
<1>4. CASE msg # None
  <2>1. msg.rcode \in {"success", "nxdomain", "servfail"} /\ msg.addrs \in SUBSET Reals /\ msg.bypass = FALSE
    BY <1>4, FilteredFields DEF MsgOrNone
  <2>2. CASE msg.rcode # "success"
    <3>1. reply = Reply(msg.rcode, {"real"} \X msg.addrs, FALSE)
      BY <1>4, <2>1, <2>2 DEF Replies
    <3> QED BY <1>2, <2>1, <2>2, <3>1 DEF Reply
  <2>3. CASE msg.rcode = "success" /\ act = "remap"
    <3>1. PICK mapped \in SUBSET msg.addrs :
             \/ reply = Reply("servfail", {}, FALSE)
             \/ reply = Reply("success", {"fake"} \X mapped, FALSE)
      BY <1>4, <2>1, <2>3 DEF Replies, Remapped
    <3>2. mapped \in SUBSET Reals
      BY <2>1
    <3>3. CASE reply = Reply("servfail", {}, FALSE)
      BY <1>1, <3>3 DEF Reply
    <3>4. CASE reply = Reply("success", {"fake"} \X mapped, FALSE)
      BY <1>2, <2>3, <3>2, <3>4 DEF Reply
    <3> QED BY <3>1, <3>3, <3>4
  <2>4. CASE msg.rcode = "success" /\ act = "blackhole"
    <3>1. reply = Reply("success", {"sink"} \X msg.addrs, FALSE)
      BY <1>4, <2>1, <2>4 DEF Replies
    <3> QED BY <1>2, <2>1, <2>4, <3>1 DEF Reply
  <2>5. CASE msg.rcode = "success" /\ act # "remap" /\ act # "blackhole"
    <3>1. reply = Reply("success", {"real"} \X msg.addrs, FALSE)
      BY <1>4, <2>1, <2>5 DEF Replies
    <3> QED BY <1>2, <2>1, <2>5, <3>1 DEF Reply
  <2> QED BY <2>1, <2>2, <2>3, <2>4, <2>5
<1> QED BY <1>3, <1>4

-----------------------------------------------------------------------------
\* Nobody asks, nothing is cached.
LEMMA InitIInv == Init => IInv
<1> SUFFICES ASSUME Init PROVE IInv
  OBVIOUS
<1> USE DEF Init, Idle, Call, NoFlight, Flight
<1>1. TypeOK
  BY DEF TypeOK, MsgOrNone
<1>2. Handlers /\ Flights /\ Entries /\ NothingEscapes /\ FallbackReachesAll
  BY DEF Handlers, Flights, Entries, NothingEscapes, FallbackReachesAll
<1> QED BY <1>1, <1>2 DEF IInv

\* A query that arrives is answered with nothing, or asks for a name that has a key, or
\* passes.
LEMMA ArriveIInv ==
    ASSUME IInv, NEW c \in Callers, Arrive(c)
    PROVE  IInv'
<1> DEFINE Begun(new) ==
        /\ new.pc = "get" => new.name \in Names
        /\ new.pc = "do" => new.name \in Questions
        /\ new.pc \in {"get", "do", "reply"}
        /\ new.pc = "reply" => ~new.reply.bypass /\ new.reply.given = {}
<1>0. Types
  BY TypesHold DEF IInv
<1>1. ASSUME NEW rcode \in {"success", "nxdomain", "formerr"},
             NEW name \in Questions \union {None}, NEW act \in Actions \union {None}
      PROVE  /\ Call("reply", name, act, None, Suppressed(rcode)) \in CallType
             /\ Begun(Call("reply", name, act, None, Suppressed(rcode)))
  <2>1. Suppressed(rcode) \in ReplyMade /\ ~Suppressed(rcode).bypass /\ Suppressed(rcode).given = {}
    BY DEF Suppressed, Reply, ReplyMade
  <2> QED BY <2>1 DEF Call, CallType, MsgOrNone
<1>2. ASSUME NEW new \in CallType, Begun(new), call' = [call EXCEPT ![c] = new],
             UNCHANGED <<cached, next, flight>>
      PROVE  IInv'
  <2>1. TypeOK'
    BY <1>0, <1>2, TypesHold DEF Types
  <2>2. Handlers' /\ NothingEscapes'
    BY <1>2 DEF IInv, TypeOK, Handlers, NothingEscapes
  <2>3. Flights' /\ Entries' /\ FallbackReachesAll'
    BY <1>2 DEF IInv, Flights, Entries, FallbackReachesAll
  <2> QED BY <2>1, <2>2, <2>3 DEF IInv
<1>3. CASE QueryMalformed(c)
  <2>1. Call("reply", None, None, None, Suppressed("formerr")) \in CallType
        /\ Begun(Call("reply", None, None, None, Suppressed("formerr")))
    BY <1>1
  <2> QED BY <1>2, <1>3, <2>1 DEF QueryMalformed
<1>4. CASE QueryUnkeyed(c)
  <2>1. Call("do", c, "pass", None, None) \in CallType /\ Begun(Call("do", c, "pass", None, None))
    BY DEF Call, CallType, MsgOrNone, Questions, Actions
  <2> QED BY <1>2, <1>4, <2>1 DEF QueryUnkeyed
<1>5. ASSUME NEW n \in Names, QuerySuppressed(c, n) PROVE IInv'
  <2>1. n \in Questions /\ "nxdomain" \in Actions
    BY DEF Questions, Actions
  <2>2. Call("reply", n, "nxdomain", None, Suppressed("nxdomain")) \in CallType
        /\ Begun(Call("reply", n, "nxdomain", None, Suppressed("nxdomain")))
    BY <1>1, <2>1
  <2> QED BY <1>2, <1>5, <2>2 DEF QuerySuppressed
<1>6. ASSUME NEW n \in Names, NEW act \in Actions, QueryNoData(c, n, act) PROVE IInv'
  <2>1. n \in Questions
    BY DEF Questions
  <2>2. Call("reply", n, act, None, Suppressed("success")) \in CallType
        /\ Begun(Call("reply", n, act, None, Suppressed("success")))
    BY <1>1, <2>1
  <2> QED BY <1>2, <1>6, <2>2 DEF QueryNoData
<1>7. ASSUME NEW n \in Names, NEW act \in Actions, Query(c, n, act) PROVE IInv'
  <2>1. Call("get", n, act, None, None) \in CallType /\ Begun(Call("get", n, act, None, None))
    BY DEF Call, CallType, MsgOrNone, Questions
  <2> QED BY <1>2, <1>7, <2>1 DEF Query
<1> QED BY <1>3, <1>4, <1>5, <1>6, <1>7 DEF Arrive

\* A handler between its query and its reply.
LEMMA HandlerIInv ==
    ASSUME IInv, NEW c \in Callers, Handler(c)
    PROVE  IInv'
<1> USE DEF IInv, Handlers
<1>0. Types
  BY TypesHold
<1> USE <1>0
<1>1. CASE CacheHit(c)
  <2>1. cached[call[c].name].msg \in Filtered
    BY <1>1 DEF CacheHit, TypeOK
  <2>2. TypeOK'
    <3>1. [call[c] EXCEPT !.pc = "answer", !.msg = cached[call[c].name].msg] \in CallType
      <4>1. call[c] \in CallType /\ cached[call[c].name].msg \in MsgOrNone
        BY <2>1 DEF Types, MsgOrNone
      <4> QED BY <4>1 DEF CallType
    <3>2. call' = [call EXCEPT ![c] = [call[c] EXCEPT !.pc = "answer", !.msg = cached[call[c].name].msg]]
          /\ UNCHANGED <<cached, next, flight>>
      BY <1>1 DEF CacheHit
    <3> QED BY <3>1, <3>2, TypesHold DEF Types
  <2>3. Handlers' /\ NothingEscapes'
    BY <1>1 DEF CacheHit, TypeOK, NothingEscapes
  <2>4. Flights' /\ Entries' /\ FallbackReachesAll'
    BY <1>1 DEF CacheHit, Flights, Entries, FallbackReachesAll
  <2> QED BY <2>2, <2>3, <2>4
<1>2. CASE CacheMiss(c)
  BY <1>2 DEF CacheMiss, Questions, TypeOK, Flights, Entries, NothingEscapes, FallbackReachesAll
<1>3. CASE JoinFlight(c)
  BY <1>3 DEF JoinFlight, TypeOK, Flights, Entries, NothingEscapes, FallbackReachesAll
<1>4. CASE OpenFlight(c)
  <2>1. call[c].name \in Questions /\ next' \in 0..(NUpstreams - 1)
    BY <1>4 DEF OpenFlight, TypeOK
  <2>2. TypeOK'
    <3>1. Flight("try", next', 0, FALSE, None) \in FlightType
      BY <2>1 DEF Flight, FlightType, MsgOrNone
    <3>2. flight' = [flight EXCEPT ![call[c].name] = Flight("try", next', 0, FALSE, None)]
          /\ call' = [call EXCEPT ![c].pc = "wait"] /\ cached' = cached
      BY <1>4 DEF OpenFlight
    <3>3. [call[c] EXCEPT !.pc = "wait"] \in CallType
      BY DEF Types, CallType
    <3> QED BY <2>1, <3>1, <3>2, <3>3, TypesHold DEF Types
  <2>3. Handlers' /\ Entries' /\ NothingEscapes'
    BY <1>4 DEF OpenFlight, TypeOK, Entries, NothingEscapes
  <2>4. Flights' /\ FallbackReachesAll'
    BY <1>4, <2>1 DEF OpenFlight, Flight, TypeOK, Flights, FallbackReachesAll
  <2> QED BY <2>2, <2>3, <2>4
<1>5. CASE MakeReply(c)
  <2>1. call[c].msg \in MsgOrNone
    BY DEF TypeOK
  <2>2. PICK reply \in Replies(call[c].msg, call[c].act) :
           call' = [call EXCEPT ![c] = Call("reply", call[c].name, call[c].act, None, reply)]
    BY <1>5 DEF MakeReply
  <2>3. /\ reply \in ReplyMade
        /\ ~reply.bypass
        /\ reply.rcode = "success" =>
             \A g \in reply.given :
                 g[1] = (CASE call[c].act = "remap" -> "fake"
                           [] call[c].act = "blackhole" -> "sink" [] OTHER -> "real")
    BY <2>1, RepliesFit
  <2>4. UNCHANGED <<cached, next, flight>>
    BY <1>5 DEF MakeReply
  <2>5. TypeOK'
    <3>1. Call("reply", call[c].name, call[c].act, None, reply) \in CallType
      BY <2>3 DEF Types, Call, CallType, MsgOrNone
    <3> QED BY <2>2, <2>4, <3>1, TypesHold DEF Types
  <2>6. NothingEscapes'
    BY <2>2, <2>3 DEF TypeOK, Call, NothingEscapes
  <2>8. Handlers'
    BY <2>2, <2>4 DEF TypeOK, Call
  <2>7. Flights' /\ Entries' /\ FallbackReachesAll'
    BY <2>4 DEF Flights, Entries, FallbackReachesAll
  <2> QED BY <2>5, <2>6, <2>7, <2>8
<1>6. CASE WriteTo(c)
  BY <1>6 DEF WriteTo, Idle, Call, TypeOK, MsgOrNone, Flights, Entries, NothingEscapes, FallbackReachesAll
<1> QED BY <1>1, <1>2, <1>3, <1>4, <1>5, <1>6 DEF Handler

\* The steps of a flight.
LEMMA FlightIInv ==
    ASSUME IInv, NEW n \in Questions, Fly(n)
    PROVE  IInv'
<1> USE DEF IInv
<1>0. Types
  BY TypesHold
<1>1. ASSUME NEW new \in FlightType, flight' = [flight EXCEPT ![n] = new], UNCHANGED <<cached, next, call>>,
             /\ new.pc = "try" =>
                   \A j \in 0..(NUpstreams - 1) :
                      j < new.i => (new.start + j) % NUpstreams \notin Healthy
             /\ new.pc = "store" => new.msg # None
             /\ new.pc = "return" /\ new.msg = None => new.expired \/ Healthy = {}
      PROVE  IInv'
  <2>1. TypeOK'
    BY <1>0, <1>1, TypesHold DEF Types
  <2>2. Flights' /\ FallbackReachesAll'
    BY <1>0, <1>1 DEF Types, Flights, FallbackReachesAll
  <2>3. Handlers' /\ Entries' /\ NothingEscapes'
    BY <1>1 DEF Handlers, Entries, NothingEscapes
  <2> QED BY <2>1, <2>2, <2>3
<1>2. flight[n] \in FlightType
  BY <1>0 DEF Types
<1>3. CASE TryFails(n)
  <2> DEFINE new == [flight[n] EXCEPT !.i = @ + 1]
  <2>1. flight' = [flight EXCEPT ![n] = new] /\ UNCHANGED <<cached, next, call>>
    BY <1>3 DEF TryFails
  <2>2. flight[n].pc = "try" /\ flight[n].i < NUpstreams
        /\ (flight[n].start + flight[n].i) % NUpstreams \notin Healthy
    BY <1>3 DEF TryFails, Trying, Target
  <2>3. new \in FlightType /\ new.pc = "try" /\ new.start = flight[n].start /\ new.i = flight[n].i + 1
    BY <1>2, <2>2 DEF FlightType
  <2>4. ASSUME NEW j \in 0..(NUpstreams - 1), j < new.i
        PROVE  (new.start + j) % NUpstreams \notin Healthy
    <3>1. CASE j = flight[n].i
      BY <2>2, <2>3, <3>1
    <3>2. CASE j < flight[n].i
      BY <2>2, <2>3, <3>2 DEF Flights
    <3> QED BY <1>2, <2>3, <2>4, <3>1, <3>2 DEF FlightType
  <2> HIDE DEF new
  <2> QED BY <1>1, <2>1, <2>3, <2>4
<1>4. CASE TryAnswers(n)
  <2>1. PICK msg \in Responses :
           flight' = [flight EXCEPT ![n] = Flight("store", 0, 0, FALSE, filterAnswer(msg))]
    BY <1>4 DEF TryAnswers
  <2>2. filterAnswer(msg) \in Filtered
    BY DEF Filtered
  <2>3. Flight("store", 0, 0, FALSE, filterAnswer(msg)) \in FlightType
    BY <2>2 DEF Flight, FlightType, MsgOrNone
  <2> QED BY <1>1, <1>4, <2>1, <2>2, <2>3 DEF TryAnswers, Flight
<1>5. CASE BudgetExpires(n)
  <2> DEFINE new == [flight[n] EXCEPT !.expired = TRUE]
  <2>1. flight' = [flight EXCEPT ![n] = new] /\ UNCHANGED <<cached, next, call>> /\ flight[n].pc = "try"
    BY <1>5 DEF BudgetExpires, Trying
  <2>2. new \in FlightType /\ new.pc = "try" /\ new.start = flight[n].start /\ new.i = flight[n].i
    BY <1>2, <2>1 DEF FlightType
  <2> HIDE DEF new
  <2> QED BY <1>1, <2>1, <2>2 DEF Flights
<1>6. CASE ResolveFails(n)
  <2>1. /\ flight' = [flight EXCEPT ![n] = Flight("return", 0, 0, flight[n].expired, None)]
        /\ UNCHANGED <<cached, next, call>>
        /\ flight[n].pc = "try"
        /\ flight[n].expired \/ ~(flight[n].i < NUpstreams)
    BY <1>6 DEF ResolveFails, Trying
  <2>2. Flight("return", 0, 0, flight[n].expired, None) \in FlightType
    BY <1>2 DEF Flight, FlightType, MsgOrNone
  <2>3. ASSUME ~(flight[n].i < NUpstreams), NEW u \in Healthy
        PROVE  FALSE
    <3>1. flight[n].start \in 0..(NUpstreams - 1) /\ u \in 0..(NUpstreams - 1) /\ flight[n].i \in Nat
      BY <1>2 DEF FlightType
    <3>2. PICK j \in 0..(NUpstreams - 1) : (flight[n].start + j) % NUpstreams = u
      BY <3>1, RoundMeetsAll
    <3>3. j < flight[n].i
      BY <2>3, <3>1
    <3> QED BY <2>1, <3>2, <3>3 DEF Flights
  <2> QED BY <1>1, <2>1, <2>2, <2>3 DEF Flight
<1>7. CASE Store(n)
  <2> DEFINE new == [flight[n] EXCEPT !.pc = "return"]
             entry == [msg |-> flight[n].msg, left |-> Clamped(flight[n].msg.ttl)]
  <2>1. flight' = [flight EXCEPT ![n] = new] /\ UNCHANGED <<next, call>> /\ flight[n].pc = "store"
    BY <1>7 DEF Store
  <2>2. new \in FlightType /\ new.pc = "return" /\ new.msg = flight[n].msg
    BY <1>2, <2>1 DEF FlightType
  <2>3. flight[n].msg \in Filtered
    BY <1>2, <2>1 DEF FlightType, MsgOrNone, Flights
  <2>4. \/ cached' = cached
        \/ /\ n \in Names /\ Storable(flight[n].msg)
           /\ \/ cached' = [cached EXCEPT ![n] = entry]
              \/ \E m \in Names : cached' = [cached EXCEPT ![n] = entry, ![m] = None]
    BY <1>7 DEF Store
  <2>5. Storable(flight[n].msg) => /\ entry \in EntryType
                                   /\ entry.msg.rcode \in {"success", "nxdomain"}
    <3>1. flight[n].msg.ttl \in Nat \union {None}
      BY <2>3, FilteredFields
    <3> QED BY <2>3, <3>1 DEF Storable, Clamped, EntryType
  <2> HIDE DEF new, entry
  <2>6. cached' \in [Names -> EntryType \union {None}] /\ Entries'
    BY <1>0, <2>4, <2>5 DEF Types, Entries
  <2>7. TypeOK'
    BY <1>0, <2>1, <2>2, <2>6, TypesHold DEF Types
  <2>8. Flights' /\ FallbackReachesAll'
    BY <1>0, <2>1, <2>2, <2>3, NoMsgAssumption DEF Types, Flights, FallbackReachesAll
  <2>9. Handlers' /\ NothingEscapes'
    BY <2>1 DEF Handlers, NothingEscapes
  <2> QED BY <2>6, <2>7, <2>8, <2>9
<1>8. CASE Return(n)
  <2>1. /\ flight' = [flight EXCEPT ![n] = NoFlight]
        /\ UNCHANGED <<cached, next>>
        /\ call' = [c \in Callers |->
                      IF call[c].pc = "wait" /\ call[c].name = n
                      THEN [call[c] EXCEPT !.pc = "answer", !.msg = flight[n].msg]
                      ELSE call[c]]
    BY <1>8 DEF Return
  <2>2. NoFlight \in FlightType /\ NoFlight.pc = "none"
    BY DEF NoFlight, Flight, FlightType, MsgOrNone
  <2>3. ASSUME NEW c \in Callers
        PROVE  /\ call'[c] \in CallType
               /\ call'[c] = call[c] \/ call'[c].pc = "answer"
    <3>1. call[c] \in CallType /\ flight[n].msg \in MsgOrNone
      BY <1>0, <1>2 DEF Types, FlightType
    <3>2. [call[c] EXCEPT !.pc = "answer", !.msg = flight[n].msg] \in CallType
          /\ [call[c] EXCEPT !.pc = "answer", !.msg = flight[n].msg].pc = "answer"
      BY <3>1 DEF CallType
    <3> QED BY <2>1, <3>1, <3>2
  <2>4. TypeOK'
    <3>1. call' \in [Callers -> CallType]
      BY <2>1, <2>3
    <3> QED BY <1>0, <2>1, <2>2, <3>1, TypesHold DEF Types
  <2>5. Handlers' /\ NothingEscapes'
    BY <2>3 DEF Handlers, NothingEscapes
  <2>6. Flights' /\ FallbackReachesAll'
    BY <1>0, <2>1, <2>2 DEF Types, Flights, FallbackReachesAll
  <2>7. Entries'
    BY <2>1 DEF Entries
  <2> QED BY <2>4, <2>5, <2>6, <2>7
<1> QED BY <1>3, <1>4, <1>5, <1>6, <1>7, <1>8 DEF Fly

\* An entry gets older, and is what it was until it is gone.
LEMMA TickIInv ==
    ASSUME IInv, Tick
    PROVE  IInv'
<1> USE DEF IInv
<1>0. Types
  BY TypesHold
<1>1. ASSUME NEW n \in Names
      PROVE  /\ cached'[n] \in EntryType \union {None}
             /\ cached'[n] # None => cached[n] # None /\ cached'[n].msg = cached[n].msg
  <2>1. cached'[n] = IF cached[n] = None \/ cached[n].left = 1 THEN None ELSE [cached[n] EXCEPT !.left = @ - 1]
    BY DEF Tick
  <2>2. CASE cached[n] = None \/ cached[n].left = 1
    BY <2>1, <2>2
  <2>3. CASE ~(cached[n] = None \/ cached[n].left = 1)
    <3>1. cached[n] \in EntryType /\ cached[n] # None
      BY <1>0, <2>3 DEF Types
    <3>2. [cached[n] EXCEPT !.left = @ - 1] \in EntryType
          /\ [cached[n] EXCEPT !.left = @ - 1].msg = cached[n].msg
      BY <2>3, <3>1 DEF EntryType
    <3> QED BY <2>1, <2>3, <3>1, <3>2
  <2> QED BY <2>2, <2>3
<1>2. TypeOK'
  <2>1. cached' \in [Names -> EntryType \union {None}]
    BY <1>1 DEF Tick
  <2> QED BY <1>0, <2>1, TypesHold DEF Tick, Types
<1>3. Entries'
  BY <1>1 DEF Entries
<1>4. Handlers' /\ Flights' /\ NothingEscapes' /\ FallbackReachesAll'
  BY DEF Tick, Handlers, Flights, NothingEscapes, FallbackReachesAll
<1> QED BY <1>2, <1>3, <1>4

\* Every step keeps the invariant.
LEMMA NextIInv == IInv /\ [Next]_vars => IInv'
<1>1. ASSUME IInv, Next PROVE IInv'
  BY <1>1, ArriveIInv, HandlerIInv, FlightIInv, TickIInv DEF Next
<1>2. ASSUME IInv, UNCHANGED vars PROVE IInv'
  BY <1>2 DEF vars, IInv, TypeOK, Handlers, Flights, Entries, NothingEscapes, FallbackReachesAll
<1> QED BY <1>1, <1>2

\* The states of DNSHandler satisfy the invariant.
LEMMA Invariance == Spec => []IInv
BY InitIInv, NextIInv, PTL DEF Spec

-----------------------------------------------------------------------------
\* dns_handler.go, cache.go, resolver.go: what a handler, a flight and an entry can be,
\* with a lifetime within the limits of the cache.
THEOREM TypeCorrect == Spec => []TypeOK
BY Invariance, PTL DEF IInv

\* dns_handler.go:40-126: the decision taken when the query came in is what the client
\* gets, and no record that would go round it.
THEOREM DecisionKept == Spec => []NothingEscapes
BY Invariance, PTL DEF IInv

\* resolver.go:77-99: a flight without a response has run out of its budget, or no
\* upstream is healthy.
THEOREM EveryUpstreamAsked == Spec => []FallbackReachesAll
BY Invariance, PTL DEF IInv

\* cache.go:122-140: an answer from the cache is never that of a failure.
THEOREM FailuresForgotten == Spec => FailuresNotCached
<1> DEFINE Fresh ==
        \A c \in Callers :
           call[c].pc = "get" /\ call'[c].pc = "answer" => call'[c].msg.rcode # "servfail"
<1>1. IInv /\ [Next]_vars => [Fresh]_vars
  <2> SUFFICES ASSUME IInv, Next, NEW c \in Callers, call[c].pc = "get", call'[c].pc = "answer"
               PROVE  call'[c].msg.rcode # "servfail"
    OBVIOUS
  <2> USE DEF IInv
  <2>0. Types
    BY TypesHold
  <2>1. ASSUME NEW n \in Questions, Fly(n) PROVE FALSE
    <3>1. call'[c] = call[c]
      BY <2>1 DEF Fly, TryFails, TryAnswers, BudgetExpires, ResolveFails, Store, Return
    <3> QED BY <3>1
  <2>2. ASSUME NEW d \in Callers, Arrive(d) PROVE FALSE
    <3>1. PICK new : call[d].pc = "idle" /\ call' = [call EXCEPT ![d] = new]
      BY <2>2 DEF Arrive, QueryMalformed, QueryUnkeyed, QuerySuppressed, QueryNoData, Query
    <3> QED BY <2>0, <3>1 DEF Types
  <2>3. ASSUME NEW d \in Callers, Handler(d), ~CacheHit(d) PROVE FALSE
    <3>1. d = c
      BY <2>0, <2>3 DEF Types, Handler, CacheMiss, JoinFlight, OpenFlight, MakeReply, WriteTo
    <3>2. CacheMiss(c)
      BY <2>3, <3>1 DEF Handler, JoinFlight, OpenFlight, MakeReply, WriteTo
    <3>3. call[c] \in CallType
      BY <2>0 DEF Types
    <3>4. [call[c] EXCEPT !.pc = "do"].pc = "do"
      BY <3>3 DEF CallType
    <3> QED BY <2>0, <3>2, <3>4 DEF Types, CacheMiss
  <2>4. ASSUME NEW d \in Callers, CacheHit(d) PROVE call'[c].msg.rcode # "servfail"
    <3>1. d = c
      BY <2>0, <2>4 DEF Types, CacheHit
    <3>2. cached[call[c].name] # None /\ call'[c].msg = cached[call[c].name].msg
      BY <2>0, <2>4, <3>1 DEF Types, CallType, CacheHit
    <3> QED BY <3>2 DEF Handlers, Entries
  <2>5. CASE Tick
    BY <2>5 DEF Tick
  <2> QED BY <2>1, <2>2, <2>3, <2>4, <2>5 DEF Next
<1> QED BY <1>1, Invariance, PTL DEF Spec, FailuresNotCached

================================================================================
