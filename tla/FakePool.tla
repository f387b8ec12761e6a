------------------------------ MODULE FakePool ------------------------------
(***************************************************************************)
(* What the pool of fake addresses promises its caller, whatever its       *)
(* representation: an address is fresh (never issued), queued (released    *)
(* and waiting to be issued again) or out (owned by the caller).           *)
(* Released addresses are issued again in the order of their release;      *)
(* whether a released or a fresh one is issued next is left open.          *)
(***************************************************************************)
EXTENDS Sequences, Functions

CONSTANT Fakes    \* the addresses of the fake CIDR

VARIABLES
    fresh,        \* addresses never issued by this process
    queue,        \* released addresses, oldest release first
    out           \* addresses the caller owns

vars == <<fresh, queue, out>>

TypeOK ==
    /\ fresh \subseteq Fakes
    /\ queue \in Seq(Fakes)
    /\ out \subseteq Fakes

Init ==
    /\ fresh = Fakes
    /\ queue = <<>>
    /\ out = {}

\* An address a former process left installed is owned before anything is issued.
Adopt(f) ==
    /\ f \in fresh
    /\ fresh' = fresh \ {f}
    /\ out' = out \union {f}
    /\ UNCHANGED queue

AllocateQueued ==
    /\ queue # <<>>
    /\ queue' = Tail(queue)
    /\ out' = out \union {Head(queue)}
    /\ UNCHANGED fresh

AllocateFresh(f) ==
    /\ f \in fresh
    /\ fresh' = fresh \ {f}
    /\ out' = out \union {f}
    /\ UNCHANGED queue

Release(f) ==
    /\ f \in out
    /\ out' = out \ {f}
    /\ queue' = Append(queue, f)
    /\ UNCHANGED fresh

\* The process dies and a new one starts with a pool of its own.
Restart ==
    /\ fresh' = Fakes
    /\ queue' = <<>>
    /\ out' = {}

Next ==
    \/ AllocateQueued
    \/ \E f \in Fakes : Adopt(f) \/ AllocateFresh(f) \/ Release(f)
    \/ Restart

Spec == Init /\ [][Next]_vars

-----------------------------------------------------------------------------
\* No address is in two places, nor queued twice: none can be issued twice.
NoDoubleIssue ==
    /\ fresh \intersect out = {}
    /\ fresh \intersect Range(queue) = {}
    /\ out \intersect Range(queue) = {}
    /\ IsInjective(queue)

\* No address is lost: "no free IPs" means that the caller owns all of them.
NoLeak == fresh \union Range(queue) \union out = Fakes
=============================================================================
