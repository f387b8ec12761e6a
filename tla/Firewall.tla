------------------------------ MODULE Firewall ------------------------------
(***************************************************************************)
(* What a firewall.Manager (src/server/firewall) does to the kernel's DNAT *)
(* rules, a set of pairs <<fake, real>>.  A call's outcome is whether it   *)
(* reports success and the kernel it leaves behind.                        *)
(*                                                                         *)
(* "nft": the set is a map keyed by the fake address.  A batch is applied  *)
(* whole or not at all, a missing element is not an error (the fallback    *)
(* of Delete), and adding a key that has another value is refused.         *)
(* "iptables": a chain of rules, so a fake may have several.  Delete goes  *)
(* rule by rule and reports an error if any of them failed, the others     *)
(* being gone.                                                             *)
(***************************************************************************)
CONSTANT Backend

ASSUME BackendAssumption == Backend \in {"nft", "iptables"}

Outcome(ok, kernel) == [ok |-> ok, kernel |-> kernel]

Refused(kernel, mapping) ==
    /\ Backend = "nft"
    /\ \E other \in kernel : other[1] = mapping[1] /\ other[2] # mapping[2]

AddOutcomes(kernel, mapping, mayFail) ==
    { o \in {Outcome(TRUE, kernel \union {mapping}), Outcome(FALSE, kernel)} :
        IF o.ok THEN ~Refused(kernel, mapping) ELSE mayFail \/ Refused(kernel, mapping) }

\* What a failed Delete has removed all the same.
RemovedOnFailure(mappings) ==
    IF Backend = "nft" THEN {{}} ELSE SUBSET mappings \ {mappings}

DeleteOutcomes(kernel, mappings, mayFail) ==
    { o \in {Outcome(TRUE, kernel \ mappings)}
            \union {Outcome(FALSE, kernel \ gone) : gone \in RemovedOnFailure(mappings)} :
        o.ok \/ mayFail }
=============================================================================
