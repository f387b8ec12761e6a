----------------------------- MODULE MCDNSHandler -----------------------------
EXTENDS DNSHandler

CONSTANTS r1, r2

Msg(rcode, addrs, bypass, tc, ttl) ==
    [rcode |-> rcode, addrs |-> addrs, bypass |-> bypass, tc |-> tc, ttl |-> ttl]

\* Two addresses with hints, no record at all, a negative answer with its SOA, a
\* failure, a truncated response.
MCResponses ==
    { Msg("success", {r1, r2}, TRUE, FALSE, 5),
      Msg("success", {}, FALSE, FALSE, None),
      Msg("nxdomain", {}, FALSE, FALSE, 0),
      Msg("servfail", {}, FALSE, FALSE, 1),
      Msg("success", {}, FALSE, TRUE, 1) }
===============================================================================
