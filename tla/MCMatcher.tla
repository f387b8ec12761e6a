----------------------------- MODULE MCMatcher -----------------------------
EXTENDS Matcher

Hyphen == 1
Letter == 3

a == <<Letter>>
aa == <<Letter, Letter>>
ahyphen == <<Letter, Hyphen>>
Sub(label, domain) == label \o <<Dot>> \o domain

\* The keys of b.a- and of c.a-, which are no subdomains of a, come between the keys of
\* a and of its subdomains.
MCTexts == {a, <<Dot>> \o a, Sub(a, a), Sub(a, Sub(a, a)), Sub(a, ahyphen)}
MCQueries ==
    (MCTexts \ {<<Dot>> \o a})
    \union {Sub(a, Sub(a, Sub(a, a))), Sub(a, aa), Sub(ahyphen, a), aa, ahyphen}

\* Short texts without an empty label, but for a leading dot.
MCShort ==
    {text \in UNION {[1..n -> 1..3] : n \in 1..5} :
        /\ text[Len(text)] # Dot
        /\ \A n \in 1..(Len(text) - 1) : ~(text[n] = Dot /\ text[n + 1] = Dot)}

MCShortKeys == [text \in MCShort |-> ReverseLabels(text)]

\* radix.go:195-217: what the proofs take of ReverseLabels, for the texts of this instance
\* and for all short ones.
ASSUME ReversalFaithful == Faithful(keyOf) /\ Faithful(MCShortKeys)
=============================================================================
