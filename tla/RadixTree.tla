------------------------------ MODULE RadixTree ------------------------------
(***************************************************************************)
(* The radix backend (src/server/router/matcher/radix.go) and the keys     *)
(* both backends are built from: a domain with its labels reversed,        *)
(* com.example.www for www.example.com.                                    *)
(*                                                                         *)
(* A node is named by the path to it, the prefixes from the root put       *)
(* together; a tree is a function from its nodes to what they hold.  Its   *)
(* edges need no field of their own: the parent of a node is the longest   *)
(* other node that is a prefix of it.                                      *)
(***************************************************************************)
EXTENDS Naturals, Sequences, SequencesExt, FiniteSetsExt

Dot == 2        \* a byte; others come before it (the hyphen) or after it

-----------------------------------------------------------------------------
\* One past the last byte of each label, the empty ones included.
LabelEnds(text) == {n \in 1..Len(text) : text[n] = Dot} \union {Len(text) + 1}

\* The label that ends there, and a dot unless it is the first byte of the text or
\* its leading dot that comes before; an empty label leaves nothing.
Label(text, end) ==
    LET before == Max({0} \union {n \in 1..(end - 1) : text[n] = Dot})
    IN  IF before + 1 = end THEN <<>>
        ELSE SubSeq(text, before + 1, end - 1) \o (IF before > 1 THEN <<Dot>> ELSE <<>>)

ReverseLabels(text) ==
    LET ends == SetToSortSeq(LabelEnds(text), >)
    IN  FlattenSeq([n \in DOMAIN ends |-> Label(text, ends[n])])

-----------------------------------------------------------------------------
Node(match, value) == [match |-> match, value |-> value]

\* The root has no prefix and is never given a value.
NewRadix == [path \in {<<>>} |-> Node("none", 0)]

Longest(paths) == CHOOSE p \in paths : \A q \in paths : Len(q) <= Len(p)

\* The nodes a descent towards s reaches.
Visited(tree, s) == {p \in DOMAIN tree : IsPrefix(p, s)}

\* The child at which that descent stops, if there is one for the next byte.
Blocking(tree, s) ==
    LET last == Longest(Visited(tree, s))
        below == {q \in DOMAIN tree : IsStrictPrefix(last, q) /\ last # s /\ q[Len(last) + 1] = s[Len(last) + 1]}
    IN  {q \in below : \A r \in below : Len(q) <= Len(r)}

\* Where the edge to that child is split: where the child and s part.
Forks(tree, s) == {LongestCommonPrefix({q, s}) : q \in Blocking(tree, s)}

\* Mutation: the node above the two keeps what the child held.
InsertKeeping(tree, s, value, match) ==
    [path \in DOMAIN tree \union Forks(tree, s) \union {s} |->
        IF path = s THEN Node(match, value)
        ELSE IF path \in Forks(tree, s) THEN tree[CHOOSE q \in Blocking(tree, s) : TRUE]
        ELSE tree[path]]

\* Mutation: a child with the same first byte is not looked for.
InsertBeside(tree, s, value, match) ==
    [path \in DOMAIN tree \union {s} |-> IF path = s THEN Node(match, value) ELSE tree[path]]

\* s replaces the node of that path, is a new leaf, or splits the edge to the child
\* in the way: where the two part a node without a match comes to be, unless s itself
\* ends there.
insert(tree, s, value, match) ==
    [path \in DOMAIN tree \union Forks(tree, s) \union {s} |->
        IF path = s THEN Node(match, value)
        ELSE IF path \in Forks(tree, s) THEN Node("none", 0)
        ELSE tree[path]]

\* An exact match at s, else the last prefix match met where a label of s ends.
Get(tree, s, pass) ==
    LET covering == {p \in Visited(tree, s) :
                        tree[p].match = "prefix" /\ (p = s \/ s[Len(p) + 1] = Dot)}
    IN  IF s \in DOMAIN tree /\ tree[s].match = "exact" THEN tree[s].value
        ELSE IF covering = {} THEN pass
        ELSE tree[Longest(covering)].value

\* A parent has at most one child for a byte, so that the one descent Get makes meets
\* all nodes that are prefixes of the key.
OneChildPerByte(tree) ==
    \A p, q \in DOMAIN tree : LongestCommonPrefix({p, q}) \in DOMAIN tree
==============================================================================
