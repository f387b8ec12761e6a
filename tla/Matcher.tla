------------------------------- MODULE Matcher -------------------------------
(***************************************************************************)
(* The compilation of the sources' runs into one matcher                   *)
(* (src/server/router/matcher/matcher.go): mergeResolve reads the sorted   *)
(* runs side by side, keeps for each key the source of highest index and   *)
(* drops the keys that a source of a higher index prunes, in one pass over *)
(* the keys with a stack of the prunes still open.  One Step is one round  *)
(* of its loop.                                                            *)
(*                                                                         *)
(* A text is a domain as a list or a query has it, a sequence of bytes; a  *)
(* key is the text with its labels reversed.  All that the algorithm tells *)
(* apart of a byte is whether it is the dot, and the order, in which some  *)
(* bytes of a label come before the dot: that is why the keys a prune      *)
(* covers are not a contiguous piece of the runs.                          *)
(*                                                                         *)
(* What is emitted goes to the FST builder, and in the other backend into  *)
(* the radix tree; both are kept here, side by side.                       *)
(***************************************************************************)
EXTENDS RadixTree, FiniteSets

CONSTANTS
    NSources,
    Texts,          \* domains that sources list, as NormalizeDomain leaves them
    Queries,        \* domains that are looked up
    MaxRecords,     \* bound on the records of all sources together
    Pass            \* the answer for a domain in no list

ASSUME MatcherAssumption ==
    /\ NSources \in Nat /\ MaxRecords \in Nat
    /\ Texts \union Queries \subseteq Seq(1..3)
    /\ \A text \in Texts \union Queries : text # <<>> /\ text[Len(text)] # Dot
    /\ Pass \notin 1..NSources

VARIABLES
    sources,        \* what each source lists; the index is its priority, and stands for its action
    unread,         \* the keys its run still holds
    prune,          \* the stack of frames
    emitted,        \* what went to the builder
    tree            \* what was inserted

vars == <<sources, unread, prune, emitted, tree>>

Indices == 1..NSources

keyOf == [text \in Texts \union Queries |-> ReverseLabels(text)]

Keys == {keyOf[text] : text \in Texts}

\* Keys are made of the bytes of their texts, and a text that does not end in a dot has a
\* last label.
ASSUME KeysAssumption == \A text \in Texts \union Queries : keyOf[text] \in Seq(1..3) \ {<<>>}

\* One format, hence one mode for all records of a source.  Nothing is lost where an
\* empty source has but one.
Source ==
    {s \in [texts : SUBSET Texts, mode : {"exact", "prefix"}, prune : BOOLEAN] :
        s.texts = {} => s.mode = "exact" /\ ~s.prune}

\* The keys of its run, where texts with one key have become one record.
RunOf(s) == {keyOf[text] : text \in s.texts}

TypeOK ==
    /\ sources \in [Indices -> Source]
    /\ \A i \in Indices : unread[i] \subseteq RunOf(sources[i])
    /\ prune \in Seq([key : Keys, src : Indices])
    /\ emitted \in Seq([key : Keys, src : Indices, mode : {"exact", "prefix"}])
    /\ \A path \in DOMAIN tree :
          tree[path] \in [match : {"none", "exact", "prefix"}, value : Indices \union {0}]

\* The bound on what the sources list.
FewRecords == FoldSet(LAMBDA i, n : n + Cardinality(sources[i].texts), 0, Indices) <= MaxRecords

Init ==
    /\ sources \in [Indices -> Source]
    /\ FewRecords
    /\ unread = [i \in Indices |-> RunOf(sources[i])]
    /\ prune = <<>>
    /\ emitted = <<>>
    /\ tree = NewRadix

-----------------------------------------------------------------------------
\* bytes.Compare(a, b) < 0
Before(a, b) ==
    \/ IsStrictPrefix(a, b)
    \/ \E n \in DOMAIN a \intersect DOMAIN b :
        /\ a[n] < b[n]
        /\ \A m \in 1..(n-1) : a[m] = b[m]

labelCovers(p, k) == IsStrictPrefix(p, k) /\ k[Len(p) + 1] = Dot

AllUnread == UNION {unread[i] : i \in Indices}

\* Mutation: the stack is emptied as soon as its top is no prefix of the key.
PoppedAll(key) ==
    IF prune # <<>> /\ IsPrefix(prune[Len(prune)].key, key) THEN prune ELSE <<>>

\* The frames left when those on top that are no prefix of the key are popped.
Popped(key) ==
    SubSeq(prune, 1, Max({0} \union {n \in DOMAIN prune : IsPrefix(prune[n].key, key)}))

\* Mutation: only the frame on top of the stack is asked.
IsPrunedByTop(frames, key, winner) ==
    /\ frames # <<>>
    /\ frames[Len(frames)].src > winner
    /\ labelCovers(frames[Len(frames)].key, key)

IsPruned(frames, key, winner) ==
    \E n \in DOMAIN frames : frames[n].src > winner /\ labelCovers(frames[n].key, key)

Winner(key) == Max({i \in Indices : key \in unread[i]})

\* emit: the record is appended for the builder and inserted into the tree.
Emit(key, src, mode) ==
    /\ emitted' = Append(emitted, [key |-> key, src |-> src, mode |-> mode])
    /\ tree' = insert(tree, key, src, mode)

\* Mutation: only the winner's cursor advances.
StepWinnerOnly(key) ==
    /\ \A other \in AllUnread \ {key} : Before(key, other)
    /\ LET winner == Winner(key)
       IN  /\ Emit(key, winner, sources[winner].mode)
           /\ unread' = [unread EXCEPT ![winner] = @ \ {key}]
    /\ UNCHANGED <<sources, prune>>

\* Mutation: the priority is counted from zero.
StepFromZero(key) ==
    /\ \A other \in AllUnread \ {key} : Before(key, other)
    /\ LET winner == Winner(key)
       IN  Emit(key, winner - 1, sources[winner].mode)
    /\ unread' = [i \in Indices |-> unread[i] \ {key}]
    /\ UNCHANGED <<sources, prune>>

Step(key) ==
    /\ \A other \in AllUnread \ {key} : Before(key, other)
    /\ LET winner == Winner(key)
           frames == Popped(key)
       IN  /\ IF IsPruned(frames, key, winner)
              THEN UNCHANGED <<emitted, tree>>
              ELSE Emit(key, winner, sources[winner].mode)
           /\ prune' = IF sources[winner].prune
                       THEN Append(frames, [key |-> key, src |-> winner])
                       ELSE frames
    /\ unread' = [i \in Indices |-> unread[i] \ {key}]
    /\ UNCHANGED sources

mergeResolve == \E key \in AllUnread : Step(key)

Done == AllUnread = {}

Next == mergeResolve \/ (Done /\ UNCHANGED vars)

Spec == Init /\ [][Next]_vars

-----------------------------------------------------------------------------
(* Looking a domain up in what was emitted, in the FST and in the tree. *)

Emitted == {emitted[n] : n \in DOMAIN emitted}

fst == [key \in {e.key : e \in Emitted} |-> CHOOSE e \in Emitted : e.key = key]

\* The dots where an ancestor of the key ends that is listed with its subdomains.
Cuts(key) ==
    {n \in DOMAIN key :
        /\ key[n] = Dot
        /\ SubSeq(key, 1, n - 1) \in DOMAIN fst
        /\ fst[SubSeq(key, 1, n - 1)].mode = "prefix"}

Lookup(domain) ==
    LET key == keyOf[domain]
    IN  IF key \in DOMAIN fst THEN fst[key].src
        ELSE IF Cuts(key) # {} THEN fst[SubSeq(key, 1, Max(Cuts(key)) - 1)].src
        ELSE Pass

LookupRadix(domain) == Get(tree, keyOf[domain], Pass)

-----------------------------------------------------------------------------
(* What is promised, of the texts, without keys, cursors, order or stack. *)

\* A list may write a domain with a leading dot.
Bare(text) == IF Head(text) = Dot THEN Tail(text) ELSE text

Same(text, other) == Bare(text) = Bare(other)

Subdomain(domain, of) == IsSuffix(<<Dot>> \o Bare(of), Bare(domain))

\* What reversed labels are for: texts that are the same domain have one key, and the
\* key of a subdomain begins with that of the domain and a dot.
Faithful(key) ==
    /\ \A text \in DOMAIN key : Len(key[text]) = Len(Bare(text))
    /\ \A text, other \in DOMAIN key :
        /\ key[text] = key[other] <=> Same(text, other)
        /\ labelCovers(key[other], key[text]) <=> Subdomain(text, other)

Records == {r \in [src : Indices, text : Texts] : r.text \in sources[r.src].texts}

Winners == {r \in Records : \A other \in Records : Same(other.text, r.text) => other.src <= r.src}

\* A record is cut off by a prune source of higher index that won a domain above it
\* (matcher.go:46-47): one whose own record a later source lists again prunes nothing there.
Cut(r) ==
    \E p \in Winners : sources[p.src].prune /\ p.src > r.src /\ Subdomain(r.text, p.text)

Kept == {r \in Winners : ~Cut(r)}

Matches(r, domain) ==
    \/ Same(r.text, domain)
    \/ sources[r.src].mode = "prefix" /\ Subdomain(domain, r.text)

\* The most specific record decides.
Resolve(domain) ==
    LET found == {r \in Kept : Matches(r, domain)}
    IN  IF found = {} THEN Pass
        ELSE (CHOOSE r \in found : \A other \in found : Len(Bare(other.text)) <= Len(Bare(r.text))).src

-----------------------------------------------------------------------------
\* matcher.go:46-47, README.md:155-158.  The one pass with its stack keeps
\* exactly the winners that no winning prune source of higher index covers, and a
\* lookup in them finds the most specific record: reversed labels, a leading dot, and
\* byte order, in which a key that is no subdomain may stand between a key and its
\* subdomains, make no difference.
ResolvesAsPromised ==
    Done => \A domain \in Queries : Lookup(domain) = Resolve(domain)

\* radix.go:60-118, 146-193, matcher.go:21-44.  matcher_backend makes no difference to
\* a client: whatever the splits of the tree, it decides as the FST does.
BackendsAgree ==
    Done => \A domain \in Queries : LookupRadix(domain) = Lookup(domain)

\* radix.go:66-118.  No insertion leaves two children of one node that begin alike:
\* a lookup follows one of them and would never see what is under the other.
TreeDescends == OneChildPerByte(tree)

\* vellum refuses a key that is not above the one before it (matcher.go:140): the
\* compilation of the lists would fail as a whole.
BuilderAccepts ==
    \A n \in 2..Len(emitted) : Before(emitted[n-1].key, emitted[n].key)

\* README.md:160-165 says that a record of a prune source cuts off everything more
\* specific when it is processed, so that what a later source does to that record comes
\* after it: nothing of the sources before it is left below.
PruneCutsInTurn ==
    \A r, p \in Records :
        sources[p.src].prune /\ p.src > r.src /\ Subdomain(r.text, p.text) =>
            \A e \in Emitted : e.key = keyOf[r.text] => e.src # r.src

\* README.md:160-167.  A prune source put last overrides all lists on all it covers,
\* whatever they hold below its records.
LastPruneOverrides ==
    Done /\ sources[NSources].prune =>
        \A r \in Records, domain \in Queries :
            r.src = NSources /\ Matches(r, domain) => Lookup(domain) = NSources

==============================================================================
