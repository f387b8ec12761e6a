# antizapret-go: a verification development

antizapret-go is a DNS resolver that gives clients *fake* addresses for the
domains on its lists and programs a DNAT rule `fake → real` for each, so that
only the traffic to these domains goes through a tunnel. This directory holds
TLA+ models of the program, the TLC configurations that check them on small
instances, and proofs of the central properties for every instance. Paths and
line numbers are those of the repository; `pool.go:63` is
`src/server/mapper/pool.go`, and so on.

## 1. The system

| Part | State it keeps | Operations | Talks to |
| --- | --- | --- | --- |
| fake-IP pool (`mapper/pool.go`) | cursor, slice of released addresses with a head index, skip set of adopted ones | `markAdopted`, `allocate`, `release` | called by the mapper |
| mapping table (`mapper/table.go`) | real → (fake, lastSeen) | `get` (renews lastSeen), `set`, `expired` (removes what it returns) | called by the mapper |
| IP mapper (`mapper/ipmap.go`) | table, pool, single-flight group, `pending` teardowns | `adopt` at start, `Map` by DNS handlers, `Clean` by the cleaner goroutine | pool, table, firewall |
| firewall managers (`firewall/`) | DNAT rules in the kernel (nft set or iptables chain) | `Add`, `Delete` of a batch, `List` | the kernel |
| DNS handler, answers (`dns_handler.go`, `answer.go`) | none of its own | one call per query | router, cache, resolver, mapper |
| cache (`cache/cache.go`) | responses with lifetimes, single-flight group | `GetResponseLambda` | ttlcache |
| resolver (`resolver/`) | round-robin counter | `Resolve` | upstreams |
| matcher (`router/matcher/`) | a compiled FST or radix tree, immutable | `mergeResolve`, `Lookup` | run readers |
| router (`router/router.go`, `source.go`, `fetcher.go`) | pointer to the matcher in force | `LoadCached`, `Rebuild`, `Lookup` | origins, store, matcher |
| store (`router/store/`) | `runs/*.run` with validator and fingerprint, `matcher.fst` | `WriteRun`, `OpenRun`, `LoadValidator`, `SaveFST`, `LoadFST`, `Retain` | file system |
| server (`server.go`) | `warm`, `rebuildReady` | `PolicyRebuilder`, `WaitReady`, `MappingCleaner`, `Close` | all of the above |
| process (`cmd/antizapret-go.go`) | context, listeners | start, signals, shutdown | server |
| configuration, metrics, log, utils | – | – | – |

How they interact: every query runs in a goroutine of its own. It asks the
router for the action of the name, then the cache; handlers that miss the same
key share one flight, which asks the resolver. For a name to be remapped the
handler calls `Map` for every A record, and handlers that miss the same real
address share one flight again. Beside them the cleaner expires mappings, the
rebuilder replaces the matcher, and the kernel and the state directory outlive
the process. Clients keep fake addresses in caches the program does not see.

What is hard, and what correctness means:

- **Pool.** Head index, compaction, cursor and skip set are four ways to lose
  an address or to issue it twice. It must be a FIFO pool.
- **Mapper.** Handlers, flights and the cleaner work on table, pool and kernel
  without a common lock; `Add` and `Delete` fail, in part for iptables; the
  process dies between a firewall call and the note of it. One fake has one
  owner and one rule; each rule has an owner that will delete it; a client's
  answer stays good for as long as the client may use it, across restarts.
- **Router.** Sources are refreshed in parallel, each may fail in several
  ways, runs and `matcher.fst` are written one after the other, and between two
  processes the configuration may change. A list that was fetched is in force; a
  list that cannot be fetched stays; the router catches up.
- **Matcher.** One pass over the merged keys with a stack of prunes, in a byte
  order in which the subdomains of a domain are not contiguous. It must decide
  as "the most specific record wins, the later source for the same key, prunes
  cut off what is below" does.
- **Radix tree.** It is the second implementation of one lookup. A split that keeps or
  loses a match, or a match in the middle of a label, would make `matcher_backend` decide
  what a client reaches.
- **Store.** No file has a checksum and a run is read up to its end. That a list is never
  silently shortened rests on the order write, sync, rename; that no writer loses its
  temporary file rests on `Retain` coming after all refreshes.
- **Process.** Signals, the ticker, the first Rebuild, listeners that fail and a shutdown
  with a timeout run side by side. No query is answered before there is a matcher, a
  reload is never lost, the process ends when told to, with what it took answered.
- **DNS handler.** The action is decided before the cache, the flight and the
  mapping, any of which may fail in part. Nothing of a remapped name escapes
  unmapped, failures are not kept, every query gets a reply.

`PROJECT.json` lists every component with its status, and under `hazards` each
place where this bites, with the properties that would notice.

## 2. The modules

| Module | Models | Composition |
| --- | --- | --- |
| `FakePool` | what a pool promises: fresh, queued, out | abstract |
| `IPPool` | `pool.go`, every field of the struct | implements `FakePool` |
| `Firewall` | outcomes of `Add` and `Delete` for nft and iptables | used by `IPMapper` |
| `IPMapper` | `ipmap.go`, `table.go`, handlers, cleaner, kernel, clients' caches, crashes | extends `Firewall`; its use of the pool implements `FakePool` |
| `RadixTree` | `radix.go`: reversed labels, insertion with splits, `Get` | operators, used by `Matcher` |
| `Matcher` | `matcher.go`: merge, FST, both lookups; the keys of `source.go` and `format.go` | extends `RadixTree` |
| `Store` | `store.go`, `format.go`: temporary files, sections, loss of power | the files of `Process` |
| `Process` | `cmd/antizapret-go.go`, `server.go`, what `router.go` does to files | extends `Store` |
| `Router` | `router.go`, `source.go`, `fetcher.go`, with whole files | a compiled matcher is the (configuration, content) of each source; what these decide is `Matcher` |
| `DNSHandler` | `dns_handler.go`, `answer.go`, `cache.go`, `resolver.go`, `upstream.go` | the router is the action of each name, `Map` succeeds or fails |
| `MCIPMapper`, `MCMatcher`, `MCDNSHandler` | symmetry and constants that a .cfg cannot write | – |
| `FakePoolProofs`, `IPPoolProofs`, `IPMapperProofs`, `MatcherProofs`, `RouterProofs`, `HandlerProofs`, `ProcessProofs` | theorems | section 5 |
| `QueueLemmas` | lemmas about queues without repetition | used by the proofs of pool and mapper |

`IPMapper` holds the pool as `FakePool` has it (fresh and queue), not as
`IPPool` has it: that `IPPool` implements `FakePool` and that the mapper uses it
as `FakePool` allows (`RefinesFakePool` in both) is what makes that sound. That an allocation
takes a released address before a fresh one, which `FakePool` leaves open, both have from
`pool.go:67`.

### How state and actions correspond to the code

**IPPool.** Variables are the fields of `ipPool`; `out` is what the mapper owns
and `adopting` whether `adopt` still runs, since it adopts before any other call
and releases only what it owns. Each method holds `p.mu` and is one action;
`allocate` is three, one for each way it ends. The loop over adopted addresses
is one step to the first that is not adopted. The cursor stops at the broadcast
address, so 32-bit arithmetic never wraps.

**IPMapper.** An action is what runs between two points where another goroutine
can step in. `Map` is `MapHit` or `MapMiss`, then `MapDo` (joining or opening the
flight); the function inside single-flight is `FlightHit`/`FlightMiss` (the second
look at the table), `FlightAllocate...`, `FlightAdd`, `FlightUndo` or `FlightSet`,
`FlightReturn`. `Clean` is `CleanExpire` (pending and expired entries become the
batch `stale`; a Clean with an empty batch does nothing and is no step),
`CleanDelete` and one `CleanRelease` per address. `adopt` looks at the listed
mappings in any order. A crash clears memory; `kernel` and `lease` stay. `Init`
allows any rules a former process may have left, with at most one rule per fake.

Time is in ticks. `age` is the time since `lastSeen`; `lease` is how long a
client may still use an answer: the handler sets the TTL to 0.8 of the mapping's
TTL, so `LeaseTTL < TTL`. `Slack` bounds the way of an answer from the table to
the client: `Tick` waits for answers that have been on their way that long. The
assumption `LeaseTTL + Slack <= TTL` states what the program relies on: an
answer that takes more than a fifth of the mapping's TTL to reach the client
could outlive its mapping. An entry restored by adoption has age 0, as `set`
makes it.

**Firewall.** The nft set is keyed by fake: a batch is applied as a whole,
missing elements are skipped by the fallback in `Delete`, and a key that has
another value is refused. iptables deletes rule by rule and reports an error if
any failed. In both an `Add` that reports an error has added nothing.

**Matcher.** One `Step` is one round of the loop of `mergeResolve`: the least
unread key, its winner (highest index), the frames popped, the test for prunes,
the emission, the winner's own frame, the advance of all cursors at that key.
Sources and queries are *texts*, sequences over three bytes, one below the dot, the dot,
one above it: the algorithm asks of a byte only whether it is the dot and how it
compares. `keyOf` reverses their labels as the code does, so a text with a leading dot
has the key of the one without. What is promised (`Resolve`) is stated of the texts in
their natural order and knows nothing of keys.
The index of a source stands for its action, so a decision is visible as such. Every
emission goes to both backends: `emitted` is what the FST builder is given, `tree` is the
radix tree.

**RadixTree.** A node is named by the path to it, so that edges and prefixes follow from
the set of nodes. `insert` finds the last node on the way to the key and the child that
`radix.go:68` finds there; where that child is no prefix of the key, a node without a
match comes to be at the fork (`radix.go:84-98`), unless the key ends there
(`radix.go:99-117`, which ascending keys never reach). `Get` asks the nodes that are
prefixes of the key; the code meets these on its one descent because a node has at most
one child for a byte (`TreeDescends`).

**Router.** `Rebuild` is `RebuildStart`, then per source and interleaved with the
others `FetchNotModified`, or `FetchModified` (validator taken) and later
`WriteRun`/`WriteRunFails`/`FetchEmpty`/`FetchFails`; then `RefreshDone`,
`RetainRemove`, `RetainDone` (the condition of `router.go:66`),
`CompileAndPublish`, `Persist`. A start is `LoadSaved` or `LoadRuns`, after which
the first Rebuild begins. A file is the old one or the new one, which
`Process!NothingCutShort` justifies. Between processes the operator may change the
configuration of a source, the list of sources and the backend; `config[s]` stands for
the fingerprint: all of a source's configuration. In the passing run a configuration comes
back, and fst follows radix, only where no run is left that was fetched under another one
or with the radix backend, which compiles at each start; `RouterCrash` shows what happens
otherwise.

**Store.** A file is the sequence of its sections in the order they are written, or
`NoFile`. `writeAtomic` is `CreateTemp`, then `Replace` or `GiveUp` (an error of any step):
what the temporary file holds in between is read by nobody. `unsynced` are the files whose
content the disk may not have; `PowerLoss` cuts these off anywhere. `RunReadable` and
`FSTReadable` are what `readHeader` and `sectionValue` would accept.

**Process.** `main` and `rebuilder` are the places where the two goroutines stand. Main:
`Start` (signal handlers), `NewStore` (all of `NewServer` up to the store; the adoption in it
is `IPMapper`), `LoadSaved`/`LoadRuns`+`Saved`/`LoadNothing`, `StartListeners` (after
`WaitReady`), `StopServing`, then `Shutdown` and `ShutdownReturns` per listener and `Exit`, or
`ExitTimeout`. Rebuilder: `NotifyHangup`, then a Rebuild as in `Router` but for what it does
to files, then the select: `TakeHangup`, `TakeTick`, `RebuilderReturns`. `caught` is whether
SIGHUP goes to the channel, `hup` its one place, `unread` the lists no Rebuild has asked for
since the last SIGHUP. A query is *early* if it was taken before ctx was done. What the
library does with a listener that is shut down before it has opened is not in the
repository; such a listener takes no query here. The backend is fst; with radix there is
nothing to save.

**DNSHandler.** A query is `QueryMalformed` (FORMERR), `QuerySuppressed`, `QueryNoData`,
`Query`, which notes the action, or `QueryUnkeyed`, a name that is not cached and shares no
flight. The action is any the router may have in force at that moment: it may be rebuilt
between any two queries. Then `CacheHit` or `CacheMiss`; `JoinFlight` or `OpenFlight`; the flight tries
the upstreams (`TryAnswers`, `TryFails`), runs out of its budget or of upstreams,
stores and returns; `MakeReply` builds the reply, where `Map` may fail for any of the
records; `WriteTo` ends.

Operators whose comment begins with "Mutation:" stand before the definition they
vary. They are not part of any specification: each is a plausible slip in that
piece of code, and `PROJECT.json` names the property that notices it.

## 3. What the runs check

A run is `tlc -config X.cfg M` for its entry in `PROJECT.json`.

| Run | Instance | Shows |
| --- | --- | --- |
| `Pool` | 4 addresses | no double issue, no leak, the slice stays within twice the pool, released addresses come back in their order (`FakePool`) |
| `MapperNft` | nft, 3 fakes and a foreign one, 2 reals, 2 handlers, TTL 3, Add and Delete fail, crashes with nothing pending | one owner per fake, rule before and as long as the mapping, no orphans, answers stay good, pool used as promised |
| `MapperIptables` | iptables, 2 fakes and a foreign one, 2 reals, 2 handlers, Add and Delete fail, crashes at any moment, fair | one rule per fake, no orphans; every `Map` returns; without queries and crashes the pool drains |
| `Matcher` | 3 sources, at most 4 records in all, 5 texts with nested labels, a hyphen and a leading dot, 9 queries | the merge and the lookup decide as the definition by sets; both backends agree; no two children of a node begin alike; the FST builder's order; a last prune source overrides all |
| `Router` | both backends, 2 sources, 3 versions of which one is empty, 2 configurations, failing writes and saves, ends of the process once `matcher.fst` is saved (with radix at any moment), fair | a fetched list is in force, "not modified" is true, last-known-good; the router catches up |
| `Handler` | 2 names, 2 handlers, 2 upstreams of which one is healthy, a cache of one entry, fair | nothing escapes, fallback reaches all, failures are not cached; every query ends |
| `Process` | 2 sources and the run of a former one, 2 listeners with a query each, signals, errors, kills and losses of power at any moment, fair | runs are whole, temporary files are their writers', early queries find a matcher; a SIGHUP is served, the process ends when told, early queries are answered |

Why the bounds are enough. Two handlers and two reals give every race the mapper
has: same real (shared flight, second look), different reals (the pool), and the
cleaner against either. Three fakes for two reals let an address be released and
issued again while another waits; two fakes exhaust the pool. TTL 3 with a lease of
2 and a slack of 1 meets the assumption with equality. In `Matcher` the keys contain
a domain, its subdomains two levels down, and keys that sort between them; three
sources are needed for a prune above, a winner and a loser; four records are a
prune, its subdomain, and a sibling in between with a nested prune; records that begin alike without one being a prefix of the other split
nodes of the tree. In `Router` two
sources show the interference through a common compilation, and three versions a
list that becomes empty and usable again. In `Process` two sources let one finish while the
other writes, two listeners let one fail while the other serves; one query per listener is
enough for it to be stuck. In `DNSHandler` one cached entry for two
names makes eviction happen.

Findings: runs that TLC refutes, one property each, with the text of the
repository they contradict in `PROJECT.json`:

- `MapperAdoptError`: an error of `Delete` in `adopt` is only logged; in iptables the
  fake later has two rules.
- `MapperRestart`: after a crash between `expired` and `Delete`, adoption may keep the
  older of two fakes of a real address and drop the one that clients use.
- `RouterCrash`: after a crash between `WriteRun` and `SaveFST` the next process loads a
  `matcher.fst` that is older than the runs, and a Rebuild that finds the runs up to
  date leaves it in force.
- `MatcherPrune`: a prune record whose key a later source lists too prunes nothing
  (`matcher.go:112`), while README.md:160-165 has pruning happen when the prune source is
  processed, before the later one. `Resolve` in `Matcher`, which the passing run compares the
  matcher with, follows the comment in the code (`matcher.go:46-47`: the source that wins a key
  prunes); the two differ in this case alone.
- `ProcessReload`: a SIGHUP before `signal.Notify`, that is during adoption and `LoadCached`, or after
  `signal.Stop` ends the process; under the repository's systemd unit it is not started again.

`RouterCrash.cfg` shows the same end by other ways when its constants are varied:
with `Backends = {"fst", "radix"}`, `ConfigReverts = TRUE` and `CrashWhen = "saved"`, by a change of
backend and back; with `MaxConfig = 2`, `ConfigReverts = TRUE` and `CrashWhen = "saved"`, by a configuration
that is tried while the origin of one source is down, compiled because another source
was updated, and reverted.

The passing runs exclude exactly these: `AdoptFails = FALSE` in the mapper's,
`CrashWhen = "settled"` where `LeaseHonoured` is checked, and in `Router` `CrashWhen = "saved"` and
`ConfigReverts = FALSE`. `Process` has the SIGHUPs of `ProcessReload` and claims nothing for the
queries they cut off.

Other differences between text and code, met while modelling and not worth a run:
`cache.ttl` (README.md:175) is never used, because a response without a TTL of its own is
not cached (`cache.go:150`); a handler that missed the cache before a flight ended, and calls
`sf.Do` after it, resolves the name again (`cache.go:96-100`), while README.md:218-219 has
simultaneous misses go upstream once; the comment at `pool.go:17` says that a released fake is issued
last, and the code issues it before any that was never issued (`pool.go:67`): `FakePool`
promises the order among released ones only, and that a client does not meet a fake with a new
meaning rests on the mapping's TTL (`LeaseHonoured`), not on that order; a text with two leading dots (`..com`) gets the key `com.`
and matches nothing (`radix.go:204`); `WaitReady` returns during a cold start when the process is
told to stop, and the listeners are opened without a matcher before they are shut down
(`antizapret-go.go:115`; late queries in `Process`); a listener that cannot bind ends the process
with status 0, which `Restart=on-failure` of the unit does not restart (`antizapret-go.go:137`).

## 4. Fairness

- Goroutines that can run do run: weak fairness of each handler, each flight, the
  cleaner, the rebuilder and the start. The cleaner and the rebuilder are loops over a
  ticker, so each comes round again (`server.go:71-89`, `137-151`). Time passes: weak
  fairness of `Tick` in `IPMapper`.
- `SF(CleanDelete(TRUE))`: a firewall call that is tried for ever succeeds at some time.
  Without it a kernel that refuses every deletion keeps its rules, and nothing the
  program does could change that. It is needed for `PoolDrains` alone.
- `SF(FetchModified(s))` and `SF(WriteRun(s))`: an origin asked for ever answers at some
  time and the file system accepts the run at some time. They are needed for `CatchesUp`,
  which promises nothing about an origin that is gone for good.
- No fairness of queries, crashes, signals or changes of origins and configuration.
- In `Process` main, the rebuilder and the shutdown's timer go on; a Rebuild comes to its end
  because each fetch has the rebuild's deadline (`server.go:99`). The ticker, queries and their
  answers are not fair: `ReloadServed` does not lean on the next tick nor `ProcessEnds` on a query
  that is answered.
- In `DNSHandler` an exchange ends in an answer, an error or the timeout because its
  context has a deadline (`dns_handler.go:63`): weak fairness of the flight.

## 5. What is proved

Every invariant that a passing run checks is also a theorem, for every value of the
constants that satisfies the modules' assumptions; so are all action properties and both
refinements of the pool. What more a theorem assumes is named with it.

1. `FakePoolProofs!LedgerInvariant`: in the abstract pool each address is in exactly one
   of the three places and queued at most once. `Ledger` is inductive as it stands.
2. `IPPoolProofs!TypeCorrect`, `Refinement`, `NeverIssuedTwice`, `NeverLost`,
   `SliceBounded`: the code's representation implements `FakePool`, so that what (1) says
   holds of it. Types alone are not inductive: the invariant `IInv` adds that no adopted
   address is above `maxAdopt` (so the skip set is dropped in time) and that the cursor has
   not moved before adoption is over (so an adopted address is fresh). Each action is mapped
   to an action of `FakePool` or a stutter. For the bound on the slice: no address is queued
   twice, so what is live of the slice is no longer than the prefix, and when a `release` has
   grown the slice its dead part is no longer than the live one.
3. `IPMapperProofs!TypeCorrect`, `NoTwoOwners`, `PoolRefinement`: with either backend, all
   failures and crashes at any moment. `Shape` says what a flight and a call hold at each
   program point and that nothing but adoption happens before the process is up;
   `Ownership` says that fresh, queue, table, flights and stale batch share no address
   and lose none.
4. `IPMapperProofs!OneTarget`, `EntriesServed`, `EveryRuleOwned`: under `AdoptionDeletes`
   (adoption's Delete does not fail), `DnatUnambiguous`, `TableInKernel` and `NoOrphans`. The
   invariant `Rules` adds that an address the pool can issue has no rule, save the listed
   ones adoption has still to look at.
5. `IPMapperProofs!ClientsKeepTheirAnswers`: under `AdoptionDeletes` and `CrashesSettled`
   (the process does not die while teardowns are pending), `LeaseHonoured`. The invariant
   `Leases` bounds the time a client may still use an answer by the time left to its
   mapping, with the way of the answer counted in.
6. `ProcessProofs!TypeCorrect`, `RunsWhole`, `TempsTheirs`, `MatcherFirst`, `QueriesAnswered`:
   for any sources and
   listeners, with kills and losses of power at any moment. The invariant `IInv` adds to the
   properties what they need to be inductive: nothing is ever unsynced, so that a loss of
   power takes nothing (`Files`); a run is written only by a refresh that has not ended, and
   `matcher.fst` only by main before the listeners or by the rebuilder at the end of a Rebuild, so
   that `Retain` and the two writers of `matcher.fst` do not meet (`Writers`); and what marks a
   matcher as there, warm or ready, or a listener open, implies one (`Matchers`);
   a listener that is shut has no query left (`Answered`).

7. `MatcherProofs!TypeCorrect`, `KeysAscend`, `OnePassIsExact`, `TreeNeverForksTwice`,
   `OneMeaning`, `MatcherResolves`, `LastSourceOverrides`: for any number of sources, any
   lists and queries. The invariant of the merge (`Merge`) has these parts: all cursors
   stand at the same key (`InStep`); the frames on the stack are nested, each of the winner of
   a key that was read (`Nested`); a pruning winner is still on the stack while a key that
   begins with its key is unread (`Remembered`); and the keys emitted are exactly those read
   that no pruning winner of higher index covers (`Exact`). `Remembered` is the heart of it. A
   frame is popped as soon as the key read is not below it, and that is for good because the
   strings that begin with a given one are contiguous in byte order (lemma `PassedForGood`).
   That holds of plain prefixes but not of the subdomains of a domain, which keys with a
   hyphen interrupt; so the stack must pop by prefix and test by label, as it does. `Built` is
   the invariant of the tree: its root, one child per byte, and matches where and as they
   were emitted. From both, the longest label prefix that `Lookup` finds in the FST is the last
   match on the descent of `Get`.
   `MatcherResolves` and `LastSourceOverrides`, which speak of domains and not of keys, assume
   `Faithful(keyOf)`: texts have one key if they are one domain, and the key of a subdomain
   begins with that of the domain and a dot. That `ReverseLabels` does this is induction over
   the text, which the prover cannot do. `MCMatcher` has TLC evaluate it for the texts of the
   instance and for all short ones (the assumption `ReversalFaithful`: up to five bytes, no
   label empty but for a leading dot). A text such as `..com` does not satisfy it (section 3).
8. `RouterProofs!TypeCorrect`, `ValidatorsTrue`: whatever the operator does and whenever the
   process dies. A validator is never above the version that was read after it, and the
   versions of an origin only ascend (`RunsTrue`).
   `RouterProofs!MatcherFollowsRuns`, `ListsStay` (`RunsInForce`, `LastKnownGood`), under
   `MatchersSettled`: if `fst` is one of the backends, the process does not end while
   `matcher.fst` is behind the runs and no configuration or backend comes back. With the radix backend alone
   nothing is assumed. The invariant `Followed` has what a Rebuild needs to be right when it
   does *not* compile: what differs between the matcher and the runs has been noted as updated
   or removed (`Pending`), what a start finds in `matcher.fst` is of the runs that are there
   (`Saved`), and a source in force has not lost its run (`HeldHasRun`).
9. `HandlerProofs!TypeCorrect`, `DecisionKept`, `EveryUpstreamAsked`, `FailuresForgotten`:
   any names, handlers, upstreams, capacity and lifetimes. The invariant adds to the properties
   that the upstreams a flight has passed by are not healthy (`Flights`), and that an entry is
   of a response that did not fail (`Entries`). That a flight without an answer has met every
   upstream, from wherever its round began, is the lemma `RoundMeetsAll` on the remainders.

The assumptions of 4, 5 and 8 are those the runs `MapperAdoptError`, `MapperRestart` and
`RouterCrash` show to be needed.

Only model-checked: liveness (`CallsReturn`, `PoolDrains`, `CatchesUp`, `QueriesEnd`,
`ReloadServed`, `ProcessEnds`), which is out of the prover's reach, as are statements with
ENABLED; and `Faithful`, since what a recursion over data computes cannot be proved either.

## 6. What is not modelled

- Text: parsers, filter, normalisation of names; iptables' listing. Pure functions: the
  content of an origin is a version in `Router` and a set of texts in `Matcher`. Bytes of runs
  and FST, and files that something other than a crash has corrupted.
- How the children of a node are searched (linear up to eight, binary beyond), and the
  inside of vellum's FST: a function from keys to values, built from ascending keys.
- The netlink batch that the calls of one nft connection share, and what an error leaves in it:
  calls are atomic, as the mutex makes them.
- An error of `OpenRun` on a run that is there (`router.go:128`): the compilation goes on without
  that list. `LastKnownGood` is about origins and writing, not about runs that cannot be read.
- An error of the compilation (`router.go:68`): the FST builder refuses only keys that do not
  ascend, which `KeysAscend` excludes.
- The granularity of a validator: size and mtime, ETag or Last-Modified are the version, so that two
  contents with one validator do not occur.
- A failure to remove a run (`Retain`); with the fst backend the list of a dropped source would stay in
  force until the next compilation.
- Aliasing of records between copies of a message; truncation for UDP.
- The set-up of table, chain, set and rule in nft and iptables.
- Metrics and their HTTP server, logging, configuration reading: nothing else depends on what
  they do after the start.

## 7. Plan

Done: `FakePool`, `IPPool`; `Firewall`, `IPMapper`; `RadixTree`, `Matcher`; `Router`;
`DNSHandler`; `Store`, `Process`; proofs of all safety properties of the passing runs.

Next, in this order:

1. `NftManager`: the shared batch, the fallback of `Delete` and its order of calls, shown to
   implement `Firewall`'s outcomes; the refinement proved.
2. An abstract specification of the mapper (a lease table: answers given and kept) and of the
   router (a list is in force or not), and that the detailed ones implement them.
3. `Router` with the filter as part of a run's content and with runs that cannot be opened, for
   `openRuns`.
4. `DNSHandler` composed with the mapper: replies whose fakes are those of `IPMapper`.
