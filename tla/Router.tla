-------------------------------- MODULE Router --------------------------------
(***************************************************************************)
(* The life of the domain lists: the origins they are fetched from, the    *)
(* run each source leaves on disk, the compiled matcher.fst next to them,  *)
(* and the matcher in memory (src/server/router/router.go, source.go,      *)
(* fetcher.go, store/store.go), with the goroutine that rebuilds the       *)
(* router (src/server/server.go).  The sources are refreshed in parallel;  *)
(* the process may die between any two steps and come back with another    *)
(* configuration.                                                          *)
(*                                                                         *)
(* A compiled matcher is, for each source, the configuration and the       *)
(* content it was built from: how these decide on a domain is Matcher.     *)
(***************************************************************************)
EXTENDS Naturals, FiniteSets

CONSTANTS
    Sources,
    None,
    MaxVersion,     \* bound on the versions an origin goes through
    EmptyVersions,  \* those that hold no usable entry
    MaxConfig,      \* bound on the configurations a source goes through
    ConfigReverts,  \* the operator may return to a former configuration, or from fst to radix
                    \* (with radix, and while the runs are up to date, this is always possible)
    Backends,       \* the values of matcher_backend that are used
    WriteFails,     \* WriteRun may fail
    SaveFails,      \* SaveFST may fail
    CrashWhen       \* when the process may end

ASSUME RouterAssumption ==
    /\ MaxVersion \in Nat \ {0} /\ EmptyVersions \subseteq 1..MaxVersion
    /\ MaxConfig \in Nat \ {0}
    /\ Backends \subseteq {"fst", "radix"} /\ Backends # {}
    /\ {ConfigReverts, WriteFails, SaveFails} \subseteq BOOLEAN
    /\ CrashWhen \in {"never", "saved", "any"}

VARIABLES
    pc,             \* where Rebuild stands, "down" without a process
    listed,         \* the sources that are configured
    config,         \* the fingerprint each has
    backend,
    origin,         \* version of the content at each origin
    runs,           \* runs/*.run: validator, content and fingerprint
    fst,            \* matcher.fst
    matcher,        \* Router.m
    result,         \* what refresh has come to, per source
    seen,           \* validator taken before the content is read
    removed         \* Retain has removed a run

diskVars == <<runs, fst>>
outsideVars == <<listed, config, backend, origin>>
vars == <<pc, listed, config, backend, origin, runs, fst, matcher, result, seen, removed>>

Versions == 1..MaxVersion
Config == 1..MaxConfig

Run == [validator : Versions, content : Versions, fingerprint : Config]
Part == [config : Config, content : Versions]
Compilation == [Sources -> Part \union {None}]

ASSUME NoneAssumption == None \notin Versions \union Run \union Part \union Compilation

TypeOK ==
    /\ pc \in {"down", "refresh", "retain", "compile", "persist", "serving"}
    /\ listed \subseteq Sources
    /\ config \in [Sources -> Config]
    /\ backend \in Backends
    /\ origin \in [Sources -> Versions]
    /\ runs \in [Sources -> Run \union {None}]
    /\ fst \in Compilation \union {None}
    /\ matcher \in Compilation \union {None}
    /\ result \in [Sources -> {"todo", "reading", "unchanged", "updated", "stale", "missing"}]
    /\ seen \in [Sources -> Versions \union {None}]
    /\ removed \in BOOLEAN

-----------------------------------------------------------------------------
\* What compile makes of the runs that openRuns finds.
Compiled ==
    [s \in Sources |->
        IF s \in listed /\ runs[s] # None
        THEN [config |-> config[s], content |-> runs[s].content]
        ELSE None]

Nothing == [s \in Sources |-> None]

\* The validator of the run, unless it was fetched under another configuration.
Valid(s) == runs[s] # None /\ runs[s].fingerprint = config[s]

\* persistFST: nothing to save for radix; an error is only logged.
SaveFST(data) ==
    \/ backend = "radix" /\ UNCHANGED fst
    \/ backend = "fst" /\ fst' = data
    \/ backend = "fst" /\ SaveFails /\ UNCHANGED fst

Init ==
    /\ pc = "down"
    /\ listed \in SUBSET Sources
    /\ config = [s \in Sources |-> 1]
    /\ backend \in Backends
    /\ origin = [s \in Sources |-> 1]
    /\ runs = Nothing
    /\ fst = None
    /\ matcher = None
    /\ result = [s \in Sources |-> "todo"]
    /\ seen = Nothing
    /\ removed = FALSE

-----------------------------------------------------------------------------
(* Around the process. *)

OriginChanges(s) ==
    /\ origin[s] < MaxVersion
    /\ origin' = [origin EXCEPT ![s] = @ + 1]
    /\ UNCHANGED <<pc, listed, config, backend, diskVars, matcher, result, seen, removed>>

Reconfigure(s, k) ==
    /\ pc = "down"
    /\ IF ConfigReverts \/ backend = "radix" THEN k # config[s] ELSE k > config[s]
    /\ config' = [config EXCEPT ![s] = k]
    /\ UNCHANGED <<pc, listed, backend, origin, diskVars, matcher, result, seen, removed>>

ListOrDrop(s) ==
    /\ pc = "down"
    /\ listed' = IF s \in listed THEN listed \ {s} ELSE listed \union {s}
    /\ UNCHANGED <<pc, config, backend, origin, diskVars, matcher, result, seen, removed>>

ChangeBackend ==
    /\ pc = "down"
    /\ ConfigReverts \/ (backend = "radix" /\ \A s \in Sources : runs[s] = None \/ Valid(s))
    /\ backend' \in Backends \ {backend}
    /\ UNCHANGED <<pc, listed, config, origin, diskVars, matcher, result, seen, removed>>

MayCrash ==
    \/ CrashWhen = "any"
    \/ CrashWhen = "saved" /\ (backend = "radix" \/ (pc = "serving" /\ fst = matcher))

Crash ==
    /\ MayCrash
    /\ pc # "down"
    /\ pc' = "down"
    /\ matcher' = None
    /\ result' = [s \in Sources |-> "todo"]
    /\ seen' = Nothing
    /\ removed' = FALSE
    /\ UNCHANGED <<outsideVars, diskVars>>

-----------------------------------------------------------------------------
(* NewServer calls LoadCached; then PolicyRebuilder begins its first Rebuild. *)

LoadSaved ==
    /\ pc = "down"
    /\ backend = "fst"
    /\ fst # None
    /\ pc' = "refresh"
    /\ matcher' = fst
    /\ UNCHANGED <<outsideVars, diskVars, result, seen, removed>>

LoadRuns ==
    /\ pc = "down"
    /\ backend = "radix" \/ fst = None
    /\ pc' = "refresh"
    /\ IF Compiled = Nothing
       THEN UNCHANGED <<matcher, fst>>
       ELSE matcher' = Compiled /\ SaveFST(Compiled)
    /\ UNCHANGED <<outsideVars, runs, result, seen, removed>>

-----------------------------------------------------------------------------
(* Rebuild, by the ticker or SIGHUP, and first of all at the start. *)

RebuildStart ==
    /\ pc = "serving"
    /\ pc' = "refresh"
    /\ UNCHANGED <<outsideVars, diskVars, matcher, result, seen, removed>>

Refreshing(s, at) == pc = "refresh" /\ s \in listed /\ result[s] = at

FetchNotModified(s) ==
    /\ Refreshing(s, "todo")
    /\ Valid(s)
    /\ runs[s].validator = origin[s]
    /\ result' = [result EXCEPT ![s] = "unchanged"]
    /\ UNCHANGED <<pc, outsideVars, diskVars, matcher, seen, removed>>

\* Mutation: the validator is not handed on.
FetchModifiedUnseen(s) ==
    /\ Refreshing(s, "todo")
    /\ ~(Valid(s) /\ runs[s].validator = origin[s])
    /\ result' = [result EXCEPT ![s] = "reading"]
    /\ UNCHANGED <<pc, outsideVars, diskVars, matcher, seen, removed>>

\* The validator is taken first (fileFetcher: Stat), the content is read later.
FetchModified(s) ==
    /\ Refreshing(s, "todo")
    /\ ~(Valid(s) /\ runs[s].validator = origin[s])
    /\ result' = [result EXCEPT ![s] = "reading"]
    /\ seen' = [seen EXCEPT ![s] = origin[s]]
    /\ UNCHANGED <<pc, outsideVars, diskVars, matcher, removed>>

\* Mutation: a source that is unusable loses its cached run.
KeepNothing(s) ==
    /\ runs' = [runs EXCEPT ![s] = None]
    /\ result' = [result EXCEPT ![s] = IF runs[s] # None THEN "stale" ELSE "missing"]
    /\ seen' = [seen EXCEPT ![s] = None]
    /\ UNCHANGED <<pc, outsideVars, fst, matcher, removed>>

Keep(s) ==
    /\ result' = [result EXCEPT ![s] = IF runs[s] # None THEN "stale" ELSE "missing"]
    /\ seen' = [seen EXCEPT ![s] = None]
    /\ UNCHANGED <<pc, outsideVars, diskVars, matcher, removed>>

\* An origin that cannot be reached, an unreadable list, or the rebuild's timeout.
FetchFails(s) ==
    /\ Refreshing(s, "todo") \/ Refreshing(s, "reading")
    /\ Keep(s)

FetchEmpty(s) ==
    /\ Refreshing(s, "reading")
    /\ origin[s] \in EmptyVersions
    /\ Keep(s)

\* Mutation: the content is read first and the validator taken after it.
WriteRunReadFirst(s) ==
    /\ Refreshing(s, "reading")
    /\ origin[s] \notin EmptyVersions
    /\ runs' = [runs EXCEPT ![s] =
                  [validator |-> origin[s], content |-> seen[s], fingerprint |-> config[s]]]
    /\ result' = [result EXCEPT ![s] = "updated"]
    /\ seen' = [seen EXCEPT ![s] = None]
    /\ UNCHANGED <<pc, outsideVars, fst, matcher, removed>>

WriteRun(s) ==
    /\ Refreshing(s, "reading")
    /\ origin[s] \notin EmptyVersions
    /\ runs' = [runs EXCEPT ![s] =
                  [validator |-> seen[s], content |-> origin[s], fingerprint |-> config[s]]]
    /\ result' = [result EXCEPT ![s] = "updated"]
    /\ seen' = [seen EXCEPT ![s] = None]
    /\ UNCHANGED <<pc, outsideVars, fst, matcher, removed>>

WriteRunFails(s) ==
    /\ WriteFails
    /\ Refreshing(s, "reading")
    /\ origin[s] \notin EmptyVersions
    /\ result' = [result EXCEPT ![s] = "stale"]
    /\ seen' = [seen EXCEPT ![s] = None]
    /\ UNCHANGED <<pc, outsideVars, diskVars, matcher, removed>>

RefreshDone ==
    /\ pc = "refresh"
    /\ \A s \in listed : result[s] \notin {"todo", "reading"}
    /\ pc' = "retain"
    /\ UNCHANGED <<outsideVars, diskVars, matcher, result, seen, removed>>

RetainRemove(s) ==
    /\ pc = "retain"
    /\ s \notin listed
    /\ runs[s] # None
    /\ runs' = [runs EXCEPT ![s] = None]
    /\ removed' = TRUE
    /\ UNCHANGED <<pc, outsideVars, fst, matcher, result, seen>>

\* Mutation: a removed source alone does not ask for a new matcher.
MustCompileUpdatedOnly ==
    \/ \E s \in listed : result[s] = "updated"
    \/ matcher = None

MustCompile ==
    \/ \E s \in listed : result[s] = "updated"
    \/ removed
    \/ matcher = None

\* Mutation: the results are not local to one Rebuild.
RetainDoneKeeping ==
    /\ pc = "retain"
    /\ \A s \in Sources \ listed : runs[s] = None
    /\ pc' = IF MustCompile THEN "compile" ELSE "serving"
    /\ UNCHANGED <<outsideVars, diskVars, matcher, result, seen, removed>>

\* After this the results are not looked at any more; the next Rebuild has its own.
RetainDone ==
    /\ pc = "retain"
    /\ \A s \in Sources \ listed : runs[s] = None
    /\ pc' = IF MustCompile THEN "compile" ELSE "serving"
    /\ result' = [s \in Sources |-> "todo"]
    /\ removed' = FALSE
    /\ UNCHANGED <<outsideVars, diskVars, matcher, seen>>

CompileAndPublish ==
    /\ pc = "compile"
    /\ matcher' = Compiled
    /\ pc' = "persist"
    /\ UNCHANGED <<outsideVars, diskVars, result, seen, removed>>

Persist ==
    /\ pc = "persist"
    /\ SaveFST(matcher)
    /\ pc' = "serving"
    /\ UNCHANGED <<outsideVars, runs, matcher, result, seen, removed>>

Refresh(s) ==
    \/ FetchNotModified(s) \/ FetchModified(s) \/ FetchFails(s) \/ FetchEmpty(s)
    \/ WriteRun(s) \/ WriteRunFails(s)

Rebuild ==
    \/ RebuildStart
    \/ \E s \in Sources : Refresh(s) \/ RetainRemove(s)
    \/ RefreshDone \/ RetainDone \/ CompileAndPublish \/ Persist

Next ==
    \/ \E s \in Sources :
        OriginChanges(s) \/ ListOrDrop(s) \/ \E k \in Config : Reconfigure(s, k)
    \/ ChangeBackend
    \/ Crash
    \/ LoadSaved \/ LoadRuns
    \/ Rebuild

Spec == Init /\ [][Next]_vars

\* The ticker keeps ticking, the rebuilder goes on, and an origin that is asked
\* again and again answers at last, and its answer is written.
Fairness ==
    /\ WF_vars(LoadSaved \/ LoadRuns) /\ WF_vars(Rebuild)
    /\ \A s \in Sources : SF_vars(FetchModified(s)) /\ SF_vars(WriteRun(s))

FairSpec == Spec /\ Fairness

-----------------------------------------------------------------------------
\* router.go:61-66, source.go:64, 91-118.  When a Rebuild is over, a run fetched under
\* the present configuration is in force with it, and a source no longer configured
\* is gone: no order of updates, failures and reconfigurations leaves the router with an
\* older matcher.  CrashWhen and ConfigReverts say which ends of the process and which
\* reconfigurations a run has; with all of them it is not so (RouterCrash).
RunsInForce ==
    pc = "serving" =>
        /\ matcher # None
        /\ \A s \in Sources :
              IF s \in listed
              THEN Valid(s) => matcher[s] = [config |-> config[s], content |-> runs[s].content]
              ELSE matcher[s] = None

\* fetcher.go:48-64.  A source that is reported as not modified has been read to
\* its present content, though the file may change between Stat and Open.
NotModifiedIsTrue ==
    \A s \in Sources :
        runs[s] # None /\ runs[s].validator = origin[s] => runs[s].content = origin[s]

\* README.md:60-62 (last-known-good).  What goes wrong with its origin or with the
\* writing of its run does not take a list away from the clients: a configured
\* source that the matcher holds stays in it as long as the process lives.
LastKnownGood ==
    [][ pc # "down" /\ pc' # "down" =>
          \A s \in listed :
              matcher # None /\ matcher[s] # None => matcher' # None /\ matcher'[s] # None ]_vars

\* README.md:59-62.  If the process stays up, the matcher comes to hold the last
\* content of every configured source, with the present configuration, and nothing
\* of the others; a source that has become empty is left as it was.
UpToDate ==
    /\ pc # "down" /\ matcher # None
    /\ \A s \in Sources :
          IF s \in listed
          THEN origin[s] \notin EmptyVersions =>
                    matcher[s] = [config |-> config[s], content |-> origin[s]]
          ELSE matcher[s] = None

CatchesUp == <>[](pc # "down") => <>[]UpToDate
================================================================================
