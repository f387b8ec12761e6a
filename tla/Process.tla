------------------------------- MODULE Process -------------------------------
(***************************************************************************)
(* The life of the process (src/cmd/antizapret-go.go, src/server/server.go)*)
(* and what it does to its files: main, which starts, waits for the lists, *)
(* listens and shuts down; the goroutine that rebuilds the router, by      *)
(* signal and by ticker; the listeners with their queries; and the ends a  *)
(* process may come to.  A Rebuild is modelled by what it does to the      *)
(* files, with matcher_backend fst; what it makes of the lists is Router.  *)
(***************************************************************************)
EXTENDS Store

CONSTANTS
    Listed,         \* the runs of the sources that are configured
    Listeners       \* dns.Server, several per binding

ASSUME ProcessAssumption == Listed \subseteq Runs

VARIABLES
    main,           \* where main stands
    exit,           \* how the last process ended
    told,           \* ctx is done
    rebuilder,      \* where PolicyRebuilder stands
    caught,         \* SIGHUP goes to the channel
    hup,            \* the channel, which has one place
    unread,         \* lists not asked for since the last SIGHUP
    refreshed,      \* what refresh has come to, per source
    matcher,        \* Router.m is set
    warm,           \* LoadCached has set it
    ready,          \* rebuildReady is closed
    listener,       \* where each stands
    query           \* the query each has in flight: taken before or after ctx was done

mainVars == <<main, exit, told, warm>>
rebuilderVars == <<rebuilder, caught, hup, unread, refreshed, ready>>
listenVars == <<listener, query>>
vars == <<main, exit, told, warm, rebuilder, caught, hup, unread, refreshed, ready,
          matcher, listener, query, files, unsynced, temps, writing>>

TypeOK ==
    /\ StoreTypeOK
    /\ main \in {"down", "starting", "loading", "saving", "waiting", "serving", "stopping"}
    /\ exit \in {"none", "fatal", "stopped", "timeout", "hangup", "killed"}
    /\ rebuilder \in {"none", "new", "refresh", "compile", "save", "select", "ended"}
    /\ unread \subseteq Listed
    /\ refreshed \in [Listed -> {"todo", "updated", "kept"}]
    /\ listener \in [Listeners -> {"closed", "opening", "open", "deaf", "shut"}]
    /\ query \in [Listeners -> {"none", "early", "late"}]
    /\ {told, caught, hup, matcher, warm, ready} \subseteq BOOLEAN
    /\ writing \subseteq
          {FST} \union {r \in Listed : rebuilder = "refresh" /\ refreshed[r] = "todo"}
    /\ FST \in writing <=> main = "saving" \/ rebuilder = "save"

AllTodo == [r \in Listed |-> "todo"]

Init ==
    /\ StoreInit
    /\ main = "down" /\ exit = "none" /\ told = FALSE /\ warm = FALSE /\ matcher = FALSE
    /\ rebuilder = "none" /\ caught = FALSE /\ hup = FALSE /\ ready = FALSE
    /\ unread = {} /\ refreshed = AllTodo
    /\ listener = [l \in Listeners |-> "closed"] /\ query = [l \in Listeners |-> "none"]

\* All that was in memory is gone.
Ends(how) ==
    /\ main # "down"
    /\ main' = "down" /\ exit' = how /\ told' = FALSE /\ warm' = FALSE /\ matcher' = FALSE
    /\ rebuilder' = "none" /\ caught' = FALSE /\ hup' = FALSE /\ ready' = FALSE
    /\ unread' = {} /\ refreshed' = AllTodo
    /\ listener' = [l \in Listeners |-> "closed"] /\ query' = [l \in Listeners |-> "none"]

-----------------------------------------------------------------------------
(* main, up to the listeners. *)

Start ==
    /\ main = "down"
    /\ main' = "starting"
    /\ exit' = "none"
    /\ UNCHANGED <<told, warm, rebuilderVars, matcher, listenVars, storeVars>>

\* The configuration, the firewall, the upstreams or the store: Fatalw.
StartFails == main = "starting" /\ Ends("fatal") /\ Abandon

NewStore ==
    /\ main = "starting"
    /\ OpenStore
    /\ main' = "loading"
    /\ UNCHANGED <<exit, told, warm, rebuilderVars, matcher, listenVars>>

\* NewServer returns, the goroutines are started.
Started ==
    /\ main' = "waiting"
    /\ warm' = matcher'
    /\ rebuilder' = "new"
    /\ UNCHANGED <<exit, told, caught, hup, unread, refreshed, ready, listenVars>>

LoadSaved ==
    /\ main = "loading"
    /\ FSTReadable
    /\ matcher' = TRUE
    /\ Started
    /\ UNCHANGED storeVars

LoadNothing ==
    /\ main = "loading"
    /\ ~FSTReadable /\ ~ \E r \in Listed : RunReadable(r)
    /\ UNCHANGED <<matcher, storeVars>>
    /\ Started

LoadRuns ==
    /\ main = "loading"
    /\ ~FSTReadable /\ \E r \in Listed : RunReadable(r)
    /\ matcher' = TRUE
    /\ CreateTemp(FST)
    /\ main' = "saving"
    /\ UNCHANGED <<exit, told, warm, rebuilderVars, listenVars>>

Saved == main = "saving" /\ (Replace(FST) \/ GiveUp(FST)) /\ UNCHANGED matcher /\ Started

\* It returns when there is a matcher, after the first Rebuild, or when ctx is done.
WaitReady == warm \/ ready \/ told

\* Mutation: the listeners do not wait for the lists.
StartListenersAtOnce ==
    /\ main = "waiting"
    /\ main' = "serving"
    /\ listener' = [l \in Listeners |-> "opening"]
    /\ UNCHANGED <<exit, told, warm, rebuilderVars, matcher, query, storeVars>>

StartListeners ==
    /\ main = "waiting"
    /\ WaitReady
    /\ main' = "serving"
    /\ listener' = [l \in Listeners |-> "opening"]
    /\ UNCHANGED <<exit, told, warm, rebuilderVars, matcher, query, storeVars>>

-----------------------------------------------------------------------------
(* PolicyRebuilder. *)

RebuildBegins ==
    /\ rebuilder' = "refresh"
    /\ refreshed' = AllTodo

\* signal.Notify, then the first Rebuild.
NotifyHangup ==
    /\ rebuilder = "new"
    /\ caught' = TRUE
    /\ RebuildBegins
    /\ UNCHANGED <<mainVars, hup, unread, ready, matcher, listenVars, storeVars>>

Refreshing(r) == rebuilder = "refresh" /\ refreshed[r] = "todo"

\* Not modified, empty, or failed, ctx being done for one.
FetchNothing(r) ==
    /\ Refreshing(r)
    /\ r \notin writing
    /\ refreshed' = [refreshed EXCEPT ![r] = "kept"]
    /\ unread' = unread \ {r}
    /\ UNCHANGED <<mainVars, rebuilder, caught, hup, ready, matcher, listenVars, storeVars>>

FetchModified(r) ==
    /\ Refreshing(r)
    /\ r \notin writing
    /\ CreateTemp(r)
    /\ unread' = unread \ {r}
    /\ UNCHANGED <<mainVars, rebuilder, caught, hup, refreshed, ready, matcher, listenVars>>

WriteRun(r) ==
    /\ Refreshing(r)
    /\ \/ Replace(r) /\ refreshed' = [refreshed EXCEPT ![r] = "updated"]
       \/ GiveUp(r) /\ refreshed' = [refreshed EXCEPT ![r] = "kept"]
    /\ UNCHANGED <<mainVars, rebuilder, caught, hup, unread, ready, matcher, listenVars>>

MustCompile ==
    \/ \E r \in Listed : refreshed[r] = "updated"
    \/ Stale(Listed) # {}
    \/ ~matcher

\* The first time rebuildReady is closed.
Rebuilt == rebuilder' = "select" /\ ready' = TRUE

\* Mutation: nothing waits for the sources to be refreshed.
RetainRunsEarly ==
    /\ rebuilder = "refresh"
    /\ \E r \in Listed : refreshed[r] # "todo"
    /\ Retain(Listed)
    /\ UNCHANGED <<mainVars, rebuilderVars, matcher, listenVars>>

\* wg.Wait; Retain; and whether there is anything to compile.
RetainRuns ==
    /\ rebuilder = "refresh"
    /\ \A r \in Listed : refreshed[r] # "todo"
    /\ Retain(Listed)
    /\ IF MustCompile THEN rebuilder' = "compile" /\ UNCHANGED ready ELSE Rebuilt
    /\ refreshed' = AllTodo
    /\ UNCHANGED <<mainVars, caught, hup, unread, matcher, listenVars>>

\* Mutation: matcher.fst is saved by a goroutine of its own.
CompileSavingBeside ==
    /\ rebuilder = "compile"
    /\ matcher' = TRUE
    /\ CreateTemp(FST)
    /\ Rebuilt
    /\ UNCHANGED <<mainVars, caught, hup, unread, refreshed, listenVars>>

Compile ==
    /\ rebuilder = "compile"
    /\ matcher' = TRUE
    /\ CreateTemp(FST)
    /\ rebuilder' = "save"
    /\ UNCHANGED <<mainVars, caught, hup, unread, refreshed, ready, listenVars>>

SaveFST ==
    /\ rebuilder = "save"
    /\ Replace(FST) \/ GiveUp(FST)
    /\ Rebuilt
    /\ UNCHANGED <<mainVars, caught, hup, unread, refreshed, matcher, listenVars>>

TakeHangup ==
    /\ rebuilder = "select"
    /\ hup
    /\ hup' = FALSE
    /\ RebuildBegins
    /\ UNCHANGED <<mainVars, caught, unread, ready, matcher, listenVars, storeVars>>

TakeTick ==
    /\ rebuilder = "select"
    /\ RebuildBegins
    /\ UNCHANGED <<mainVars, caught, hup, unread, ready, matcher, listenVars, storeVars>>

\* ctx.Done; the deferred signal.Stop.
RebuilderReturns ==
    /\ rebuilder = "select"
    /\ told
    /\ rebuilder' = "ended"
    /\ caught' = FALSE
    /\ hup' = FALSE
    /\ UNCHANGED <<mainVars, unread, refreshed, ready, matcher, listenVars, storeVars>>

Rebuild ==
    \/ \E r \in Listed : FetchNothing(r) \/ FetchModified(r) \/ WriteRun(r)
    \/ RetainRuns \/ Compile \/ SaveFST

-----------------------------------------------------------------------------
(* The listeners and their queries. *)

Listen(l) ==
    /\ listener[l] = "opening"
    /\ listener' = [listener EXCEPT ![l] = "open"]
    /\ UNCHANGED <<mainVars, rebuilderVars, matcher, query, storeVars>>

\* ListenAndServe returns an error and takes no more queries; cancel.
ListenFails(l) ==
    /\ listener[l] \in {"opening", "open"}
    /\ listener' = [listener EXCEPT ![l] = "deaf"]
    /\ told' = TRUE
    /\ UNCHANGED <<main, exit, warm, rebuilderVars, matcher, query, storeVars>>

TakeQuery(l) ==
    /\ listener[l] = "open"
    /\ query[l] = "none"
    /\ query' = [query EXCEPT ![l] = IF told THEN "late" ELSE "early"]
    /\ UNCHANGED <<mainVars, rebuilderVars, matcher, listener, storeVars>>

Answer(l) ==
    /\ query[l] # "none"
    /\ query' = [query EXCEPT ![l] = "none"]
    /\ UNCHANGED <<mainVars, rebuilderVars, matcher, listener, storeVars>>

-----------------------------------------------------------------------------
(* The end. *)

StopServing ==
    /\ main = "serving"
    /\ told
    /\ main' = "stopping"
    /\ UNCHANGED <<exit, told, warm, rebuilderVars, matcher, listenVars, storeVars>>

\* Shutdown: a listener takes no more queries, also one that was not open yet.
Shutdown(l) ==
    /\ main = "stopping"
    /\ listener[l] \in {"opening", "open"}
    /\ listener' = [listener EXCEPT ![l] = "deaf"]
    /\ UNCHANGED <<mainVars, rebuilderVars, matcher, query, storeVars>>

\* It returns when its queries are answered.
ShutdownReturns(l) ==
    /\ main = "stopping"
    /\ listener[l] = "deaf"
    /\ query[l] = "none"
    /\ listener' = [listener EXCEPT ![l] = "shut"]
    /\ UNCHANGED <<mainVars, rebuilderVars, matcher, query, storeVars>>

\* Mutation: done is closed by the first listener.
ExitOfFirst ==
    /\ main = "stopping"
    /\ \E l \in Listeners : listener[l] = "shut"
    /\ Ends("stopped") /\ Abandon

\* main returns while the rebuilder may be at work.
Exit ==
    /\ main = "stopping"
    /\ \A l \in Listeners : listener[l] = "shut"
    /\ Ends("stopped") /\ Abandon

\* Mutation: the wait has no limit of its own.
ExitTimeoutNever == FALSE /\ Ends("timeout") /\ Abandon

ExitTimeout == main = "stopping" /\ Ends("timeout") /\ Abandon

-----------------------------------------------------------------------------
(* What comes from outside. *)

\* SIGINT or SIGTERM.
Term ==
    /\ main # "down"
    /\ told' = TRUE
    /\ UNCHANGED <<main, exit, warm, rebuilderVars, matcher, listenVars, storeVars>>

\* Mutation: the channel has no place, and nobody waits at it during a Rebuild.
HangupUnbuffered ==
    /\ main # "down"
    /\ caught
    /\ hup' = (rebuilder = "select")
    /\ unread' = Listed
    /\ UNCHANGED <<mainVars, rebuilder, caught, refreshed, ready, matcher, listenVars, storeVars>>

Hangup ==
    /\ main # "down"
    /\ caught
    /\ hup' = TRUE
    /\ unread' = Listed
    /\ UNCHANGED <<mainVars, rebuilder, caught, refreshed, ready, matcher, listenVars, storeVars>>

\* The default action, before signal.Notify and after signal.Stop.
HangupUncaught == ~caught /\ Ends("hangup") /\ Abandon

Kill == Ends("killed") /\ Abandon

LosePower == Ends("killed") /\ PowerLoss

-----------------------------------------------------------------------------
Main ==
    \/ NewStore \/ LoadSaved \/ LoadNothing \/ LoadRuns \/ Saved
    \/ StartListeners \/ StopServing \/ Exit

Next ==
    \/ Start \/ StartFails
    \/ Main \/ ExitTimeout
    \/ NotifyHangup \/ Rebuild \/ TakeHangup \/ TakeTick \/ RebuilderReturns
    \/ \E l \in Listeners :
        \/ Listen(l) \/ ListenFails(l) \/ Shutdown(l) \/ ShutdownReturns(l)
        \/ TakeQuery(l) \/ Answer(l)
    \/ Term \/ Hangup \/ HangupUncaught \/ Kill \/ LosePower

\* Main and the rebuilder go on and timers fire.  Nothing is asked of the ticker, the
\* signals, or the queries, which may take for ever.
Fairness ==
    /\ WF_vars(Main) /\ WF_vars(ExitTimeout)
    /\ WF_vars(NotifyHangup) /\ WF_vars(Rebuild) /\ WF_vars(TakeHangup)

Spec == Init /\ [][Next]_vars /\ Fairness

-----------------------------------------------------------------------------
\* store.go:90-117, 155-177.  A run whose header can be read has all its records,
\* after any crash, error or loss of power: a shorter one would be compiled, and kept
\* for ever by a validator that says "not modified".
NothingCutShort == \A r \in Runs : RunReadable(r) => files[r] = Whole(r)

\* store.go:46-47, 78-88, 217-222, router.go:48.  Once the store is open, the temporary
\* files are those of the writers at work: what a former process left is gone, and
\* Retain takes no file from a source that is still writing.
TempsOwned ==
    main \notin {"down", "starting"} => writing = temps

\* antizapret-go.go:115, server.go:71-73, 109-117.  Without a matcher every name would
\* pass unmapped: a query taken before the process is told to stop finds one.
NoAnswerWithoutMatcher ==
    \A l \in Listeners : query[l] = "early" => matcher

\* antizapret-go.go:98-103, server.go:78-88, README.md:59.  After a SIGHUP each list is
\* asked for again, though the ticker may not tick and the signal may come at any time
\* of a Rebuild, unless the process is told to stop.
ReloadServed == \A r \in Listed : r \in unread ~> (r \notin unread \/ told)

\* antizapret-go.go:146-172.  Told to stop, or with a listener that fails, the process
\* ends, though a query be stuck.
ProcessEnds == told ~> main = "down"

\* antizapret-go.go:151-164.  A process that ends in time has answered every query it
\* took before it was told to stop.
InFlightAnswered ==
    [][main # "down" /\ exit' = "stopped" => \A l \in Listeners : query[l] # "early"]_vars

\* contrib/antizapret-go.service:15, 28; README.md:59.  The lists are read again
\* without a restart: a SIGHUP does not end the process.
ReloadWithoutRestart == exit # "hangup"
==============================================================================
