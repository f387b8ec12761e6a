---------------------------- MODULE ProcessProofs ----------------------------
(***************************************************************************)
(* The safety of Process, for any sources and listeners: at every step of  *)
(* a start, a Rebuild or a shutdown, with kills and losses of power, the   *)
(* files are whole and the temporary files their writers'; no query is     *)
(* taken without a matcher before the process is told to stop; and those   *)
(* taken before that are answered, if the process stops in time.           *)
(***************************************************************************)
EXTENDS Process, TLAPS

USE StoreAssumption, ProcessAssumption

-----------------------------------------------------------------------------
\* The process has not come so far that there is a rebuilder.
Early == main \in {"down", "starting", "loading", "saving"}

Types ==
    /\ main \in {"down", "starting", "loading", "saving", "waiting", "serving", "stopping"}
    /\ exit \in {"none", "fatal", "stopped", "timeout", "hangup", "killed"}
    /\ rebuilder \in {"none", "new", "refresh", "compile", "save", "select", "ended"}
    /\ unread \subseteq Listed
    /\ refreshed \in [Listed -> {"todo", "updated", "kept"}]
    /\ listener \in [Listeners -> {"closed", "opening", "open", "deaf", "shut"}]
    /\ query \in [Listeners -> {"none", "early", "late"}]
    /\ told \in BOOLEAN /\ caught \in BOOLEAN /\ hup \in BOOLEAN
    /\ matcher \in BOOLEAN /\ warm \in BOOLEAN /\ ready \in BOOLEAN

\* Every file is whole and on the disk.
Files ==
    /\ files \in [Paths -> {NoFile, RunSections, FSTSections}]
    /\ \A p \in Paths : files[p] = NoFile \/ files[p] = Whole(p)
    /\ unsynced = {}

\* Who writes, and that the temporary files are theirs.
Writers ==
    /\ temps \subseteq Paths
    /\ writing \subseteq
          {FST} \union {r \in Listed : rebuilder = "refresh" /\ refreshed[r] = "todo"}
    /\ FST \in writing <=> main = "saving" \/ rebuilder = "save"
    /\ Early => rebuilder = "none"
    /\ main \notin {"down", "starting"} => writing = temps

\* What vouches for a matcher.
Matchers ==
    /\ warm => matcher
    /\ ready => matcher
    /\ rebuilder = "save" => matcher
    /\ (\E l \in Listeners : listener[l] # "closed") => matcher \/ told
    /\ \A l \in Listeners : query[l] = "early" => matcher

\* A process that runs has not ended, and a listener that is shut has answered.
Answered ==
    /\ main # "down" => exit = "none"
    /\ \A l \in Listeners : listener[l] = "shut" => query[l] = "none"

IInv == Types /\ Files /\ Writers /\ Matchers /\ Answered

-----------------------------------------------------------------------------
\* Before the first start the files are whole, nobody writes and no query is known: IInv.
LEMMA InitIInv == Init => IInv
<1> SUFFICES ASSUME Init PROVE IInv
  OBVIOUS
<1>1. Types
  BY DEF Init, Types, AllTodo
<1>2. Files
  BY DEF Init, StoreInit, Files, Whole
<1>3. Writers
  BY DEF Init, StoreInit, Writers, Early
<1>4. Matchers /\ Answered
  BY DEF Init, Matchers, Answered
<1> QED BY <1>1, <1>2, <1>3, <1>4 DEF IInv

\* Every way the process ends, os.Exit or a kill with its temporary files left behind, or
\* a loss of power that takes what was not synced, keeps IInv: nothing is unsynced then.
LEMMA EndsIInv ==
    ASSUME IInv, NEW how \in {"fatal", "stopped", "timeout", "hangup", "killed"},
           Ends(how), Abandon \/ PowerLoss
    PROVE  IInv'
<1>1. Types'
  BY DEF Ends, Types, AllTodo
<1>2. files' = files /\ unsynced' = {} /\ writing' = {} /\ temps' = temps
  <2>1. CASE Abandon
    BY <2>1 DEF Abandon, IInv, Files
  <2>2. CASE PowerLoss
    BY <2>2 DEF PowerLoss, IInv, Files
  <2> QED BY <2>1, <2>2
<1>3. Files'
  BY <1>2 DEF IInv, Files
<1>4. Writers'
  BY <1>2 DEF Ends, Writers, IInv, Early
<1>5. Matchers' /\ Answered'
  BY DEF Ends, Matchers, Answered
<1> QED BY <1>1, <1>3, <1>4, <1>5 DEF IInv

\* antizapret-go.go, main: every step from the start to the end of serving keeps IInv.
LEMMA MainIInv ==
    ASSUME IInv,
           Start \/ NewStore \/ LoadSaved \/ LoadNothing \/ LoadRuns \/ Saved
             \/ StartListeners \/ StopServing
    PROVE  IInv'
<1> USE DEF IInv, Types, Writers, Early, Matchers, Answered
<1>1. CASE Start
  BY <1>1 DEF Start, rebuilderVars, listenVars, storeVars, Files
<1>2. CASE NewStore
  BY <1>2 DEF NewStore, OpenStore, TempsLeft, Paths, rebuilderVars, listenVars, Files
<1>3. CASE LoadSaved
  BY <1>3 DEF LoadSaved, Started, listenVars, storeVars, Files
<1>4. CASE LoadNothing
  BY <1>4 DEF LoadNothing, Started, listenVars, storeVars, Files
<1>5. CASE LoadRuns
  <2>1. Files'
    BY <1>5 DEF LoadRuns, CreateTemp, Files
  <2>2. Types' /\ Matchers' /\ Answered'
    BY <1>5 DEF LoadRuns, rebuilderVars, listenVars
  <2>3. Writers'
    BY <1>5 DEF LoadRuns, CreateTemp, rebuilderVars, Paths
  <2> QED BY <2>1, <2>2, <2>3
<1>6. CASE Saved
  <2>1. Files'
    BY <1>6 DEF Saved, Replace, GiveUp, Files, Paths, Whole
  <2>2. Types' /\ Matchers' /\ Answered'
    BY <1>6 DEF Saved, Started, listenVars
  <2>3. Writers'
    BY <1>6 DEF Saved, Started, Replace, GiveUp
  <2> QED BY <2>1, <2>2, <2>3
<1>7. CASE StartListeners
  BY <1>7 DEF StartListeners, WaitReady, rebuilderVars, storeVars, Files
<1>8. CASE StopServing
  BY <1>8 DEF StopServing, rebuilderVars, listenVars, storeVars, Files
<1> QED BY <1>1, <1>2, <1>3, <1>4, <1>5, <1>6, <1>7, <1>8

\* server.go, the rebuilder: every step of a Rebuild keeps IInv; it is at work on runs while
\* it refreshes, on matcher.fst while it saves.
LEMMA RebuilderIInv ==
    ASSUME IInv, NotifyHangup \/ Rebuild \/ TakeHangup \/ TakeTick \/ RebuilderReturns
    PROVE  IInv'
<1> USE DEF IInv, Types, Writers, Early, Matchers, Answered
<1>1. CASE NotifyHangup
  BY <1>1 DEF NotifyHangup, RebuildBegins, AllTodo, mainVars, listenVars, storeVars, Files
<1>2. CASE TakeHangup
  BY <1>2 DEF TakeHangup, RebuildBegins, AllTodo, mainVars, listenVars, storeVars, Files
<1>3. CASE TakeTick
  BY <1>3 DEF TakeTick, RebuildBegins, AllTodo, mainVars, listenVars, storeVars, Files
<1>4. CASE RebuilderReturns
  BY <1>4 DEF RebuilderReturns, mainVars, listenVars, storeVars, Files
<1>5. ASSUME NEW r \in Listed, FetchNothing(r) PROVE IInv'
  BY <1>5 DEF FetchNothing, Refreshing, mainVars, listenVars, storeVars, Files
<1>6. ASSUME NEW r \in Listed, FetchModified(r) PROVE IInv'
  <2>1. Files'
    BY <1>6 DEF FetchModified, CreateTemp, Files
  <2>2. Types' /\ Matchers' /\ Answered'
    BY <1>6 DEF FetchModified, mainVars, listenVars
  <2>3. Writers'
    BY <1>6 DEF FetchModified, Refreshing, CreateTemp, mainVars, Paths
  <2> QED BY <2>1, <2>2, <2>3
<1>7. ASSUME NEW r \in Listed, WriteRun(r) PROVE IInv'
  <2>1. Files'
    BY <1>7 DEF WriteRun, Replace, GiveUp, Files, Paths, Whole
  <2>2. Types' /\ Matchers' /\ Answered'
    BY <1>7 DEF WriteRun, mainVars, listenVars
  <2>3. Writers'
    BY <1>7 DEF WriteRun, Refreshing, Replace, GiveUp, mainVars
  <2> QED BY <2>1, <2>2, <2>3
<1>8. CASE RetainRuns
  <2>1. writing = {} /\ temps = {}
    BY <1>8 DEF RetainRuns
  <2>2. Files'
    BY <1>8 DEF RetainRuns, Retain, Stale, Files, Paths
  <2>3. Types' /\ Matchers' /\ Answered'
    BY <1>8 DEF RetainRuns, MustCompile, Rebuilt, AllTodo, mainVars, listenVars
  <2>4. Writers'
    BY <1>8, <2>1 DEF RetainRuns, Retain, TempsLeft, Rebuilt, AllTodo, mainVars
  <2> QED BY <2>2, <2>3, <2>4
<1>9. CASE Compile
  <2>1. Files'
    BY <1>9 DEF Compile, CreateTemp, Files
  <2>2. Types' /\ Matchers' /\ Answered'
    BY <1>9 DEF Compile, mainVars, listenVars
  <2>3. Writers'
    BY <1>9 DEF Compile, CreateTemp, mainVars, Paths
  <2> QED BY <2>1, <2>2, <2>3
<1>10. CASE SaveFST
  <2>1. Files'
    BY <1>10 DEF SaveFST, Replace, GiveUp, Files, Paths, Whole
  <2>2. Types' /\ Matchers' /\ Answered'
    BY <1>10 DEF SaveFST, Rebuilt, mainVars, listenVars
  <2>3. Writers'
    BY <1>10 DEF SaveFST, Rebuilt, Replace, GiveUp, mainVars
  <2> QED BY <2>1, <2>2, <2>3
<1> QED BY <1>1, <1>2, <1>3, <1>4, <1>5, <1>6, <1>7, <1>8, <1>9, <1>10 DEF Rebuild

\* The listeners: to open or shut one, and to take or answer a query, keeps IInv.
LEMMA ListenersIInv ==
    ASSUME IInv, NEW l \in Listeners,
           Listen(l) \/ ListenFails(l) \/ Shutdown(l) \/ ShutdownReturns(l)
             \/ TakeQuery(l) \/ Answer(l)
    PROVE  IInv'
<1> USE DEF IInv, Types, Writers, Early, Matchers, Answered, Files
<1>1. CASE Listen(l)
  BY <1>1 DEF Listen, mainVars, rebuilderVars, storeVars
<1>2. CASE ListenFails(l)
  BY <1>2 DEF ListenFails, rebuilderVars, storeVars
<1>3. CASE Shutdown(l)
  BY <1>3 DEF Shutdown, mainVars, rebuilderVars, storeVars
<1>4. CASE ShutdownReturns(l)
  BY <1>4 DEF ShutdownReturns, mainVars, rebuilderVars, storeVars
<1>5. CASE TakeQuery(l)
  BY <1>5 DEF TakeQuery, mainVars, rebuilderVars, storeVars
<1>6. CASE Answer(l)
  BY <1>6 DEF Answer, mainVars, rebuilderVars, storeVars
<1> QED BY <1>1, <1>2, <1>3, <1>4, <1>5, <1>6

\* A signal that is noted touches neither the store nor the matcher, and keeps IInv.
LEMMA SignalsIInv ==
    ASSUME IInv, Term \/ Hangup
    PROVE  IInv'
<1> USE DEF IInv, Types, Writers, Early, Matchers, Answered, Files
<1>1. CASE Term
  BY <1>1 DEF Term, rebuilderVars, listenVars, storeVars
<1>2. CASE Hangup
  BY <1>2 DEF Hangup, mainVars, listenVars, storeVars
<1> QED BY <1>1, <1>2

\* Every step of the process or its machine keeps IInv.
LEMMA NextIInv == IInv /\ [Next]_vars => IInv'
<1> SUFFICES ASSUME IInv, [Next]_vars PROVE IInv'
  OBVIOUS
<1>1. CASE UNCHANGED vars
  BY <1>1 DEF IInv, Types, Files, Writers, Early, Matchers, Answered, vars
<1>2. CASE Start \/ (Main /\ ~Exit)
  BY <1>2, MainIInv DEF Main
<1>3. CASE StartFails \/ Exit \/ ExitTimeout \/ HangupUncaught \/ Kill \/ LosePower
  BY <1>3, EndsIInv DEF StartFails, Exit, ExitTimeout, HangupUncaught, Kill, LosePower
<1>4. CASE NotifyHangup \/ Rebuild \/ TakeHangup \/ TakeTick \/ RebuilderReturns
  BY <1>4, RebuilderIInv
<1>5. ASSUME NEW l \in Listeners,
             Listen(l) \/ ListenFails(l) \/ Shutdown(l) \/ ShutdownReturns(l)
               \/ TakeQuery(l) \/ Answer(l)
      PROVE  IInv'
  BY <1>5, ListenersIInv
<1>6. CASE Term \/ Hangup
  BY <1>6, SignalsIInv
<1> QED BY <1>1, <1>2, <1>3, <1>4, <1>5, <1>6 DEF Next, Main

\* IInv is an invariant of the specification.
LEMMA Invariance == Spec => []IInv
BY InitIInv, NextIInv, PTL DEF Spec

-----------------------------------------------------------------------------
\* store.go, antizapret-go.go: the variables keep their types, and only a source that is
\* being refreshed has its run written, only main before the listeners or the rebuilder
\* at the end of a Rebuild matcher.fst.
THEOREM TypeCorrect == Spec => []TypeOK
<1>1. IInv => StoreTypeOK
  BY DEF IInv, Files, Writers, StoreTypeOK, Paths
<1>2. IInv => TypeOK
  BY <1>1 DEF IInv, Types, Writers, TypeOK
<1> QED BY <1>2, Invariance, PTL

\* store.go:90-117, 155-177: whatever the moment at which a process is killed or the power
\* goes, a run that can be read has all its records.
THEOREM RunsWhole == Spec => []NothingCutShort
<1>1. IInv => NothingCutShort
  BY DEF IInv, Files, NothingCutShort, RunReadable, Paths, NoFile
<1> QED BY <1>1, Invariance, PTL

\* store.go:46-47, 78-88, 217-222: main, the rebuilder and a former process write in one directory, and
\* removeTemps takes the temporary file of no writer from it, nor leaves one without.
THEOREM TempsTheirs == Spec => []TempsOwned
<1>1. IInv => TempsOwned
  BY DEF IInv, Writers, TempsOwned
<1> QED BY <1>1, Invariance, PTL

\* antizapret-go.go:115, server.go:71-73, 109-117: however LoadCached, the first Rebuild and
\* the signals are interleaved, a query taken before the process is told to stop finds a
\* matcher.
THEOREM MatcherFirst == Spec => []NoAnswerWithoutMatcher
<1>1. IInv => NoAnswerWithoutMatcher
  BY DEF IInv, Matchers, NoAnswerWithoutMatcher
<1> QED BY <1>1, Invariance, PTL

\* antizapret-go.go:151-164: done is closed when every Shutdown has returned, so that a
\* process that ends in time leaves no query of before the signal without its answer.
THEOREM QueriesAnswered == Spec => InFlightAnswered
<1> DEFINE Step == main # "down" /\ exit' = "stopped" => \A l \in Listeners : query[l] # "early"
<1>1. IInv /\ [Next]_vars => [Step]_vars
  <2> SUFFICES ASSUME IInv, Next, main # "down", exit' = "stopped"
               PROVE  \A l \in Listeners : query[l] # "early"
    OBVIOUS
  <2>1. exit' # exit
    BY DEF IInv, Answered
  <2>2. CASE Exit
    BY <2>2 DEF Exit, IInv, Answered
  <2>3. CASE Start \/ StartFails \/ ExitTimeout \/ HangupUncaught \/ Kill \/ LosePower
    BY <2>3 DEF Start, StartFails, ExitTimeout, HangupUncaught, Kill, LosePower, Ends
  <2>4. CASE Main /\ ~Exit
    BY <2>1, <2>4 DEF Main, NewStore, LoadSaved, LoadNothing, LoadRuns, Saved, Started,
       StartListeners, StopServing
  <2>5. CASE NotifyHangup \/ Rebuild \/ TakeHangup \/ TakeTick \/ RebuilderReturns
    BY <2>1, <2>5 DEF Rebuild, NotifyHangup, TakeHangup, TakeTick, RebuilderReturns,
       FetchNothing, FetchModified, WriteRun, RetainRuns, Compile, SaveFST, mainVars
  <2>6. ASSUME NEW l \in Listeners,
               Listen(l) \/ ListenFails(l) \/ Shutdown(l) \/ ShutdownReturns(l)
                 \/ TakeQuery(l) \/ Answer(l)
        PROVE  FALSE
    BY <2>1, <2>6 DEF Listen, ListenFails, Shutdown, ShutdownReturns, TakeQuery, Answer,
       mainVars
  <2>7. CASE Term \/ Hangup
    BY <2>1, <2>7 DEF Term, Hangup, mainVars
  <2> QED BY <2>2, <2>3, <2>4, <2>5, <2>6, <2>7 DEF Next
<1> QED BY <1>1, Invariance, PTL DEF Spec, InFlightAnswered
==============================================================================
