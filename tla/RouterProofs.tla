----------------------------- MODULE RouterProofs -----------------------------
(***************************************************************************)
(* The safety of Router, for any sources, versions and configurations:     *)
(* what a run says of its origin is true; and where the matcher that is    *)
(* saved is never behind the runs, the matcher in force is the one that    *)
(* the runs and the configuration ask for.                                 *)
(***************************************************************************)
EXTENDS Router, TLAPS

USE RouterAssumption, NoneAssumption

(***************************************************************************)
(* With the fst backend the start takes matcher.fst as it is.  The process *)
(* does not end while that file is behind the runs, and the operator does  *)
(* not return to a configuration or a backend the files were made for:     *)
(* RouterCrash shows what happens otherwise.                               *)
(***************************************************************************)
MatchersSettled == "fst" \in Backends => ~ConfigReverts /\ CrashWhen # "any"

-----------------------------------------------------------------------------
(* The types, and what a run says of its origin. *)

ReadingSeen == \A s \in Sources : result[s] = "reading" => seen[s] # None

\* The validator is taken before the content is read, and versions only ascend.
VersionsAscend ==
    \A s \in Sources :
        /\ seen[s] # None => seen[s] <= origin[s]
        /\ runs[s] # None => runs[s].validator <= runs[s].content /\ runs[s].content <= origin[s]

RunsTrue == TypeOK /\ ReadingSeen /\ VersionsAscend

\* What the merge of the runs is made of: a part for a source, or none.
LEMMA CompiledType ==
    ASSUME TypeOK
    PROVE  Compiled \in Compilation /\ Nothing \in Compilation
<1>1. \A s \in Sources : runs[s] # None => runs[s] \in Run
  BY DEF TypeOK
<1>2. \A s \in Sources : runs[s] # None => [config |-> config[s], content |-> runs[s].content] \in Part
  BY <1>1 DEF TypeOK, Run, Part
<1> QED BY <1>2 DEF Compiled, Nothing, Compilation

\* Nothing has been fetched at first.
LEMMA RunsTrueInit == Init => RunsTrue
<1> SUFFICES ASSUME Init PROVE RunsTrue
  OBVIOUS
<1>1. 1 \in Versions /\ 1 \in Config
  BY DEF Versions, Config
<1> QED BY <1>1 DEF Init, RunsTrue, TypeOK, ReadingSeen, VersionsAscend, Nothing

\* What happens outside the process: an origin goes on to a higher version.
LEMMA OutsideKeepsTrue ==
    ASSUME RunsTrue,
           \/ \E s \in Sources :
                OriginChanges(s) \/ ListOrDrop(s) \/ \E k \in Config : Reconfigure(s, k)
           \/ ChangeBackend
    PROVE  RunsTrue'
<1> USE DEF RunsTrue, TypeOK, ReadingSeen, VersionsAscend
<1>1. ASSUME NEW s \in Sources, OriginChanges(s) PROVE RunsTrue'
  <2>1. origin' \in [Sources -> Versions] /\ \A t \in Sources : origin[t] <= origin'[t]
    BY <1>1 DEF OriginChanges, Versions
  <2>2. UNCHANGED <<pc, listed, config, backend, runs, fst, matcher, result, seen, removed>>
    BY <1>1 DEF OriginChanges, diskVars
  <2>3. \A t \in Sources : origin[t] \in Nat /\ origin'[t] \in Nat
    BY <2>1 DEF Versions
  <2>4. \A t \in Sources : seen[t] # None => seen[t] \in Nat
    BY DEF Versions
  <2>5. \A t \in Sources : runs[t] # None => runs[t].content \in Nat /\ runs[t].validator \in Nat
    BY DEF Versions, Run
  <2>6. TypeOK' /\ ReadingSeen'
    BY <2>1, <2>2
  <2>7. VersionsAscend'
    <3> SUFFICES ASSUME NEW t \in Sources
                 PROVE  /\ seen[t] # None => seen[t] <= origin'[t]
                        /\ runs[t] # None => runs[t].validator <= runs[t].content
                                             /\ runs[t].content <= origin'[t]
      BY <2>2
    <3> HIDE DEF TypeOK, ReadingSeen
    <3> QED BY <2>1, <2>3, <2>4, <2>5
  <2> QED BY <2>6, <2>7
<1>2. ASSUME NEW s \in Sources, ListOrDrop(s) PROVE RunsTrue'
  BY <1>2 DEF ListOrDrop, diskVars
<1>3. ASSUME NEW s \in Sources, NEW k \in Config, Reconfigure(s, k) PROVE RunsTrue'
  BY <1>3 DEF Reconfigure, diskVars
<1>4. CASE ChangeBackend
  BY <1>4 DEF ChangeBackend, diskVars
<1> QED BY <1>1, <1>2, <1>3, <1>4

\* The refresh of a source: the validator is not above what is read after it.
LEMMA RefreshKeepsTrue ==
    ASSUME RunsTrue, NEW s \in Sources, Refresh(s) \/ RetainRemove(s)
    PROVE  RunsTrue'
<1> USE DEF RunsTrue, TypeOK, ReadingSeen, VersionsAscend
<1>1. CASE FetchNotModified(s)
  BY <1>1 DEF FetchNotModified, Refreshing, outsideVars, diskVars
<1>2. CASE FetchModified(s)
  <2>1. origin[s] \in Versions /\ origin[s] <= origin[s]
    BY DEF Versions
  <2> QED BY <1>2, <2>1 DEF FetchModified, outsideVars, diskVars
<1>3. CASE FetchFails(s) \/ FetchEmpty(s)
  BY <1>3 DEF FetchFails, FetchEmpty, Keep, outsideVars, diskVars
<1>4. CASE WriteRun(s)
  <2>1. result[s] = "reading" /\ seen[s] \in Versions /\ seen[s] <= origin[s]
    BY <1>4 DEF WriteRun, Refreshing
  <2> listed \subseteq Sources
    BY DEF RunsTrue, TypeOK
  <2>2. runs'[s] = [validator |-> seen[s], content |-> origin[s], fingerprint |-> config[s]]
        /\ \A t \in Sources \ {s} : runs'[t] = runs[t]
    BY <1>4 DEF WriteRun
  <2>3. runs'[s] \in Run /\ runs'[s].validator <= runs'[s].content /\ runs'[s].content <= origin[s]
    BY <2>1, <2>2 DEF Run, Versions
  <2>4. runs' \in [Sources -> Run \union {None}]
    BY <1>4, <2>2, <2>3 DEF WriteRun
  <2>5. UNCHANGED <<pc, listed, config, backend, origin, fst, matcher, removed>>
        /\ result' = [result EXCEPT ![s] = "updated"] /\ seen' = [seen EXCEPT ![s] = None]
    BY <1>4 DEF WriteRun, outsideVars
  <2> QED BY <2>2, <2>3, <2>4, <2>5
<1>5. CASE WriteRunFails(s)
  BY <1>5 DEF WriteRunFails, outsideVars, diskVars
<1>6. CASE RetainRemove(s)
  BY <1>6 DEF RetainRemove, outsideVars
<1> QED BY <1>1, <1>2, <1>3, <1>4, <1>5, <1>6 DEF Refresh

\* The other steps write no run.
LEMMA RestKeepsTrue ==
    ASSUME RunsTrue,
           Crash \/ LoadSaved \/ LoadRuns \/ RebuildStart \/ RefreshDone \/ RetainDone
             \/ CompileAndPublish \/ Persist
    PROVE  RunsTrue'
<1>0. Compiled \in Compilation
  BY CompiledType DEF RunsTrue
<1> USE DEF RunsTrue, TypeOK, ReadingSeen, VersionsAscend
<1>1. CASE Crash
  BY <1>1 DEF Crash, Nothing, outsideVars, diskVars
<1>2. CASE LoadSaved
  BY <1>2 DEF LoadSaved, outsideVars, diskVars
<1>3. CASE LoadRuns
  BY <1>0, <1>3 DEF LoadRuns, SaveFST, outsideVars
<1>4. CASE RebuildStart
  BY <1>4 DEF RebuildStart, outsideVars, diskVars
<1>5. CASE RefreshDone
  BY <1>5 DEF RefreshDone, outsideVars, diskVars
<1>6. CASE RetainDone
  BY <1>6 DEF RetainDone, outsideVars, diskVars
<1>7. CASE CompileAndPublish
  BY <1>0, <1>7 DEF CompileAndPublish, outsideVars, diskVars
<1>8. CASE Persist
  BY <1>8 DEF Persist, SaveFST, outsideVars
<1> QED BY <1>1, <1>2, <1>3, <1>4, <1>5, <1>6, <1>7, <1>8

\* Every step keeps the types and what the runs say of their origins.
LEMMA RunsTrueStep == RunsTrue /\ [Next]_vars => RunsTrue'
<1>1. ASSUME RunsTrue, Next PROVE RunsTrue'
  BY <1>1, OutsideKeepsTrue, RefreshKeepsTrue, RestKeepsTrue DEF Next, Rebuild
<1>2. ASSUME RunsTrue, UNCHANGED vars PROVE RunsTrue'
  BY <1>2 DEF vars, RunsTrue, TypeOK, ReadingSeen, VersionsAscend
<1> QED BY <1>1, <1>2

\* The types and the versions are an invariant, whatever the operator does.
LEMMA RunsTrueKept == Spec => []RunsTrue
BY RunsTrueInit, RunsTrueStep, PTL DEF Spec

\* router.go, source.go, store.go: the state is well typed, for any sources, versions and
\* configurations.
THEOREM TypeCorrect == Spec => []TypeOK
<1>1. RunsTrue => TypeOK
  BY DEF RunsTrue
<1> QED BY <1>1, RunsTrueKept, PTL

\* fetcher.go:48-64: since Stat comes before the content is read, a source that is reported
\* as not modified has been read to its present content, however often its file changes
\* and the process ends in between.
THEOREM ValidatorsTrue == Spec => []NotModifiedIsTrue
<1>1. RunsTrue => NotModifiedIsTrue
  <2> SUFFICES ASSUME RunsTrue, NEW s \in Sources, runs[s] # None, runs[s].validator = origin[s]
               PROVE  runs[s].content = origin[s]
    BY DEF NotModifiedIsTrue
  <2>1. runs[s].content \in Nat /\ origin[s] \in Nat
    BY DEF RunsTrue, TypeOK, Run, Versions
  <2>2. origin[s] <= runs[s].content /\ runs[s].content <= origin[s]
    BY DEF RunsTrue, VersionsAscend
  <2> QED BY <2>1, <2>2
<1> QED BY <1>1, RunsTrueKept, PTL

-----------------------------------------------------------------------------
(* The matcher, and what must be so for a Rebuild to need no compilation. *)

Holds(m, s) == m # None /\ m[s] # None

\* A run fetched under the present configuration is what m has of the source.
Current(m, s) ==
    Valid(s) => m[s] = [config |-> config[s], content |-> runs[s].content]

Asleep == pc = "down" => matcher = None

\* The run of a source that is in force has not been lost.
HeldHasRun == \A s \in listed : Holds(matcher, s) => runs[s] # None

\* What the next start finds: matcher.fst, where it is used, is of the runs that are there.
\* A configuration that the operator goes on to is one that no run was fetched under.
Saved ==
    /\ backend = "radix" => fst = None
    /\ backend = "fst" => \A s \in Sources : runs[s] # None => runs[s].fingerprint <= config[s]
    /\ pc = "down" /\ fst # None =>
          \A s \in Sources : Current(fst, s) /\ (fst[s] # None => runs[s] # None)

Retained ==
    pc \in {"compile", "persist", "serving"} => \A s \in Sources \ listed : runs[s] = None

\* While a Rebuild is under way: what differs from the matcher has been noted.
Pending ==
    pc \in {"refresh", "retain"} /\ matcher # None =>
        \A s \in Sources :
            IF s \in listed
            THEN result[s] = "updated" \/ Current(matcher, s)
            ELSE matcher[s] # None => runs[s] # None \/ removed

Published ==
    pc \in {"persist", "serving"} =>
        /\ matcher # None
        /\ \A s \in Sources : IF s \in listed THEN Current(matcher, s) ELSE matcher[s] = None

Followed == Asleep /\ HeldHasRun /\ Saved /\ Retained /\ Pending /\ Published

\* Nothing is compiled or saved at first.
LEMMA FollowedInit == Init => Followed
BY DEF Init, Followed, Asleep, HeldHasRun, Holds, Saved, Current, Valid, Retained, Pending,
       Published, Nothing

\* What happens outside the process.
LEMMA OutsideKeepsFollowed ==
    ASSUME MatchersSettled, RunsTrue, Followed,
           \/ \E s \in Sources :
                OriginChanges(s) \/ ListOrDrop(s) \/ \E k \in Config : Reconfigure(s, k)
           \/ ChangeBackend
    PROVE  Followed'
<1> USE DEF Followed, Asleep, HeldHasRun, Holds, Saved, Current, Valid, Retained, Pending, Published
<1>1. ASSUME NEW s \in Sources, OriginChanges(s) PROVE Followed'
  BY <1>1 DEF OriginChanges, diskVars
<1>2. ASSUME NEW s \in Sources, ListOrDrop(s) PROVE Followed'
  BY <1>2 DEF ListOrDrop, diskVars
<1>3. ASSUME NEW s \in Sources, NEW k \in Config, Reconfigure(s, k) PROVE Followed'
  <2>1. backend = "radix" \/ (backend = "fst" /\ k > config[s])
    <3>1. backend \in Backends /\ (backend = "radix" \/ backend = "fst")
      BY DEF RunsTrue, TypeOK
    <3>2. backend = "fst" => ~ConfigReverts
      BY <3>1 DEF MatchersSettled
    <3> QED BY <1>3, <3>1, <3>2 DEF Reconfigure
  <2>2. \A t \in Sources : config[t] \in Nat /\ config'[t] = IF t = s THEN k ELSE config[t]
    BY <1>3 DEF Reconfigure, RunsTrue, TypeOK, Config
  <2>3. \A t \in Sources : runs[t] # None => runs[t].fingerprint \in Nat
    BY DEF RunsTrue, TypeOK, Run, Config
  <2>4. pc = "down" /\ UNCHANGED <<pc, listed, backend, runs, fst, matcher, result, removed>>
    BY <1>3 DEF Reconfigure, diskVars
  <2>5. k \in Nat
    BY DEF Config
  <2>6. backend = "fst" => \A t \in Sources : runs[t] # None => runs[t].fingerprint <= config'[t]
    BY <2>1, <2>2, <2>3, <2>5
  <2>7. fst # None => backend = "fst" /\ ~(runs[s] # None /\ runs[s].fingerprint = k)
    BY <2>1, <2>2, <2>3, <2>5
  <2>8. Saved'
    BY <2>2, <2>4, <2>6, <2>7
  <2> QED BY <2>4, <2>8
<1>4. CASE ChangeBackend
  <2>1. ~ConfigReverts /\ backend = "radix" /\ backend' = "fst" /\ fst = None
    <3>1. backend \in Backends /\ backend' \in Backends \ {backend}
      BY <1>4 DEF RunsTrue, TypeOK, ChangeBackend
    <3>2. "fst" \in Backends /\ (backend = "fst" \/ (backend = "radix" /\ backend' = "fst"))
      BY <3>1
    <3>3. ~ConfigReverts
      BY <3>2 DEF MatchersSettled
    <3>4. backend = "radix"
      BY <1>4, <3>3, Zenon DEF ChangeBackend
    <3> QED BY <3>2, <3>3, <3>4
  <2>2. \A t \in Sources : runs[t] = None \/ runs[t].fingerprint = config[t]
    BY <1>4, <2>1 DEF ChangeBackend
  <2>3. \A t \in Sources : config[t] \in Nat
    BY DEF RunsTrue, TypeOK, Config
  <2>4. pc = "down" /\ UNCHANGED <<pc, listed, config, runs, fst, matcher, result, removed>>
    BY <1>4 DEF ChangeBackend, diskVars
  <2> QED BY <2>1, <2>2, <2>3, <2>4
<1> QED BY <1>1, <1>2, <1>3, <1>4

\* The refresh of a source and the removal of a run note what they change.
LEMMA RefreshKeepsFollowed ==
    ASSUME RunsTrue, Followed, NEW s \in Sources, Refresh(s) \/ RetainRemove(s)
    PROVE  Followed'
<1> USE DEF Followed, Asleep, HeldHasRun, Holds, Saved, Current, Valid, Retained, Pending, Published
<1>1. CASE FetchNotModified(s)
  BY <1>1 DEF FetchNotModified, Refreshing, outsideVars, diskVars, RunsTrue, TypeOK
<1>2. CASE FetchModified(s)
  BY <1>2 DEF FetchModified, Refreshing, outsideVars, diskVars, RunsTrue, TypeOK
<1>3. CASE FetchFails(s) \/ FetchEmpty(s)
  BY <1>3 DEF FetchFails, FetchEmpty, Keep, Refreshing, outsideVars, diskVars, RunsTrue, TypeOK
<1>4. CASE WriteRun(s)
  <2>1. pc = "refresh" /\ s \in listed
    BY <1>4 DEF WriteRun, Refreshing
  <2> listed \subseteq Sources
    BY DEF RunsTrue, TypeOK
  <2>2. /\ UNCHANGED <<pc, listed, config, backend, fst, matcher, removed>>
        /\ result'[s] = "updated" /\ \A t \in Sources \ {s} : result'[t] = result[t]
        /\ \A t \in Sources \ {s} : runs'[t] = runs[t]
        /\ runs'[s] # None /\ runs'[s].fingerprint = config[s] /\ config[s] \in Nat
    <3>1. seen[s] \in Versions /\ origin[s] \in Versions /\ config[s] \in Config
      BY <1>4 DEF WriteRun, RunsTrue, TypeOK, ReadingSeen, Refreshing
    <3>2. [validator |-> seen[s], content |-> origin[s], fingerprint |-> config[s]] \in Run
      BY <3>1 DEF Run
    <3>3. config[s] \in Nat
      BY <3>1 DEF Config
    <3> QED BY <1>4, <3>2, <3>3 DEF WriteRun, outsideVars, RunsTrue, TypeOK
  <2>3. HeldHasRun' /\ Asleep' /\ Retained' /\ Published'
    BY <2>1, <2>2
  <2>4. Saved'
    BY <2>1, <2>2
  <2>5. Pending'
    BY <2>1, <2>2
  <2> QED BY <2>3, <2>4, <2>5
<1>5. CASE WriteRunFails(s)
  BY <1>5 DEF WriteRunFails, Refreshing, outsideVars, diskVars, RunsTrue, TypeOK
<1>6. CASE RetainRemove(s)
  <2>1. /\ pc = "retain" /\ s \notin listed /\ removed'
        /\ UNCHANGED <<pc, listed, config, backend, fst, matcher, result>>
        /\ \A t \in Sources : runs'[t] = IF t = s THEN None ELSE runs[t]
    BY <1>6 DEF RetainRemove, outsideVars, RunsTrue, TypeOK
  <2> listed \subseteq Sources
    BY DEF RunsTrue, TypeOK
  <2>2. HeldHasRun' /\ Asleep' /\ Retained' /\ Published'
    BY <2>1
  <2>3. Saved'
    BY <2>1
  <2>4. Pending'
    BY <2>1
  <2> QED BY <2>2, <2>3, <2>4
<1> QED BY <1>1, <1>2, <1>3, <1>4, <1>5, <1>6 DEF Refresh

\* What compile publishes is current.
LEMMA CompiledCurrent ==
    ASSUME RunsTrue
    PROVE  /\ Compiled # None
           /\ \A s \in Sources : Compiled[s] # None => s \in listed /\ runs[s] # None
           /\ \A s \in listed : Current(Compiled, s)
<1>1. Compiled # None
  BY CompiledType DEF RunsTrue
<1> QED BY <1>1 DEF Compiled, Current, Valid, RunsTrue, TypeOK

\* The start, from matcher.fst or from the runs.
LEMMA LoadKeepsFollowed ==
    ASSUME MatchersSettled, RunsTrue, Followed, LoadSaved \/ LoadRuns
    PROVE  Followed'
<1> USE DEF Followed, Asleep, HeldHasRun, Holds, Saved, Current, Valid, Retained, Pending, Published
<1>1. CASE LoadSaved
  BY <1>1 DEF LoadSaved, outsideVars, diskVars, RunsTrue, TypeOK
<1>2. CASE LoadRuns
  <2>1. /\ pc = "down" /\ pc' = "refresh" /\ matcher = None
        /\ UNCHANGED <<listed, config, backend, runs, result, removed>>
        /\ backend = "radix" => fst' = fst
    BY <1>2 DEF LoadRuns, SaveFST, outsideVars
  <2>2. CASE Compiled = Nothing
    BY <1>2, <2>1, <2>2 DEF LoadRuns
  <2>3. CASE Compiled # Nothing
    <3>1. matcher' = Compiled
      BY <1>2, <2>3 DEF LoadRuns
    <3> HIDE DEF Current
    <3>2. \A s \in listed : Current(Compiled, s)
      BY CompiledCurrent
    <3> USE DEF Current
    <3>3. \A s \in Sources : matcher'[s] # None => s \in listed /\ runs[s] # None
      BY <3>1, CompiledCurrent
    <3> QED BY <2>1, <3>1, <3>2, <3>3 DEF RunsTrue, TypeOK
  <2> QED BY <2>2, <2>3
<1> QED BY <1>1, <1>2

\* A Rebuild that finds nothing noted serves what it had; else it compiles.
LEMMA RebuildKeepsFollowed ==
    ASSUME MatchersSettled, RunsTrue, Followed,
           RebuildStart \/ RefreshDone \/ RetainDone \/ CompileAndPublish \/ Persist
    PROVE  Followed'
<1> USE DEF Followed, Asleep, HeldHasRun, Holds, Saved, Current, Valid, Retained, Pending, Published
<1>1. CASE RebuildStart
  BY <1>1 DEF RebuildStart, outsideVars, diskVars
<1>2. CASE RefreshDone
  BY <1>2 DEF RefreshDone, outsideVars, diskVars
<1>3. CASE RetainDone
  BY <1>3 DEF RetainDone, MustCompile, outsideVars, diskVars
<1>4. CASE CompileAndPublish
  <2>1. /\ pc = "compile" /\ pc' = "persist" /\ matcher' = Compiled
        /\ UNCHANGED <<listed, config, backend, runs, fst, result, removed>>
    BY <1>4 DEF CompileAndPublish, outsideVars, diskVars
  <2> HIDE DEF Current
  <2>2. \A s \in listed : Current(Compiled, s)
    BY CompiledCurrent
  <2> USE DEF Current
  <2>3. matcher' # None /\ \A s \in Sources : matcher'[s] # None => s \in listed /\ runs[s] # None
    BY <2>1, CompiledCurrent
  <2> QED BY <2>1, <2>2, <2>3 DEF RunsTrue, TypeOK
<1>5. CASE Persist
  BY <1>5 DEF Persist, SaveFST, outsideVars
<1> QED BY <1>1, <1>2, <1>3, <1>4, <1>5

\* When the process ends, what is saved is what the runs ask for.
LEMMA CrashKeepsFollowed ==
    ASSUME MatchersSettled, RunsTrue, Followed, Crash
    PROVE  Followed'
<1>1. /\ pc # "down" /\ pc' = "down" /\ matcher' = None
      /\ UNCHANGED <<listed, config, backend, runs, fst>>
  BY DEF Crash, outsideVars, diskVars
<1>2. backend = "radix" \/ (pc = "serving" /\ fst = matcher)
  <2>1. backend \in Backends /\ (backend = "radix" \/ backend = "fst")
    BY DEF RunsTrue, TypeOK
  <2>2. backend = "fst" => CrashWhen # "any"
    BY <2>1 DEF MatchersSettled
  <2> QED BY <2>1, <2>2 DEF Crash, MayCrash
<1> USE DEF Followed, Asleep, HeldHasRun, Holds, Saved, Current, Valid, Retained, Pending, Published
<1>3. CASE backend = "radix"
  BY <1>1, <1>3
<1>4. CASE pc = "serving" /\ fst = matcher
  BY <1>1, <1>4
<1> QED BY <1>2, <1>3, <1>4

\* Every step leaves the matcher, the runs and matcher.fst in step.
LEMMA FollowedStep ==
    ASSUME MatchersSettled
    PROVE  RunsTrue /\ Followed /\ [Next]_vars => Followed'
<1>1. ASSUME RunsTrue, Followed, Next PROVE Followed'
  BY <1>1, OutsideKeepsFollowed, RefreshKeepsFollowed, LoadKeepsFollowed, RebuildKeepsFollowed,
     CrashKeepsFollowed DEF Next, Rebuild
<1>2. ASSUME Followed, UNCHANGED vars PROVE Followed'
  BY <1>2 DEF vars, Followed, Asleep, HeldHasRun, Holds, Saved, Current, Valid, Retained, Pending,
     Published
<1> QED BY <1>1, <1>2

\* The two invariants hold together in every state.
LEMMA FollowedKept ==
    ASSUME MatchersSettled
    PROVE  Spec => [](RunsTrue /\ Followed)
<1>1. Spec => []RunsTrue
  BY RunsTrueKept
<1> QED BY <1>1, FollowedInit, FollowedStep, PTL DEF Spec

\* router.go:61-66, source.go:64, 91-118: when a Rebuild is over, the runs are in force with
\* the present configuration, and what is no longer configured is gone.
THEOREM MatcherFollowsRuns ==
    ASSUME MatchersSettled
    PROVE  Spec => []RunsInForce
<1>1. Followed => RunsInForce
  BY DEF Followed, Published, Current, RunsInForce
<1> QED BY <1>1, FollowedKept, PTL

\* README.md:60-62: a configured source that is in force stays in force as long as the
\* process lives: what the matcher has of it is backed by a run that nothing removes.
THEOREM ListsStay ==
    ASSUME MatchersSettled
    PROVE  Spec => LastKnownGood
<1> DEFINE Stays ==
        pc # "down" /\ pc' # "down" =>
          \A s \in listed :
              matcher # None /\ matcher[s] # None => matcher' # None /\ matcher'[s] # None
<1>1. RunsTrue /\ Followed /\ [Next]_vars => [Stays]_vars
  <2> SUFFICES ASSUME RunsTrue, Followed, Next, pc # "down", pc' # "down", NEW s \in listed,
                      matcher # None, matcher[s] # None
               PROVE  matcher' # None /\ matcher'[s] # None
    OBVIOUS
  <2>1. CASE CompileAndPublish
    <3>1. runs[s] # None /\ s \in Sources
      BY DEF Followed, HeldHasRun, Holds, RunsTrue, TypeOK
    <3>2. runs[s] \in Run
      BY <3>1 DEF RunsTrue, TypeOK
    <3>3. [config |-> config[s], content |-> runs[s].content] \in Part
      BY <3>1, <3>2 DEF RunsTrue, TypeOK, Run, Part
    <3>4. Compiled[s] # None
      BY <3>1, <3>3 DEF Compiled
    <3> QED BY <2>1, <3>4, CompiledCurrent DEF CompileAndPublish
  <2>2. CASE ~CompileAndPublish
    <3>1. matcher' = matcher
      BY <2>2 DEF Next, Rebuild, Refresh, OriginChanges, ListOrDrop, Reconfigure, ChangeBackend, Crash,
         LoadSaved, LoadRuns, RebuildStart, FetchNotModified, FetchModified, FetchFails, FetchEmpty,
         Keep, WriteRun, WriteRunFails, RetainRemove, RefreshDone, RetainDone, Persist
    <3> QED BY <3>1
  <2> QED BY <2>1, <2>2
<1> QED BY <1>1, FollowedKept, PTL DEF Spec, LastKnownGood
===============================================================================
