-------------------------------- MODULE Store --------------------------------
(***************************************************************************)
(* The files of the state directory (src/server/router/store): a run per   *)
(* source and matcher.fst, each written to a temporary file that is then   *)
(* renamed.  A file is the sections that are there.  Nothing in a run says *)
(* that it is whole: its records are read up to where they end, so that a  *)
(* run cut off in them passes for a shorter list.  The machine may lose    *)
(* power, and with it what was not synced.                                 *)
(***************************************************************************)
EXTENDS Naturals, Sequences

CONSTANTS
    Runs,       \* runs/*.run
    FST         \* matcher.fst

ASSUME StoreAssumption == FST \notin Runs

VARIABLES
    files,      \* what is under the final names
    unsynced,   \* the files whose content is not known to be on the disk
    temps,      \* the files with a *.tmp next to them, of a writer or left by a former one
    writing     \* the files that a writeAtomic is at work on

storeVars == <<files, unsynced, temps, writing>>

Paths == Runs \union {FST}

-----------------------------------------------------------------------------
NoFile == <<"none">>

\* writePreamble, writeValidator and writeData; the data section is its header, with
\* the length, and the records.
RunSections == <<"preamble", "validator", "length", "records">>

FSTSections == <<"preamble", "length", "records">>

Whole(p) == IF p = FST THEN FSTSections ELSE RunSections

\* The first n sections, the rest of the file being lost.
Cut(p, n) == SubSeq(files[p], 1, n)

\* readHeader comes to the length of the data, and so does OpenRun; whether the records
\* are all there Next does not ask: their end is the end.
RunReadable(r) ==
    /\ files[r] # <<>> /\ files[r][1] = "preamble"
    /\ \E n \in DOMAIN files[r] : files[r][n] = "length"

\* sectionValue wants the data in their full length.
FSTReadable == files[FST] = FSTSections

StoreTypeOK ==
    /\ \A p \in Paths :
          files[p] \in {NoFile, Whole(p)}
            \/ \E n \in 0..Len(RunSections) : files[p] = SubSeq(Whole(p), 1, n)
    /\ unsynced \subseteq Paths /\ temps \subseteq Paths /\ writing \subseteq Paths

StoreInit ==
    /\ files \in {f \in [Paths -> {NoFile, RunSections, FSTSections}] :
                    \A p \in Paths : f[p] \in {NoFile, Whole(p)}}
    /\ unsynced = {} /\ temps = {} /\ writing = {}

-----------------------------------------------------------------------------
\* removeTemps: without a question whose they are.
TempsLeft(dir) == temps \ dir

\* New: the directory is made, and its temporary files go.
OpenStore == temps' = TempsLeft(Paths) /\ UNCHANGED <<files, unsynced, writing>>

\* writeAtomic begins.
CreateTemp(p) ==
    /\ temps' = temps \union {p}
    /\ writing' = writing \union {p}
    /\ UNCHANGED <<files, unsynced>>

\* Mutation: the file is flushed to the kernel and not synced.
ReplaceUnsynced(p) ==
    /\ p \in writing \intersect temps
    /\ files' = [files EXCEPT ![p] = Whole(p)]
    /\ unsynced' = unsynced \union {p}
    /\ temps' = temps \ {p}
    /\ writing' = writing \ {p}

\* The sections are written; Flush, Sync, Close; Rename, which needs the file to be there.
Replace(p) ==
    /\ p \in writing \intersect temps
    /\ files' = [files EXCEPT ![p] = Whole(p)]
    /\ unsynced' = unsynced \ {p}
    /\ temps' = temps \ {p}
    /\ writing' = writing \ {p}

\* An error of any step; the deferred function removes the temporary file.
GiveUp(p) ==
    /\ p \in writing
    /\ temps' = temps \ {p}
    /\ writing' = writing \ {p}
    /\ UNCHANGED <<files, unsynced>>

Stale(names) == {r \in Runs \ names : files[r] # NoFile}

\* The runs of other sources go, and the temporary files next to the runs.
Retain(names) ==
    /\ files' = [p \in Paths |-> IF p \in Stale(names) THEN NoFile ELSE files[p]]
    /\ unsynced' = unsynced \ Stale(names)
    /\ temps' = TempsLeft(Runs)
    /\ UNCHANGED writing

\* The process is gone, its temporary files are not.
Abandon ==
    /\ writing' = {}
    /\ UNCHANGED <<files, unsynced, temps>>

\* Renames are kept, as a journal does; what was not synced may be there in part.
PowerLoss ==
    /\ \E left \in [unsynced -> 0..Len(RunSections)] :
          files' = [p \in Paths |->
                      IF p \in unsynced /\ left[p] < Len(files[p]) THEN Cut(p, left[p]) ELSE files[p]]
    /\ unsynced' = {}
    /\ writing' = {}
    /\ UNCHANGED temps
==============================================================================
