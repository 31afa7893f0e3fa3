----------------------------- MODULE MediaFiles -----------------------------
(***************************************************************************)
(* The media of tweets on disk: what a worker does with one tweet          *)
(* (internal/downloading/tweet_download.go, downloadTweetMedia), the names *)
(* it chooses (internal/utils/fs.go), the downloader                       *)
(* (internal/downloader/downloader.go) and the writing of a file           *)
(* (internal/downloader/file_writer.go).                                   *)
(*                                                                         *)
(* One directory is modelled.  A name is <<base, n>>: a tweet's title with *)
(* its id and extension, and the number of the collision suffix, 0 for     *)
(* none.  A job is a tweet that a worker processes, one medium after the   *)
(* other; jobs run concurrently and may be about the same tweet, since a   *)
(* tweet can be in several imported files, or in several files of a        *)
(* folder.  Each call of BatchDownloadTweet has its resolver of names and  *)
(* its index of the directory: the import of a file or folder is one, and  *)
(* so is the retry of what the imports could not download.  The content of *)
(* a file is the medium it shows, who wrote it, and whether it is whole.   *)
(***************************************************************************)
EXTENDS Naturals, Sequences, FiniteSets, FiniteSetsExt

CONSTANTS
  Jobs,
  MediaOf,       \* the media of each job: a sequence of
                 \* [id, base, legacy (bases of superseded names), differs (from the legacy URL)]
  OldFiles,      \* what earlier releases left: <<base, n>> -> medium
  CallsOf,       \* the calls that process a job: the first one, then those that retry what is left
  Resolving,     \* the calls that have a UniquePathResolver (BatchUserDownload has none)
  SlotOf,        \* the lock slot of each base
  MaxTries,      \* maxDownloadRetries
  MaxFaults,     \* bound: how often something goes wrong
  MaxCrashes     \* bound

ASSUME MediaAssumption ==
  /\ \A j \in Jobs : /\ Len(MediaOf[j]) \in Nat \ {0}
                     /\ \A i \in 1..Len(MediaOf[j]) : {"id", "base", "legacy", "differs"} \subseteq DOMAIN MediaOf[j][i]
  /\ IsFiniteSet(DOMAIN OldFiles) /\ \A f \in DOMAIN OldFiles : f[2] \in Nat
  /\ \A j \in Jobs : Len(CallsOf[j]) \in Nat \ {0}
  /\ MaxTries \in Nat \ {0} /\ MaxFaults \in Nat /\ MaxCrashes \in Nat

VARIABLES
  files,         \* final names that exist, with their content
  leftovers,     \* torn files whose removal failed, or that a crash left
  temps,         \* jobs that have a temporary file; Orphan for those a crash left
  reserved,      \* names the resolver of each call has given out
  dirIndex,      \* names with a suffix that each call saw when it scanned the directory, or NotScanned
  slotLock,      \* which job holds the lock of each slot
  job,           \* each job: see Fresh
  contested,     \* history: the media of each job whose name was given to another job as well
  mediaFaults,   \* history
  mediaCrashes   \* history

diskVars   == <<files, leftovers, temps>>
lookupVars == <<reserved, dirIndex, contested>>
mediaVars  == <<diskVars, lookupVars, slotLock, job, mediaFaults, mediaCrashes>>

NoName     == <<"none", 0>>
NoJob      == "nojob"
NotScanned == {NoName}
Orphan     == "orphan"

Slots == {SlotOf[b] : b \in DOMAIN SlotOf}
Calls == UNION {{CallsOf[j][p] : p \in 1..Len(CallsOf[j])} : j \in Jobs}

\* Where a job is, at which medium, those that follow, the pass, the old files it has taken for
\* media of its tweet, and for the present medium the name, the mode, the attempt and whether all
\* bytes came; then what became of the media: there, to be tried again (tweet.Urls), or given up.
\* Last, history: which media were found in which files.
Fresh == [at |-> "idle", i |-> 1, left |-> {}, pass |-> 1, used |-> {}, path |-> NoName,
          mode |-> "buffer", try |-> 1, whole |-> FALSE,
          ok |-> {}, again |-> {}, skipped |-> {}, found |-> {}]

Content(m, who, whole) == [of |-> m, by |-> who, whole |-> whole]

MediaInit ==
  /\ files = [f \in DOMAIN OldFiles |-> Content(OldFiles[f], NoJob, TRUE)]
  /\ leftovers = {} /\ temps = {}
  /\ reserved = [c \in Calls |-> {}] /\ dirIndex = [c \in Calls |-> NotScanned]
  /\ slotLock = [s \in Slots |-> NoJob]
  /\ job = [j \in Jobs |-> Fresh] /\ contested = [j \in Jobs |-> {}]
  /\ mediaFaults = 0 /\ mediaCrashes = 0

Medium(j) == MediaOf[j][job[j].i]
Call(j)   == CallsOf[j][job[j].pass]
Slot(j)   == SlotOf[job[j].path[1]]
Exists(f) == f \in DOMAIN files
Without(f) == [g \in DOMAIN files \ {f} |-> files[g]]
With(f, c) == [g \in DOMAIN files \cup {f} |-> IF g = f THEN c ELSE files[g]]

Move(j, at) == job' = [job EXCEPT ![j].at = at]

\* The medium is settled in one of three ways, perhaps by the files found; the next one follows.
Settle(j, how, taken) ==
  LET me   == job[j]
      last == me.left = {}
      base == [me EXCEPT !.at = IF last THEN "done" ELSE "lookup", !.i = IF last THEN @ ELSE Min(me.left),
                         !.left = IF last THEN @ ELSE @ \ {Min(@)}, !.used = IF last THEN {} ELSE @ \cup taken,
                         !.found = @ \cup {<<me.i, f>> : f \in taken},
                         !.path = NoName, !.mode = "buffer", !.try = 1, !.whole = FALSE]
  IN  job' = [job EXCEPT ![j] = CASE how = "ok"      -> [base EXCEPT !.ok = @ \cup {me.i}]
                                  [] how = "again"   -> [base EXCEPT !.again = @ \cup {me.i}]
                                  [] how = "skipped" -> [base EXCEPT !.skipped = @ \cup {me.i}]]

Fault == mediaFaults < MaxFaults /\ mediaFaults' = mediaFaults + 1

-----------------------------------------------------------------------------
(* downloadTweetMedia.                                                     *)

\* A retry is a call of its own, made when the calls whose failures it takes up have returned.
Returned(c) ==
  \A k \in Jobs : \A p \in 2..Len(CallsOf[k]) : CallsOf[k][p] = c /\ job[k].pass < p => job[k].at = "done"

\* It processes the URLs that failed, in their order, with no memory of the old files taken before.
RetryMedia(j) ==
  /\ job[j].at = "done" /\ job[j].again # {} /\ job[j].pass < Len(CallsOf[j])
  /\ Returned(CallsOf[j][job[j].pass + 1])
  /\ job' = [job EXCEPT ![j] = [Fresh EXCEPT !.at = "lookup", !.i = Min(job[j].again), !.pass = job[j].pass + 1,
                                             !.left = job[j].again \ {Min(job[j].again)}, !.ok = job[j].ok,
                                             !.skipped = job[j].skipped, !.found = job[j].found]]
  /\ UNCHANGED <<diskVars, lookupVars, slotLock, mediaFaults, mediaCrashes>>

\* Its metadata are written as well, to files of their own that nothing below reads.
Begin(j) ==
  /\ job[j].at = "idle"
  /\ job' = [job EXCEPT ![j].at = "lookup", ![j].left = 2..Len(MediaOf[j])]
  /\ UNCHANGED <<diskVars, lookupVars, slotLock, mediaFaults, mediaCrashes>>

\* A call scans the directory once for names with a collision suffix.
Scanned(c) == IF dirIndex[c] = NotScanned THEN {f \in DOMAIN files : f[2] > 0} ELSE dirIndex[c]

NotTaken(j, base) == {f \in DOMAIN files : f[1] = base /\ f \notin job[j].used}

\* findExistingLegacyMediaPath: the name itself, or the first one with a suffix.
Candidates(j, base) ==
  IF <<base, 0>> \in NotTaken(j, base) THEN {<<base, 0>>}
  ELSE LET later == NotTaken(j, base) \cap Scanned(Call(j))
       IN  {f \in later : \A g \in later : f[2] <= g[2]}

\* existingLegacyMediaPath: which of the superseded names are looked for, the present one among
\* them only if the URL has changed since; those that have a file; and what is found first.
LegacyPlaces(m) == {k \in 1..Len(m.legacy) : m.differs \/ m.legacy[k] # m.base}

Hits(j) == {k \in LegacyPlaces(Medium(j)) : Candidates(j, Medium(j).legacy[k]) # {}}

ExistingLegacyPath(j) == IF Hits(j) = {} THEN {} ELSE Candidates(j, Medium(j).legacy[Min(Hits(j))])

\* The scan is made for the first name that is not there without a suffix.
Scans(j) ==
  \E k \in LegacyPlaces(Medium(j)) :
    /\ \A h \in Hits(j) : k <= h
    /\ <<Medium(j).legacy[k], 0>> \notin NotTaken(j, Medium(j).legacy[k])

LookUp(j) ==
  /\ job[j].at = "lookup"
  /\ \/ Fault /\ Settle(j, "again", {}) /\ UNCHANGED dirIndex
     \/ /\ dirIndex' = IF Scans(j) THEN [dirIndex EXCEPT ![Call(j)] = Scanned(Call(j))] ELSE dirIndex
        /\ IF ExistingLegacyPath(j) = {} THEN Move(j, "path") ELSE Settle(j, "ok", ExistingLegacyPath(j))
        /\ UNCHANGED mediaFaults
  /\ UNCHANGED <<diskVars, reserved, contested, slotLock, mediaCrashes>>

\* A job is given a name for its medium; perhaps others have it, too.
GiveName(j, name) ==
  LET others == {k \in Jobs \ {j} : job[k].path = name}
  IN  /\ job' = [job EXCEPT ![j].at = "head", ![j].path = name]
      /\ contested' = [k \in Jobs |-> IF k = j /\ others = {} THEN contested[k] \ {job[k].i}
                                      ELSE IF k \in others \cup {j} THEN contested[k] \cup {job[k].i}
                                      ELSE contested[k]]

\* The first name of the medium that is not taken.
FirstFree(j, taken) ==
  LET free(n) == <<Medium(j).base, n>> \notin taken
  IN  <<Medium(j).base, CHOOSE n \in 0..Cardinality(taken) : free(n) /\ \A l \in 0..(n - 1) : ~free(l)>>

\* (mistake: the resolver remembers nothing)
UniquePathUnreserved(j) ==
  /\ job[j].at = "path"
  /\ GiveName(j, FirstFree(j, DOMAIN files))
  /\ UNCHANGED <<diskVars, reserved, dirIndex, slotLock, mediaFaults, mediaCrashes>>

\* UniquePath: the first name that does not exist and that the resolver, if the call has one, did
\* not give out.
UniquePath(j) ==
  LET taken == DOMAIN files \cup reserved[Call(j)]
      name  == FirstFree(j, taken)
  IN  /\ job[j].at = "path"
      /\ GiveName(j, name)
      /\ reserved' = IF Call(j) \in Resolving THEN [reserved EXCEPT ![Call(j)] = @ \cup {name}] ELSE reserved
      /\ UNCHANGED <<diskVars, dirIndex, slotLock, mediaFaults, mediaCrashes>>

-----------------------------------------------------------------------------
(* Download.                                                               *)

\* The HEAD request decides on the mode: a large file is streamed.
Head_(j) ==
  /\ job[j].at = "head"
  /\ \E mode \in {"buffer", "stream"} :
       job' = [job EXCEPT ![j].at = "get", ![j].mode = mode]
  /\ UNCHANGED <<diskVars, lookupVars, slotLock, mediaFaults, mediaCrashes>>

\* downloadStream: another attempt after a delay, the last one in buffer mode; unless the
\* context ends during the delay.
StreamAgain(j) ==
  \/ job' = [job EXCEPT ![j].at = "get", ![j].whole = FALSE,
                        ![j].try = IF job[j].try < MaxTries THEN @ + 1 ELSE 1,
                        ![j].mode = IF job[j].try < MaxTries THEN "stream" ELSE "buffer"]
  \/ job[j].try < MaxTries /\ Settle(j, "again", {})

Broken(j) == IF job[j].mode = "stream" THEN StreamAgain(j) ELSE Settle(j, "again", {})

\* An error, a status of 403 or 404, or a body.
Get(j) ==
  /\ job[j].at = "get"
  /\ \/ Fault /\ Broken(j)
     \/ Fault /\ Settle(j, "skipped", {})
     \/ Move(j, "lock") /\ UNCHANGED mediaFaults
  /\ UNCHANGED <<diskVars, lookupVars, slotLock, mediaCrashes>>

\* Write: under the lock of the name's slot, a temporary file ...
LockPath(j) ==
  /\ job[j].at = "lock" /\ slotLock[Slot(j)] = NoJob
  /\ slotLock' = [slotLock EXCEPT ![Slot(j)] = j]
  /\ temps' = temps \cup {j}
  /\ Move(j, "copy")
  /\ UNCHANGED <<files, leftovers, lookupVars, mediaFaults, mediaCrashes>>

\* (mistake: a copy that fails keeps the lock of the name)
CopyKeepsLock(j) ==
  /\ job[j].at = "copy"
  /\ \/ job' = [job EXCEPT ![j].at = "rename", ![j].whole = TRUE] /\ UNCHANGED <<temps, mediaFaults>>
     \/ Fault /\ Broken(j) /\ temps' = temps \ {j}
  /\ UNCHANGED <<files, leftovers, slotLock, lookupVars, mediaCrashes>>

\* ... takes what comes: all of it, in stream mode perhaps another number of bytes than the HEAD
\* said, or an error (the disk may be full).
Copy(j) ==
  /\ job[j].at = "copy"
  /\ \/ /\ job' = [job EXCEPT ![j].at = "rename", ![j].whole = TRUE]
        /\ UNCHANGED <<temps, slotLock, mediaFaults>>
     \/ /\ Fault /\ job[j].mode = "stream" /\ Move(j, "rename")
        /\ UNCHANGED <<temps, slotLock>>
     \/ /\ Fault /\ Broken(j)
        /\ temps' = temps \ {j} /\ slotLock' = [slotLock EXCEPT ![Slot(j)] = NoJob]
  /\ UNCHANGED <<files, leftovers, lookupVars, mediaCrashes>>

\* ... and is renamed.  Only a stream is verified.
Rename(j) ==
  /\ job[j].at = "rename"
  /\ files' = With(job[j].path, Content(Medium(j).id, j, job[j].whole))
  /\ leftovers' = leftovers \ {job[j].path}
  /\ temps' = temps \ {j} /\ slotLock' = [slotLock EXCEPT ![Slot(j)] = NoJob]
  /\ IF job[j].mode = "stream" THEN Move(j, "verify") ELSE Settle(j, "ok", {})
  /\ UNCHANGED <<lookupVars, mediaFaults, mediaCrashes>>

\* (mistake: the size is not compared)
VerifyNothing(j) ==
  /\ job[j].at = "verify" /\ Settle(j, "ok", {})
  /\ UNCHANGED <<diskVars, lookupVars, slotLock, mediaFaults, mediaCrashes>>

\* A file with another size than expected is removed, and fetched again.
Verify(j) ==
  /\ job[j].at = "verify"
  /\ \/ /\ job[j].whole /\ Settle(j, "ok", {})
        /\ UNCHANGED <<files, leftovers, mediaFaults>>
     \/ /\ ~job[j].whole /\ StreamAgain(j)
        /\ \/ files' = Without(job[j].path) /\ UNCHANGED <<leftovers, mediaFaults>>
           \/ Fault /\ leftovers' = leftovers \cup {job[j].path} /\ UNCHANGED files
  /\ UNCHANGED <<temps, lookupVars, slotLock, mediaCrashes>>

-----------------------------------------------------------------------------
\* The process ends; the next run meets the tweets again, since their release time was not moved.
CrashMedia ==
  /\ mediaCrashes < MaxCrashes /\ mediaCrashes' = mediaCrashes + 1
  /\ leftovers' = leftovers \cup {f \in DOMAIN files : ~files[f].whole}
  /\ temps' = IF temps = {} THEN {} ELSE {Orphan}
  /\ reserved' = [c \in Calls |-> {}] /\ dirIndex' = [c \in Calls |-> NotScanned]
  /\ slotLock' = [s \in Slots |-> NoJob]
  /\ job' = [j \in Jobs |-> Fresh] /\ contested' = [j \in Jobs |-> {}]
  /\ UNCHANGED <<files, mediaFaults>>

MediaStep(j) ==
  \/ Begin(j) \/ RetryMedia(j) \/ LookUp(j) \/ UniquePath(j) \/ Head_(j) \/ Get(j) \/ LockPath(j) \/ Copy(j)
  \/ Rename(j) \/ Verify(j)

MediaNext == (\E j \in Jobs : MediaStep(j)) \/ CrashMedia

MediaSpec == MediaInit /\ [][MediaNext]_mediaVars

-----------------------------------------------------------------------------
(* What the files promise.                                                 *)

Steps == {"idle", "lookup", "path", "head", "get", "lock", "copy", "rename", "verify", "done"}

(* Every variable has its type, and the media before the present one are settled in one way.     *)
MediaTypeOK ==
  /\ \A f \in DOMAIN files : files[f].whole \in BOOLEAN /\ f[2] \in Nat
  /\ temps \subseteq Jobs \cup {Orphan}
  /\ \A s \in Slots : slotLock[s] \in Jobs \cup {NoJob}
  /\ \A j \in Jobs : /\ job[j].at \in Steps /\ job[j].try \in 1..MaxTries
                     /\ job[j].ok \cap (job[j].again \cup job[j].skipped) = {}
                     /\ job[j].at = "done" => job[j].ok \cup job[j].again \cup job[j].skipped
                                                = 1..Len(MediaOf[j])

(* A medium that was downloaded, and so is never asked for again, is on disk and whole: no other *)
(* medium took its name, and no attempt to write it, or another one, removed it afterwards.      *)
(* Excepted is a medium whose name a job of another call was given as well (CollisionFree), and  *)
(* one that was not downloaded, as a file was taken for it (ReusedFilesAreOld).                  *)
DownloadedIsThere ==
  \A j \in Jobs : \A i \in job[j].ok \ (contested[j] \cup {m[1] : m \in job[j].found}) :
    \E f \in DOMAIN files : files[f].of = MediaOf[j][i].id /\ files[f].whole

(* Of the jobs of one call that has a resolver, no two are given one name at a time, whatever is  *)
(* written, removed and retried meanwhile.                                                       *)
OneResolverOneName ==
  \A j, k \in Jobs :
    j # k /\ job[j].path = job[k].path /\ job[j].path # NoName => Call(j) # Call(k) \/ Call(j) \notin Resolving

(* A file under its final name is whole.  The exceptions are a stream whose size is about to be  *)
(* compared, and what a crash in that moment or a failed removal left behind.                    *)
TornFilesAreTaken ==
  \A f \in DOMAIN files :
    files[f].whole \/ f \in leftovers \/ \E j \in Jobs : job[j].at = "verify" /\ job[j].path = f

(* A whole file is replaced or removed by a job only under a name that it had at a time when     *)
(* a job of another call had it too; what earlier releases left is never touched.                *)
WholeFilesStay ==
  [][\A f \in DOMAIN files :
       files[f].whole => \/ f \in DOMAIN files' /\ files'[f] = files[f]
                         \/ /\ f \notin DOMAIN OldFiles
                            /\ \E j \in Jobs : job[j].path = f /\ job[j].i \in contested[j]]_mediaVars

-----------------------------------------------------------------------------
(* What comments say of the code, which it does not keep.                  *)

(* "FilePathWithResolver returns a collision-free path and reserves it" (tweet_naming.go:139):   *)
(* where a job is about to write, or to remove what it wrote, no other job has put a whole file. *)
CollisionFree ==
  \A j \in Jobs :
    job[j].at \in {"rename", "verify"} /\ Exists(job[j].path) /\ files[job[j].path].whole
      => files[job[j].path].by = j

(* "existingLegacyMediaPath looks only for names written by an earlier naming policy"            *)
(* (tweet_download.go:542): what is taken for a medium that need not be downloaded is a file     *)
(* that an earlier release left.                                                                 *)
ReusedFilesAreOld == \A j \in Jobs : \A m \in job[j].found : m[2] \in DOMAIN OldFiles
=============================================================================
