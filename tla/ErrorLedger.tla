---------------------------- MODULE ErrorLedger ----------------------------
(***************************************************************************)
(* The ledgers of failed tweets (errors.json and json_errors.json): the    *)
(* runs of the download service that load, change and save them            *)
(* (internal/service/download_service.go) with a dumper                    *)
(* (internal/downloading/dumper.go) and the retries (retry.go).            *)
(*                                                                         *)
(* A run works on a copy of its ledger: loading and saving are steps under *)
(* dumperMu, what happens in between is not.  The batch itself is one      *)
(* step: BatchDownload shows that each tweet it handed over ends on disk   *)
(* or among the failures it returns.  A tweet stands for its media that    *)
(* are still missing; one that is handed over is never fetched again,      *)
(* because the release time of its account has moved past it.              *)
(***************************************************************************)
EXTENDS Naturals, FiniteSets

CONSTANTS
  Runs,        \* the tasks of the service
  RegularItems,\* failed tweets by account: what errors.json may hold
  JsonItems,   \* failed tweets by source file: what json_errors.json may hold
  Account,     \* the entity of each regular item
  NoURLs,      \* items without media
  Accidents    \* what may go wrong: a subset of {"batch", "overlap", "crash", "disk", "clear"}

Items == RegularItems \cup JsonItems

\* A file that was written only in part: it holds nothing that is an item.
Torn  == {"torn"}

ASSUME LedgerAssumption ==
  /\ RegularItems \cap JsonItems = {} /\ NoURLs \subseteq Items /\ "torn" \notin Items
  /\ DOMAIN Account = RegularItems

VARIABLES
  ledgerFile,   \* what the files hold: a set of items for each kind, or Torn
  ledgerRun,    \* each run: where it is, its operation, its copy
  handedOver,   \* items that no later run will fetch
  settled,      \* items whose media are on disk, or can never be
  recorded,     \* history: items that were ever in a file
  deleted,      \* accounts whose entity no longer exists
  accidents     \* history: what went wrong

ledgerVars == <<ledgerFile, ledgerRun, handedOver, settled, recorded, deleted, accidents>>

Kinds2  == {"regular", "json"}
Of(k)   == IF k = "regular" THEN RegularItems ELSE JsonItems
Off     == [at |-> "off", op |-> "none", kind |-> "regular", copy |-> {}]

LedgerInit ==
  /\ ledgerFile = [k \in Kinds2 |-> {}]
  /\ ledgerRun = [r \in Runs |-> Off]
  /\ handedOver = {} /\ settled = {} /\ recorded = {} /\ deleted = {} /\ accidents = {}

Active(r)     == ledgerRun[r].at # "off"
OthersWork(r) == \E x \in Runs \ {r} : Active(x)

\* A file that cannot be read is as good as none (it will be replaced).
Loaded(k) == IF ledgerFile[k] = Torn THEN {} ELSE ledgerFile[k]

Go(r, at, op, k, copy) ==
  ledgerRun' = [ledgerRun EXCEPT ![r] = [at |-> at, op |-> op, kind |-> k, copy |-> copy]]

-----------------------------------------------------------------------------
(* A download: executeDownloadTemplate, JsonFileDownload and               *)
(* JsonFolderDownload.                                                     *)

StartRun(r, k) ==
  /\ ~Active(r)
  /\ OthersWork(r) => "overlap" \in Accidents
  /\ Go(r, "batch", "download", k, Loaded(k))
  /\ accidents' = accidents \cup (IF OthersWork(r) THEN {"overlap"} ELSE {})
  /\ UNCHANGED <<ledgerFile, handedOver, settled, recorded, deleted>>

ExecuteDownloadTemplate(r) == StartRun(r, "regular")
JsonFileDownload(r)        == StartRun(r, "json")
JsonFolderDownload(r)      == StartRun(r, "json")

\* Targets that cannot be resolved: the copy goes back as it was.
PrepareFails(r) ==
  /\ ledgerRun[r].at = "batch" /\ ledgerRun[r].op = "download"
  /\ Go(r, "save", "download", ledgerRun[r].kind, ledgerRun[r].copy)
  /\ UNCHANGED <<ledgerFile, handedOver, settled, recorded, deleted, accidents>>

\* (mistake: what the batch returns replaces what was loaded)
BatchReplaces(r) ==
  LET me == ledgerRun[r] IN
  /\ me.at = "batch" /\ me.op = "download"
  /\ \E new \in SUBSET (Of(me.kind) \ handedOver) : \E failed \in SUBSET new :
       /\ handedOver' = handedOver \cup new
       /\ settled' = settled \cup (new \ failed)
       /\ Go(r, "retry", me.op, me.kind, failed)
  /\ UNCHANGED <<ledgerFile, recorded, deleted, accidents>>

\* The batch hands tweets over; some of them fail.  When it returns an error, because it was
\* cancelled, the disk was full, or following the members failed after it, the failures are not
\* collected; only a regular download has that return.  Accounts that are downloaded exist.
Batch(r) ==
  LET me == ledgerRun[r] IN
  /\ me.at = "batch" /\ me.op = "download"
  /\ \E new \in SUBSET (Of(me.kind) \ handedOver) : \E failed \in SUBSET new :
       /\ me.kind = "regular" => \A x \in new : Account[x] \notin deleted
       /\ handedOver' = handedOver \cup new
       /\ settled' = settled \cup (new \ failed)
       /\ \/ /\ Go(r, "retry", me.op, me.kind, me.copy \cup failed) /\ UNCHANGED accidents
          \/ /\ me.kind = "regular" /\ "batch" \in Accidents
             /\ Go(r, "save", me.op, me.kind, me.copy)
             /\ accidents' = accidents \cup {"batch"}
  /\ UNCHANGED <<ledgerFile, recorded, deleted>>

\* RetryFailedTweets and RetryFailedJsonTweets: an account that no longer exists is an error
\* before anything is tried; otherwise tweets that are recovered, or turn out never to be, leave
\* the copy (in the JSON ledger also those without media, if there was something to try).
RetryError(k, copy) == k = "regular" /\ \E x \in copy : Account[x] \in deleted

RecoveredTweets(copy) == SUBSET (copy \ NoURLs)
RecoveredJsonTweets(copy) ==
  {got \cup (copy \cap NoURLs) : got \in SUBSET (copy \ NoURLs)}
Recovered(k, copy) ==
  IF copy \subseteq NoURLs THEN {{}}
  ELSE IF k = "regular" THEN RecoveredTweets(copy) ELSE RecoveredJsonTweets(copy)

RetryStep(r) ==
  LET me == ledgerRun[r] IN
  /\ me.at = "retry" /\ me.op = "download"
  /\ \E gone \in IF RetryError(me.kind, me.copy) THEN {{}} ELSE Recovered(me.kind, me.copy) \cup {{}} :
       /\ Go(r, "save", me.op, me.kind, me.copy \ gone)
       /\ settled' = settled \cup gone
  /\ UNCHANGED <<ledgerFile, handedOver, recorded, deleted, accidents>>

\* The deferred save overwrites the file with the copy, whatever it holds now; it may fail halfway.
Written(k, copy) ==
  \/ /\ ledgerFile' = [ledgerFile EXCEPT ![k] = copy] /\ recorded' = recorded \cup copy
     /\ UNCHANGED accidents
  \/ /\ "disk" \in Accidents /\ copy # {}
     /\ ledgerFile' = [ledgerFile EXCEPT ![k] = Torn] /\ accidents' = accidents \cup {"disk"}
     /\ UNCHANGED recorded

SaveRun(r) ==
  LET me == ledgerRun[r] IN
  /\ me.at = "save" /\ me.op = "download"
  /\ Written(me.kind, me.copy)
  /\ ledgerRun' = [ledgerRun EXCEPT ![r] = Off]
  /\ UNCHANGED <<handedOver, settled, deleted>>

-----------------------------------------------------------------------------
(* RetryAllFailed: the regular ledger, then the other one; each is saved   *)
(* only when there was something to retry and the retry made no error.     *)

StartRetryAll(r) ==
  /\ ~Active(r)
  /\ OthersWork(r) => "overlap" \in Accidents
  /\ Go(r, "retry", "retryall", "regular", Loaded("regular"))
  /\ accidents' = accidents \cup (IF OthersWork(r) THEN {"overlap"} ELSE {})
  /\ UNCHANGED <<ledgerFile, handedOver, settled, recorded, deleted>>

RetryAll(r) ==
  LET me == ledgerRun[r] IN
  /\ me.at = "retry" /\ me.op = "retryall"
  /\ \/ /\ me.copy = {} \/ RetryError(me.kind, me.copy)
        /\ Go(r, "next", me.op, me.kind, {}) /\ UNCHANGED settled
     \/ /\ me.copy # {} /\ ~RetryError(me.kind, me.copy)
        /\ \E gone \in Recovered(me.kind, me.copy) \cup {{}} :
             /\ Go(r, "save", me.op, me.kind, me.copy \ gone)
             /\ settled' = settled \cup gone
  /\ UNCHANGED <<ledgerFile, handedOver, recorded, deleted, accidents>>

SaveRetried(r) ==
  LET me == ledgerRun[r] IN
  /\ me.at = "save" /\ me.op = "retryall"
  /\ Written(me.kind, me.copy)
  /\ Go(r, "next", me.op, me.kind, {})
  /\ UNCHANGED <<handedOver, settled, deleted>>

NextLedger(r) ==
  LET me == ledgerRun[r] IN
  /\ me.at = "next"
  /\ IF me.kind = "regular" THEN Go(r, "retry", me.op, "json", Loaded("json"))
     ELSE ledgerRun' = [ledgerRun EXCEPT ![r] = Off]
  /\ UNCHANGED <<ledgerFile, handedOver, settled, recorded, deleted, accidents>>

-----------------------------------------------------------------------------
\* ClearErrors removes both files, also while a run holds a copy.
ClearErrors ==
  /\ "clear" \in Accidents
  /\ ledgerFile' = [k \in Kinds2 |-> {}] /\ accidents' = accidents \cup {"clear"}
  /\ UNCHANGED <<ledgerRun, handedOver, settled, recorded, deleted>>

\* The process ends, perhaps in the middle of a write.
CrashRuns ==
  /\ "crash" \in Accidents /\ \E r \in Runs : Active(r)
  /\ ledgerRun' = [r \in Runs |-> Off]
  /\ \/ accidents' = accidents \cup {"crash"} /\ UNCHANGED ledgerFile
     \/ \E r \in Runs : /\ ledgerRun[r].at = "save" /\ ledgerRun[r].copy # {}
                        /\ ledgerFile' = [ledgerFile EXCEPT ![ledgerRun[r].kind] = Torn]
                        /\ accidents' = accidents \cup {"crash", "disk"}
  /\ UNCHANGED <<handedOver, settled, recorded, deleted>>

\* An account's entity is deleted in the database browser.
DeleteEntity(a) ==
  /\ a \notin deleted /\ deleted' = deleted \cup {a}
  /\ UNCHANGED <<ledgerFile, ledgerRun, handedOver, settled, recorded, accidents>>

LedgerNext ==
  \/ \E r \in Runs : \/ ExecuteDownloadTemplate(r) \/ JsonFileDownload(r) \/ JsonFolderDownload(r)
                     \/ PrepareFails(r) \/ Batch(r) \/ RetryStep(r) \/ SaveRun(r)
                     \/ StartRetryAll(r) \/ RetryAll(r) \/ SaveRetried(r) \/ NextLedger(r)
  \/ ClearErrors \/ CrashRuns
  \/ \E a \in {Account[x] : x \in RegularItems} : DeleteEntity(a)

LedgerSpec == LedgerInit /\ [][LedgerNext]_ledgerVars

-----------------------------------------------------------------------------
(* What a ledger is for.                                                   *)

(* Every variable has its type: an item is only in the ledger of its kind.  A write that a crash *)
(* cuts short leaves a torn file, as a full disk does.                                           *)
LedgerTypeOK ==
  /\ \A k \in Kinds2 : ledgerFile[k] = Torn \/ ledgerFile[k] \subseteq Of(k)
  /\ \A r \in Runs : /\ ledgerRun[r].at \in {"off", "batch", "retry", "save", "next"}
                     /\ ledgerRun[r].op \in {"none", "download", "retryall"}
                     /\ ledgerRun[r].kind \in Kinds2
                     /\ ledgerRun[r].copy \subseteq Of(ledgerRun[r].kind)
  /\ recorded \subseteq Items /\ settled \subseteq Items /\ handedOver \subseteq Items
  /\ accidents \subseteq Accidents \cup {"disk"}

Owed == handedOver \ settled

\* Items that a run will still save.
InRun == UNION {ledgerRun[r].copy : r \in Runs}
OnFile == UNION {Loaded(k) : k \in Kinds2}

(* As long as runs follow one another and nothing interrupts them, no failed tweet is forgotten  *)
(* (it is in a file or with a run), and between runs the files hold exactly what is still owed.  *)
(* What was recorded once outlives also failed batches and crashes outside a write: only an      *)
(* overlapping run, a failed write or a clean-up may lose it.                                    *)
LedgerExact ==
  /\ accidents = {} => Owed \subseteq OnFile \cup InRun
  /\ accidents = {} /\ (\A r \in Runs : ~Active(r)) => OnFile = Owed
  /\ accidents \subseteq {"batch", "crash"} => recorded \ settled \subseteq OnFile \cup InRun
=============================================================================
