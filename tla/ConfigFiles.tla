----------------------------- MODULE ConfigFiles -----------------------------
(***************************************************************************)
(* The files that are edited through the API: conf.yaml, schedules.yaml    *)
(* and additional_cookies.yaml (config_handlers.go, scheduler_handlers.go, *)
(* cookie_handlers.go of internal/api; config.go and backup.go of          *)
(* internal/config).                                                       *)
(*                                                                         *)
(* A request saves the whole file, or edits what is there: the first two   *)
(* files under a lock each, the third without one.  It backs up the file,  *)
(* writes it and passes it to what runs.  conf.yaml and the cookies are    *)
(* written to a temporary file that is renamed, schedules.yaml in place.   *)
(* Content is the set of the edits it is made of.                          *)
(***************************************************************************)
EXTENDS Integers, FiniteSets, FiniteSetsExt

CONSTANTS
  Savers,       \* requests
  EnvEdit,      \* what environment variables add to the configuration when it is loaded
  BackupLimit,  \* maxConfigBackupCount
  MaxSaves,     \* bound: saves begun
  Troubles      \* bound: which of "backup", "write", "reload", "crash", "clockback" may happen

NoSaver  == "nobody"

ASSUME ConfigAssumption ==
  /\ BackupLimit \in Nat \ {0} /\ MaxSaves \in Nat /\ EnvEdit \notin 1..MaxSaves
  /\ NoSaver \notin Savers

VARIABLES
  file,       \* each file: a set of edits, BrokenFile if it cannot be parsed
  running,    \* what the program uses: s.config, the scheduler's entries
  backups,    \* each file: records of a stamp and a content
  lastStamp,  \* lastBackupStamp
  lock,       \* configMu, schedulesMu
  saver,      \* each request
  saves,      \* history: saves begun
  due,        \* history: each file's content if no edit is lost
  troubles    \* history

cfgFileVars == <<file, running, backups, lastStamp>>
cfgPastVars == <<saves, due, troubles>>
configVars  == <<cfgFileVars, lock, saver, cfgPastVars>>

ConfFiles    == {"conf", "schedules", "cookies"}
Locked   == {"conf", "schedules"}
BrokenFile   == {-1}
NoSave   == [at |-> "idle", file |-> "conf", does |-> "replace", edit |-> 0, target |-> 0, new |-> {},
             read |-> {}, stamp |-> 0]
Env      == {EnvEdit}

\* The handlers: the file of each, and what it does to the content.
UpdateConfigRaw    == [file |-> "conf",      does |-> "replace"]
SaveConfigFields   == [file |-> "conf",      does |-> "add"]
ReplaceSchedules   == [file |-> "schedules", does |-> "replace"]
UpdateSchedulesRaw == [file |-> "schedules", does |-> "replace"]
CreateSchedule     == [file |-> "schedules", does |-> "add"]
UpdateSchedule     == [file |-> "schedules", does |-> "change"]
SetScheduleEnabled == [file |-> "schedules", does |-> "change"]
DeleteSchedule     == [file |-> "schedules", does |-> "remove"]
UpdateCookiesRaw   == [file |-> "cookies",   does |-> "replace"]
SaveCookies        == [file |-> "cookies",   does |-> "add"]

SaveHandlers ==
  {UpdateConfigRaw, SaveConfigFields, ReplaceSchedules, UpdateSchedulesRaw, CreateSchedule, UpdateSchedule,
   SetScheduleEnabled, DeleteSchedule, UpdateCookiesRaw, SaveCookies}

\* What the request of saver s makes of a content.
Edited(s, content) ==
  (IF s.does = "replace" THEN {} ELSE content \ {s.target}) \cup IF s.does = "remove" THEN {} ELSE {s.edit}

\* LoadStartupConfig and scheduler.New: a file that cannot be parsed gives no scheduler.
LoadedFrom(f, content) ==
  IF content = BrokenFile THEN {} ELSE content \cup IF f = "conf" THEN Env ELSE {}

ConfigInit ==
  /\ file = [f \in ConfFiles |-> {}] /\ running = [f \in Locked |-> LoadedFrom(f, {})]
  /\ backups = [f \in ConfFiles |-> {}] /\ lastStamp = 0
  /\ lock = [f \in Locked |-> NoSaver] /\ saver = [r \in Savers |-> NoSave]
  /\ saves = 0 /\ due = [f \in ConfFiles |-> {}] /\ troubles = {}

Trouble(what) == what \in Troubles \ troubles /\ troubles' = troubles \cup {what}

SaverTo(r, at) == saver' = [saver EXCEPT ![r].at = at]
Unlocked(r) == [f \in Locked |-> IF lock[f] = r THEN NoSaver ELSE lock[f]]
Over(r) == saver' = [saver EXCEPT ![r] = NoSave] /\ lock' = Unlocked(r)

-----------------------------------------------------------------------------
(* A save.                                                                 *)

\* A request that is valid.
BeginSave(r) ==
  /\ saver[r].at = "idle" /\ saves < MaxSaves /\ saves' = saves + 1
  /\ \E h \in SaveHandlers, id \in 0..saves :
       /\ id = 0 <=> h.does \notin {"change", "remove"}
       /\ saver' = [saver EXCEPT ![r] = [NoSave EXCEPT !.at = "lock", !.file = h.file, !.does = h.does,
                                                       !.edit = saves + 1, !.target = id]]
  /\ UNCHANGED <<cfgFileVars, lock, due, troubles>>

\* Fields are edited in s.config, schedules and cookies in the file.
Base(r) == IF saver[r].file = "conf" THEN running["conf"] ELSE file[saver[r].file]

\* (mistake: the request reads what it edits first, and then waits for the lock)
LockAndReadSplit(r) ==
  LET f == saver[r].file IN
  \/ /\ saver[r].at = "lock"
     /\ saver' = [saver EXCEPT ![r].at = "locked", ![r].new = Edited(saver[r], Base(r))]
     /\ UNCHANGED <<cfgFileVars, lock, cfgPastVars>>
  \/ /\ saver[r].at = "locked" /\ (f \in Locked => lock[f] = NoSaver)
     /\ lock' = [g \in Locked |-> IF g = f THEN r ELSE lock[g]] /\ SaverTo(r, "backup")
     /\ UNCHANGED <<cfgFileVars, cfgPastVars>>

\* The lock, if the file has one; an edit of a file that cannot be read, or of an entry that is
\* not there, is refused.
LockAndRead(r) ==
  LET f == saver[r].file IN
  /\ saver[r].at = "lock" /\ (f \in Locked => lock[f] = NoSaver)
  /\ IF saver[r].does # "replace" /\ (Base(r) = BrokenFile \/ saver[r].target \notin Base(r) \cup {0}) THEN Over(r)
     ELSE /\ lock' = [g \in Locked |-> IF g = f THEN r ELSE lock[g]]
          /\ saver' = [saver EXCEPT ![r].at = "backup", ![r].new = Edited(saver[r], Base(r))]
  /\ UNCHANGED <<cfgFileVars, cfgPastVars>>

\* CreateBackup reads the file and takes a stamp, under a lock: after the last one of this
\* process, and one that no backup of this file has.  What fails in it is only logged.
ReadForBackup(r) ==
  LET f == saver[r].file  taken == {b.stamp : b \in backups[f]} IN
  /\ saver[r].at = "backup"
  /\ \/ /\ lastStamp' = Min({s \in (lastStamp + 1)..(lastStamp + Cardinality(taken) + 1) : s \notin taken})
        /\ saver' = [saver EXCEPT ![r].at = "copy", ![r].read = file[f], ![r].stamp = lastStamp']
        /\ UNCHANGED troubles
     \/ Trouble("backup") /\ SaverTo(r, "write") /\ UNCHANGED lastStamp
  /\ UNCHANGED <<file, running, backups, lock, saves, due>>

\* (mistake: the newest are removed)
PrunedNewest(bs) == IF Cardinality(bs) <= BackupLimit THEN bs
                    ELSE {b \in bs : Cardinality({c \in bs : c.stamp < b.stamp}) < BackupLimit}

\* pruneConfigBackups: the greatest stamps stay.
Pruned(bs) == {b \in bs : Cardinality({c \in bs : c.stamp > b.stamp}) < BackupLimit}

CopyBackup(r) ==
  LET f == saver[r].file IN
  /\ saver[r].at = "copy" /\ SaverTo(r, "write")
  /\ backups' = [g \in ConfFiles |-> Pruned(backups[g] \cup
                   IF g = f THEN {[stamp |-> saver[r].stamp, content |-> saver[r].read]} ELSE {})]
  /\ UNCHANGED <<file, running, lastStamp, lock, cfgPastVars>>

\* The file's content is replaced.
Replaces(r, content) ==
  LET f == saver[r].file IN
  /\ file' = [file EXCEPT ![f] = content]
  /\ due' = [due EXCEPT ![f] = Edited(saver[r], @)]

\* writeFileAtomic, or os.WriteFile, which empties the file first.
WriteConfig(r) ==
  /\ saver[r].at = "write"
  /\ \/ saver[r].file # "schedules" /\ Replaces(r, saver[r].new) /\ SaverTo(r, "publish") /\ UNCHANGED <<lock, troubles>>
     \/ saver[r].file = "schedules" /\ Replaces(r, {}) /\ SaverTo(r, "fill") /\ UNCHANGED <<lock, troubles>>
     \/ Trouble("write") /\ Over(r) /\ UNCHANGED <<file, due>>
  /\ UNCHANGED <<running, backups, lastStamp, saves>>

FillSchedules(r) ==
  /\ saver[r].at = "fill"
  /\ \/ file' = [file EXCEPT !["schedules"] = saver[r].new] /\ SaverTo(r, "publish") /\ UNCHANGED <<lock, troubles>>
     \/ file' = [file EXCEPT !["schedules"] = BrokenFile] /\ Trouble("write") /\ Over(r)
  /\ UNCHANGED <<running, backups, lastStamp, saves, due>>

\* What runs gets the new content: s.config, or the scheduler by a reload, which may fail.
PublishConfig(r) ==
  LET f == saver[r].file IN
  /\ saver[r].at = "publish" /\ Over(r)
  /\ \/ /\ running' = [g \in Locked |-> IF g # f THEN running[g] ELSE IF f = "conf" THEN saver[r].new ELSE file[f]]
        /\ UNCHANGED troubles
     \/ f = "schedules" /\ Trouble("reload") /\ UNCHANGED running
  /\ UNCHANGED <<file, backups, lastStamp, saves, due>>

\* A crash, and the next start; its clock is later than every stamp, unless it was put back.
CrashConfig ==
  /\ \E t \in {"crash", "clockback"} :
       /\ Trouble(t)
       /\ lastStamp' = IF t = "clockback" THEN 0 ELSE Max({0} \cup {b.stamp : b \in UNION {backups[f] : f \in ConfFiles}})
  /\ running' = [f \in Locked |-> LoadedFrom(f, file[f])]
  /\ saver' = [r \in Savers |-> NoSave] /\ lock' = [f \in Locked |-> NoSaver]
  /\ UNCHANGED <<file, backups, saves, due>>

ConfigSaver(r) ==
  \/ LockAndRead(r) \/ ReadForBackup(r) \/ CopyBackup(r) \/ WriteConfig(r) \/ FillSchedules(r) \/ PublishConfig(r)

ConfigNext == CrashConfig \/ \E r \in Savers : BeginSave(r) \/ ConfigSaver(r)

ConfigSpec == ConfigInit /\ [][ConfigNext]_configVars

-----------------------------------------------------------------------------
(* What saving promises.                                                   *)

(* Every variable has its type.                                                                  *)
ConfigTypeOK ==
  /\ \A f \in ConfFiles : file[f] \subseteq (-1..MaxSaves) \cup Env /\ Cardinality(backups[f]) <= BackupLimit
  /\ \A r \in Savers : saver[r].at \in {"idle", "lock", "backup", "copy", "write", "fill", "publish"}
  /\ \A f \in Locked : lock[f] \in Savers \cup {NoSaver}

(* No edit of conf.yaml or schedules.yaml is lost to another one that was saved at the same      *)
(* time, though every save writes the whole file; what the environment added may be saved with   *)
(* it, and only a write of schedules.yaml that was cut short loses more.  When nobody is saving, *)
(* the program runs what the file says, unless the reload failed.                                *)
EditsAddUp ==
  /\ due["conf"] \subseteq file["conf"] /\ file["conf"] \subseteq due["conf"] \cup Env
  /\ lock["conf"] = NoSaver => running["conf"] \ Env = file["conf"] \ Env
  /\ lock["schedules"] = NoSaver =>
       /\ file["schedules"] = due["schedules"] \/ troubles \cap {"write", "crash", "clockback"} # {}
       /\ running["schedules"] = file["schedules"] \/ troubles \cap {"write", "reload"} # {}

(* What a save of a locked file replaces is in a backup before it is, so that a write cut short  *)
(* by a crash or a full disk can be undone, and no other request's pruning has taken it away --   *)
(* unless that backup failed, or the clock was put back before a restart (a backup whose stamp    *)
(* is then the smallest is removed as the oldest as soon as it is made).                          *)
ReplacedIsBackedUp ==
  [][\A f \in Locked : file'[f] # file[f] /\ file[f] # {} =>
       \/ file[f] \in {b.content : b \in backups'[f]}
       \/ troubles' \cap {"backup", "clockback"} # {}]_configVars
=============================================================================
