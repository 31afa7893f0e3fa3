------------------------------ MODULE FileProofs ------------------------------
(***************************************************************************)
(* Theorems about what is on disk: the configuration files, the error      *)
(* ledgers, the media of tweets and the versions of a profile's file.      *)
(***************************************************************************)
EXTENDS ConfigFiles, ErrorLedger, MediaFiles, ProfileFiles, FiniteSetTheorems, WellFoundedInduction, TLAPS
-----------------------------------------------------------------------------
(* Configuration files.                                                    *)

Edits    == 1..MaxSaves
FileContents == SUBSET (Edits \cup Env \cup BrokenFile)
SavePlaces == {"idle", "lock", "backup", "copy", "write", "fill", "publish"}

SaveRecord ==
  [at : SavePlaces, file : ConfFiles, does : {"replace", "add", "change", "remove"}, edit : Nat,
   target : Nat, new : FileContents, read : FileContents, stamp : Nat]
BackupRecord == [stamp : Nat, content : FileContents]

ConfigTyped ==
  /\ file \in [ConfFiles -> FileContents] /\ running \in [Locked -> FileContents]
  /\ backups \in [ConfFiles -> SUBSET BackupRecord]
  /\ \E n \in Nat : \A f \in ConfFiles : \A b \in backups[f] : b.stamp <= n
  /\ lastStamp \in Nat /\ saves \in Nat /\ saves <= MaxSaves
  /\ due \in [ConfFiles -> SUBSET Edits]
  /\ lock \in [Locked -> Savers \cup {NoSaver}]
  /\ saver \in [Savers -> SaveRecord]
  /\ \A r \in Savers : saver[r].at # "idle" => saver[r].edit \in Edits

\* A request that has the file f to itself.
Saving(r, f) == saver[r].file = f /\ saver[r].at \in {"backup", "copy", "write", "fill", "publish"}

LocksHeld ==
  /\ \A f \in Locked, r \in Savers : Saving(r, f) <=> lock[f] = r
  /\ \A r \in Savers : saver[r].at = "fill" => saver[r].file = "schedules"

Prepared(r, f) == saver[r].file = f /\ saver[r].at \in {"backup", "copy", "write"}
Publishing(r, f) == saver[r].file = f /\ saver[r].at = "publish"

\* conf.yaml: the file and what runs differ by the environment at most, but for the moment
\* between the write and the assignment of s.config.
ConfInStep ==
  /\ due["conf"] \subseteq file["conf"] /\ file["conf"] \subseteq due["conf"] \cup Env
  /\ (\A r \in Savers : ~Publishing(r, "conf")) => running["conf"] \ Env = file["conf"] \ Env
  /\ \A r \in Savers : Prepared(r, "conf") => saver[r].new = Edited(saver[r], running["conf"])
  /\ \A r \in Savers : Publishing(r, "conf") => saver[r].new = file["conf"]

CutShort == troubles \cap {"write", "crash", "clockback"} # {}
NotRun   == troubles \cap {"write", "reload"} # {}
Filling(r) == saver[r].at = "fill"

SchedulesInStep ==
  /\ file["schedules"] \subseteq Edits \/ ("write" \in troubles /\ file["schedules"] = BrokenFile)
  /\ (\A r \in Savers : ~Filling(r)) => file["schedules"] = due["schedules"] \/ CutShort
  /\ (\A r \in Savers : ~Filling(r) /\ ~Publishing(r, "schedules")) =>
       running["schedules"] = file["schedules"] \/ NotRun
  /\ \A r \in Savers : Prepared(r, "schedules") => saver[r].new = Edited(saver[r], file["schedules"])
  /\ \A r \in Savers : Filling(r) => saver[r].new = due["schedules"] \/ CutShort
  /\ \A r \in Savers : Filling(r) => file["schedules"] = {}
  /\ \A r \in Savers : saver[r].file = "schedules" => saver[r].new \subseteq Edits

\* While nothing has upset the backups: a request that is about to write has made the newest
\* backup of its file, of what it is about to replace.
BackupsInStep ==
  troubles \cap {"backup", "clockback"} = {} =>
    \A f \in Locked :
      /\ \A b \in backups[f] : b.stamp <= lastStamp
      /\ \A r \in Savers : saver[r].at = "copy" /\ saver[r].file = f =>
           /\ saver[r].stamp <= lastStamp /\ saver[r].read = file[f]
           /\ \A b \in backups[f] : b.stamp < saver[r].stamp
      /\ \A r \in Savers : saver[r].at = "write" /\ saver[r].file = f =>
           \E b \in backups[f] : b.content = file[f] /\ \A c \in backups[f] : c.stamp <= b.stamp

ConfigInv == ConfigTyped /\ LocksHeld /\ ConfInStep /\ SchedulesInStep /\ BackupsInStep

(* A nonempty set of natural numbers has a least one: Min of FiniteSetsExt is it.                *)
LEMMA LeastStamp ==
  ASSUME NEW S, S \subseteq Nat, S # {}
  PROVE  Min(S) \in S /\ \A x \in S : Min(S) <= x
<1>. DEFINE Less == {ss \in Nat \X Nat : ss[1] < ss[2]}
<1>1. PICK m \in S : \A x \in S : <<x, m>> \notin Less
  <2>1. IsWellFoundedOn(Less, Nat)
    BY NatLessThanWellFounded DEF OpToRel
  <2>. HIDE DEF Less
  <2>. QED  BY <2>1, WFMin
<1>2. ASSUME NEW x \in S PROVE m <= x
  <2>1. <<x, m>> \notin Less
    BY <1>1
  <2>2. x \in Nat /\ m \in Nat
    OBVIOUS
  <2>. QED  BY <2>1, <2>2
<1>. QED  BY <1>2 DEF Min

(* A nonempty bounded set of natural numbers has a greatest one.                                 *)
LEMMA GreatestStamp ==
  ASSUME NEW S, S \subseteq Nat, S # {}, NEW n \in Nat, \A x \in S : x <= n
  PROVE  Max(S) \in S /\ \A x \in S : x <= Max(S)
<1>. DEFINE Gap == {g \in Nat : n - g \in S}
<1>1. PICK x \in S : TRUE
  OBVIOUS
<1>2. Gap \subseteq Nat
  OBVIOUS
<1>3. n - x \in Gap
  <2>1. x \in Nat /\ x <= n
    OBVIOUS
  <2>. QED  BY <2>1
<1>. PICK g \in Gap : \A y \in Gap : g <= y
  <2>. HIDE DEF Gap
  <2>. QED  BY <1>2, <1>3, LeastStamp
<1>. DEFINE m == n - g
<1>4. \A y \in S : m >= y
  <2>. SUFFICES ASSUME NEW y \in S PROVE m >= y
    OBVIOUS
  <2>1. n - y \in Gap
    <3>1. y \in Nat /\ y <= n
      OBVIOUS
    <3>. QED  BY <3>1
  <2>2. y \in Nat /\ g <= n - y
    BY <2>1
  <2>. QED  BY <2>2
<1>. QED  BY <1>4 DEF Max

(* CreateBackup always finds a stamp that is free, within as many tries as there are backups.    *)
LEMMA FreeStamp ==
  ASSUME NEW last \in Nat, NEW taken, taken \subseteq Nat, NEW n \in Nat, \A s \in taken : s <= n
  PROVE  LET m == Min({s \in (last + 1)..(last + Cardinality(taken) + 1) : s \notin taken})
         IN  m \in Nat /\ m > last /\ m \notin taken
<1>. DEFINE k == Cardinality(taken)  Tries == (last + 1)..(last + k + 1)
            Untaken == {s \in Tries : s \notin taken}
<1>1. IsFiniteSet(taken) /\ k \in Nat
  BY FS_BoundedSetOfNaturals, FS_CardinalityType
<1>2. IsFiniteSet(Tries) /\ Cardinality(Tries) = k + 1
  <2>. HIDE DEF k
  <2>. QED  BY <1>1, FS_Interval
<1>3. Untaken # {}
  <2>1. SUFFICES ASSUME Untaken = {} PROVE FALSE
    OBVIOUS
  <2>2. Tries \subseteq taken
    BY <2>1
  <2>3. Cardinality(Tries) <= k
    BY <1>1, <2>2, FS_Subset
  <2>. QED  BY <1>1, <1>2, <2>3
<1>4. Untaken \subseteq Nat
  BY <1>1
<1>5. Min(Untaken) \in Untaken
  <2>. HIDE DEF Untaken
  <2>. QED  BY <1>3, <1>4, LeastStamp
<1>. QED  BY <1>1, <1>5

(* What a request makes of a content of edits is again one.                                      *)
LEMMA EditedTypes ==
  ASSUME ConfigInv, NEW r \in Savers, saver[r].at # "idle", NEW c
  PROVE  /\ c \in FileContents => Edited(saver[r], c) \in FileContents
         /\ c \subseteq Edits => Edited(saver[r], c) \subseteq Edits
BY DEF ConfigInv, ConfigTyped, Edited, FileContents, Edits

(* A new request.                                                                                *)
LEMMA BeginKeeps ==
  ASSUME ConfigInv, NEW r \in Savers, BeginSave(r)
  PROVE  ConfigInv'
<1>. USE DEF ConfigInv
<1>1. PICK h \in SaveHandlers, id \in 0..saves :
        saver' = [saver EXCEPT ![r] = [NoSave EXCEPT !.at = "lock", !.file = h.file, !.does = h.does,
                                                     !.edit = saves + 1, !.target = id]]
  BY DEF BeginSave
<1>2. /\ UNCHANGED <<file, running, backups, lastStamp, lock, due, troubles>>
      /\ saves' = saves + 1 /\ saver[r].at = "idle"
  BY DEF BeginSave, cfgFileVars
<1>. DEFINE w == [NoSave EXCEPT !.at = "lock", !.file = h.file, !.does = h.does, !.edit = saves + 1, !.target = id]
<1>3. /\ w \in SaveRecord /\ w.at = "lock" /\ w.edit = saves + 1 /\ w.new = {}
      /\ saves + 1 \in Edits /\ saves + 1 <= MaxSaves
  <2>1. h.file \in ConfFiles /\ h.does \in {"replace", "add", "change", "remove"}
    BY DEF SaveHandlers, ConfFiles, UpdateConfigRaw, SaveConfigFields, ReplaceSchedules, UpdateSchedulesRaw,
       CreateSchedule, UpdateSchedule, SetScheduleEnabled, DeleteSchedule, UpdateCookiesRaw, SaveCookies
  <2>2. saves + 1 \in Nat /\ saves + 1 \in Edits /\ saves + 1 <= MaxSaves /\ id \in Nat
    BY ConfigAssumption DEF ConfigTyped, Edits, BeginSave
  <2>3. NoSave \in SaveRecord /\ NoSave.new = {}
    BY DEF NoSave, SaveRecord, SavePlaces, ConfFiles, FileContents
  <2>. QED  BY <2>1, <2>2, <2>3 DEF SaveRecord, SavePlaces
<1>. HIDE DEF w
<1>4. saver' \in [Savers -> SaveRecord] /\ saver'[r] = w /\ \A q \in Savers \ {r} : saver'[q] = saver[q]
  BY <1>1, <1>3 DEF ConfigTyped, w
<1>5. ConfigTyped'
  BY <1>2, <1>3, <1>4, ConfigAssumption DEF ConfigTyped
<1>6. LocksHeld'
  BY <1>2, <1>3, <1>4 DEF LocksHeld, Saving
<1>7. ConfInStep'
  BY <1>2, <1>3, <1>4 DEF ConfInStep, Prepared, Publishing, Edited
<1>8. SchedulesInStep'
  BY <1>2, <1>3, <1>4 DEF SchedulesInStep, Prepared, Publishing, Filling, CutShort, NotRun, Edited
<1>9. BackupsInStep'
  BY <1>2, <1>3, <1>4 DEF BackupsInStep
<1>. QED  BY <1>5, <1>6, <1>7, <1>8, <1>9

(* A request that leaves: its lock is free, and no other request notices.                        *)
LEMMA LeavesTyped ==
  ASSUME ConfigTyped, NEW r \in Savers, Over(r)
  PROVE  /\ saver' \in [Savers -> SaveRecord] /\ saver'[r] = NoSave
         /\ NoSave.at = "idle" /\ NoSave.file = "conf" /\ NoSave.new = {}
         /\ \A q \in Savers \ {r} : saver'[q] = saver[q]
         /\ lock' \in [Locked -> Savers \cup {NoSaver}]
         /\ \A f \in Locked : lock'[f] = IF lock[f] = r THEN NoSaver ELSE lock[f]
<1>1. NoSave \in SaveRecord /\ NoSave.at = "idle" /\ NoSave.file = "conf" /\ NoSave.new = {}
  BY DEF NoSave, SaveRecord, SavePlaces, ConfFiles, FileContents
<1>. QED  BY <1>1 DEF Over, Unlocked, ConfigTyped

(* Its lock is no longer its own, the other locks stay.                                          *)
LEMMA LeavesLocks ==
  ASSUME ConfigInv, NEW r \in Savers, Over(r)
  PROVE  LocksHeld'
<1>1. ConfigTyped /\ LocksHeld
  BY DEF ConfigInv
<1>. QED  BY <1>1, LeavesTyped, ConfigAssumption DEF LocksHeld, Saving

(* The lock is taken and the file read in one step; or the request is refused.                   *)
LEMMA LockKeeps ==
  ASSUME ConfigInv, NEW r \in Savers, LockAndRead(r)
  PROVE  ConfigInv'
<1>. DEFINE f == saver[r].file
<1>. USE DEF ConfigInv
<1>1. /\ UNCHANGED <<file, running, backups, lastStamp, saves, due, troubles>>
      /\ saver[r].at = "lock" /\ (f \in Locked => lock[f] = NoSaver)
  BY DEF LockAndRead, cfgFileVars, cfgPastVars
<1>2. CASE Over(r)
  <2>1. ConfigTyped'
    BY <1>1, <1>2, LeavesTyped DEF ConfigTyped
  <2>2. LocksHeld'
    BY <1>2, LeavesLocks
  <2>3. ConfInStep'
    BY <1>1, <1>2, LeavesTyped DEF ConfInStep, Prepared, Publishing, Edited
  <2>4. SchedulesInStep'
    BY <1>1, <1>2, LeavesTyped DEF SchedulesInStep, Prepared, Publishing, Filling, CutShort, NotRun, Edited
  <2>5. BackupsInStep'
    BY <1>1, <1>2, LeavesTyped DEF BackupsInStep
  <2>. QED  BY <2>1, <2>2, <2>3, <2>4, <2>5
<1>3. CASE /\ ~(saver[r].does # "replace" /\ (Base(r) = BrokenFile \/ saver[r].target \notin Base(r) \cup {0}))
           /\ lock' = [g \in Locked |-> IF g = f THEN r ELSE lock[g]]
           /\ saver' = [saver EXCEPT ![r].at = "backup", ![r].new = Edited(saver[r], Base(r))]
  <2>. DEFINE new == Edited(saver[r], Base(r))
  <2>1. saver[r] \in SaveRecord /\ Base(r) \in FileContents /\ new \in FileContents
    <3>1. saver[r] \in SaveRecord
      BY DEF ConfigTyped
    <3>2. Base(r) \in FileContents
      BY <3>1 DEF Base, ConfigTyped, Locked, SaveRecord
    <3>. QED  BY <1>1, <3>1, <3>2, EditedTypes
  <2>2. /\ saver' \in [Savers -> SaveRecord]
        /\ \A q \in Savers \ {r} : saver'[q] = saver[q]
        /\ saver'[r].at = "backup" /\ saver'[r].file = f /\ saver'[r].new = new /\ saver'[r].does = saver[r].does
        /\ saver'[r].edit = saver[r].edit /\ saver'[r].target = saver[r].target
        /\ \A c : Edited(saver'[r], c) = Edited(saver[r], c)
    <3>. HIDE DEF new
    <3>1. saver' = [saver EXCEPT ![r] = [saver[r] EXCEPT !.at = "backup", !.new = new]]
      BY <1>3 DEF new, ConfigTyped
    <3>2. [saver[r] EXCEPT !.at = "backup", !.new = new] \in SaveRecord
      BY <2>1 DEF SaveRecord, SavePlaces
    <3>3. /\ saver' \in [Savers -> SaveRecord]
          /\ \A q \in Savers \ {r} : saver'[q] = saver[q]
          /\ saver'[r] = [saver[r] EXCEPT !.at = "backup", !.new = new]
      BY <3>1, <3>2 DEF ConfigTyped
    <3>. QED  BY <2>1, <3>3 DEF SaveRecord, Edited
  <2>3. /\ lock' \in [Locked -> Savers \cup {NoSaver}]
        /\ \A g \in Locked : lock'[g] = IF g = f THEN r ELSE lock[g]
    BY <1>3 DEF ConfigTyped
  <2>4. f \in Locked => \A q \in Savers : ~Saving(q, f)
    BY <1>1, ConfigAssumption DEF LocksHeld
  <2>. HIDE DEF new
  <2>5. ConfigTyped'
    BY <1>1, <2>2, <2>3 DEF ConfigTyped
  <2>6. LocksHeld'
    <3>1. \A q \in Savers \ {r}, g \in Locked : Saving(q, g)' <=> Saving(q, g)
      BY <2>2 DEF Saving
    <3>2. \A g \in Locked : Saving(r, g)' <=> f = g
      BY <2>2 DEF Saving
    <3>3. \A g \in Locked : ~Saving(r, g)
      BY <1>1 DEF Saving
    <3>. QED  BY <1>1, <2>2, <2>3, <2>4, <3>1, <3>2, <3>3 DEF LocksHeld
  <2>7. ConfInStep'
    <3>1. Base(r) = running["conf"] \/ f # "conf"
      BY DEF Base
    <3>. QED  BY <1>1, <2>2, <3>1 DEF ConfInStep, Prepared, Publishing, Edited, new
  <2>8. SchedulesInStep'
    <3>1. f = "schedules" => Base(r) = file["schedules"]
      BY DEF Base
    <3>2. f = "schedules" => new \subseteq Edits
      <4>1. CASE saver[r].does = "replace"
        BY <1>1, <4>1 DEF new, Edited, ConfigTyped
      <4>2. CASE saver[r].does # "replace"
        BY <1>1, <1>3, <3>1, <4>2, EditedTypes DEF new, SchedulesInStep
      <4>. QED  BY <4>1, <4>2
    <3>. QED  BY <1>1, <2>2, <3>1, <3>2 DEF SchedulesInStep, Prepared, Publishing, Filling, CutShort, NotRun, Edited, new
  <2>9. BackupsInStep'
    BY <1>1, <2>2 DEF BackupsInStep
  <2>. QED  BY <2>5, <2>6, <2>7, <2>8, <2>9
<1>. QED  BY <1>2, <1>3 DEF LockAndRead

(* A request that goes on to its next step and keeps what it has prepared.                       *)
LEMMA GoesOn ==
  ASSUME ConfigTyped, NEW r \in Savers, NEW at \in SavePlaces, SaverTo(r, at), saver[r].at # "idle"
  PROVE  /\ saver' \in [Savers -> SaveRecord]
         /\ \A q \in Savers \ {r} : saver'[q] = saver[q]
         /\ saver'[r].at = at /\ saver'[r].file = saver[r].file /\ saver'[r].new = saver[r].new
         /\ saver'[r].edit = saver[r].edit /\ saver[r].edit \in Edits
         /\ \A c : Edited(saver'[r], c) = Edited(saver[r], c)
<1>1. saver[r] \in SaveRecord /\ saver[r].edit \in Edits
  BY DEF ConfigTyped
<1>2. /\ saver' \in [Savers -> SaveRecord]
      /\ \A q \in Savers \ {r} : saver'[q] = saver[q]
      /\ saver'[r] = [saver[r] EXCEPT !.at = at]
  <2>1. [saver[r] EXCEPT !.at = at] \in SaveRecord
    BY <1>1 DEF SaveRecord
  <2>. QED  BY <2>1 DEF SaverTo, ConfigTyped
<1>. QED  BY <1>1, <1>2 DEF SaveRecord, Edited

(* While a request is at work between its lock and its leaving, its lock stays its own.          *)
LEMMA GoesOnLocks ==
  ASSUME ConfigInv, NEW r \in Savers, UNCHANGED lock,
         saver[r].at \in {"backup", "copy", "write", "fill"},
         \A q \in Savers \ {r} : saver'[q] = saver[q],
         saver'[r].at \in {"copy", "write", "fill", "publish"}, saver'[r].file = saver[r].file,
         saver'[r].at = "fill" => saver[r].file = "schedules"
  PROVE  LocksHeld'
BY DEF ConfigInv, LocksHeld, Saving

(* A locked file is only worked on by one request.                                               *)
LEMMA Alone ==
  ASSUME ConfigInv, NEW r \in Savers, NEW q \in Savers, NEW f \in Locked, Saving(r, f), Saving(q, f)
  PROVE  q = r
BY DEF ConfigInv, LocksHeld

(* CreateBackup's first half: a stamp is taken and the file read.                                *)
LEMMA ReadKeeps ==
  ASSUME ConfigInv, NEW r \in Savers, ReadForBackup(r)
  PROVE  ConfigInv'
<1>. DEFINE f == saver[r].file  taken == {b.stamp : b \in backups[f]}
            stamp == Min({s \in (lastStamp + 1)..(lastStamp + Cardinality(taken) + 1) : s \notin taken})
<1>. USE DEF ConfigInv
<1>1. UNCHANGED <<file, running, backups, lock, saves, due>> /\ saver[r].at = "backup"
  BY DEF ReadForBackup
<1>2. saver[r] \in SaveRecord /\ saver[r].edit \in Edits /\ f \in ConfFiles
  BY <1>1 DEF ConfigTyped, SaveRecord
<1>3. stamp \in Nat /\ stamp > lastStamp /\ lastStamp \in Nat
  <2>1. PICK n \in Nat : \A g \in ConfFiles : \A b \in backups[g] : b.stamp <= n
    BY DEF ConfigTyped
  <2>2. backups[f] \subseteq BackupRecord /\ lastStamp \in Nat
    BY <1>2 DEF ConfigTyped
  <2>3. taken \subseteq Nat /\ \A s \in taken : s <= n
    BY <1>2, <2>1, <2>2 DEF BackupRecord
  <2>. HIDE DEF taken
  <2>. QED  BY <2>2, <2>3, FreeStamp
<1>4. CASE /\ lastStamp' = stamp
           /\ saver' = [saver EXCEPT ![r].at = "copy", ![r].read = file[f], ![r].stamp = lastStamp']
           /\ UNCHANGED troubles
  <2>. HIDE DEF stamp
  <2>1. /\ saver' \in [Savers -> SaveRecord]
        /\ \A q \in Savers \ {r} : saver'[q] = saver[q]
        /\ saver'[r].at = "copy" /\ saver'[r].file = f /\ saver'[r].new = saver[r].new
        /\ saver'[r].edit = saver[r].edit /\ saver'[r].read = file[f] /\ saver'[r].stamp = stamp
        /\ \A c : Edited(saver'[r], c) = Edited(saver[r], c)
    <3>1. [saver[r] EXCEPT !.at = "copy", !.read = file[f], !.stamp = stamp] \in SaveRecord
      BY <1>2, <1>3 DEF SaveRecord, SavePlaces, ConfigTyped
    <3>2. /\ saver' \in [Savers -> SaveRecord]
          /\ \A q \in Savers \ {r} : saver'[q] = saver[q]
          /\ saver'[r] = [saver[r] EXCEPT !.at = "copy", !.read = file[f], !.stamp = stamp]
      BY <1>4, <3>1 DEF ConfigTyped
    <3>. QED  BY <1>2, <3>2 DEF SaveRecord, Edited
  <2>2. ConfigTyped'
    BY <1>1, <1>2, <1>3, <1>4, <2>1 DEF ConfigTyped
  <2>3. LocksHeld'
    BY <1>1, <2>1, GoesOnLocks
  <2>4. ConfInStep'
    BY <1>1, <2>1 DEF ConfInStep, Prepared, Publishing
  <2>5. SchedulesInStep'
    <3>1. \A q \in Savers : /\ Filling(q)' <=> Filling(q)
                            /\ Publishing(q, "schedules")' <=> Publishing(q, "schedules")
                            /\ Prepared(q, "schedules")' <=> Prepared(q, "schedules")
                            /\ saver'[q].file = saver[q].file /\ saver'[q].new = saver[q].new
      BY <1>1, <2>1 DEF Filling, Publishing, Prepared
    <3>2. \A q \in Savers : \A c : Edited(saver'[q], c) = Edited(saver[q], c)
      BY <2>1
    <3>3. /\ CutShort' <=> CutShort
          /\ NotRun' <=> NotRun
          /\ "write" \in troubles' <=> "write" \in troubles
      BY <1>4 DEF CutShort, NotRun
    <3>4. file'["schedules"] = file["schedules"] /\ running' = running /\ due' = due
      BY <1>1
    <3>. QED  BY <3>1, <3>2, <3>3, <3>4 DEF SchedulesInStep
  <2>6. BackupsInStep'
    <3>. SUFFICES ASSUME troubles' \cap {"backup", "clockback"} = {}, NEW g \in Locked
                  PROVE  /\ \A b \in backups'[g] : b.stamp <= lastStamp'
                         /\ \A q \in Savers : saver'[q].at = "copy" /\ saver'[q].file = g =>
                              /\ saver'[q].stamp <= lastStamp' /\ saver'[q].read = file'[g]
                              /\ \A b \in backups'[g] : b.stamp < saver'[q].stamp
                         /\ \A q \in Savers : saver'[q].at = "write" /\ saver'[q].file = g =>
                              \E b \in backups'[g] : b.content = file'[g] /\ \A c \in backups'[g] : c.stamp <= b.stamp
      BY DEF BackupsInStep
    <3>0. troubles \cap {"backup", "clockback"} = {}
      BY <1>4
    <3>1. \A b \in backups[g] : b.stamp \in Nat /\ b.stamp <= lastStamp /\ b.stamp < stamp
      <4>1. backups[g] \subseteq BackupRecord
        BY DEF ConfigTyped, Locked, ConfFiles
      <4>. QED  BY <1>3, <3>0, <4>1 DEF BackupsInStep, BackupRecord
    <3>2. ASSUME NEW q \in Savers \ {r}, saver[q].at = "copy", saver[q].file = g
          PROVE  saver[q].stamp <= stamp
      <4>1. saver[q].stamp <= lastStamp /\ saver[q].stamp \in Nat
        BY <3>0, <3>2 DEF BackupsInStep, ConfigTyped, SaveRecord
      <4>. QED  BY <1>3, <4>1
    <3>3. /\ \A q \in Savers \ {r} : saver[q].at = "copy" /\ saver[q].file = g =>
                 saver[q].read = file[g] /\ \A b \in backups[g] : b.stamp < saver[q].stamp
          /\ \A q \in Savers : saver[q].at = "write" /\ saver[q].file = g =>
                 \E b \in backups[g] : b.content = file[g] /\ \A c \in backups[g] : c.stamp <= b.stamp
      BY <3>0 DEF BackupsInStep
    <3>4. \A b \in backups[g] : b.stamp <= stamp
      BY <1>3, <3>1
    <3>5. stamp <= stamp
      BY <1>3
    <3>. QED  BY <1>1, <1>4, <2>1, <3>1, <3>2, <3>3, <3>4, <3>5
  <2>. QED  BY <2>2, <2>3, <2>4, <2>5, <2>6
<1>5. CASE Trouble("backup") /\ SaverTo(r, "write") /\ UNCHANGED lastStamp
  <2>1. "write" \in SavePlaces
    BY DEF SavePlaces
  <2>2. ConfigTyped'
    BY <1>1, <1>5, <2>1, GoesOn DEF ConfigTyped
  <2>3. LocksHeld'
    BY <1>1, <1>5, <2>1, GoesOn, GoesOnLocks
  <2>4. ConfInStep'
    BY <1>1, <1>5, <2>1, GoesOn DEF ConfInStep, Prepared, Publishing
  <2>5. SchedulesInStep'
    BY <1>1, <1>5, <2>1, GoesOn DEF SchedulesInStep, Prepared, Publishing, Filling, CutShort, NotRun, Trouble
  <2>6. BackupsInStep'
    BY <1>5 DEF BackupsInStep, Trouble
  <2>. QED  BY <2>2, <2>3, <2>4, <2>5, <2>6
<1>. QED  BY <1>4, <1>5 DEF ReadForBackup

(* The newest backup of a file is never pruned.                                                  *)
LEMMA NewestStays ==
  ASSUME NEW bs, bs \subseteq BackupRecord, NEW b \in bs, \A c \in bs : c.stamp <= b.stamp
  PROVE  b \in Pruned(bs) /\ Pruned(bs) \subseteq bs
<1>1. {c \in bs : c.stamp > b.stamp} = {}
  BY DEF BackupRecord
<1>2. Cardinality({c \in bs : c.stamp > b.stamp}) = 0
  BY <1>1, FS_EmptySet
<1>. QED  BY <1>2, ConfigAssumption DEF Pruned

(* CreateBackup's second half: the copy is written and the oldest backups are removed.           *)
LEMMA CopyKeeps ==
  ASSUME ConfigInv, NEW r \in Savers, CopyBackup(r)
  PROVE  ConfigInv'
<1>. DEFINE f == saver[r].file  new == [stamp |-> saver[r].stamp, content |-> saver[r].read]
            More(g) == backups[g] \cup IF g = f THEN {new} ELSE {}
<1>. USE DEF ConfigInv
<1>1. /\ UNCHANGED <<file, running, lastStamp, lock, saves, due, troubles>>
      /\ saver[r].at = "copy" /\ SaverTo(r, "write") /\ "write" \in SavePlaces
  BY DEF CopyBackup, cfgPastVars, SavePlaces
<1>2. saver[r] \in SaveRecord /\ f \in ConfFiles /\ new \in BackupRecord
  BY DEF ConfigTyped, SaveRecord, BackupRecord
<1>3. \A g \in ConfFiles : backups'[g] = Pruned(More(g)) /\ backups'[g] \subseteq More(g)
  BY DEF CopyBackup, Pruned
<1>4. \A g \in ConfFiles : More(g) \subseteq BackupRecord
  BY <1>2 DEF ConfigTyped
<1>5. ConfigTyped'
  <2>1. PICK n \in Nat : \A g \in ConfFiles : \A b \in backups[g] : b.stamp <= n
    BY DEF ConfigTyped
  <2>2. PICK m \in Nat : n <= m /\ saver[r].stamp <= m
    <3>1. saver[r].stamp \in Nat
      BY <1>2 DEF SaveRecord
    <3>. QED  BY <3>1
  <2>3. \A g \in ConfFiles : \A b \in backups'[g] : b.stamp <= m
    <3>. SUFFICES ASSUME NEW g \in ConfFiles, NEW b \in backups'[g] PROVE b.stamp <= m
      OBVIOUS
    <3>1. CASE b = new
      BY <2>2, <3>1
    <3>2. CASE b \in backups[g]
      <4>1. b.stamp <= n /\ b.stamp \in Nat
        BY <2>1, <3>2 DEF ConfigTyped, BackupRecord
      <4>. QED  BY <2>2, <4>1
    <3>. QED  BY <1>3, <3>1, <3>2
  <2>4. backups' \in [ConfFiles -> SUBSET BackupRecord]
    <3>. HIDE DEF new, f
    <3>. QED  BY <1>3, <1>4 DEF CopyBackup
  <2>. HIDE DEF new, f
  <2>. QED  BY <1>1, <2>3, <2>4, GoesOn DEF ConfigTyped
<1>6. LocksHeld'
  BY <1>1, GoesOn, GoesOnLocks
<1>7. ConfInStep'
  BY <1>1, GoesOn DEF ConfInStep, Prepared, Publishing
<1>8. SchedulesInStep'
  BY <1>1, GoesOn DEF SchedulesInStep, Prepared, Publishing, Filling, CutShort, NotRun
<1>9. BackupsInStep'
  <2>1. SUFFICES ASSUME troubles \cap {"backup", "clockback"} = {}, NEW g \in Locked
                 PROVE  /\ \A b \in backups'[g] : b.stamp <= lastStamp
                        /\ \A q \in Savers : saver'[q].at = "copy" /\ saver'[q].file = g =>
                             /\ saver'[q].stamp <= lastStamp /\ saver'[q].read = file[g]
                             /\ \A b \in backups'[g] : b.stamp < saver'[q].stamp
                        /\ \A q \in Savers : saver'[q].at = "write" /\ saver'[q].file = g =>
                             \E b \in backups'[g] : b.content = file[g] /\ \A c \in backups'[g] : c.stamp <= b.stamp
    BY <1>1 DEF BackupsInStep
  <2>2. g \in ConfFiles
    BY DEF Locked, ConfFiles
  <2>3. /\ \A b \in backups[g] : b.stamp <= lastStamp
        /\ \A q \in Savers : saver[q].at = "copy" /\ saver[q].file = g =>
             /\ saver[q].stamp <= lastStamp /\ saver[q].read = file[g]
             /\ \A b \in backups[g] : b.stamp < saver[q].stamp
        /\ \A q \in Savers : saver[q].at = "write" /\ saver[q].file = g =>
             \E b \in backups[g] : b.content = file[g] /\ \A c \in backups[g] : c.stamp <= b.stamp
    BY <2>1 DEF BackupsInStep
  <2>4. CASE g = f
    <3>1. new \in More(g) /\ \A c \in More(g) : c.stamp <= new.stamp
      <4>1. new.stamp \in Nat /\ new.stamp <= new.stamp
        BY <1>2 DEF BackupRecord
      <4>2. \A c \in backups[g] : c.stamp \in Nat
        BY <2>2 DEF ConfigTyped, BackupRecord
      <4>3. \A c \in backups[g] : c.stamp < new.stamp
        BY <1>1, <2>3, <2>4
      <4>. QED  BY <2>4, <4>1, <4>2, <4>3
    <3>2. new \in backups'[g] /\ backups'[g] \subseteq More(g)
      <4>. HIDE DEF More, new
      <4>. QED  BY <1>3, <1>4, <2>2, <3>1, NewestStays
    <3>3. new.content = file[g] /\ new.stamp <= lastStamp
      BY <1>1, <2>3, <2>4
    <3>4. \A q \in Savers : saver[q].at = "copy" /\ saver[q].file = g => q = r
      BY <1>1, <2>4, Alone DEF Saving
    <3>. QED  BY <1>1, <2>3, <3>1, <3>2, <3>3, <3>4, GoesOn
  <2>5. CASE g # f
    <3>1. More(g) = backups[g] /\ backups'[g] \subseteq backups[g] /\ backups'[g] = Pruned(backups[g])
      BY <1>3, <2>2, <2>5
    <3>2. \A b \in backups[g] : (\A c \in backups[g] : c.stamp <= b.stamp) => b \in backups'[g]
      BY <1>4, <2>2, <3>1, NewestStays
    <3>. HIDE DEF new
    <3>. QED  BY <1>1, <2>3, <2>5, <3>1, <3>2, GoesOn
  <2>. QED  BY <2>4, <2>5
<1>. QED  BY <1>5, <1>6, <1>7, <1>8, <1>9

(* conf.yaml or the cookies are written and renamed into place.                                  *)
LEMMA RenameKeeps ==
  ASSUME ConfigInv, NEW r \in Savers, saver[r].at = "write", saver[r].file # "schedules",
         Replaces(r, saver[r].new), SaverTo(r, "publish"),
         UNCHANGED <<lock, troubles, running, backups, lastStamp, saves>>
  PROVE  ConfigInv'
<1>. DEFINE f == saver[r].file
<1>. USE DEF ConfigInv
<1>1. "publish" \in SavePlaces
  BY DEF SavePlaces
<1>2. saver[r] \in SaveRecord /\ saver[r].edit \in Edits /\ f \in ConfFiles
  BY DEF ConfigTyped, SaveRecord
<1>3. /\ file' \in [ConfFiles -> FileContents] /\ file'[f] = saver[r].new
      /\ due' \in [ConfFiles -> SUBSET Edits] /\ due'[f] = Edited(saver[r], due[f])
      /\ \A g \in ConfFiles \ {f} : file'[g] = file[g] /\ due'[g] = due[g]
  <2>1. saver[r].new \in FileContents
    BY <1>2 DEF SaveRecord
  <2>2. Edited(saver[r], due[f]) \subseteq Edits
    <3>1. due[f] \subseteq Edits
      BY <1>2 DEF ConfigTyped
    <3>. QED  BY <3>1, EditedTypes
  <2>. QED  BY <1>2, <2>1, <2>2 DEF Replaces, ConfigTyped
<1>4. ConfigTyped'
  BY <1>1, <1>3, GoesOn DEF ConfigTyped
<1>5. LocksHeld'
  BY <1>1, GoesOn, GoesOnLocks
<1>6. ConfInStep'
  <2>1. CASE f = "conf"
    <3>1. \A q \in Savers : Saving(q, "conf") => q = r
      BY <2>1, Alone DEF Saving, Locked
    <3>2. \A q \in Savers : ~Publishing(q, "conf")
      BY <3>1 DEF Publishing, Saving
    <3>3. saver[r].new = Edited(saver[r], running["conf"])
      BY <2>1 DEF ConfInStep, Prepared
    <3>4. running["conf"] \ Env = file["conf"] \ Env
      BY <3>2 DEF ConfInStep
    <3>5. due'["conf"] \subseteq file'["conf"]
      <4>1. due["conf"] \subseteq running["conf"]
        <5>1. due["conf"] \cap Env = {}
          BY ConfigAssumption DEF ConfigTyped, ConfFiles, Edits, Env
        <5>. QED  BY <3>4, <5>1 DEF ConfInStep
      <4>. QED  BY <1>3, <2>1, <3>3, <4>1 DEF Edited
    <3>6. file'["conf"] \subseteq due'["conf"] \cup Env
      <4>1. running["conf"] \subseteq due["conf"] \cup Env
        BY <3>4 DEF ConfInStep
      <4>. QED  BY <1>3, <2>1, <3>3, <4>1 DEF Edited
    <3>7. Publishing(r, "conf")' /\ saver'[r].new = file'["conf"] /\ ~Prepared(r, "conf")'
      BY <1>1, <1>3, <2>1, GoesOn DEF Publishing, Prepared
    <3>8. \A q \in Savers \ {r} : ~Publishing(q, "conf")' /\ ~Prepared(q, "conf")'
      BY <1>1, <3>1, GoesOn DEF Publishing, Prepared, Saving
    <3>. QED  BY <3>5, <3>6, <3>7, <3>8 DEF ConfInStep
  <2>2. CASE f # "conf"
    <3>1. file'["conf"] = file["conf"] /\ due'["conf"] = due["conf"]
      BY <1>3, <2>2 DEF ConfFiles
    <3>. QED  BY <1>1, <2>2, <3>1, GoesOn DEF ConfInStep, Prepared, Publishing
  <2>. QED  BY <2>1, <2>2
<1>7. SchedulesInStep'
  <2>1. file'["schedules"] = file["schedules"] /\ due'["schedules"] = due["schedules"]
    BY <1>3 DEF ConfFiles
  <2>. QED  BY <1>1, <2>1, GoesOn DEF SchedulesInStep, Prepared, Publishing, Filling, CutShort, NotRun
<1>8. BackupsInStep'
  <2>1. ASSUME NEW q \in Savers \ {r}, NEW g \in Locked, saver[q].at \in {"copy", "write"}, saver[q].file = g
        PROVE  file'[g] = file[g]
    <3>1. g # f
      BY <2>1, Alone DEF Saving
    <3>. QED  BY <1>3, <3>1 DEF Locked, ConfFiles
  <2>. QED  BY <1>1, <2>1, GoesOn DEF BackupsInStep
<1>. QED  BY <1>4, <1>5, <1>6, <1>7, <1>8

(* schedules.yaml is emptied before it is written.                                               *)
LEMMA EmptyKeeps ==
  ASSUME ConfigInv, NEW r \in Savers, saver[r].at = "write", saver[r].file = "schedules",
         Replaces(r, {}), SaverTo(r, "fill"),
         UNCHANGED <<lock, troubles, running, backups, lastStamp, saves>>
  PROVE  ConfigInv'
<1>. USE DEF ConfigInv
<1>1. "fill" \in SavePlaces
  BY DEF SavePlaces
<1>2. saver[r] \in SaveRecord /\ saver[r].edit \in Edits
  BY DEF ConfigTyped, SaveRecord
<1>3. /\ file' \in [ConfFiles -> FileContents] /\ file'["schedules"] = {}
      /\ due' \in [ConfFiles -> SUBSET Edits] /\ due'["schedules"] = Edited(saver[r], due["schedules"])
      /\ \A g \in ConfFiles \ {"schedules"} : file'[g] = file[g] /\ due'[g] = due[g]
  <2>1. {} \in FileContents
    BY DEF FileContents
  <2>2. Edited(saver[r], due["schedules"]) \subseteq Edits
    <3>1. due["schedules"] \subseteq Edits
      BY DEF ConfigTyped, ConfFiles
    <3>. QED  BY <3>1, EditedTypes
  <2>. QED  BY <2>1, <2>2 DEF Replaces, ConfigTyped, ConfFiles
<1>4. ConfigTyped'
  BY <1>1, <1>3, GoesOn DEF ConfigTyped
<1>5. LocksHeld'
  BY <1>1, GoesOn, GoesOnLocks
<1>6. ConfInStep'
  BY <1>1, <1>3, GoesOn DEF ConfInStep, Prepared, Publishing, ConfFiles
<1>7. SchedulesInStep'
  <2>1. \A q \in Savers \ {r} : ~Saving(q, "schedules")
    BY Alone DEF Saving, Locked
  <2>2. \A q \in Savers \ {r} : ~Filling(q)' /\ ~Prepared(q, "schedules")' /\ ~Publishing(q, "schedules")'
    <3>1. \A q \in Savers : saver[q].at = "fill" => saver[q].file = "schedules"
      BY DEF LocksHeld
    <3>. QED  BY <1>1, <2>1, <3>1, GoesOn DEF Filling, Prepared, Publishing, Saving
  <2>3. Filling(r)' /\ ~Prepared(r, "schedules")' /\ ~Publishing(r, "schedules")'
    BY <1>1, GoesOn DEF Filling, Prepared, Publishing
  <2>4. saver[r].new = due'["schedules"] \/ CutShort'
    <3>1. \A q \in Savers : ~Filling(q)
      BY <2>1 DEF Filling, Saving, LocksHeld
    <3>2. saver[r].new = Edited(saver[r], file["schedules"])
      BY DEF SchedulesInStep, Prepared
    <3>3. file["schedules"] = due["schedules"] \/ CutShort
      BY <3>1 DEF SchedulesInStep
    <3>. QED  BY <1>3, <3>2, <3>3 DEF CutShort
  <2>5. file'["schedules"] \subseteq Edits
    BY <1>3
  <2>6. \A q \in Savers : saver'[q].file = "schedules" => saver'[q].new \subseteq Edits
    BY <1>1, GoesOn DEF SchedulesInStep
  <2>. QED  BY <1>1, <1>3, <2>2, <2>3, <2>4, <2>5, <2>6, GoesOn DEF SchedulesInStep
<1>8. BackupsInStep'
  <2>1. ASSUME NEW q \in Savers \ {r}, NEW g \in Locked, saver[q].at \in {"copy", "write"}, saver[q].file = g
        PROVE  file'[g] = file[g]
    <3>1. g # "schedules"
      BY <2>1, Alone DEF Saving
    <3>. QED  BY <1>3, <3>1 DEF Locked, ConfFiles
  <2>. QED  BY <1>1, <2>1, GoesOn DEF BackupsInStep
<1>. QED  BY <1>4, <1>5, <1>6, <1>7, <1>8

(* A write that fails before the file is touched: the request leaves.                            *)
LEMMA WriteFailsKeeps ==
  ASSUME ConfigInv, NEW r \in Savers, Trouble("write"), Over(r), saver[r].at = "write",
         UNCHANGED <<file, due, running, backups, lastStamp, saves>>
  PROVE  ConfigInv'
<1>. USE DEF ConfigInv
<1>1. ConfigTyped'
  BY LeavesTyped DEF ConfigTyped
<1>2. LocksHeld'
  BY LeavesLocks
<1>3. ConfInStep'
  BY LeavesTyped DEF ConfInStep, Prepared, Publishing, Edited
<1>4. SchedulesInStep'
  BY LeavesTyped DEF SchedulesInStep, Prepared, Publishing, Filling, CutShort, NotRun, Edited, Trouble
<1>5. BackupsInStep'
  BY LeavesTyped DEF BackupsInStep, Trouble
<1>. QED  BY <1>1, <1>2, <1>3, <1>4, <1>5

(* A write, in whatever way it ends.                                                             *)
LEMMA WriteKeeps ==
  ASSUME ConfigInv, NEW r \in Savers, WriteConfig(r)
  PROVE  ConfigInv'
BY RenameKeeps, EmptyKeeps, WriteFailsKeeps DEF WriteConfig

(* schedules.yaml gets its content, or is left in pieces.                                        *)
LEMMA FillKeeps ==
  ASSUME ConfigInv, NEW r \in Savers, FillSchedules(r)
  PROVE  ConfigInv'
<1>. USE DEF ConfigInv
<1>1. UNCHANGED <<running, backups, lastStamp, saves, due>> /\ saver[r].at = "fill" /\ saver[r].file = "schedules"
  BY DEF FillSchedules, LocksHeld
<1>2. saver[r] \in SaveRecord /\ "publish" \in SavePlaces /\ Saving(r, "schedules")
  BY <1>1 DEF ConfigTyped, SavePlaces, Saving
<1>3. \A q \in Savers \ {r} : ~Saving(q, "schedules")
  BY <1>2, Alone DEF Locked
<1>4. \A q \in Savers \ {r} : ~Filling(q) /\ ~Prepared(q, "schedules") /\ ~Publishing(q, "schedules")
  <2>1. \A q \in Savers : saver[q].at = "fill" => saver[q].file = "schedules"
    BY DEF LocksHeld
  <2>. QED  BY <1>3, <2>1 DEF Filling, Prepared, Publishing, Saving
<1>5. CASE file' = [file EXCEPT !["schedules"] = saver[r].new] /\ SaverTo(r, "publish") /\ UNCHANGED <<lock, troubles>>
  <2>1. /\ file' \in [ConfFiles -> FileContents] /\ file'["schedules"] = saver[r].new
        /\ \A g \in ConfFiles \ {"schedules"} : file'[g] = file[g]
    BY <1>2, <1>5 DEF ConfigTyped, SaveRecord, ConfFiles
  <2>2. ConfigTyped'
    BY <1>1, <1>2, <1>5, <2>1, GoesOn DEF ConfigTyped
  <2>3. LocksHeld'
    BY <1>1, <1>2, <1>5, GoesOn, GoesOnLocks
  <2>4. ConfInStep'
    BY <1>1, <1>2, <1>5, <2>1, GoesOn DEF ConfInStep, Prepared, Publishing, ConfFiles
  <2>5. SchedulesInStep'
    <3>1. \A q \in Savers \ {r} : ~Filling(q)' /\ ~Prepared(q, "schedules")' /\ ~Publishing(q, "schedules")'
      BY <1>1, <1>2, <1>4, <1>5, GoesOn DEF Filling, Prepared, Publishing
    <3>2. ~Filling(r)' /\ ~Prepared(r, "schedules")' /\ Publishing(r, "schedules")'
      BY <1>1, <1>2, <1>5, GoesOn DEF Filling, Prepared, Publishing
    <3>3. saver[r].new \subseteq Edits /\ (saver[r].new = due["schedules"] \/ CutShort)
      BY <1>1 DEF SchedulesInStep, Filling
    <3>4. \A q \in Savers : saver'[q].file = "schedules" => saver'[q].new \subseteq Edits
      BY <1>1, <1>2, <1>5, GoesOn DEF SchedulesInStep
    <3>. QED  BY <1>1, <1>5, <2>1, <3>1, <3>2, <3>3, <3>4 DEF SchedulesInStep, CutShort, NotRun
  <2>6. BackupsInStep'
    <3>1. ASSUME NEW q \in Savers \ {r}, NEW g \in Locked, saver[q].at \in {"copy", "write"}, saver[q].file = g
          PROVE  file'[g] = file[g]
      <4>1. g # "schedules"
        BY <1>3, <3>1 DEF Saving
      <4>. QED  BY <2>1, <4>1 DEF Locked, ConfFiles
    <3>. QED  BY <1>1, <1>2, <1>5, <3>1, GoesOn DEF BackupsInStep
  <2>. QED  BY <2>2, <2>3, <2>4, <2>5, <2>6
<1>6. CASE file' = [file EXCEPT !["schedules"] = BrokenFile] /\ Trouble("write") /\ Over(r)
  <2>1. /\ file' \in [ConfFiles -> FileContents] /\ file'["schedules"] = BrokenFile
        /\ \A g \in ConfFiles \ {"schedules"} : file'[g] = file[g]
    BY <1>6 DEF ConfigTyped, ConfFiles, FileContents
  <2>2. ConfigTyped'
    BY <1>1, <1>6, <2>1, LeavesTyped DEF ConfigTyped
  <2>3. LocksHeld'
    BY <1>6, LeavesLocks
  <2>4. ConfInStep'
    BY <1>1, <1>6, <2>1, LeavesTyped DEF ConfInStep, Prepared, Publishing, ConfFiles, Edited
  <2>5. SchedulesInStep'
    <3>1. \A q \in Savers : ~Filling(q)' /\ ~Prepared(q, "schedules")' /\ ~Publishing(q, "schedules")'
      BY <1>4, <1>6, LeavesTyped DEF Filling, Prepared, Publishing
    <3>2. "write" \in troubles'
      BY <1>6 DEF Trouble
    <3>3. \A q \in Savers : saver'[q].file = "schedules" => saver'[q].new \subseteq Edits
      BY <1>6, LeavesTyped DEF SchedulesInStep
    <3>. QED  BY <2>1, <3>1, <3>2, <3>3 DEF SchedulesInStep, CutShort, NotRun
  <2>6. BackupsInStep'
    <3>1. ASSUME NEW q \in Savers \ {r}, NEW g \in Locked, saver[q].at \in {"copy", "write"}, saver[q].file = g
          PROVE  file'[g] = file[g]
      <4>1. g # "schedules"
        BY <1>3, <3>1 DEF Saving
      <4>. QED  BY <2>1, <4>1 DEF Locked, ConfFiles
    <3>. QED  BY <1>1, <1>6, <3>1, LeavesTyped DEF BackupsInStep, Trouble
  <2>. QED  BY <2>2, <2>3, <2>4, <2>5, <2>6
<1>. QED  BY <1>5, <1>6 DEF FillSchedules

(* What was saved is what runs now.                                                              *)
LEMMA PublishKeeps ==
  ASSUME ConfigInv, NEW r \in Savers, PublishConfig(r)
  PROVE  ConfigInv'
<1>. DEFINE f == saver[r].file
<1>. USE DEF ConfigInv
<1>1. UNCHANGED <<file, backups, lastStamp, saves, due>> /\ saver[r].at = "publish" /\ Over(r)
  BY DEF PublishConfig
<1>2. saver[r] \in SaveRecord /\ f \in ConfFiles /\ saver[r].new \in FileContents
  BY DEF ConfigTyped, SaveRecord
<1>3. /\ running' \in [Locked -> FileContents]
      /\ f = "conf" => running'["conf"] = saver[r].new /\ running'["schedules"] = running["schedules"]
      /\ f = "schedules" => /\ running'["schedules"] = file["schedules"] \/ "reload" \in troubles'
                            /\ running'["conf"] = running["conf"]
      /\ f = "cookies" => running' = running
      /\ troubles \subseteq troubles' /\ troubles' \subseteq troubles \cup {"reload"}
  <2>1. CASE /\ running' = [g \in Locked |-> IF g # f THEN running[g] ELSE IF f = "conf" THEN saver[r].new ELSE file[f]]
             /\ UNCHANGED troubles
    <3>1. \A g \in Locked : running'[g] \in FileContents
      BY <1>2, <2>1 DEF ConfigTyped, Locked
    <3>. QED  BY <1>2, <2>1, <3>1 DEF ConfigTyped, Locked
  <2>2. CASE f = "schedules" /\ Trouble("reload") /\ UNCHANGED running
    BY <2>2 DEF ConfigTyped, Trouble
  <2>. QED  BY <2>1, <2>2 DEF PublishConfig
<1>4. ConfigTyped'
  BY <1>1, <1>3, LeavesTyped DEF ConfigTyped
<1>5. LocksHeld'
  BY <1>1, LeavesLocks
<1>6. \A q \in Savers \ {r}, g \in Locked : Saving(q, g) => g # f
  BY <1>1, Alone DEF Saving
<1>7. ConfInStep'
  <2>1. CASE f = "conf"
    <3>1. running'["conf"] = file["conf"]
      BY <1>1, <1>3, <2>1 DEF ConfInStep, Publishing
    <3>2. \A q \in Savers : ~Prepared(q, "conf")' /\ ~Publishing(q, "conf")'
      BY <1>1, <1>6, <2>1, LeavesTyped DEF Prepared, Publishing, Saving, Locked
    <3>. QED  BY <1>1, <3>1, <3>2 DEF ConfInStep
  <2>2. CASE f # "conf"
    <3>1. running'["conf"] = running["conf"]
      BY <1>2, <1>3, <2>2 DEF ConfFiles
    <3>. QED  BY <1>1, <2>2, <3>1, LeavesTyped DEF ConfInStep, Prepared, Publishing, Edited
  <2>. QED  BY <2>1, <2>2
<1>8. SchedulesInStep'
  <2>1. /\ CutShort => CutShort'
        /\ NotRun => NotRun'
        /\ "reload" \in troubles' => NotRun'
    BY <1>3 DEF CutShort, NotRun
  <2>2. \A q \in Savers : /\ saver'[q].file = "schedules" => saver'[q].new \subseteq Edits
                          /\ Filling(q)' => Filling(q)
                          /\ Filling(q) => Filling(q)'
    BY <1>1, LeavesTyped DEF SchedulesInStep, Filling
  <2>3. CASE f = "schedules"
    <3>1. \A q \in Savers : ~Prepared(q, "schedules")' /\ ~Publishing(q, "schedules")'
      BY <1>1, <1>6, <2>3, LeavesTyped DEF Prepared, Publishing, Saving, Locked
    <3>2. \A q \in Savers : Filling(q)' => saver'[q].new = saver[q].new
      BY <1>1, LeavesTyped DEF Filling
    <3>3. running'["schedules"] = file["schedules"] \/ NotRun'
      BY <1>3, <2>1, <2>3
    <3>4. "write" \in troubles => "write" \in troubles'
      BY <1>3
    <3>. QED  BY <1>1, <2>1, <2>2, <3>1, <3>2, <3>3, <3>4 DEF SchedulesInStep
  <2>4. CASE f # "schedules"
    <3>1. running'["schedules"] = running["schedules"]
      BY <1>2, <1>3, <2>4 DEF ConfFiles
    <3>2. \A q \in Savers : /\ Publishing(q, "schedules")' <=> Publishing(q, "schedules")
                            /\ Prepared(q, "schedules")' => Prepared(q, "schedules") /\ saver'[q] = saver[q]
                            /\ Filling(q)' => saver'[q].new = saver[q].new
      BY <1>1, <2>4, LeavesTyped DEF Prepared, Publishing, Filling
    <3>3. "write" \in troubles => "write" \in troubles'
      BY <1>3
    <3>. QED  BY <1>1, <2>1, <2>2, <3>1, <3>2, <3>3 DEF SchedulesInStep, Edited
  <2>. QED  BY <2>3, <2>4
<1>9. BackupsInStep'
  BY <1>1, <1>3, LeavesTyped DEF BackupsInStep
<1>. QED  BY <1>4, <1>5, <1>7, <1>8, <1>9

(* A crash and the next start: everything is read from the files, and the stamps go on after the *)
(* greatest that a backup has.                                                                   *)
LEMMA CrashKeeps ==
  ASSUME ConfigInv, CrashConfig
  PROVE  ConfigInv'
<1>. DEFINE stamps == {0} \cup {b.stamp : b \in UNION {backups[f] : f \in ConfFiles}}
<1>. USE DEF ConfigInv
<1>1. /\ UNCHANGED <<file, backups, saves, due>>
      /\ running' = [f \in Locked |-> LoadedFrom(f, file[f])]
      /\ saver' = [r \in Savers |-> NoSave] /\ lock' = [f \in Locked |-> NoSaver]
  BY DEF CrashConfig
<1>2. PICK t \in {"crash", "clockback"} : Trouble(t) /\ lastStamp' = IF t = "clockback" THEN 0 ELSE Max(stamps)
  BY DEF CrashConfig
<1>3. NoSave \in SaveRecord /\ NoSave.at = "idle" /\ NoSave.file = "conf" /\ NoSave.new = {}
  BY DEF NoSave, SaveRecord, SavePlaces, ConfFiles, FileContents
<1>4. Max(stamps) \in Nat /\ \A f \in ConfFiles : \A b \in backups[f] : b.stamp <= Max(stamps)
  <2>1. PICK n \in Nat : \A f \in ConfFiles : \A b \in backups[f] : b.stamp <= n
    BY DEF ConfigTyped
  <2>2. \A f \in ConfFiles : \A b \in backups[f] : b.stamp \in Nat /\ b.stamp \in stamps
    BY DEF ConfigTyped, BackupRecord
  <2>3. stamps \subseteq Nat /\ stamps # {} /\ \A s \in stamps : s <= n
    BY <2>1, <2>2
  <2>. HIDE DEF stamps
  <2>4. Max(stamps) \in stamps /\ \A s \in stamps : s <= Max(stamps)
    BY <2>3, GreatestStamp
  <2>. QED  BY <2>2, <2>3, <2>4
<1>5. running' \in [Locked -> FileContents]
  BY <1>1 DEF ConfigTyped, LoadedFrom, FileContents, Locked, ConfFiles
<1>. HIDE DEF stamps
<1>6. ConfigTyped'
  <2>1. lastStamp' \in Nat
    BY <1>2, <1>4
  <2>2. saver' \in [Savers -> SaveRecord] /\ \A r \in Savers : saver'[r] = NoSave
    BY <1>1, <1>3
  <2>3. lock' \in [Locked -> Savers \cup {NoSaver}]
    BY <1>1
  <2>. QED  BY <1>1, <1>3, <1>5, <2>1, <2>2, <2>3 DEF ConfigTyped
<1>7. LocksHeld'
  BY <1>1, <1>3, ConfigAssumption DEF LocksHeld, Saving
<1>8. ConfInStep'
  <2>1. running'["conf"] \ Env = file["conf"] \ Env
    <3>1. running'["conf"] = IF file["conf"] = BrokenFile THEN {} ELSE file["conf"] \cup Env
      BY <1>1 DEF LoadedFrom, Locked
    <3>2. CASE file["conf"] = BrokenFile
      <4>1. -1 \notin due["conf"]
        BY ConfigAssumption DEF ConfigTyped, ConfFiles, Edits
      <4>2. file["conf"] \subseteq Env
        BY <3>2, <4>1 DEF ConfInStep, BrokenFile
      <4>. QED  BY <3>1, <3>2, <4>2
    <3>3. CASE file["conf"] # BrokenFile
      BY <3>1, <3>3
    <3>. QED  BY <3>2, <3>3
  <2>. QED  BY <1>1, <1>3, <2>1 DEF ConfInStep, Prepared, Publishing
<1>9. SchedulesInStep'
  <2>1. CutShort' /\ (NotRun => NotRun') /\ ("write" \in troubles => "write" \in troubles')
    BY <1>2 DEF Trouble, CutShort, NotRun
  <2>2. running'["schedules"] = file["schedules"] \/ NotRun'
    <3>1. CASE file["schedules"] = BrokenFile
      <4>1. ~(file["schedules"] \subseteq Edits)
        BY <3>1, ConfigAssumption DEF BrokenFile, Edits
      <4>. QED  BY <2>1, <4>1 DEF SchedulesInStep, NotRun
    <3>2. CASE file["schedules"] # BrokenFile
      BY <1>1, <3>2 DEF LoadedFrom, Locked
    <3>. QED  BY <3>1, <3>2
  <2>. QED  BY <1>1, <1>3, <2>1, <2>2 DEF SchedulesInStep, Prepared, Publishing, Filling
<1>10. BackupsInStep'
  <2>1. SUFFICES ASSUME "clockback" \notin troubles', NEW f \in Locked
                 PROVE  \A b \in backups[f] : b.stamp <= lastStamp'
    BY <1>1, <1>3 DEF BackupsInStep
  <2>2. lastStamp' = Max(stamps)
    BY <1>2, <2>1 DEF Trouble
  <2>. QED  BY <1>4, <2>2 DEF Locked, ConfFiles
<1>. QED  BY <1>6, <1>7, <1>8, <1>9, <1>10

(* A step of a request keeps the invariant.                                                      *)
LEMMA SaverKeeps ==
  ASSUME ConfigInv, NEW r \in Savers, ConfigSaver(r)
  PROVE  ConfigInv'
BY LockKeeps, ReadKeeps, CopyKeeps, WriteKeeps, FillKeeps, PublishKeeps DEF ConfigSaver

(* At the start no edit has been made.                                                           *)
LEMMA ConfigStarts == ConfigInit => ConfigInv
<1>. SUFFICES ASSUME ConfigInit PROVE ConfigInv
  OBVIOUS
<1>1. NoSave \in SaveRecord /\ NoSave.at = "idle" /\ NoSave.file = "conf" /\ NoSave.new = {}
  BY DEF NoSave, SaveRecord, SavePlaces, ConfFiles, FileContents
<1>2. running \in [Locked -> FileContents] /\ running["conf"] \ Env = {} /\ running["schedules"] = {}
  BY DEF ConfigInit, LoadedFrom, BrokenFile, FileContents, Locked
<1>3. saver \in [Savers -> SaveRecord] /\ \A r \in Savers : saver[r] = NoSave
  BY <1>1 DEF ConfigInit
<1>4. ConfigTyped
  <2>1. \A f \in ConfFiles : \A b \in backups[f] : b.stamp <= 0
    BY DEF ConfigInit
  <2>2. \E n \in Nat : \A f \in ConfFiles : \A b \in backups[f] : b.stamp <= n
    BY <2>1
  <2>3. /\ lock \in [Locked -> Savers \cup {NoSaver}]
        /\ file \in [ConfFiles -> FileContents] /\ due \in [ConfFiles -> SUBSET Edits]
        /\ backups \in [ConfFiles -> SUBSET BackupRecord]
    BY DEF ConfigInit, FileContents
  <2>. QED  BY <1>1, <1>2, <1>3, <2>2, <2>3, ConfigAssumption DEF ConfigTyped, ConfigInit
<1>5. LocksHeld
  BY <1>1, <1>3, ConfigAssumption DEF ConfigInit, LocksHeld, Saving
<1>6. ConfInStep
  BY <1>1, <1>2, <1>3 DEF ConfigInit, ConfInStep, Prepared, Publishing, ConfFiles
<1>7. SchedulesInStep
  BY <1>1, <1>2, <1>3 DEF ConfigInit, SchedulesInStep, Prepared, Publishing, Filling, ConfFiles
<1>8. BackupsInStep
  BY <1>1, <1>3 DEF ConfigInit, BackupsInStep, Locked, ConfFiles
<1>. QED  BY <1>4, <1>5, <1>6, <1>7, <1>8 DEF ConfigInv

(* Every step keeps the invariant.                                                               *)
LEMMA ConfigStep == ConfigInv /\ [ConfigNext]_configVars => ConfigInv'
<1>. SUFFICES ASSUME ConfigInv, [ConfigNext]_configVars PROVE ConfigInv'
  OBVIOUS
<1>1. CASE CrashConfig
  BY <1>1, CrashKeeps
<1>2. ASSUME NEW r \in Savers, BeginSave(r) PROVE ConfigInv'
  BY <1>2, BeginKeeps
<1>3. ASSUME NEW r \in Savers, ConfigSaver(r) PROVE ConfigInv'
  BY <1>3, SaverKeeps
<1>4. CASE UNCHANGED configVars
  BY <1>4 DEF configVars, cfgFileVars, cfgPastVars, ConfigInv, ConfigTyped, LocksHeld, Saving, ConfInStep, Prepared,
     Publishing, SchedulesInStep, Filling, CutShort, NotRun, BackupsInStep, Edited
<1>. QED  BY <1>1, <1>2, <1>3, <1>4 DEF ConfigNext

(* The invariant has what the theorem below says.                                                *)
LEMMA EditsAddUpWhenInv == ConfigInv => EditsAddUp
<1>. SUFFICES ASSUME ConfigInv PROVE EditsAddUp
  OBVIOUS
<1>1. ASSUME NEW f \in Locked, lock[f] = NoSaver
      PROVE  \A r \in Savers : ~Saving(r, f)
  BY <1>1, ConfigAssumption DEF ConfigInv, LocksHeld
<1>2. lock["conf"] = NoSaver => \A r \in Savers : ~Publishing(r, "conf")
  BY <1>1 DEF Publishing, Saving, Locked
<1>3. lock["schedules"] = NoSaver => \A r \in Savers : ~Publishing(r, "schedules") /\ ~Filling(r)
  <2>1. \A r \in Savers : saver[r].at = "fill" => saver[r].file = "schedules"
    BY DEF ConfigInv, LocksHeld
  <2>. QED  BY <1>1, <2>1 DEF Publishing, Filling, Saving, Locked
<1>. QED  BY <1>2, <1>3 DEF ConfigInv, ConfInStep, SchedulesInStep, CutShort, NotRun, EditsAddUp

(* No edit of conf.yaml or schedules.yaml is lost to another one that is saved at the same time: *)
(* the file always holds the edits made of it, and once nobody saves the program runs what the   *)
(* file says (the handlers hold configMu or schedulesMu from their read of the content to the    *)
(* publication of the new one), unless a write of schedules.yaml was cut short or a reload       *)
(* failed.                                                                                       *)
THEOREM SavesAddUp == ConfigSpec => []EditsAddUp
<1>1. ConfigSpec => []ConfigInv
  BY ConfigStarts, ConfigStep, PTL DEF ConfigSpec
<1>. QED  BY <1>1, EditsAddUpWhenInv, PTL

(* What a save of conf.yaml or schedules.yaml replaces is in a backup at that moment, so that a  *)
(* write cut short can be undone, unless CreateBackup failed or the clock was put back before a  *)
(* restart: the newest backup is the one of what is replaced, whatever the other requests save   *)
(* and prune in between.                                                                         *)
THEOREM SavesAreBackedUp == ConfigSpec => ReplacedIsBackedUp
<1>. DEFINE BackedUp == \A f \in Locked : file'[f] # file[f] /\ file[f] # {} =>
                          \/ file[f] \in {b.content : b \in backups'[f]}
                          \/ troubles' \cap {"backup", "clockback"} # {}
<1>1. ConfigSpec => []ConfigInv
  BY ConfigStarts, ConfigStep, PTL DEF ConfigSpec
<1>2. ConfigInv /\ [ConfigNext]_configVars => [BackedUp]_configVars
  <2>. SUFFICES ASSUME ConfigInv, ConfigNext, NEW f \in Locked, file'[f] # file[f], file[f] # {},
                       troubles' \cap {"backup", "clockback"} = {}
                PROVE  \E b \in backups'[f] : b.content = file[f]
    OBVIOUS
  <2>1. PICK r \in Savers : WriteConfig(r) \/ FillSchedules(r)
    BY DEF ConfigNext, ConfigSaver, BeginSave, LockAndRead, ReadForBackup, CopyBackup, PublishConfig, CrashConfig,
       cfgFileVars, cfgPastVars
  <2>2. file' = [file EXCEPT ![saver[r].file] = file'[saver[r].file]] /\ saver[r].file = f /\ saver[r].at \in {"write", "fill"}
    <3>1. file \in [ConfFiles -> FileContents] /\ f \in ConfFiles
      BY DEF ConfigInv, ConfigTyped, Locked, ConfFiles
    <3>2. CASE WriteConfig(r)
      BY <3>1, <3>2 DEF WriteConfig, Replaces
    <3>3. CASE FillSchedules(r)
      BY <3>1, <3>3 DEF FillSchedules, ConfigInv, LocksHeld
    <3>. QED  BY <2>1, <3>2, <3>3
  <2>3. saver[r].at = "write"
    <3>1. saver[r].at = "fill" => file["schedules"] = {} /\ saver[r].file = "schedules"
      BY DEF ConfigInv, SchedulesInStep, LocksHeld, Filling
    <3>. QED  BY <2>2, <3>1
  <2>4. WriteConfig(r) /\ backups' = backups /\ troubles \subseteq troubles'
    BY <2>1, <2>3 DEF WriteConfig, FillSchedules, Trouble
  <2>. QED  BY <2>2, <2>3, <2>4 DEF ConfigInv, BackupsInStep
<1>. QED  BY <1>1, <1>2, PTL DEF ConfigSpec, ReplacedIsBackedUp

-----------------------------------------------------------------------------
(* The backups: how many there are, and the types.                         *)

\* The backups of a file have stamps of their own, the copies under way as well, and pruning
\* leaves as many as the limit allows.
Copying(r) == saver[r].at = "copy"
BackupsCounted ==
  /\ \A f \in ConfFiles : IsFiniteSet(backups[f]) /\ Cardinality(backups[f]) <= BackupLimit
  /\ \A f \in ConfFiles : \A b, c \in backups[f] : b.stamp = c.stamp => b = c
  /\ \A r \in Savers : Copying(r) => /\ saver[r].stamp <= lastStamp
                                     /\ \A b \in backups[saver[r].file] : b.stamp # saver[r].stamp
  /\ \A q, r \in Savers : Copying(q) /\ Copying(r) /\ saver[q].stamp = saver[r].stamp => q = r

(* Pruning leaves no more than the limit.                                                        *)
LEMMA PrunedAreFew ==
  ASSUME NEW bs, bs \subseteq BackupRecord, IsFiniteSet(bs), \A b, c \in bs : b.stamp = c.stamp => b = c
  PROVE  Pruned(bs) \subseteq bs /\ IsFiniteSet(Pruned(bs)) /\ Cardinality(Pruned(bs)) <= BackupLimit
<1>. DEFINE P == Pruned(bs)
<1>1. P \subseteq bs /\ IsFiniteSet(P) /\ \A b \in P : Cardinality({c \in bs : c.stamp > b.stamp}) < BackupLimit
  BY FS_Subset DEF Pruned
<1>2. CASE P = {}
  BY <1>1, <1>2, FS_EmptySet, ConfigAssumption
<1>3. CASE P # {}
  <2>. DEFINE S == {b.stamp : b \in P}
  <2>1. S \subseteq Nat /\ S # {}
    BY <1>1, <1>3 DEF BackupRecord
  <2>2. Min(S) \in S /\ \A s \in S : Min(S) <= s
    <3>. HIDE DEF S
    <3>. QED  BY <2>1, LeastStamp
  <2>3. PICK m \in P : \A b \in P : m.stamp <= b.stamp
    <3>1. PICK m \in P : m.stamp = Min(S)
      BY <2>2
    <3>2. \A b \in P : b.stamp \in S
      OBVIOUS
    <3>. HIDE DEF S, P
    <3>. QED  BY <2>2, <3>1, <3>2
  <2>. DEFINE Later == {c \in bs : c.stamp > m.stamp}
  <2>4. P \ {m} \subseteq Later
    <3>. SUFFICES ASSUME NEW b \in P \ {m} PROVE b \in Later
      OBVIOUS
    <3>1. b.stamp # m.stamp /\ b.stamp \in Nat /\ m.stamp \in Nat /\ m.stamp <= b.stamp
      BY <1>1, <2>3 DEF BackupRecord
    <3>. QED  BY <1>1, <3>1
  <2>5. IsFiniteSet(Later) /\ Cardinality(Later) < BackupLimit
    BY <1>1, FS_Subset
  <2>. HIDE DEF P, Later
  <2>6. IsFiniteSet(P \ {m}) /\ Cardinality(P \ {m}) <= Cardinality(Later)
    BY <2>4, <2>5, FS_Subset
  <2>7. Cardinality(P \ {m}) = Cardinality(P) - 1
    BY <1>1, <2>3, FS_RemoveElement
  <2>8. Cardinality(P) \in Nat /\ Cardinality(P \ {m}) \in Nat /\ Cardinality(Later) \in Nat
    BY <1>1, <2>5, <2>6, FS_CardinalityType
  <2>9. Cardinality(P) <= BackupLimit
    BY <2>5, <2>6, <2>7, <2>8, ConfigAssumption
  <2>. QED  BY <1>1, <2>9 DEF P
<1>. QED  BY <1>2, <1>3

\* A step that copies nothing leaves the backups as they are.
LEMMA BackupsStay ==
  ASSUME BackupsCounted, UNCHANGED backups,
         \A r \in Savers : Copying(r)' => saver'[r] = saver[r] /\ lastStamp' = lastStamp
  PROVE  BackupsCounted'
<1>1. \A r \in Savers : Copying(r)' => Copying(r) /\ saver'[r] = saver[r] /\ lastStamp' = lastStamp
  BY DEF Copying
<1>2. \A r \in Savers : Copying(r)' => /\ saver'[r].stamp <= lastStamp'
                                       /\ \A b \in backups'[saver'[r].file] : b.stamp # saver'[r].stamp
  BY <1>1 DEF BackupsCounted
<1>3. \A q, r \in Savers : Copying(q)' /\ Copying(r)' /\ saver'[q].stamp = saver'[r].stamp => q = r
  BY <1>1 DEF BackupsCounted
<1>. QED  BY <1>2, <1>3 DEF BackupsCounted

\* nextBackupPath finds a stamp that no backup and no copy under way has.
LEMMA StampsStayApart ==
  ASSUME ConfigInv, BackupsCounted, NEW r \in Savers, ReadForBackup(r)
  PROVE  BackupsCounted'
<1>. DEFINE f == saver[r].file  taken == {b.stamp : b \in backups[f]}
            stamp == Min({s \in (lastStamp + 1)..(lastStamp + Cardinality(taken) + 1) : s \notin taken})
<1>. USE DEF ConfigInv
<1>1. UNCHANGED backups /\ saver[r].at = "backup"
  BY DEF ReadForBackup
<1>2. saver \in [Savers -> SaveRecord] /\ saver[r] \in SaveRecord /\ f \in ConfFiles /\ lastStamp \in Nat
  BY <1>1 DEF ConfigTyped, SaveRecord
<1>3. stamp \in Nat /\ stamp > lastStamp /\ stamp \notin taken
  <2>1. PICK n \in Nat : \A g \in ConfFiles : \A b \in backups[g] : b.stamp <= n
    BY DEF ConfigTyped
  <2>2. backups[f] \subseteq BackupRecord
    BY <1>2 DEF ConfigTyped
  <2>3. taken \subseteq Nat /\ \A s \in taken : s <= n
    BY <1>2, <2>1, <2>2 DEF BackupRecord
  <2>. HIDE DEF taken
  <2>. QED  BY <1>2, <2>3, FreeStamp
<1>4. CASE /\ lastStamp' = stamp
           /\ saver' = [saver EXCEPT ![r].at = "copy", ![r].read = file[f], ![r].stamp = lastStamp']
  <2>1. PICK s \in Nat : s = stamp
    BY <1>3
  <2>2. s > lastStamp /\ \A b \in backups[f] : b.stamp # s
    BY <1>3, <2>1
  <2>. HIDE DEF stamp, taken
  <2>3. /\ \A q \in Savers \ {r} : saver'[q] = saver[q]
        /\ saver'[r].file = f /\ saver'[r].stamp = s /\ lastStamp' = s
    BY <1>2, <1>4, <2>1 DEF SaveRecord
  <2>4. \A q \in Savers \ {r} : Copying(q) => saver[q].stamp \in Nat /\ saver[q].stamp < s
    BY <1>2, <2>2 DEF SaveRecord, BackupsCounted
  <2>5. \A q \in Savers : Copying(q)' => /\ saver'[q].stamp <= lastStamp'
                                         /\ \A b \in backups'[saver'[q].file] : b.stamp # saver'[q].stamp
    <3>. SUFFICES ASSUME NEW q \in Savers, Copying(q)'
                  PROVE  /\ saver'[q].stamp <= lastStamp'
                         /\ \A b \in backups'[saver'[q].file] : b.stamp # saver'[q].stamp
      OBVIOUS
    <3>1. CASE q = r
      BY <1>1, <2>2, <2>3, <3>1
    <3>2. CASE q # r
      <4>1. Copying(q) /\ saver'[q] = saver[q]
        BY <2>3, <3>2 DEF Copying
      <4>2. saver[q].stamp \in Nat /\ saver[q].stamp < s
        BY <2>4, <3>2, <4>1
      <4>. QED  BY <1>1, <2>3, <4>1, <4>2 DEF BackupsCounted
    <3>. QED  BY <3>1, <3>2
  <2>6. \A p, q \in Savers : Copying(p)' /\ Copying(q)' /\ saver'[p].stamp = saver'[q].stamp => p = q
    <3>. SUFFICES ASSUME NEW p \in Savers, NEW q \in Savers, Copying(p)', Copying(q)', saver'[p].stamp = saver'[q].stamp
                  PROVE  p = q
      OBVIOUS
    <3>1. \A x \in Savers \ {r} : Copying(x)' => Copying(x) /\ saver'[x].stamp = saver[x].stamp /\ saver'[x].stamp < s
      BY <2>3, <2>4 DEF Copying
    <3>. QED  BY <2>3, <3>1 DEF BackupsCounted
  <2>. QED  BY <1>1, <2>5, <2>6 DEF BackupsCounted
<1>5. CASE SaverTo(r, "write") /\ UNCHANGED lastStamp
  <2>1. \A q \in Savers : Copying(q)' => saver'[q] = saver[q]
    BY <1>2, <1>5 DEF Copying, SaverTo, SaveRecord
  <2>. QED  BY <1>1, <1>5, <2>1, BackupsStay
<1>. QED  BY <1>4, <1>5 DEF ReadForBackup

\* A copy adds one backup, and pruning removes the oldest beyond the limit.
LEMMA BackupsStayFew ==
  ASSUME ConfigInv, BackupsCounted, NEW r \in Savers, CopyBackup(r)
  PROVE  BackupsCounted'
<1>. DEFINE f == saver[r].file  new == [stamp |-> saver[r].stamp, content |-> saver[r].read]
            More(g) == backups[g] \cup IF g = f THEN {new} ELSE {}
<1>. USE DEF ConfigInv
<1>1. UNCHANGED lastStamp /\ Copying(r) /\ SaverTo(r, "write")
  BY DEF CopyBackup, Copying
<1>2. saver \in [Savers -> SaveRecord] /\ saver[r] \in SaveRecord /\ f \in ConfFiles /\ new \in BackupRecord
  BY DEF ConfigTyped, SaveRecord, BackupRecord
<1>3. \A g \in ConfFiles : backups'[g] = Pruned(More(g))
  BY DEF CopyBackup
<1>4. ASSUME NEW g \in ConfFiles
      PROVE  /\ IsFiniteSet(backups'[g]) /\ Cardinality(backups'[g]) <= BackupLimit
             /\ backups'[g] \subseteq More(g) /\ \A b, c \in backups'[g] : b.stamp = c.stamp => b = c
  <2>1. More(g) \subseteq BackupRecord
    BY <1>2 DEF ConfigTyped
  <2>2. IsFiniteSet(More(g))
    <3>1. IsFiniteSet(backups[g])
      BY DEF BackupsCounted
    <3>2. More(g) = backups[g] \/ More(g) = backups[g] \cup {new}
      OBVIOUS
    <3>. HIDE DEF new, More
    <3>. QED  BY <3>1, <3>2, FS_AddElement
  <2>3. \A b, c \in More(g) : b.stamp = c.stamp => b = c
    <3>1. new.stamp = saver[r].stamp
      OBVIOUS
    <3>2. g = f => \A b \in backups[g] : b.stamp # new.stamp
      BY <1>1, <3>1 DEF BackupsCounted
    <3>3. \A b, c \in backups[g] : b.stamp = c.stamp => b = c
      BY DEF BackupsCounted
    <3>. HIDE DEF new
    <3>. QED  BY <3>2, <3>3
  <2>. HIDE DEF More
  <2>. QED  BY <1>3, <2>1, <2>2, <2>3, PrunedAreFew
<1>5. /\ \A q \in Savers \ {r} : saver'[q] = saver[q]
      /\ ~Copying(r)'
  BY <1>1, <1>2 DEF SaverTo, SaveRecord, Copying
<1>6. ASSUME NEW q \in Savers, Copying(q)'
      PROVE  /\ saver'[q].stamp <= lastStamp'
             /\ \A b \in backups'[saver'[q].file] : b.stamp # saver'[q].stamp
  <2>1. q # r /\ Copying(q) /\ saver'[q] = saver[q]
    BY <1>5, <1>6 DEF Copying
  <2>2. saver[q].file \in ConfFiles
    BY <1>2 DEF SaveRecord
  <2>3. saver[q].stamp # saver[r].stamp
    BY <1>1, <2>1 DEF BackupsCounted
  <2>4. \A b \in More(saver[q].file) : b.stamp # saver[q].stamp
    BY <2>1, <2>3 DEF BackupsCounted
  <2>5. saver[q].stamp <= lastStamp
    BY <2>1 DEF BackupsCounted
  <2>. HIDE DEF More
  <2>. QED  BY <1>1, <1>4, <2>1, <2>2, <2>4, <2>5
<1>7. \A p, q \in Savers : Copying(p)' /\ Copying(q)' /\ saver'[p].stamp = saver'[q].stamp => p = q
  <2>1. \A q \in Savers : Copying(q)' => Copying(q) /\ saver'[q] = saver[q]
    BY <1>5 DEF Copying
  <2>. QED  BY <2>1 DEF BackupsCounted
<1>. QED  BY <1>4, <1>6, <1>7 DEF BackupsCounted

(* No step leaves more backups than the limit, and their stamps stay apart.                      *)
LEMMA BackupsStep ==
  ASSUME ConfigInv, BackupsCounted, [ConfigNext]_configVars
  PROVE  BackupsCounted'
<1>0. saver \in [Savers -> SaveRecord]
  BY DEF ConfigInv, ConfigTyped
<1>1. ASSUME NEW r \in Savers, NEW at, at # "copy", SaverTo(r, at), UNCHANGED <<backups, lastStamp>>
      PROVE  BackupsCounted'
  <2>1. \A q \in Savers : Copying(q)' => saver'[q] = saver[q]
    <3>1. saver'[r].at = at /\ \A q \in Savers \ {r} : saver'[q] = saver[q]
      BY <1>0, <1>1 DEF SaverTo, SaveRecord
    <3>. QED  BY <1>1, <3>1 DEF Copying
  <2>. QED  BY <1>1, <2>1, BackupsStay
<1>2. ASSUME NEW r \in Savers, Over(r), UNCHANGED <<backups, lastStamp>>
      PROVE  BackupsCounted'
  <2>1. \A q \in Savers : Copying(q)' => saver'[q] = saver[q]
    BY <1>0, <1>2 DEF Over, NoSave, Copying
  <2>. QED  BY <1>2, <2>1, BackupsStay
<1>3. ASSUME NEW r \in Savers, BeginSave(r) PROVE BackupsCounted'
  <2>1. UNCHANGED <<backups, lastStamp>>
    BY <1>3 DEF BeginSave, cfgFileVars
  <2>2. \A q \in Savers : Copying(q)' => saver'[q] = saver[q]
    BY <1>0, <1>3 DEF BeginSave, NoSave, Copying
  <2>. QED  BY <2>1, <2>2, BackupsStay
<1>4. ASSUME NEW r \in Savers, LockAndRead(r) PROVE BackupsCounted'
  <2>1. UNCHANGED <<backups, lastStamp>>
    BY <1>4 DEF LockAndRead, cfgFileVars
  <2>2. CASE Over(r)
    BY <1>2, <2>1, <2>2
  <2>3. CASE saver' = [saver EXCEPT ![r].at = "backup", ![r].new = Edited(saver[r], Base(r))]
    <3>1. saver'[r].at = "backup" /\ \A q \in Savers \ {r} : saver'[q] = saver[q]
      BY <1>0, <2>3 DEF SaveRecord
    <3>2. \A q \in Savers : Copying(q)' => saver'[q] = saver[q]
      BY <3>1 DEF Copying
    <3>. QED  BY <2>1, <3>2, BackupsStay
  <2>. QED  BY <1>4, <2>2, <2>3 DEF LockAndRead
<1>5. ASSUME NEW r \in Savers, WriteConfig(r) PROVE BackupsCounted'
  BY <1>1, <1>2, <1>5 DEF WriteConfig
<1>6. ASSUME NEW r \in Savers, FillSchedules(r) PROVE BackupsCounted'
  BY <1>1, <1>2, <1>6 DEF FillSchedules
<1>7. ASSUME NEW r \in Savers, PublishConfig(r) PROVE BackupsCounted'
  BY <1>2, <1>7 DEF PublishConfig
<1>8. CASE CrashConfig
  BY <1>8, BackupsStay DEF CrashConfig, NoSave, Copying
<1>9. CASE UNCHANGED configVars
  BY <1>9, BackupsStay DEF configVars, cfgFileVars
<1>. QED  BY <1>3, <1>4, <1>5, <1>6, <1>7, <1>8, <1>9, StampsStayApart, BackupsStayFew DEF ConfigNext, ConfigSaver

\* There are none at first.
LEMMA NoBackupsYet == ASSUME ConfigInit PROVE BackupsCounted
BY FS_EmptySet, ConfigAssumption DEF ConfigInit, BackupsCounted, Copying, NoSave

(* The configuration files, their backups and savers have their types.                           *)
LEMMA ConfigTypesFollow == ASSUME ConfigInv, BackupsCounted PROVE ConfigTypeOK
<1>1. \A f \in ConfFiles : file[f] \subseteq (-1..MaxSaves) \cup Env
  <2>1. Edits \cup BrokenFile \subseteq -1..MaxSaves
    BY ConfigAssumption DEF Edits, BrokenFile
  <2>. QED  BY <2>1 DEF ConfigInv, ConfigTyped, FileContents
<1>2. \A r \in Savers : saver[r].at \in {"idle", "lock", "backup", "copy", "write", "fill", "publish"}
  BY DEF ConfigInv, ConfigTyped, SaveRecord, SavePlaces
<1>3. \A f \in Locked : lock[f] \in Savers \cup {NoSaver}
  BY DEF ConfigInv, ConfigTyped
<1>. QED  BY <1>1, <1>2, <1>3 DEF ConfigTypeOK, BackupsCounted

(* However saves meet and fail, and whenever the process dies: a file has no more backups than    *)
(* the limit (pruneBackups, internal/api/config_handlers.go), and the configuration its types.   *)
THEOREM BackupsAreFew == ConfigSpec => []ConfigTypeOK
<1>1. ConfigInit => ConfigInv /\ BackupsCounted
  BY ConfigStarts, NoBackupsYet
<1>2. ConfigInv /\ BackupsCounted /\ [ConfigNext]_configVars => (ConfigInv /\ BackupsCounted)'
  BY ConfigStep, BackupsStep
<1>3. ConfigInv /\ BackupsCounted => ConfigTypeOK
  BY ConfigTypesFollow
<1>. QED  BY <1>1, <1>2, <1>3, PTL DEF ConfigSpec

-----------------------------------------------------------------------------
(* The error ledgers: what is inductive.                                   *)

\* A run that holds a copy which it may still save.
Working(r, k) == ledgerRun[r].at \in {"batch", "retry", "save"} /\ ledgerRun[r].kind = k

LedgerTyped ==
  /\ ledgerFile \in [Kinds2 -> SUBSET (Items \cup Torn)]
  /\ \A k \in Kinds2 : ledgerFile[k] = Torn \/ ledgerFile[k] \subseteq Of(k)
  /\ ledgerRun \in [Runs -> [at : {"off", "batch", "retry", "save", "next"}, op : {"none", "download", "retryall"},
                             kind : Kinds2, copy : SUBSET Items]]
  /\ \A r \in Runs : /\ ledgerRun[r].copy \subseteq Of(ledgerRun[r].kind)
                     /\ ledgerRun[r].at \in {"off", "next"} => ledgerRun[r].copy = {}
                     /\ ledgerRun[r].at = "next" => ledgerRun[r].op = "retryall"

\* Runs follow one another unless they overlapped once.
RunsFollow == "overlap" \notin accidents => \A r, x \in Runs : Active(r) /\ Active(x) => r = x

\* Only what was handed over is in a file, with a run or settled.
LedgerKnown ==
  /\ settled \subseteq handedOver
  /\ \A k \in Kinds2 : Loaded(k) \subseteq handedOver
  /\ \A r \in Runs : ledgerRun[r].copy \subseteq handedOver

\* Without an accident the copy of a run is what is owed of its kind, and of a kind that no run
\* works on the file is; a run that may yet end without a save still has what the file holds.
CopiesExact ==
  accidents = {} =>
    /\ \A r \in Runs : \A k \in Kinds2 :
         Working(r, k) => /\ ledgerRun[r].copy = Owed \cap Of(k)
                          /\ ledgerRun[r].at = "batch" \/ (ledgerRun[r].at = "retry" /\ ledgerRun[r].op = "retryall")
                             => Loaded(k) = Owed \cap Of(k)
    /\ \A k \in Kinds2 : (\A r \in Runs : ~Working(r, k)) => Loaded(k) = Owed \cap Of(k)

\* What was ever recorded is in the file and in the copy that will replace it.
RecordsStand ==
  accidents \subseteq {"batch", "crash"} =>
    \A k \in Kinds2 : /\ (recorded \ settled) \cap Of(k) \subseteq Loaded(k)
                      /\ \A r \in Runs : Working(r, k) => (recorded \ settled) \cap Of(k) \subseteq ledgerRun[r].copy

LedgerInv ==
  LedgerTyped /\ RunsFollow /\ LedgerKnown /\ CopiesExact /\ RecordsStand /\ recorded \subseteq Items
  /\ handedOver \subseteq Items

LEMMA KindFacts ==
  /\ Kinds2 = {"regular", "json"} /\ Of("regular") = RegularItems /\ Of("json") = JsonItems
  /\ \A k \in Kinds2 : Of(k) \subseteq Items
  /\ \A k, l \in Kinds2 : k # l => Of(k) \cap Of(l) = {}
  /\ \A s \in SUBSET Items : s # Torn
<1>1. \A s \in SUBSET Items : s # Torn
  BY LedgerAssumption DEF Torn
<1>. QED  BY <1>1, LedgerAssumption DEF Kinds2, Of, Items

LEMMA LedgerStarts == ASSUME LedgerInit PROVE LedgerInv
<1>. USE DEF LedgerInit
<1>1. LedgerTyped
  BY DEF LedgerTyped, Off, Kinds2
<1>2. RunsFollow /\ LedgerKnown
  BY DEF RunsFollow, LedgerKnown, Active, Off, Loaded
<1>3. CopiesExact /\ RecordsStand
  BY DEF CopiesExact, RecordsStand, Working, Off, Owed, Loaded
<1>. QED  BY <1>1, <1>2, <1>3 DEF LedgerInv

\* Run r goes to another state, and the files are written whole or torn.
RunBecomes(r, at, op, k, copy) ==
  /\ at \in {"off", "batch", "retry", "save", "next"} /\ op \in {"none", "download", "retryall"}
  /\ k \in Kinds2 /\ copy \in SUBSET Of(k) /\ (at \in {"off", "next"} => copy = {}) /\ (at = "next" => op = "retryall")
  /\ Go(r, at, op, k, copy)
  /\ ledgerFile' \in [Kinds2 -> SUBSET (Items \cup Torn)]
  /\ \A l \in Kinds2 : ledgerFile'[l] = Torn \/ ledgerFile'[l] \subseteq Of(l)

(* What a step of run r leaves of the other ones.                                                *)
LEMMA RunGoes ==
  ASSUME LedgerTyped, NEW r \in Runs, NEW at, NEW op, NEW k, NEW copy, RunBecomes(r, at, op, k, copy)
  PROVE  /\ LedgerTyped'
         /\ \A x \in Runs \ {r} : /\ ledgerRun'[x] = ledgerRun[x] /\ (Active(x)' <=> Active(x))
                                  /\ \A l \in Kinds2 : Working(x, l)' <=> Working(x, l)
         /\ ledgerRun'[r] = [at |-> at, op |-> op, kind |-> k, copy |-> copy]
         /\ Active(r)' <=> at # "off"
         /\ \A l \in Kinds2 : Working(r, l)' <=> at \in {"batch", "retry", "save"} /\ l = k
<1>. USE DEF RunBecomes, Go
<1>1. /\ \A x \in Runs \ {r} : ledgerRun'[x] = ledgerRun[x]
      /\ ledgerRun'[r] = [at |-> at, op |-> op, kind |-> k, copy |-> copy]
  BY DEF LedgerTyped
<1>2. copy \in SUBSET Items
  BY KindFacts
<1>3. ledgerRun' \in [Runs -> [at : {"off", "batch", "retry", "save", "next"}, op : {"none", "download", "retryall"},
                               kind : Kinds2, copy : SUBSET Items]]
  BY <1>2 DEF LedgerTyped
<1>4. \A x \in Runs : /\ ledgerRun'[x].copy \subseteq Of(ledgerRun'[x].kind)
                      /\ ledgerRun'[x].at \in {"off", "next"} => ledgerRun'[x].copy = {}
                      /\ ledgerRun'[x].at = "next" => ledgerRun'[x].op = "retryall"
  BY <1>1 DEF LedgerTyped
<1>5. LedgerTyped'
  BY <1>3, <1>4 DEF LedgerTyped
<1>. QED  BY <1>1, <1>5 DEF Active, Working

(* No other run works beside r unless runs have overlapped.                                      *)
LEMMA RunsAlone ==
  ASSUME RunsFollow, NEW r \in Runs, Active(r), "overlap" \notin accidents
  PROVE  \A x \in Runs \ {r} : ~Active(x) /\ \A k \in Kinds2 : ~Working(x, k)
BY DEF RunsFollow, Active, Working

LEMMA FilesAreItems == ASSUME LedgerTyped PROVE \A k \in Kinds2 : Loaded(k) \in SUBSET Of(k) /\ Loaded(k) \in SUBSET Items
<1>1. \A k \in Kinds2 : Loaded(k) \in SUBSET Of(k)
  BY DEF LedgerTyped, Loaded
<1>. QED  BY <1>1, KindFacts

(* A run begins, or goes on with the other ledger: it works on what the file holds.              *)
LEMMA LoadKeeps ==
  ASSUME LedgerInv, NEW r \in Runs, NEW at \in {"batch", "retry"}, NEW op \in {"download", "retryall"}, NEW k \in Kinds2,
         at = "retry" => op = "retryall", Go(r, at, op, k, Loaded(k)),
         \/ ~Active(r) /\ accidents' = accidents \cup (IF OthersWork(r) THEN {"overlap"} ELSE {})
         \/ ledgerRun[r].at = "next" /\ accidents' = accidents,
         UNCHANGED <<ledgerFile, handedOver, settled, recorded>>
  PROVE  LedgerInv'
<1>. USE DEF LedgerInv
<1>1. Loaded(k) \in SUBSET Of(k)
  BY FilesAreItems
<1>2. /\ LedgerTyped'
      /\ \A x \in Runs \ {r} : /\ ledgerRun'[x] = ledgerRun[x] /\ (Active(x)' <=> Active(x))
                               /\ \A l \in Kinds2 : Working(x, l)' <=> Working(x, l)
      /\ ledgerRun'[r] = [at |-> at, op |-> op, kind |-> k, copy |-> Loaded(k)]
      /\ Active(r)' /\ \A l \in Kinds2 : Working(r, l)' <=> l = k
  <2>1. RunBecomes(r, at, op, k, Loaded(k))
    BY <1>1 DEF RunBecomes, LedgerTyped
  <2>. QED  BY <2>1, RunGoes
<1>3. "overlap" \notin accidents' => \A x \in Runs \ {r} : ~Active(x) /\ \A l \in Kinds2 : ~Working(x, l)
  <2>1. CASE ~Active(r)
    BY <2>1 DEF OthersWork, Active, Working
  <2>2. CASE ledgerRun[r].at = "next"
    BY <2>2, RunsAlone DEF Active
  <2>. QED  BY <2>1, <2>2 DEF Active
<1>4. (\A l \in Kinds2 : ~Working(r, l)) /\ accidents \subseteq accidents'
  BY DEF Working, Active
<1>5. \A l \in Kinds2 : Loaded(l)' = Loaded(l)
  BY DEF Loaded
<1>6. RunsFollow'
  BY <1>2, <1>3 DEF RunsFollow
<1>7. LedgerKnown'
  BY <1>2, <1>5 DEF LedgerKnown
<1>8. CopiesExact'
  <2>1. SUFFICES ASSUME accidents' = {} PROVE CopiesExact'
    BY DEF CopiesExact
  <2>2. \A x \in Runs : \A l \in Kinds2 : ~Working(x, l)
    BY <1>3, <1>4, <2>1
  <2>3. Owed' = Owed /\ \A l \in Kinds2 : Loaded(l) = Owed \cap Of(l)
    BY <1>4, <2>1, <2>2 DEF CopiesExact, Owed
  <2>. QED  BY <1>2, <1>5, <2>2, <2>3 DEF CopiesExact
<1>9. RecordsStand'
  <2>1. SUFFICES ASSUME accidents' \subseteq {"batch", "crash"} PROVE RecordsStand'
    BY DEF RecordsStand
  <2>2. \A x \in Runs \ {r} : \A l \in Kinds2 : ~Working(x, l)
    BY <1>3, <2>1
  <2>3. \A l \in Kinds2 : (recorded \ settled) \cap Of(l) \subseteq Loaded(l)
    BY <1>4, <2>1 DEF RecordsStand
  <2>. QED  BY <1>2, <1>5, <2>2, <2>3 DEF RecordsStand
<1>. QED  BY <1>2, <1>6, <1>7, <1>8, <1>9

(* A batch hands new tweets over; what failed is in the copy, unless the batch itself failed.    *)
LEMMA BatchHandsOver ==
  ASSUME LedgerInv, NEW r \in Runs, Batch(r)
  PROVE  LedgerInv'
<1>. USE DEF LedgerInv
<1>. DEFINE me == ledgerRun[r]
<1>k. PICK k \in Kinds2 : k = me.kind
  BY DEF LedgerTyped
<1>c. PICK copy \in SUBSET Of(k) : copy = me.copy
  BY <1>k DEF LedgerTyped
<1>1. k = me.kind /\ copy = me.copy
  BY <1>k, <1>c
<1>2. PICK new \in SUBSET (Of(k) \ handedOver), failed \in SUBSET Of(k) :
        /\ failed \subseteq new /\ handedOver' = handedOver \cup new /\ settled' = settled \cup (new \ failed)
        /\ \/ Go(r, "retry", "download", k, copy \cup failed) /\ UNCHANGED accidents
           \/ Go(r, "save", "download", k, copy) /\ accidents' = accidents \cup {"batch"}
  BY <1>1 DEF Batch
<1>3. UNCHANGED <<ledgerFile, recorded>> /\ Working(r, k) /\ Active(r) /\ new \subseteq Items
  BY <1>1, KindFacts DEF Batch, Working, Active
<1>4. PICK at \in {"retry", "save"}, kept \in {copy, copy \cup failed} :
        /\ Go(r, at, "download", k, kept)
        /\ accidents \subseteq accidents' /\ ("overlap" \notin accidents' <=> "overlap" \notin accidents)
        /\ accidents' = {} => kept = copy \cup failed
        /\ accidents' \subseteq {"batch", "crash"} => accidents \subseteq {"batch", "crash"}
  BY <1>2
<1>5. kept \in SUBSET Of(k)
  BY <1>2
<1>6. /\ LedgerTyped'
      /\ \A x \in Runs \ {r} : /\ ledgerRun'[x] = ledgerRun[x] /\ (Active(x)' <=> Active(x))
                               /\ \A l \in Kinds2 : Working(x, l)' <=> Working(x, l)
      /\ ledgerRun'[r] = [at |-> at, op |-> "download", kind |-> k, copy |-> kept]
      /\ Active(r)' /\ \A l \in Kinds2 : Working(r, l)' <=> l = k
  <2>1. RunBecomes(r, at, "download", k, kept)
    BY <1>3, <1>4, <1>5 DEF RunBecomes, LedgerTyped
  <2>. QED  BY <2>1, RunGoes
<1>7. "overlap" \notin accidents' => \A x \in Runs \ {r} : ~Active(x) /\ \A l \in Kinds2 : ~Working(x, l)
  BY <1>3, <1>4, RunsAlone
<1>8. \A l \in Kinds2 : Loaded(l)' = Loaded(l)
  BY <1>3 DEF Loaded
<1>9. RunsFollow'
  BY <1>6, <1>7 DEF RunsFollow
<1>10. LedgerKnown'
  <2>1. copy \subseteq handedOver
    BY <1>1 DEF LedgerKnown
  <2>. QED  BY <1>2, <1>6, <1>8, <2>1 DEF LedgerKnown
<1>11. CopiesExact'
  <2>1. SUFFICES ASSUME accidents' = {} PROVE CopiesExact'
    BY DEF CopiesExact
  <2>2. accidents = {} /\ kept = copy \cup failed
    BY <1>4, <2>1
  <2>3. copy = Owed \cap Of(k)
    BY <1>1, <1>3, <2>2 DEF CopiesExact
  <2>4. Owed' = Owed \cup failed
    BY <1>2 DEF LedgerKnown, Owed
  <2>5. \A l \in Kinds2 \ {k} : Owed' \cap Of(l) = Owed \cap Of(l) /\ Loaded(l) = Owed \cap Of(l)
    <3>1. \A l \in Kinds2 \ {k} : failed \cap Of(l) = {}
      BY <1>2, KindFacts
    <3>2. \A l \in Kinds2 \ {k} : \A x \in Runs : ~Working(x, l)
      BY <1>3, <1>7, <2>1 DEF Working
    <3>. QED  BY <2>2, <2>4, <3>1, <3>2 DEF CopiesExact
  <2>6. kept = Owed' \cap Of(k)
    BY <1>2, <2>2, <2>3, <2>4
  <2>7. /\ ledgerRun'[r].copy = kept /\ ledgerRun'[r].at # "batch" /\ ledgerRun'[r].op # "retryall"
        /\ \A x \in Runs : \A l \in Kinds2 : Working(x, l)' => x = r /\ l = k
        /\ Working(r, k)'
    BY <1>6, <1>7, <2>1
  <2>8. \A l \in Kinds2 : Loaded(l)' = Loaded(l)
    BY <1>8
  <2>. QED  BY <2>5, <2>6, <2>7, <2>8 DEF CopiesExact
<1>12. RecordsStand'
  <2>1. SUFFICES ASSUME accidents' \subseteq {"batch", "crash"} PROVE RecordsStand'
    BY DEF RecordsStand
  <2>2. \A x \in Runs \ {r} : \A l \in Kinds2 : ~Working(x, l)'
    BY <1>6, <1>7, <2>1
  <2>3. /\ \A l \in Kinds2 : (recorded \ settled) \cap Of(l) \subseteq Loaded(l)
        /\ (recorded \ settled) \cap Of(k) \subseteq copy
    BY <1>1, <1>3, <1>4, <2>1 DEF RecordsStand
  <2>4. recorded' \ settled' \subseteq recorded \ settled
    BY <1>2, <1>3
  <2>. QED  BY <1>4, <1>6, <1>8, <2>2, <2>3, <2>4 DEF RecordsStand
<1>. QED  BY <1>2, <1>3, <1>6, <1>9, <1>10, <1>11, <1>12

(* Tweets that a retry settled leave the copy; a run that gives up goes on to save it as it is.  *)
LEMMA ShrinkKeeps ==
  ASSUME LedgerInv, NEW r \in Runs, NEW k \in Kinds2, Working(r, k), NEW gone, gone \subseteq ledgerRun[r].copy,
         NEW op \in {"none", "download", "retryall"}, Go(r, "save", op, k, ledgerRun[r].copy \ gone),
         settled' = settled \cup gone, UNCHANGED <<ledgerFile, handedOver, recorded, accidents>>
  PROVE  LedgerInv'
<1>. USE DEF LedgerInv
<1>1. PICK copy \in SUBSET Of(k) : copy = ledgerRun[r].copy
  BY DEF LedgerTyped, Working
<1>2. /\ LedgerTyped'
      /\ \A x \in Runs \ {r} : /\ ledgerRun'[x] = ledgerRun[x] /\ (Active(x)' <=> Active(x))
                               /\ \A l \in Kinds2 : Working(x, l)' <=> Working(x, l)
      /\ ledgerRun'[r] = [at |-> "save", op |-> op, kind |-> k, copy |-> copy \ gone]
      /\ Active(r)' /\ \A l \in Kinds2 : Working(r, l)' <=> l = k
  <2>1. PICK rest : rest = copy \ gone
    OBVIOUS
  <2>2. RunBecomes(r, "save", op, k, rest)
    BY <1>1, <2>1 DEF RunBecomes, LedgerTyped
  <2>3. LedgerTyped
    OBVIOUS
  <2>4. /\ LedgerTyped'
        /\ \A x \in Runs \ {r} : /\ ledgerRun'[x] = ledgerRun[x] /\ (Active(x)' <=> Active(x))
                                 /\ \A l \in Kinds2 : Working(x, l)' <=> Working(x, l)
        /\ ledgerRun'[r] = [at |-> "save", op |-> op, kind |-> k, copy |-> rest]
        /\ Active(r)' <=> "save" # "off"
        /\ \A l \in Kinds2 : Working(r, l)' <=> "save" \in {"batch", "retry", "save"} /\ l = k
    <3>. HIDE DEF LedgerInv
    <3>. QED  BY <2>2, <2>3, RunGoes
  <2>. QED  BY <2>1, <2>4
<1>3. Active(r) /\ \A l \in Kinds2 : Working(r, l) <=> l = k
  BY DEF Active, Working
<1>4. "overlap" \notin accidents => \A x \in Runs \ {r} : ~Active(x) /\ \A l \in Kinds2 : ~Working(x, l)
  BY <1>3, RunsAlone
<1>5. \A l \in Kinds2 : Loaded(l)' = Loaded(l)
  BY DEF Loaded
<1>6. RunsFollow'
  BY <1>2, <1>3 DEF RunsFollow
<1>7. LedgerKnown'
  <2>1. copy \subseteq handedOver
    BY <1>1 DEF LedgerKnown
  <2>. QED  BY <1>1, <1>2, <1>5, <2>1 DEF LedgerKnown
<1>8. CopiesExact'
  <2>1. SUFFICES ASSUME accidents = {} PROVE CopiesExact'
    BY DEF CopiesExact
  <2>2. copy = Owed \cap Of(k)
    BY <1>1, <2>1 DEF CopiesExact
  <2>3. Owed' = Owed \ gone
    BY DEF Owed
  <2>4. copy \ gone = Owed' \cap Of(k)
    BY <2>2, <2>3
  <2>5. \A l \in Kinds2 \ {k} : Owed' \cap Of(l) = Owed \cap Of(l) /\ Loaded(l) = Owed \cap Of(l)
    <3>1. \A l \in Kinds2 \ {k} : gone \cap Of(l) = {}
      BY <1>1, KindFacts
    <3>2. \A l \in Kinds2 \ {k} : \A x \in Runs : ~Working(x, l)
      BY <1>3, <1>4, <2>1
    <3>. QED  BY <2>1, <2>3, <3>1, <3>2 DEF CopiesExact
  <2>6. \A x \in Runs : \A l \in Kinds2 : Working(x, l)' => x = r /\ l = k
    BY <1>2, <1>4, <2>1
  <2>7. ledgerRun'[r].copy = copy \ gone /\ ledgerRun'[r].at = "save" /\ Working(r, k)'
    BY <1>2
  <2>. QED  BY <1>5, <2>4, <2>5, <2>6, <2>7 DEF CopiesExact
<1>9. RecordsStand'
  <2>1. SUFFICES ASSUME accidents \subseteq {"batch", "crash"} PROVE RecordsStand'
    BY DEF RecordsStand
  <2>2. \A x \in Runs \ {r} : \A l \in Kinds2 : ~Working(x, l)'
    BY <1>2, <1>4, <2>1
  <2>3. /\ \A l \in Kinds2 : (recorded \ settled) \cap Of(l) \subseteq Loaded(l)
        /\ (recorded \ settled) \cap Of(k) \subseteq copy
    BY <1>1, <2>1 DEF RecordsStand
  <2>4. recorded' \ settled' = (recorded \ settled) \ gone
    OBVIOUS
  <2>. QED  BY <1>2, <1>5, <2>2, <2>3, <2>4 DEF RecordsStand
<1>. QED  BY <1>2, <1>6, <1>7, <1>8, <1>9

(* A run writes its copy over the file, whole or torn, and holds nothing any more.               *)
LEMMA SaveKeeps ==
  ASSUME LedgerInv, NEW r \in Runs, NEW k \in Kinds2, ledgerRun[r].at = "save", ledgerRun[r].kind = k,
         Written(k, ledgerRun[r].copy),
         NEW at \in {"off", "next"}, NEW op \in {"none", "retryall"}, NEW l \in Kinds2, at = "next" => op = "retryall",
         Go(r, at, op, l, {}), UNCHANGED <<handedOver, settled>>
  PROVE  LedgerInv'
<1>. USE DEF LedgerInv
<1>1. PICK copy \in SUBSET Of(k) : copy = ledgerRun[r].copy
  BY DEF LedgerTyped
<1>2. copy \in SUBSET Items /\ copy # Torn
  BY KindFacts
<1>3. \/ /\ ledgerFile' = [ledgerFile EXCEPT ![k] = copy] /\ recorded' = recorded \cup copy /\ accidents' = accidents
      \/ /\ ledgerFile' = [ledgerFile EXCEPT ![k] = Torn] /\ "disk" \in accidents' /\ recorded' = recorded
         /\ accidents \subseteq accidents' /\ ("overlap" \in accidents' => "overlap" \in accidents)
  BY <1>1 DEF Written
<1>4. /\ ledgerFile'[k] \in {copy, Torn} /\ \A x \in Kinds2 \ {k} : ledgerFile'[x] = ledgerFile[x]
      /\ ledgerFile' \in [Kinds2 -> SUBSET (Items \cup Torn)]
      /\ \A x \in Kinds2 : ledgerFile'[x] = Torn \/ ledgerFile'[x] \subseteq Of(x)
  <2>1. copy \in SUBSET (Items \cup Torn) /\ Torn \in SUBSET (Items \cup Torn)
    BY <1>2
  <2>. QED  BY <1>3, <2>1 DEF LedgerTyped
<1>5. /\ LedgerTyped'
      /\ \A x \in Runs \ {r} : /\ ledgerRun'[x] = ledgerRun[x] /\ (Active(x)' <=> Active(x))
                               /\ \A y \in Kinds2 : Working(x, y)' <=> Working(x, y)
      /\ ledgerRun'[r].copy = {}
      /\ \A y \in Kinds2 : ~Working(r, y)'
  <2>1. RunBecomes(r, at, op, l, {})
    BY <1>4 DEF RunBecomes
  <2>2. ledgerRun'[r] = [at |-> at, op |-> op, kind |-> l, copy |-> {}]
    BY <2>1, RunGoes
  <2>3. \A y \in Kinds2 : ~Working(r, y)'
    BY <2>2 DEF Working
  <2>4. ledgerRun'[r].copy = {}
    BY <2>2
  <2>. QED  BY <2>1, <2>3, <2>4, RunGoes
<1>6. Active(r) /\ \A x \in Kinds2 : Working(r, x) <=> x = k
  BY DEF Active, Working
<1>7. "overlap" \notin accidents => \A x \in Runs \ {r} : ~Active(x) /\ \A y \in Kinds2 : ~Working(x, y)
  BY <1>6, RunsAlone
<1>8. /\ \A x \in Kinds2 \ {k} : Loaded(x)' = Loaded(x)
      /\ Loaded(k)' = IF "disk" \in accidents' /\ ledgerFile'[k] = Torn THEN {} ELSE copy
      /\ "disk" \notin accidents' => Loaded(k)' = copy
  <2>1. \A x \in Kinds2 \ {k} : Loaded(x)' = Loaded(x)
    BY <1>4 DEF Loaded
  <2>2. ledgerFile'[k] = Torn => Loaded(k)' = {} /\ "disk" \in accidents'
    BY <1>2, <1>3 DEF Loaded, LedgerTyped
  <2>3. ledgerFile'[k] # Torn => Loaded(k)' = copy
    BY <1>4 DEF Loaded
  <2>. QED  BY <2>1, <2>2, <2>3
<1>9. RunsFollow'
  <2>1. "overlap" \notin accidents' => "overlap" \notin accidents
    BY <1>3
  <2>. QED  BY <1>5, <1>7, <2>1 DEF RunsFollow
<1>10. LedgerKnown'
  <2>1. copy \subseteq handedOver
    BY <1>1 DEF LedgerKnown
  <2>. QED  BY <1>5, <1>8, <2>1 DEF LedgerKnown
<1>11. CopiesExact'
  <2>1. SUFFICES ASSUME accidents' = {} PROVE CopiesExact'
    BY DEF CopiesExact
  <2>2. accidents = {} /\ Loaded(k)' = copy
    BY <1>3, <1>8, <2>1
  <2>3. copy = Owed \cap Of(k) /\ Owed' = Owed
    BY <1>1, <1>6, <2>2 DEF CopiesExact, Owed
  <2>4. \A x \in Kinds2 \ {k} : Loaded(x) = Owed \cap Of(x)
    BY <1>6, <1>7, <2>2 DEF CopiesExact
  <2>5. \A x \in Runs : \A y \in Kinds2 : ~Working(x, y)'
    BY <1>5, <1>7, <2>2
  <2>6. \A x \in Kinds2 : Loaded(x)' = Owed' \cap Of(x)
    BY <1>8, <2>2, <2>3, <2>4
  <2>. QED  BY <2>5, <2>6 DEF CopiesExact
<1>12. RecordsStand'
  <2>1. SUFFICES ASSUME accidents' \subseteq {"batch", "crash"} PROVE RecordsStand'
    BY DEF RecordsStand
  <2>2. accidents \subseteq {"batch", "crash"} /\ Loaded(k)' = copy /\ recorded' = recorded \cup copy
    BY <1>3, <1>8, <2>1
  <2>3. /\ \A x \in Kinds2 : (recorded \ settled) \cap Of(x) \subseteq Loaded(x)
        /\ (recorded \ settled) \cap Of(k) \subseteq copy
    BY <1>1, <1>6, <2>2 DEF RecordsStand
  <2>4. \A x \in Runs : \A y \in Kinds2 : ~Working(x, y)'
    BY <1>5, <1>7, <2>2
  <2>5. \A x \in Kinds2 : x # k => copy \cap Of(x) = {}
    BY KindFacts
  <2>6. \A x \in Kinds2 : (recorded' \ settled') \cap Of(x) \subseteq Loaded(x)'
    BY <1>8, <2>2, <2>3, <2>5
  <2>. QED  BY <2>4, <2>6 DEF RecordsStand
<1>13. recorded' \subseteq Items
  BY <1>2, <1>3
<1>. QED  BY <1>5, <1>9, <1>10, <1>11, <1>12, <1>13

(* A retry of everything that has nothing to save, or is done: it holds nothing any more.        *)
LEMMA StopKeeps ==
  ASSUME LedgerInv, NEW r \in Runs,
         (ledgerRun[r].at = "retry" /\ ledgerRun[r].op = "retryall") \/ ledgerRun[r].at = "next",
         NEW at \in {"off", "next"}, NEW op \in {"none", "retryall"}, NEW l \in Kinds2, at = "next" => op = "retryall",
         Go(r, at, op, l, {}), UNCHANGED <<ledgerFile, handedOver, settled, recorded, accidents>>
  PROVE  LedgerInv'
<1>. USE DEF LedgerInv
<1>1. /\ LedgerTyped'
      /\ \A x \in Runs \ {r} : /\ ledgerRun'[x] = ledgerRun[x] /\ (Active(x)' <=> Active(x))
                               /\ \A y \in Kinds2 : Working(x, y)' <=> Working(x, y)
      /\ ledgerRun'[r].copy = {}
      /\ \A y \in Kinds2 : ~Working(r, y)'
  <2>1. RunBecomes(r, at, op, l, {})
    BY DEF RunBecomes, LedgerTyped
  <2>2. ledgerRun'[r] = [at |-> at, op |-> op, kind |-> l, copy |-> {}]
    BY <2>1, RunGoes
  <2>3. \A y \in Kinds2 : ~Working(r, y)'
    BY <2>2 DEF Working
  <2>4. ledgerRun'[r].copy = {}
    BY <2>2
  <2>. QED  BY <2>1, <2>3, <2>4, RunGoes
<1>2. Active(r)
  BY DEF Active
<1>3. "overlap" \notin accidents => \A x \in Runs \ {r} : ~Active(x) /\ \A y \in Kinds2 : ~Working(x, y)
  BY <1>2, RunsAlone
<1>4. \A x \in Kinds2 : Loaded(x)' = Loaded(x)
  BY DEF Loaded
<1>5. RunsFollow' /\ LedgerKnown'
  BY <1>1, <1>2, <1>4 DEF RunsFollow, LedgerKnown
<1>6. CopiesExact'
  <2>1. SUFFICES ASSUME accidents = {} PROVE CopiesExact'
    BY DEF CopiesExact
  <2>2. \A x \in Kinds2 : Loaded(x) = Owed \cap Of(x)
    <3>1. SUFFICES ASSUME NEW x \in Kinds2 PROVE Loaded(x) = Owed \cap Of(x)
      OBVIOUS
    <3>2. CASE Working(r, x)
      BY <2>1, <3>2 DEF CopiesExact, Working
    <3>3. CASE ~Working(r, x)
      BY <1>3, <2>1, <3>3 DEF CopiesExact
    <3>. QED  BY <3>2, <3>3
  <2>3. Owed' = Owed /\ \A x \in Runs : \A y \in Kinds2 : ~Working(x, y)'
    BY <1>1, <1>3, <2>1 DEF Owed
  <2>. QED  BY <1>4, <2>2, <2>3 DEF CopiesExact
<1>7. RecordsStand'
  BY <1>1, <1>4 DEF RecordsStand
<1>. QED  BY <1>1, <1>5, <1>6, <1>7

(* The files are removed, the process ends, or an account is deleted.                            *)
LEMMA LedgerAccidentKeeps ==
  ASSUME LedgerInv, ClearErrors \/ CrashRuns \/ \E a \in {Account[x] : x \in RegularItems} : DeleteEntity(a)
  PROVE  LedgerInv'
<1>. USE DEF LedgerInv
<1>1. CASE ClearErrors
  <2>1. /\ ledgerFile' = [k \in Kinds2 |-> {}] /\ accidents' = accidents \cup {"clear"}
        /\ UNCHANGED <<ledgerRun, handedOver, settled, recorded>>
    BY <1>1 DEF ClearErrors
  <2>2. LedgerTyped' /\ RunsFollow' /\ LedgerKnown'
    BY <2>1 DEF LedgerTyped, RunsFollow, LedgerKnown, Active, Loaded
  <2>. QED  BY <2>1, <2>2 DEF CopiesExact, RecordsStand
<1>2. CASE CrashRuns
  <2>1. /\ ledgerRun' = [r \in Runs |-> Off] /\ UNCHANGED <<handedOver, settled, recorded>>
        /\ \/ accidents' = accidents \cup {"crash"} /\ UNCHANGED ledgerFile
           \/ accidents' = accidents \cup {"crash", "disk"}
              /\ \E r \in Runs : ledgerFile' = [ledgerFile EXCEPT ![ledgerRun[r].kind] = Torn]
    BY <1>2 DEF CrashRuns
  <2>2. /\ ledgerFile' \in [Kinds2 -> SUBSET (Items \cup Torn)]
        /\ \A k \in Kinds2 : ledgerFile'[k] = Torn \/ ledgerFile'[k] = ledgerFile[k]
    BY <2>1 DEF LedgerTyped
  <2>3. LedgerTyped' /\ \A r \in Runs : ~Active(r)' /\ \A k \in Kinds2 : ~Working(r, k)'
    BY <2>1, <2>2 DEF LedgerTyped, Off, Kinds2, Active, Working
  <2>4. \A k \in Kinds2 : Loaded(k)' \in {{}, Loaded(k)}
    BY <2>2 DEF Loaded
  <2>5. RunsFollow' /\ LedgerKnown'
    BY <2>1, <2>3, <2>4 DEF RunsFollow, LedgerKnown, Off
  <2>6. RecordsStand'
    <3>1. SUFFICES ASSUME accidents' \subseteq {"batch", "crash"} PROVE RecordsStand'
      BY DEF RecordsStand
    <3>2. "disk" \notin accidents' /\ accidents \subseteq accidents'
      BY <2>1, <3>1
    <3>3. accidents \subseteq {"batch", "crash"} /\ UNCHANGED ledgerFile
      BY <2>1, <3>1, <3>2
    <3>4. \A k \in Kinds2 : Loaded(k)' = Loaded(k)
      BY <3>3 DEF Loaded
    <3>. QED  BY <2>1, <2>3, <3>3, <3>4 DEF RecordsStand
  <2>. QED  BY <2>1, <2>3, <2>5, <2>6 DEF CopiesExact
<1>3. CASE \E a \in {Account[x] : x \in RegularItems} : DeleteEntity(a)
  <2>1. UNCHANGED <<ledgerFile, ledgerRun, handedOver, settled, recorded, accidents>>
    BY <1>3 DEF DeleteEntity
  <2>. QED  BY <2>1 DEF LedgerTyped, RunsFollow, LedgerKnown, CopiesExact, RecordsStand, Active, Working, Loaded, Owed
<1>. QED  BY <1>1, <1>2, <1>3

LEMMA LedgerStep == ASSUME LedgerInv, [LedgerNext]_ledgerVars PROVE LedgerInv'
<1>1. ASSUME NEW r \in Runs, NEW k \in Kinds2, StartRun(r, k) PROVE LedgerInv'
  BY <1>1, LoadKeeps DEF StartRun
<1>2. ASSUME NEW r \in Runs, ExecuteDownloadTemplate(r) \/ JsonFileDownload(r) \/ JsonFolderDownload(r) PROVE LedgerInv'
  BY <1>1, <1>2 DEF ExecuteDownloadTemplate, JsonFileDownload, JsonFolderDownload, Kinds2
<1>3. ASSUME NEW r \in Runs, PrepareFails(r) PROVE LedgerInv'
  <2>1. PICK k \in Kinds2 : k = ledgerRun[r].kind
    BY DEF LedgerInv, LedgerTyped
  <2>2. Working(r, k) /\ {} \subseteq ledgerRun[r].copy /\ ledgerRun[r].copy \ {} = ledgerRun[r].copy /\ settled' = settled \cup {}
        /\ Go(r, "save", "download", k, ledgerRun[r].copy \ {}) /\ UNCHANGED <<ledgerFile, handedOver, recorded, accidents>>
    BY <1>3, <2>1 DEF PrepareFails, Working
  <2>. QED  BY <2>2, ShrinkKeeps
<1>4. ASSUME NEW copy, NEW k, NEW gone \in Recovered(k, copy) \cup {{}} PROVE gone \subseteq copy
  BY DEF Recovered, RecoveredTweets, RecoveredJsonTweets
<1>5. ASSUME NEW r \in Runs, RetryStep(r) \/ (RetryAll(r) /\ ledgerRun'[r].at = "save") PROVE LedgerInv'
  <2>1. PICK k \in Kinds2 : k = ledgerRun[r].kind
    BY DEF LedgerInv, LedgerTyped
  <2>2. Working(r, k) /\ UNCHANGED <<ledgerFile, handedOver, recorded, accidents>>
    BY <1>5, <2>1 DEF RetryStep, RetryAll, Working
  <2>3. \E gone \in Recovered(k, ledgerRun[r].copy) \cup {{}} : \E op \in {"download", "retryall"} :
          Go(r, "save", op, k, ledgerRun[r].copy \ gone) /\ settled' = settled \cup gone
    <3>1. CASE RetryStep(r)
      BY <2>1, <3>1 DEF RetryStep
    <3>2. CASE RetryAll(r) /\ ledgerRun'[r].at = "save"
      <4>1. ~Go(r, "next", ledgerRun[r].op, k, {})
        BY <3>2 DEF Go, LedgerInv, LedgerTyped
      <4>. QED  BY <2>1, <3>2, <4>1 DEF RetryAll
    <3>. QED  BY <1>5, <3>1, <3>2
  <2>4. PICK gone \in Recovered(k, ledgerRun[r].copy) \cup {{}}, op \in {"download", "retryall"} :
          Go(r, "save", op, k, ledgerRun[r].copy \ gone) /\ settled' = settled \cup gone
    BY <2>3
  <2>5. gone \subseteq ledgerRun[r].copy
    BY <1>4
  <2>. QED  BY <2>2, <2>4, <2>5, ShrinkKeeps
<1>6. ASSUME NEW r \in Runs, SaveRun(r) \/ SaveRetried(r) PROVE LedgerInv'
  <2>1. PICK k \in Kinds2 : k = ledgerRun[r].kind
    BY DEF LedgerInv, LedgerTyped
  <2>2. ledgerRun[r].at = "save" /\ Written(k, ledgerRun[r].copy) /\ UNCHANGED <<handedOver, settled>>
    BY <1>6, <2>1 DEF SaveRun, SaveRetried
  <2>3. Go(r, "off", "none", "regular", {}) \/ Go(r, "next", "retryall", k, {})
    BY <1>6, <2>1 DEF SaveRun, SaveRetried, Off, Go
  <2>4. "regular" \in Kinds2
    BY DEF Kinds2
  <2>. QED  BY <2>1, <2>2, <2>3, <2>4, SaveKeeps
<1>7. ASSUME NEW r \in Runs, StartRetryAll(r) PROVE LedgerInv'
  <2>1. "regular" \in Kinds2
    BY DEF Kinds2
  <2>. QED  BY <1>7, <2>1, LoadKeeps DEF StartRetryAll
<1>8. ASSUME NEW r \in Runs, RetryAll(r) /\ ledgerRun'[r].at # "save" PROVE LedgerInv'
  <2>1. PICK k \in Kinds2 : k = ledgerRun[r].kind
    BY DEF LedgerInv, LedgerTyped
  <2>2. \A gone : ~Go(r, "save", ledgerRun[r].op, k, ledgerRun[r].copy \ gone)
    BY <1>8 DEF Go, LedgerInv, LedgerTyped
  <2>3. /\ ledgerRun[r].at = "retry" /\ ledgerRun[r].op = "retryall"
        /\ Go(r, "next", "retryall", k, {}) /\ UNCHANGED <<ledgerFile, handedOver, settled, recorded, accidents>>
    BY <1>8, <2>1, <2>2 DEF RetryAll
  <2>. QED  BY <2>3, StopKeeps
<1>9. ASSUME NEW r \in Runs, NextLedger(r) PROVE LedgerInv'
  <2>1. ledgerRun[r].at = "next" /\ ledgerRun[r].op = "retryall" /\ UNCHANGED <<ledgerFile, handedOver, settled, recorded, accidents>>
    BY <1>9 DEF NextLedger, LedgerInv, LedgerTyped
  <2>2. Go(r, "retry", "retryall", "json", Loaded("json")) \/ Go(r, "off", "none", "regular", {})
    BY <1>9, <2>1 DEF NextLedger, Off, Go
  <2>3. "regular" \in Kinds2 /\ "json" \in Kinds2
    BY DEF Kinds2
  <2>. QED  BY <2>1, <2>2, <2>3, LoadKeeps, StopKeeps
<1>10. CASE UNCHANGED ledgerVars
  BY <1>10 DEF LedgerInv, LedgerTyped, RunsFollow, LedgerKnown, CopiesExact, RecordsStand, Active, Working, Loaded, Owed, ledgerVars
<1>11. CASE ClearErrors \/ CrashRuns \/ \E a \in {Account[x] : x \in RegularItems} : DeleteEntity(a)
  BY <1>11, LedgerAccidentKeeps
<1>. QED  BY <1>2, <1>3, <1>5, <1>6, <1>7, <1>8, <1>9, <1>10, <1>11, BatchHandsOver DEF LedgerNext

LEMMA LedgerFollows == ASSUME LedgerInv PROVE LedgerExact
<1>. USE DEF LedgerInv
<1>1. /\ \A x \in Items : \E k \in Kinds2 : x \in Of(k)
      /\ \A k \in Kinds2 : \A x \in Loaded(k) : x \in OnFile
      /\ \A r \in Runs : \A x \in ledgerRun[r].copy : x \in InRun
  BY DEF Items, Kinds2, Of, OnFile, InRun
<1>2. accidents = {} => Owed \subseteq OnFile \cup InRun
  <2>1. SUFFICES ASSUME accidents = {}, NEW x \in Owed PROVE x \in OnFile \cup InRun
    OBVIOUS
  <2>2. x \in Items
    BY DEF Owed
  <2>3. PICK k \in Kinds2 : x \in Of(k)
    BY <1>1, <2>2
  <2>4. CASE \E r \in Runs : Working(r, k)
    BY <1>1, <2>1, <2>3, <2>4 DEF CopiesExact
  <2>5. CASE \A r \in Runs : ~Working(r, k)
    BY <1>1, <2>1, <2>3, <2>5 DEF CopiesExact
  <2>. QED  BY <2>4, <2>5
<1>3. accidents = {} /\ (\A r \in Runs : ~Active(r)) => OnFile = Owed
  <2>1. SUFFICES ASSUME accidents = {}, \A r \in Runs : ~Active(r) PROVE OnFile = Owed
    OBVIOUS
  <2>2. \A k \in Kinds2 : Loaded(k) = Owed \cap Of(k)
    BY <2>1 DEF CopiesExact, Working, Active
  <2>3. \A x \in Owed : x \in Items
    BY DEF Owed
  <2>4. \A x \in OnFile : \E k \in Kinds2 : x \in Loaded(k)
    BY DEF OnFile
  <2>. QED  BY <1>1, <2>2, <2>3, <2>4
<1>4. accidents \subseteq {"batch", "crash"} => recorded \ settled \subseteq OnFile \cup InRun
  BY <1>1 DEF RecordsStand
<1>. QED  BY <1>2, <1>3, <1>4 DEF LedgerExact

(* As long as runs follow one another and nothing interrupts them, the ledgers hold exactly what  *)
(* is still owed; what was recorded outlives failed batches and crashes outside a write (the     *)
(* deferred saves of executeDownloadTemplate and RetryAllFailed).                                *)
THEOREM LedgersAreExact == LedgerSpec => []LedgerExact
<1>1. LedgerInit => LedgerInv
  BY LedgerStarts
<1>2. LedgerInv /\ [LedgerNext]_ledgerVars => LedgerInv'
  BY LedgerStep
<1>3. LedgerInv => LedgerExact
  BY LedgerFollows
<1>. QED  BY <1>1, <1>2, <1>3, PTL DEF LedgerSpec

-----------------------------------------------------------------------------
(* The accidents and the types of the ledgers.                             *)

(* Only accidents that may happen do; a write cut short by a crash counts as one that failed.     *)
AccidentsKnown == accidents \subseteq Accidents \cup {"disk"}

(* No step adds an accident of another kind.                                                     *)
LEMMA AccidentsStayKnown == ASSUME AccidentsKnown, [LedgerNext]_ledgerVars PROVE AccidentsKnown'
<1>. USE DEF AccidentsKnown
<1>1. ASSUME NEW r \in Runs, NEW k, StartRun(r, k) PROVE AccidentsKnown'
  BY <1>1 DEF StartRun
<1>2. ASSUME NEW k, NEW copy, Written(k, copy) PROVE AccidentsKnown'
  BY <1>2 DEF Written
<1>3. ASSUME NEW r \in Runs, Batch(r) PROVE AccidentsKnown'
  BY <1>3 DEF Batch
<1>4. ASSUME NEW r \in Runs, ExecuteDownloadTemplate(r) \/ JsonFileDownload(r) \/ JsonFolderDownload(r)
      PROVE  AccidentsKnown'
  BY <1>1, <1>4 DEF ExecuteDownloadTemplate, JsonFileDownload, JsonFolderDownload
<1>5. ASSUME NEW r \in Runs, SaveRun(r) \/ SaveRetried(r) PROVE AccidentsKnown'
  BY <1>2, <1>5 DEF SaveRun, SaveRetried
<1>6. ASSUME NEW r \in Runs, StartRetryAll(r) PROVE AccidentsKnown'
  BY <1>6 DEF StartRetryAll
<1>7. ASSUME NEW r \in Runs, PrepareFails(r) \/ RetryStep(r) \/ RetryAll(r) \/ NextLedger(r) PROVE AccidentsKnown'
  BY <1>7 DEF PrepareFails, RetryStep, RetryAll, NextLedger
<1>8. CASE ClearErrors
  BY <1>8 DEF ClearErrors
<1>9. CASE CrashRuns
  <2>1. "crash" \in Accidents /\ accidents' \in {accidents \cup {"crash"}, accidents \cup {"crash", "disk"}}
    BY <1>9 DEF CrashRuns
  <2>. QED  BY <2>1
<1>10. CASE \E a \in {Account[x] : x \in RegularItems} : DeleteEntity(a)
  BY <1>10 DEF DeleteEntity
<1>11. CASE UNCHANGED ledgerVars
  BY <1>11 DEF ledgerVars
<1>. QED  BY <1>3, <1>4, <1>5, <1>6, <1>7, <1>8, <1>9, <1>10, <1>11 DEF LedgerNext

(* The error ledgers and their runs have their types.                                            *)
LEMMA LedgerTypesFollow == ASSUME LedgerInv, AccidentsKnown PROVE LedgerTypeOK
<1>1. \A r \in Runs : /\ ledgerRun[r].at \in {"off", "batch", "retry", "save", "next"}
                      /\ ledgerRun[r].op \in {"none", "download", "retryall"}
                      /\ ledgerRun[r].kind \in Kinds2
                      /\ ledgerRun[r].copy \subseteq Of(ledgerRun[r].kind)
  BY DEF LedgerInv, LedgerTyped
<1>2. /\ \A k \in Kinds2 : ledgerFile[k] = Torn \/ ledgerFile[k] \subseteq Of(k)
      /\ recorded \subseteq Items /\ settled \subseteq Items /\ handedOver \subseteq Items
  BY DEF LedgerInv, LedgerTyped, LedgerKnown
<1>. QED  BY <1>1, <1>2 DEF LedgerTypeOK, AccidentsKnown

-----------------------------------------------------------------------------
(* The media of tweets: what is inductive.                                 *)

\* A job has a name for its present medium, and perhaps another job has the same one.
NamingSteps  == {"head", "get", "lock", "copy", "rename", "verify"}
Naming(j)    == job[j].at \in NamingSteps
Contested(j) == job[j].i \in contested[j]

\* The media of the tweet are the present one, those that follow, and those that are settled.
Settlement(r) == r.ok \cup r.again \cup r.skipped

Going(r, n) ==
  /\ r.ok \cap r.again = {} /\ r.ok \cap r.skipped = {} /\ r.again \cap r.skipped = {}
  /\ r.at = "idle" => Settlement(r) = {} /\ r.i = 1
  /\ r.at = "done" => Settlement(r) = 1..n
  /\ r.at \notin {"idle", "done"} => r.i \notin r.left /\ Settlement(r) = (1..n) \ ({r.i} \cup r.left)

JobShape(r, n, passes) ==
  /\ DOMAIN r = DOMAIN Fresh
  /\ r.at \in Steps /\ r.i \in 1..n /\ r.left \subseteq 1..n /\ r.again \subseteq 1..n /\ r.pass \in 1..passes
  /\ r.mode \in {"buffer", "stream"} /\ r.whole \in BOOLEAN /\ r.try \in 1..MaxTries
  /\ r.path[2] \in Nat /\ (r.at \notin NamingSteps => r.path = NoName)
  /\ Going(r, n)

JobSound(r, j) == JobShape(r, Len(MediaOf[j]), Len(CallsOf[j]))

LocksTyped ==
  /\ temps \subseteq Jobs \cup {Orphan}
  /\ DOMAIN slotLock = Slots /\ \A s \in Slots : slotLock[s] \in Jobs \cup {NoJob}

MediaShape ==
  /\ DOMAIN job = Jobs /\ \A j \in Jobs : JobSound(job[j], j)
  /\ IsFiniteSet(DOMAIN files) /\ \A f \in DOMAIN files : files[f].whole \in BOOLEAN /\ f[2] \in Nat
  /\ DOMAIN OldFiles \subseteq DOMAIN files
  /\ DOMAIN reserved = Calls /\ \A c \in Calls : IsFiniteSet(reserved[c])
  /\ DOMAIN contested = Jobs

\* A resolver knows the names it gave out.
NamesReserved ==
  \A j \in Jobs : Naming(j) /\ Call(j) \in Resolving => job[j].path \in reserved[Call(j)]

\* Jobs that have one name have it from different calls, or without a resolver.
NamesContested ==
  \A j, k \in Jobs :
    j # k /\ Naming(j) /\ Naming(k) /\ job[j].path = job[k].path
      => Contested(j) /\ (Call(j) # Call(k) \/ Call(j) \notin Resolving)

\* At the name that a job alone has stands no whole file but the one that it is about to verify.
NamesFree ==
  \A j \in Jobs :
    /\ Naming(j) => job[j].path \notin DOMAIN OldFiles
    /\ job[j].at = "rename" /\ job[j].mode = "buffer" => job[j].whole
    /\ Naming(j) /\ ~Contested(j) =>
         IF job[j].at = "verify"
         THEN /\ job[j].path \in DOMAIN files
              /\ files[job[j].path].whole = job[j].whole /\ files[job[j].path].of = Medium(j).id
         ELSE job[j].path \in DOMAIN files => ~files[job[j].path].whole

\* A torn file is known to who wrote it, or is a leftover.
TornFilesKnown ==
  \A f \in DOMAIN files :
    \/ files[f].whole \/ f \in leftovers
    \/ \E j \in Jobs : job[j].at = "verify" /\ job[j].path = f /\ ~job[j].whole

\* What was downloaded rests under a name that nobody has any more.
FoundOf(j) == {m[1] : m \in job[j].found}

DownloadsRest ==
  \A j \in Jobs : \A i \in job[j].ok \ (contested[j] \cup FoundOf(j)) :
    \E f \in DOMAIN files : /\ files[f].of = MediaOf[j][i].id /\ files[f].whole
                            /\ \A k \in Jobs : Naming(k) => job[k].path # f

MediaInv ==
  /\ MediaShape /\ NamesReserved /\ NamesContested /\ NamesFree /\ TornFilesKnown /\ DownloadsRest /\ LocksTyped

-----------------------------------------------------------------------------
(* What a job becomes.                                                     *)

LEMMA FreshFields ==
  DOMAIN Fresh = {"at", "i", "left", "pass", "used", "path", "mode", "try", "whole", "ok", "again", "skipped",
                  "found"}
BY DEF Fresh

LEMMA FreshSound == ASSUME NEW j \in Jobs PROVE JobSound(Fresh, j) /\ Fresh.at = "idle" /\ Fresh.ok = {}
BY MediaAssumption DEF JobSound, JobShape, Going, Settlement, Fresh, Steps, NamingSteps, NoName

\* Only job j moves, and it stays a job.
OnlyJob(j) ==
  DOMAIN job' = Jobs /\ (\A k \in Jobs \ {j} : job'[k] = job[k]) /\ JobSound(job'[j], j)

\* It goes on with its medium, under its name.
JobGoesOn(j, at) ==
  /\ OnlyJob(j) /\ job'[j].at = at
  /\ job'[j].path = job[j].path /\ job'[j].i = job[j].i /\ job'[j].pass = job[j].pass
  /\ job'[j].ok = job[j].ok /\ job'[j].found = job[j].found

\* Its medium is settled, perhaps by files that were found.
MediumSettled(j, how, taken) ==
  /\ OnlyJob(j) /\ job'[j].at \in {"done", "lookup"}
  /\ job'[j].ok = IF how = "ok" THEN job[j].ok \cup {job[j].i} ELSE job[j].ok
  /\ job'[j].found = job[j].found \cup {<<job[j].i, f>> : f \in taken}

\* The next medium follows when one is settled.
LEMMA SettlingGoes ==
  ASSUME NEW r, NEW s, NEW n \in Nat, NEW how \in {"ok", "again", "skipped"},
         Going(r, n), r.at \notin {"idle", "done"}, r.i \in 1..n, r.left \subseteq 1..n,
         s.ok = IF how = "ok" THEN r.ok \cup {r.i} ELSE r.ok,
         s.again = IF how = "again" THEN r.again \cup {r.i} ELSE r.again,
         s.skipped = IF how = "skipped" THEN r.skipped \cup {r.i} ELSE r.skipped,
         r.left = {} => s.at = "done",
         r.left # {} => s.at = "lookup" /\ s.i \in r.left /\ s.left = r.left \ {s.i}
  PROVE  Going(s, n)
<1>1. /\ r.i \notin r.left /\ Settlement(r) = (1..n) \ ({r.i} \cup r.left)
      /\ r.ok \cap r.again = {} /\ r.ok \cap r.skipped = {} /\ r.again \cap r.skipped = {}
  BY DEF Going
<1>2. Settlement(s) = Settlement(r) \cup {r.i}
  BY DEF Settlement
<1>3. s.ok \cap s.again = {} /\ s.ok \cap s.skipped = {} /\ s.again \cap s.skipped = {}
  BY <1>1 DEF Settlement
<1>4. CASE r.left = {}
  BY <1>1, <1>2, <1>3, <1>4 DEF Going
<1>5. CASE r.left # {}
  <2>1. (1..n) \ ({s.i} \cup s.left) = Settlement(r) \cup {r.i}
    BY <1>1, <1>5
  <2>. QED  BY <1>2, <1>3, <1>5, <2>1 DEF Going
<1>. QED  BY <1>4, <1>5

\* A job that stays with its medium stays sound.
LEMMA SoundStays ==
  ASSUME NEW j \in Jobs, NEW r, NEW s, JobSound(r, j), r.at \notin {"idle", "done"}, DOMAIN s = DOMAIN Fresh,
         s.at \in NamingSteps \cup {"path"}, s.at = "path" => r.at \notin NamingSteps,
         s.mode \in {"buffer", "stream"}, s.whole \in BOOLEAN, s.try \in 1..MaxTries,
         s.i = r.i, s.left = r.left, s.pass = r.pass, s.ok = r.ok, s.again = r.again, s.skipped = r.skipped,
         s.path[2] \in Nat, s.at = "path" => s.path = r.path
  PROVE  JobSound(s, j)
<1>1. s.at \in Steps /\ s.at \notin {"idle", "done"} /\ (s.at \notin NamingSteps => s.at = "path")
  BY DEF NamingSteps, Steps
<1>2. Going(s, Len(MediaOf[j]))
  BY <1>1 DEF JobSound, JobShape, Going, Settlement
<1>. QED  BY <1>1, <1>2 DEF JobSound, JobShape

LEMMA SettleSettles ==
  ASSUME MediaShape, NEW j \in Jobs, NEW how \in {"ok", "again", "skipped"}, NEW taken, Settle(j, how, taken),
         job[j].at \notin {"idle", "done"}
  PROVE  MediumSettled(j, how, taken)
<1>. DEFINE n    == Len(MediaOf[j])
            me   == job[j]
            last == me.left = {}
            base == [me EXCEPT !.at = IF last THEN "done" ELSE "lookup", !.i = IF last THEN @ ELSE Min(me.left),
                               !.left = IF last THEN @ ELSE @ \ {Min(@)},
                               !.used = IF last THEN {} ELSE @ \cup taken,
                               !.found = @ \cup {<<me.i, f>> : f \in taken},
                               !.path = NoName, !.mode = "buffer", !.try = 1, !.whole = FALSE]
            new  == CASE how = "ok"      -> [base EXCEPT !.ok = @ \cup {me.i}]
                      [] how = "again"   -> [base EXCEPT !.again = @ \cup {me.i}]
                      [] how = "skipped" -> [base EXCEPT !.skipped = @ \cup {me.i}]
<1>1. /\ JobSound(me, j) /\ DOMAIN job = Jobs /\ n \in Nat /\ 1 \in 1..MaxTries /\ NoName[2] = 0
      /\ DOMAIN me = DOMAIN Fresh /\ me.i \in 1..n /\ me.left \subseteq 1..n
  BY MediaAssumption DEF MediaShape, JobSound, JobShape, NoName
<1>2. ~last => Min(me.left) \in me.left
  BY <1>1, LeastStamp
<1>3. /\ DOMAIN base = DOMAIN Fresh /\ base.try = 1 /\ base.path = NoName /\ base.mode = "buffer" /\ base.whole = FALSE
      /\ last => base.at = "done" /\ base.i = me.i /\ base.left = {}
      /\ ~last => base.at = "lookup" /\ base.i \in me.left /\ base.left = me.left \ {base.i}
      /\ base.ok = me.ok /\ base.again = me.again /\ base.skipped = me.skipped /\ base.pass = me.pass
      /\ base.found = me.found \cup {<<me.i, f>> : f \in taken}
  BY <1>1, <1>2, FreshFields
<1>4. job' = [job EXCEPT ![j] = new]
  BY DEF Settle
<1>. HIDE DEF base
<1>5. /\ DOMAIN new = DOMAIN Fresh /\ new.at = base.at /\ new.i = base.i /\ new.left = base.left /\ new.try = base.try
      /\ new.path = base.path /\ new.mode = base.mode /\ new.whole = base.whole /\ new.pass = base.pass
      /\ new.found = base.found
      /\ new.ok = IF how = "ok" THEN me.ok \cup {me.i} ELSE me.ok
      /\ new.again = IF how = "again" THEN me.again \cup {me.i} ELSE me.again
      /\ new.skipped = IF how = "skipped" THEN me.skipped \cup {me.i} ELSE me.skipped
  <2>1. CASE how = "ok"
    BY <1>3, <2>1, FreshFields
  <2>2. CASE how = "again"
    BY <1>3, <2>2, FreshFields
  <2>3. CASE how = "skipped"
    BY <1>3, <2>3, FreshFields
  <2>. QED  BY <2>1, <2>2, <2>3
<1>. HIDE DEF new
<1>6. Going(new, n)
  <2>1. Going(me, n) /\ me.at \notin {"idle", "done"}
    BY <1>1 DEF JobSound, JobShape
  <2>. HIDE DEF n, me
  <2>2. /\ me.left = {} => new.at = "done"
        /\ me.left # {} => new.at = "lookup" /\ new.i \in me.left /\ new.left = me.left \ {new.i}
    BY <1>3, <1>5
  <2>. QED  BY <1>1, <1>5, <2>1, <2>2, SettlingGoes
<1>7. JobSound(new, j) /\ new.at \in {"done", "lookup"}
  <2>1. new.i \in 1..n /\ new.left \subseteq 1..n /\ new.again \subseteq 1..n
    BY <1>1, <1>3, <1>5 DEF JobSound, JobShape
  <2>. HIDE DEF me
  <2>2. new.at \in {"done", "lookup"} /\ new.at \in Steps
    BY <1>3, <1>5 DEF Steps
  <2>3. new.pass \in 1..Len(CallsOf[j])
    <3>1. me.pass \in 1..Len(CallsOf[j])
      BY <1>1 DEF JobSound, JobShape
    <3>. QED  BY <3>1, <1>3, <1>5
  <2>4. new.whole \in BOOLEAN
    BY <1>3, <1>5
  <2>5. /\ new.mode \in {"buffer", "stream"} /\ new.try \in 1..MaxTries
        /\ new.path[2] \in Nat /\ new.path = NoName /\ DOMAIN new = DOMAIN Fresh
    <3>1. new.path = NoName /\ NoName[2] \in Nat
      BY <1>1, <1>3, <1>5
    <3>2. new.mode = "buffer" /\ new.try = 1 /\ DOMAIN new = DOMAIN Fresh
      BY <1>3, <1>5
    <3>. QED  BY <1>1, <3>1, <3>2
  <2>. HIDE DEF n
  <2>. QED  BY <1>6, <2>1, <2>2, <2>3, <2>4, <2>5 DEF JobSound, JobShape, n
<1>. QED  BY <1>1, <1>3, <1>4, <1>5, <1>7 DEF MediumSettled, OnlyJob

LEMMA MoveMoves ==
  ASSUME MediaShape, NEW j \in Jobs, NEW at \in NamingSteps \cup {"path"}, Move(j, at),
         job[j].at \notin {"idle", "done"}, at = "path" => ~Naming(j)
  PROVE  JobGoesOn(j, at) /\ job'[j].mode = job[j].mode /\ job'[j].whole = job[j].whole
<1>1. /\ DOMAIN job' = Jobs /\ DOMAIN job'[j] = DOMAIN Fresh /\ job'[j].at = at /\ \A k \in Jobs \ {j} : job'[k] = job[k]
      /\ \A x \in DOMAIN Fresh \ {"at"} : job'[j][x] = job[j][x]
  BY DEF Move, MediaShape, JobSound, JobShape
<1>2. JobSound(job[j], j) /\ JobShape(job[j], Len(MediaOf[j]), Len(CallsOf[j]))
  BY DEF MediaShape, JobSound
<1>3. JobSound(job'[j], j)
  BY <1>1, <1>2, FreshFields, SoundStays DEF JobShape, Naming
<1>. QED  BY <1>1, <1>3, FreshFields DEF JobGoesOn, OnlyJob

LEMMA StreamAgainMoves ==
  ASSUME MediaShape, NEW j \in Jobs, StreamAgain(j), Naming(j)
  PROVE  JobGoesOn(j, "get") \/ MediumSettled(j, "again", {})
<1>1. CASE Settle(j, "again", {})
  BY <1>1, SettleSettles DEF Naming, NamingSteps
<1>2. CASE job' = [job EXCEPT ![j].at = "get", ![j].whole = FALSE,
                              ![j].try = IF job[j].try < MaxTries THEN @ + 1 ELSE 1,
                              ![j].mode = IF job[j].try < MaxTries THEN "stream" ELSE "buffer"]
  <2>1. /\ DOMAIN job' = Jobs /\ \A k \in Jobs \ {j} : job'[k] = job[k]
        /\ DOMAIN job'[j] = DOMAIN Fresh /\ job'[j].at = "get" /\ job'[j].whole = FALSE
        /\ job'[j].mode \in {"buffer", "stream"}
        /\ job'[j].try = IF job[j].try < MaxTries THEN job[j].try + 1 ELSE 1
        /\ \A x \in DOMAIN Fresh \ {"at", "whole", "try", "mode"} : job'[j][x] = job[j][x]
    BY <1>2, FreshFields DEF MediaShape, JobSound, JobShape
  <2>2. job'[j].try \in 1..MaxTries /\ job'[j].path[2] \in Nat
    <3>1. job[j].try \in 1..MaxTries /\ job[j].path[2] \in Nat /\ MaxTries \in Nat \ {0}
      BY MediaAssumption DEF MediaShape, JobSound, JobShape
    <3>2. job'[j].path = job[j].path
      BY <2>1, FreshFields
    <3>. QED  BY <2>1, <3>1, <3>2
  <2>3. JobSound(job'[j], j)
    <3>1. JobSound(job[j], j) /\ job[j].at \notin {"idle", "done"} /\ "get" \in NamingSteps
      BY DEF MediaShape, Naming, NamingSteps
    <3>. QED  BY <2>1, <2>2, <3>1, FreshFields, SoundStays
  <2>. QED  BY <2>1, <2>3, FreshFields DEF JobGoesOn, OnlyJob
<1>. QED  BY <1>1, <1>2 DEF StreamAgain

LEMMA BrokenMoves ==
  ASSUME MediaShape, NEW j \in Jobs, Broken(j), Naming(j)
  PROVE  JobGoesOn(j, "get") \/ MediumSettled(j, "again", {})
BY StreamAgainMoves, SettleSettles DEF Broken, Naming, NamingSteps

-----------------------------------------------------------------------------
(* The steps of a job that write nothing.                                  *)

\* A whole file stays, unless a job that may remove it had the name with another one.
WholeStay ==
  \A f \in DOMAIN files :
    files[f].whole => \/ f \in DOMAIN files' /\ files'[f] = files[f]
                      \/ /\ f \notin DOMAIN OldFiles
                         /\ \E j \in Jobs : job[j].path = f /\ job[j].i \in contested[j]

LEMMA MediaStarts == MediaInit => MediaInv
<1>. SUFFICES ASSUME MediaInit PROVE MediaInv
  OBVIOUS
<1>1. DOMAIN files = DOMAIN OldFiles /\ \A f \in DOMAIN files : files[f].whole = TRUE
  BY DEF MediaInit, Content
<1>2. /\ DOMAIN job = Jobs /\ \A j \in Jobs : job[j] = Fresh
      /\ reserved = [c \in Calls |-> {}] /\ contested = [j \in Jobs |-> {}]
      /\ temps = {} /\ slotLock = [s \in Slots |-> NoJob]
  BY DEF MediaInit
<1>3. MediaShape
  BY <1>1, <1>2, FreshSound, FS_EmptySet, MediaAssumption DEF MediaShape
<1>4. \A j \in Jobs : ~Naming(j) /\ job[j].at = "idle" /\ job[j].ok = {}
  BY <1>2, FreshSound DEF Naming, NamingSteps
<1>. QED  BY <1>1, <1>2, <1>3, <1>4
          DEF MediaInv, NamesReserved, NamesContested, NamesFree, TornFilesKnown, DownloadsRest, LocksTyped

\* A step that leaves the files alone and gives no name.
MediumQuiet(j) ==
  /\ UNCHANGED <<files, leftovers, reserved, contested>>
  /\ OnlyJob(j) /\ job[j].at # "verify" /\ job'[j].at # "verify"
  /\ Naming(j)' => /\ Naming(j) /\ job'[j].path = job[j].path /\ job'[j].i = job[j].i /\ job'[j].pass = job[j].pass
                   /\ job'[j].at = "rename" /\ job'[j].mode = "buffer" => job'[j].whole
  /\ job[j].found \subseteq job'[j].found
  /\ job'[j].ok \subseteq job[j].ok \cup FoundOf(j)'

LEMMA QuietKeeps ==
  ASSUME MediaInv, LocksTyped', NEW j \in Jobs, MediumQuiet(j)
  PROVE  MediaInv' /\ WholeStay
<1>. USE DEF MediaInv
<1>1. OnlyJob(j) /\ UNCHANGED <<files, leftovers, reserved, contested>>
  BY DEF MediumQuiet
<1>2. MediaShape'
  BY <1>1 DEF MediaShape, OnlyJob
<1>3. \A k \in Jobs : /\ Naming(k)' => /\ Naming(k) /\ job'[k].path = job[k].path /\ Call(k)' = Call(k)
                                       /\ job'[k].i = job[k].i /\ (Contested(k)' <=> Contested(k)) /\ Medium(k)' = Medium(k)
                      /\ job'[k].at = "verify" \/ job[k].at = "verify" => job'[k] = job[k]
                      /\ job'[k].at = "rename" /\ job'[k].mode = "buffer" => job'[k].whole
  <2>. TAKE k \in Jobs
  <2>1. CASE k # j
    BY <1>1, <2>1 DEF OnlyJob, Naming, Call, Contested, Medium, NamesFree
  <2>2. CASE k = j
    BY <1>1, <2>2 DEF MediumQuiet, Naming, NamingSteps, Call, Contested, Medium
  <2>. QED  BY <2>1, <2>2
<1>4. NamesReserved' /\ NamesContested'
  <2>1. NamesReserved'
    BY <1>1, <1>3 DEF NamesReserved
  <2>2. NamesContested'
    BY <1>3 DEF NamesContested
  <2>. QED  BY <2>1, <2>2
<1>5. NamesFree'
  <2>. SUFFICES ASSUME NEW k \in Jobs, Naming(k)', job'[k].path = job[k].path
                PROVE  /\ job'[k].path \notin DOMAIN OldFiles
                       /\ ~Contested(k)' =>
                            IF job'[k].at = "verify"
                            THEN /\ job'[k].path \in DOMAIN files
                                 /\ files[job'[k].path].whole = job'[k].whole
                                 /\ files[job'[k].path].of = Medium(k)'.id
                            ELSE job'[k].path \in DOMAIN files => ~files[job'[k].path].whole
    BY <1>1, <1>3 DEF NamesFree
  <2>1. Naming(k) /\ (Contested(k)' <=> Contested(k)) /\ Medium(k)' = Medium(k)
    BY <1>3
  <2>2. CASE job'[k].at = "verify" \/ job[k].at = "verify"
    BY <1>3, <2>1, <2>2 DEF NamesFree
  <2>3. CASE ~(job'[k].at = "verify" \/ job[k].at = "verify")
    BY <1>3, <2>1, <2>3 DEF NamesFree
  <2>. QED  BY <2>2, <2>3
<1>6. TornFilesKnown'
  BY <1>1, <1>3 DEF TornFilesKnown
<1>7. DownloadsRest'
  <2>. SUFFICES ASSUME NEW k \in Jobs, NEW i \in job'[k].ok \ (contested'[k] \cup FoundOf(k)')
                PROVE  \E f \in DOMAIN files' : /\ files'[f].of = MediaOf[k][i].id /\ files'[f].whole
                                                /\ \A h \in Jobs : Naming(h)' => job'[h].path # f
    BY DEF DownloadsRest
  <2>1. i \in job[k].ok \ (contested[k] \cup FoundOf(k))
    BY <1>1 DEF MediumQuiet, OnlyJob, FoundOf
  <2>. PICK f \in DOMAIN files : /\ files[f].of = MediaOf[k][i].id /\ files[f].whole
                                 /\ \A h \in Jobs : Naming(h) => job[h].path # f
    BY <2>1 DEF DownloadsRest
  <2>. QED  BY <1>1, <1>3
<1>. QED  BY <1>1, <1>2, <1>4, <1>5, <1>6, <1>7 DEF WholeStay

LEMMA BeginningIsQuiet ==
  ASSUME MediaShape, NEW j \in Jobs, Begin(j) \/ RetryMedia(j)
  PROVE  MediumQuiet(j)
<1>. DEFINE n == Len(MediaOf[j])
<1>0. UNCHANGED <<files, leftovers, reserved, contested>> /\ n \in Nat \ {0} /\ MaxTries \in Nat \ {0}
  BY MediaAssumption DEF Begin, RetryMedia, diskVars, lookupVars
<1>1. CASE Begin(j)
  <2>1. /\ DOMAIN job' = Jobs /\ \A k \in Jobs \ {j} : job'[k] = job[k]
        /\ DOMAIN job'[j] = DOMAIN Fresh /\ job'[j].at = "lookup" /\ job'[j].left = 2..n /\ job[j].at = "idle"
        /\ \A x \in DOMAIN Fresh \ {"at", "left"} : job'[j][x] = job[j][x]
    BY <1>1, FreshFields DEF Begin, MediaShape, JobSound, JobShape
  <2>2. JobShape(job[j], n, Len(CallsOf[j])) /\ Going(job[j], n)
    BY DEF MediaShape, JobSound, JobShape
  <2>3. Settlement(job[j]) = {} /\ job[j].i = 1 /\ (1..n) \ ({1} \cup (2..n)) = {}
    BY <1>0, <2>1, <2>2 DEF Going
  <2>. HIDE DEF n
  <2>4. /\ job'[j].ok = job[j].ok /\ job'[j].again = job[j].again /\ job'[j].skipped = job[j].skipped
        /\ job'[j].i = job[j].i /\ job'[j].found = job[j].found
    BY <2>1, FreshFields
  <2>5. Going(job'[j], n)
    BY <1>0, <2>1, <2>2, <2>3, <2>4 DEF Going, Settlement
  <2>6. JobSound(job'[j], j)
    BY <1>0, <2>1, <2>2, <2>5, FreshFields DEF JobSound, JobShape, Steps, NamingSteps, n
  <2>. QED  BY <1>0, <2>1, <2>4, <2>6 DEF MediumQuiet, OnlyJob, Naming, NamingSteps
<1>2. CASE RetryMedia(j)
  <2>. DEFINE S   == job[j].again
              new == [Fresh EXCEPT !.at = "lookup", !.i = Min(S), !.pass = job[j].pass + 1,
                                   !.left = S \ {Min(S)}, !.ok = job[j].ok,
                                   !.skipped = job[j].skipped, !.found = job[j].found]
  <2>1. /\ S # {} /\ S \subseteq 1..n /\ Settlement(job[j]) = 1..n /\ job[j].at = "done"
        /\ job[j].ok \cap S = {} /\ job[j].ok \cap job[j].skipped = {} /\ S \cap job[j].skipped = {}
        /\ job[j].pass + 1 \in 1..Len(CallsOf[j])
    BY <1>2, MediaAssumption DEF RetryMedia, MediaShape, JobSound, JobShape, Going
  <2>2. Min(S) \in S
    BY <1>0, <2>1, LeastStamp
  <2>3. /\ DOMAIN new = DOMAIN Fresh /\ new.at = "lookup" /\ new.i = Min(S) /\ new.left = S \ {Min(S)}
        /\ new.ok = job[j].ok /\ new.skipped = job[j].skipped /\ new.found = job[j].found /\ new.again = {}
        /\ new.pass = job[j].pass + 1 /\ new.path = NoName /\ new.mode = "buffer" /\ new.try = 1 /\ new.whole = FALSE
    BY DEF Fresh
  <2>4. job' = [job EXCEPT ![j] = new] /\ DOMAIN job = Jobs
    BY <1>2 DEF RetryMedia, MediaShape
  <2>. HIDE DEF new
  <2>. PICK m : m = Min(S)
    OBVIOUS
  <2>5. Settlement(new) = (1..n) \ ({m} \cup (S \ {m}))
    <3>1. Settlement(new) = Settlement(job[j]) \ S
      BY <2>1, <2>3 DEF Settlement
    <3>2. {m} \cup (S \ {m}) = S
      BY <2>2
    <3>. QED  BY <2>1, <3>1, <3>2
  <2>. HIDE DEF n, S
  <2>6. Going(new, n)
    BY <2>1, <2>3, <2>5 DEF Going
  <2>7. m \in 1..n /\ (S \ {m}) \subseteq 1..n
    BY <2>1, <2>2
  <2>8. JobSound(new, j)
    <3>1. new.at \in Steps /\ NoName[2] \in Nat /\ 1 \in 1..MaxTries
      BY <1>0, <2>3 DEF Steps, NoName, n
    <3>2. new.again \subseteq 1..n /\ new.i \in 1..n /\ new.left \subseteq 1..n
      BY <2>3, <2>7
    <3>. QED  BY <2>1, <2>3, <2>6, <3>1, <3>2 DEF JobSound, JobShape, n
  <2>. QED  BY <1>0, <2>1, <2>3, <2>4, <2>8 DEF MediumQuiet, OnlyJob, Naming, NamingSteps
<1>. QED  BY <1>1, <1>2

LEMMA GoingOnIsQuiet ==
  ASSUME NEW j \in Jobs, NEW at \in (NamingSteps \ {"verify"}) \cup {"path"}, JobGoesOn(j, at),
         UNCHANGED <<files, leftovers, reserved, contested>>, job[j].at # "verify",
         at # "path" => Naming(j), at = "rename" /\ job'[j].mode = "buffer" => job'[j].whole
  PROVE  MediumQuiet(j)
BY DEF JobGoesOn, MediumQuiet, Naming, NamingSteps

LEMMA SettlingIsQuiet ==
  ASSUME NEW j \in Jobs, NEW how \in {"again", "skipped"}, MediumSettled(j, how, {}),
         UNCHANGED <<files, leftovers, reserved, contested>>, job[j].at # "verify"
  PROVE  MediumQuiet(j)
BY DEF MediumSettled, MediumQuiet, Naming, NamingSteps

LEMMA LookingIsQuiet ==
  ASSUME MediaShape, NEW j \in Jobs, LookUp(j)
  PROVE  MediumQuiet(j)
<1>1. UNCHANGED <<files, leftovers, reserved, contested>> /\ job[j].at = "lookup" /\ ~Naming(j)
  BY DEF LookUp, diskVars, Naming, NamingSteps
<1>2. \/ Settle(j, "again", {})
      \/ Move(j, "path")
      \/ ExistingLegacyPath(j) # {} /\ Settle(j, "ok", ExistingLegacyPath(j))
  BY DEF LookUp
<1>3. CASE Settle(j, "again", {})
  <2>1. MediumSettled(j, "again", {})
    BY <1>1, <1>3, SettleSettles
  <2>. QED  BY <1>1, <2>1, SettlingIsQuiet
<1>4. CASE Move(j, "path")
  <2>1. JobGoesOn(j, "path")
    BY <1>1, <1>4, MoveMoves
  <2>. QED  BY <1>1, <2>1, GoingOnIsQuiet
<1>5. CASE ExistingLegacyPath(j) # {} /\ Settle(j, "ok", ExistingLegacyPath(j))
  <2>. PICK E : E = ExistingLegacyPath(j)
    OBVIOUS
  <2>1. MediumSettled(j, "ok", E) /\ E # {}
    BY <1>1, <1>5, SettleSettles
  <2>2. PICK f : f \in E
    BY <2>1
  <2>3. <<job[j].i, f>> \in job'[j].found
    BY <2>1, <2>2 DEF MediumSettled
  <2>4. job[j].i \in FoundOf(j)'
    BY <2>3 DEF FoundOf
  <2>. QED  BY <1>1, <2>1, <2>4 DEF MediumSettled, MediumQuiet, Naming, NamingSteps
<1>. QED  BY <1>2, <1>3, <1>4, <1>5

LEMMA FetchingIsQuiet ==
  ASSUME MediaShape, NEW j \in Jobs, Head_(j) \/ Get(j) \/ LockPath(j) \/ Copy(j)
  PROVE  MediumQuiet(j)
<1>0. /\ UNCHANGED <<files, leftovers, reserved, contested>> /\ Naming(j)
      /\ job[j].at \in {"head", "get", "lock", "copy"}
  BY DEF Head_, Get, LockPath, Copy, diskVars, lookupVars, Naming, NamingSteps
<1>1. ASSUME Broken(j) \/ Settle(j, "skipped", {}) PROVE MediumQuiet(j)
  <2>1. JobGoesOn(j, "get") \/ MediumSettled(j, "again", {}) \/ MediumSettled(j, "skipped", {})
    BY <1>0, <1>1, BrokenMoves, SettleSettles
  <2>. QED  BY <1>0, <2>1, GoingOnIsQuiet, SettlingIsQuiet DEF NamingSteps
<1>2. CASE Head_(j)
  <2>. PICK mode \in {"buffer", "stream"} : job' = [job EXCEPT ![j].at = "get", ![j].mode = mode]
    BY <1>2 DEF Head_
  <2>1. /\ DOMAIN job' = Jobs /\ \A k \in Jobs \ {j} : job'[k] = job[k]
        /\ DOMAIN job'[j] = DOMAIN Fresh /\ job'[j].at = "get" /\ job'[j].mode = mode
        /\ \A x \in DOMAIN Fresh \ {"at", "mode"} : job'[j][x] = job[j][x]
    BY FreshFields DEF MediaShape, JobSound, JobShape
  <2>2. JobSound(job'[j], j)
    <3>1. /\ JobSound(job[j], j) /\ JobShape(job[j], Len(MediaOf[j]), Len(CallsOf[j]))
          /\ job[j].at \notin {"idle", "done"} /\ "get" \in NamingSteps
      BY <1>0 DEF MediaShape, JobSound, NamingSteps
    <3>. QED  BY <2>1, <3>1, FreshFields, SoundStays DEF JobShape
  <2>3. JobGoesOn(j, "get")
    BY <2>1, <2>2, FreshFields DEF JobGoesOn, OnlyJob
  <2>. QED  BY <1>0, <2>3, GoingOnIsQuiet DEF NamingSteps
<1>3. CASE Get(j)
  <2>1. Broken(j) \/ Settle(j, "skipped", {}) \/ Move(j, "lock")
    BY <1>3 DEF Get
  <2>2. CASE Move(j, "lock")
    <3>1. JobGoesOn(j, "lock")
      BY <1>0, <2>2, MoveMoves DEF NamingSteps
    <3>. QED  BY <1>0, <3>1, GoingOnIsQuiet DEF NamingSteps
  <2>. QED  BY <1>1, <2>1, <2>2
<1>4. CASE LockPath(j)
  <2>1. JobGoesOn(j, "copy")
    BY <1>0, <1>4, MoveMoves DEF LockPath, NamingSteps
  <2>. QED  BY <1>0, <2>1, GoingOnIsQuiet DEF NamingSteps
<1>5. CASE Copy(j)
  <2>1. CASE job' = [job EXCEPT ![j].at = "rename", ![j].whole = TRUE]
    <3>1. /\ DOMAIN job' = Jobs /\ \A k \in Jobs \ {j} : job'[k] = job[k]
          /\ DOMAIN job'[j] = DOMAIN Fresh /\ job'[j].at = "rename" /\ job'[j].whole = TRUE
          /\ \A x \in DOMAIN Fresh \ {"at", "whole"} : job'[j][x] = job[j][x]
      BY <2>1, FreshFields DEF MediaShape, JobSound, JobShape
    <3>2. JobSound(job'[j], j)
      <4>1. /\ JobSound(job[j], j) /\ JobShape(job[j], Len(MediaOf[j]), Len(CallsOf[j]))
            /\ job[j].at \notin {"idle", "done"} /\ "rename" \in NamingSteps
        BY <1>0 DEF MediaShape, JobSound, NamingSteps
      <4>. QED  BY <3>1, <4>1, FreshFields, SoundStays DEF JobShape
    <3>3. JobGoesOn(j, "rename")
      BY <3>1, <3>2, FreshFields DEF JobGoesOn, OnlyJob
    <3>. QED  BY <1>0, <3>1, <3>3, GoingOnIsQuiet DEF NamingSteps
  <2>2. CASE job[j].mode = "stream" /\ Move(j, "rename")
    <3>1. JobGoesOn(j, "rename") /\ job'[j].mode = "stream"
      BY <1>0, <2>2, MoveMoves DEF NamingSteps
    <3>. QED  BY <1>0, <3>1, GoingOnIsQuiet DEF NamingSteps
  <2>3. CASE Broken(j)
    BY <1>1, <2>3
  <2>. QED  BY <1>5, <2>1, <2>2, <2>3 DEF Copy
<1>. QED  BY <1>2, <1>3, <1>4, <1>5


-----------------------------------------------------------------------------
(* The step that gives a name.                                             *)

LEMMA FirstFreeIsFree ==
  ASSUME NEW taken, IsFiniteSet(taken), NEW j \in Jobs
  PROVE  FirstFree(j, taken)[2] \in Nat /\ FirstFree(j, taken) \notin taken
<1>. PICK base : base = Medium(j).base
  OBVIOUS
<1>. DEFINE c    == Cardinality(taken)
            Free == {k \in 0..c : <<base, k>> \notin taken}
            Fits(k) == <<base, k>> \notin taken /\ \A l \in 0..(k - 1) : ~(<<base, l>> \notin taken)
<1>1. c \in Nat
  BY FS_CardinalityType
<1>2. Free # {}
  <2>1. SUFFICES ASSUME Free = {} PROVE FALSE
    OBVIOUS
  <2>. DEFINE f == [k \in 0..c |-> <<base, k>>]
  <2>2. f \in [0..c -> taken] /\ \A x, y \in 0..c : f[x] = f[y] => x = y
    BY <2>1
  <2>3. IsFiniteSet(0..c) /\ Cardinality(0..c) = c + 1
    <3>. HIDE DEF c
    <3>. QED  BY <1>1, FS_Interval
  <2>. HIDE DEF f
  <2>. QED  BY <1>1, <2>2, <2>3, FS_PigeonHole
<1>3. Free \subseteq Nat
  BY <1>1
<1>. PICK m \in Free : \A x \in Free : m <= x
  <2>. HIDE DEF Free
  <2>. QED  BY <1>2, <1>3, LeastStamp
<1>4. Fits(m)
  <2>. SUFFICES ASSUME NEW l \in 0..(m - 1) PROVE <<base, l>> \in taken
    OBVIOUS
  <2>1. l \in 0..c /\ l < m
    BY <1>1
  <2>. QED  BY <2>1
<1>5. \E k \in 0..c : Fits(k)
  BY <1>4
<1>6. (CHOOSE k \in 0..c : Fits(k)) \in 0..c /\ Fits(CHOOSE k \in 0..c : Fits(k))
  <2>. HIDE DEF Fits, c
  <2>. QED  BY <1>5
<1>7. FirstFree(j, taken) = <<base, CHOOSE k \in 0..c : Fits(k)>>
  BY DEF FirstFree
<1>. PICK n : n = CHOOSE k \in 0..c : Fits(k)
  OBVIOUS
<1>. QED  BY <1>1, <1>6, <1>7

LEMMA NamingKeeps ==
  ASSUME MediaInv, LocksTyped', NEW j \in Jobs, UniquePath(j)
  PROVE  MediaInv' /\ WholeStay
<1>. USE DEF MediaInv
<1>. PICK c : c = Call(j)
  OBVIOUS
<1>. PICK p : p = FirstFree(j, DOMAIN files \cup reserved[c])
  OBVIOUS
<1>. PICK others : others = {k \in Jobs \ {j} : job[k].path = p}
  OBVIOUS
<1>1. /\ JobSound(job[j], j) /\ JobShape(job[j], Len(MediaOf[j]), Len(CallsOf[j])) /\ DOMAIN job = Jobs
      /\ c \in Calls /\ IsFiniteSet(DOMAIN files) /\ IsFiniteSet(reserved[c])
  <2>1. JobSound(job[j], j) /\ JobShape(job[j], Len(MediaOf[j]), Len(CallsOf[j])) /\ DOMAIN job = Jobs
    BY DEF MediaShape, JobSound
  <2>2. c \in Calls
    BY <2>1 DEF JobShape, Call, Calls
  <2>. QED  BY <2>1, <2>2 DEF MediaShape
<1>2. p[2] \in Nat /\ p \notin DOMAIN files /\ p \notin reserved[c]
  <2>1. IsFiniteSet(DOMAIN files \cup reserved[c])
    BY <1>1, FS_Union
  <2>. QED  BY <2>1, FirstFreeIsFree
<1>3. /\ job[j].at = "path" /\ job' = [job EXCEPT ![j].at = "head", ![j].path = p]
      /\ reserved' = IF c \in Resolving THEN [reserved EXCEPT ![c] = @ \cup {p}] ELSE reserved
      /\ contested' = [k \in Jobs |-> IF k = j /\ others = {} THEN contested[k] \ {job[k].i}
                                      ELSE IF k \in others \cup {j} THEN contested[k] \cup {job[k].i}
                                      ELSE contested[k]]
      /\ files' = files /\ leftovers' = leftovers
  BY DEF UniquePath, GiveName, diskVars
<1>4. /\ DOMAIN job' = Jobs /\ \A k \in Jobs \ {j} : job'[k] = job[k]
      /\ DOMAIN job'[j] = DOMAIN Fresh /\ job'[j].at = "head" /\ job'[j].path = p
      /\ \A x \in DOMAIN Fresh \ {"at", "path"} : job'[j][x] = job[j][x]
  BY <1>1, <1>3, FreshFields DEF JobShape
<1>5. /\ job'[j].i = job[j].i /\ job'[j].pass = job[j].pass /\ job'[j].ok = job[j].ok /\ job'[j].found = job[j].found
      /\ job'[j].left = job[j].left /\ job'[j].again = job[j].again /\ job'[j].skipped = job[j].skipped
      /\ job'[j].mode = job[j].mode /\ job'[j].whole = job[j].whole /\ job'[j].try = job[j].try
  BY <1>4, FreshFields
<1>6. OnlyJob(j)
  <2>1. /\ "head" \in NamingSteps /\ job[j].at \notin {"idle", "done"} /\ job'[j].at # "path"
        /\ job[j].mode \in {"buffer", "stream"} /\ job[j].whole \in BOOLEAN /\ job[j].try \in 1..MaxTries
    BY <1>1, <1>3, <1>4 DEF NamingSteps, JobShape
  <2>2. JobSound(job'[j], j)
    BY <1>1, <1>2, <1>4, <1>5, <2>1, SoundStays
  <2>. QED  BY <1>4, <2>2 DEF OnlyJob
<1>7. \A k \in Jobs \ {j} : job'[k] = job[k] /\ (Naming(k)' <=> Naming(k)) /\ Call(k)' = Call(k) /\ Medium(k)' = Medium(k)
  BY <1>4 DEF Naming, Call, Medium
<1>8. ~Naming(j) /\ Naming(j)' /\ Call(j)' = c /\ Medium(j)' = Medium(j)
  BY <1>3, <1>4, <1>5 DEF Naming, NamingSteps, Call, Medium
<1>9. /\ \A k \in Jobs \ {j} : contested[k] \subseteq contested'[k]
      /\ \A k \in others : job[k].i \in contested'[k]
      /\ others # {} => job[j].i \in contested'[j]
      /\ contested[j] \subseteq contested'[j] \cup {job[j].i}
  BY <1>3
<1>10. /\ \A x \in DOMAIN reserved : reserved[x] \subseteq reserved'[x]
       /\ c \in Resolving => p \in reserved'[c]
       /\ DOMAIN reserved' = Calls /\ \A x \in Calls : IsFiniteSet(reserved'[x])
  <2>1. DOMAIN reserved = Calls /\ \A x \in Calls : IsFiniteSet(reserved[x])
    BY DEF MediaShape
  <2>2. IsFiniteSet(reserved[c] \cup {p})
    BY <1>1, FS_AddElement
  <2>. QED  BY <1>1, <1>3, <2>1, <2>2
<1>11. MediaShape'
  BY <1>3, <1>6, <1>10 DEF MediaShape, OnlyJob
<1>12. NamesReserved'
  <2>. SUFFICES ASSUME NEW k \in Jobs, Naming(k)', Call(k)' \in Resolving PROVE job'[k].path \in reserved'[Call(k)']
    BY DEF NamesReserved
  <2>1. CASE k = j
    BY <1>4, <1>8, <1>10, <2>1
  <2>2. CASE k # j
    <3>1. job[k].path \in reserved[Call(k)] /\ Call(k) \in DOMAIN reserved
      <4>1. Call(k) \in Calls
        BY DEF MediaShape, JobSound, JobShape, Call, Calls
      <4>. QED  BY <1>7, <2>2, <4>1 DEF NamesReserved, MediaShape
    <3>. QED  BY <1>7, <1>10, <2>2, <3>1
  <2>. QED  BY <2>1, <2>2
<1>13. ASSUME NEW k \in others, Naming(k)
       PROVE  /\ Contested(j)' /\ Contested(k)' /\ Call(k)' = Call(k) /\ Call(j)' = c
              /\ c # Call(k) \/ c \notin Resolving
  <2>1. k \in Jobs /\ k # j /\ job[k].path = p
    BY <1>13
  <2>2. Contested(j)' /\ Contested(k)'
    BY <1>5, <1>7, <1>9, <1>13, <2>1 DEF Contested
  <2>3. c # Call(k) \/ c \notin Resolving
    BY <1>2, <1>13, <2>1 DEF NamesReserved
  <2>. QED  BY <1>7, <1>8, <2>1, <2>2, <2>3
<1>14. NamesContested'
  <2>. SUFFICES ASSUME NEW x \in Jobs, NEW k \in Jobs, x # k, Naming(x)', Naming(k)', job'[x].path = job'[k].path
                PROVE  Contested(x)' /\ (Call(x)' # Call(k)' \/ Call(x)' \notin Resolving)
    BY DEF NamesContested
  <2>1. CASE x = j
    <3>1. k \in others /\ Naming(k)
      BY <1>4, <1>7, <2>1
    <3>. QED  BY <1>13, <2>1, <3>1
  <2>2. CASE k = j
    <3>1. x \in others /\ Naming(x)
      BY <1>4, <1>7, <2>2
    <3>. QED  BY <1>13, <2>2, <3>1
  <2>3. CASE x # j /\ k # j
    <3>1. Contested(x) /\ (Call(x) # Call(k) \/ Call(x) \notin Resolving)
      BY <1>7, <2>3 DEF NamesContested
    <3>. QED  BY <1>7, <1>9, <2>3, <3>1 DEF Contested
  <2>. QED  BY <2>1, <2>2, <2>3
<1>15. NamesFree'
  <2>. SUFFICES ASSUME NEW k \in Jobs
                PROVE  /\ Naming(k)' => job'[k].path \notin DOMAIN OldFiles
                       /\ job'[k].at = "rename" /\ job'[k].mode = "buffer" => job'[k].whole
                       /\ Naming(k)' /\ ~Contested(k)' =>
                            IF job'[k].at = "verify"
                            THEN /\ job'[k].path \in DOMAIN files
                                 /\ files[job'[k].path].whole = job'[k].whole
                                 /\ files[job'[k].path].of = Medium(k)'.id
                            ELSE job'[k].path \in DOMAIN files => ~files[job'[k].path].whole
    BY <1>3 DEF NamesFree
  <2>1. CASE k = j
    <3>1. DOMAIN OldFiles \subseteq DOMAIN files
      BY DEF MediaShape
    <3>. QED  BY <1>2, <1>4, <2>1, <3>1
  <2>2. CASE k # j
    <3>1. job'[k] = job[k] /\ (Naming(k)' <=> Naming(k)) /\ Medium(k)' = Medium(k) /\ (Contested(k) => Contested(k)')
      BY <1>7, <1>9, <2>2 DEF Contested
    <3>. QED  BY <3>1 DEF NamesFree
  <2>. QED  BY <2>1, <2>2
<1>16. TornFilesKnown'
  <2>. SUFFICES ASSUME NEW f \in DOMAIN files
                PROVE  \/ files[f].whole \/ f \in leftovers
                       \/ \E k \in Jobs : job'[k].at = "verify" /\ job'[k].path = f /\ ~job'[k].whole
    BY <1>3 DEF TornFilesKnown
  <2>1. ASSUME NEW k \in Jobs, job[k].at = "verify" PROVE job'[k] = job[k]
    BY <1>3, <1>7, <2>1
  <2>. QED  BY <2>1 DEF TornFilesKnown
<1>17. DownloadsRest'
  <2>. SUFFICES ASSUME NEW k \in Jobs, NEW i \in job'[k].ok \ (contested'[k] \cup FoundOf(k)')
                PROVE  \E f \in DOMAIN files' : /\ files'[f].of = MediaOf[k][i].id /\ files'[f].whole
                                                /\ \A h \in Jobs : Naming(h)' => job'[h].path # f
    BY DEF DownloadsRest
  <2>1. job[j].i \notin job[j].ok
    BY <1>1, <1>3 DEF JobShape, Going, Settlement
  <2>2. i \in job[k].ok /\ i \notin FoundOf(k) /\ i \notin contested[k]
    <3>1. CASE k = j
      BY <1>5, <1>9, <2>1, <3>1 DEF FoundOf
    <3>2. CASE k # j
      BY <1>7, <1>9, <3>2 DEF FoundOf
    <3>. QED  BY <3>1, <3>2
  <2>. PICK f \in DOMAIN files : /\ files[f].of = MediaOf[k][i].id /\ files[f].whole
                                 /\ \A h \in Jobs : Naming(h) => job[h].path # f
    BY <2>2 DEF DownloadsRest
  <2>3. f # p
    BY <1>2
  <2>4. ASSUME NEW h \in Jobs, Naming(h)' PROVE job'[h].path # f
    BY <1>4, <1>7, <2>3, <2>4
  <2>. QED  BY <1>3, <2>4
<1>18. WholeStay
  BY <1>3 DEF WholeStay
<1>. QED  BY <1>11, <1>12, <1>14, <1>15, <1>16, <1>17, <1>18

-----------------------------------------------------------------------------
(* The steps that write and remove.                                        *)

\* Job j changes the file of its name, and what it then counts as downloaded is there.
MediumWrites(j) ==
  LET p == job[j].path
  IN  /\ Naming(j) /\ OnlyJob(j) /\ UNCHANGED <<reserved, contested>>
      /\ IsFiniteSet(DOMAIN files') /\ leftovers \ {p} \subseteq leftovers'
      /\ \A f : f # p => (f \in DOMAIN files' <=> f \in DOMAIN files) /\ (f \in DOMAIN files => files'[f] = files[f])
      /\ p \in DOMAIN files' =>
           /\ files'[p].whole \in BOOLEAN
           /\ \/ files'[p].whole \/ p \in leftovers'
              \/ job'[j].at = "verify" /\ job'[j].path = p /\ ~job'[j].whole
              \/ \E k \in Jobs \ {j} : job[k].at = "verify" /\ job[k].path = p /\ ~job[k].whole
      /\ Naming(j)' => /\ job'[j].path = p /\ job'[j].i = job[j].i /\ job'[j].pass = job[j].pass
                       /\ job'[j].at # "rename"
                       /\ ~Contested(j) =>
                            IF job'[j].at = "verify"
                            THEN p \in DOMAIN files' /\ files'[p].whole = job'[j].whole /\ files'[p].of = Medium(j).id
                            ELSE p \in DOMAIN files' => ~files'[p].whole
      /\ job'[j].at # "rename" /\ job'[j].found = job[j].found
      /\ \/ job'[j].ok = job[j].ok
         \/ /\ job'[j].ok = job[j].ok \cup {job[j].i} /\ ~Naming(j)'
            /\ Contested(j) \/ (p \in DOMAIN files' /\ files'[p].of = Medium(j).id /\ files'[p].whole)
      /\ Contested(j) \/ p \notin DOMAIN files \/ ~files[p].whole
           \/ (p \in DOMAIN files' /\ files'[p] = files[p])

LEMMA WritesKeep ==
  ASSUME MediaInv, LocksTyped', NEW j \in Jobs, MediumWrites(j)
  PROVE  MediaInv' /\ WholeStay
<1>. USE DEF MediaInv
<1>. PICK p : p = job[j].path
  OBVIOUS
<1>1. /\ Naming(j) /\ OnlyJob(j) /\ UNCHANGED <<reserved, contested>>
      /\ \A f : f # p => (f \in DOMAIN files' <=> f \in DOMAIN files) /\ (f \in DOMAIN files => files'[f] = files[f])
  BY DEF MediumWrites
<1>2. p \notin DOMAIN OldFiles /\ p[2] \in Nat
  BY <1>1 DEF NamesFree, MediaShape, JobSound, JobShape
<1>3. MediaShape'
  <2>1. DOMAIN OldFiles \subseteq DOMAIN files'
    BY <1>1, <1>2 DEF MediaShape
  <2>2. \A f \in DOMAIN files' : files'[f].whole \in BOOLEAN /\ f[2] \in Nat
    <3>. TAKE f \in DOMAIN files'
    <3>1. CASE f = p
      BY <1>2, <3>1 DEF MediumWrites
    <3>2. CASE f # p
      <4>1. f \in DOMAIN files /\ files'[f] = files[f]
        BY <1>1, <3>2
      <4>. QED  BY <4>1 DEF MediaShape
    <3>. QED  BY <3>1, <3>2
  <2>3. IsFiniteSet(DOMAIN files')
    BY DEF MediumWrites
  <2>4. DOMAIN job' = Jobs /\ \A k \in Jobs : JobSound(job'[k], k)
    BY <1>1 DEF OnlyJob, MediaShape
  <2>. QED  BY <1>1, <2>1, <2>2, <2>3, <2>4 DEF MediaShape
<1>4. \A k \in Jobs : Naming(k)' => /\ Naming(k) /\ job'[k].path = job[k].path /\ Call(k)' = Call(k)
                                    /\ job'[k].i = job[k].i /\ (Contested(k)' <=> Contested(k)) /\ Medium(k)' = Medium(k)
  <2>. TAKE k \in Jobs
  <2>1. CASE k # j
    BY <1>1, <2>1 DEF OnlyJob, Naming, Call, Contested, Medium
  <2>2. CASE k = j
    BY <1>1, <2>2 DEF MediumWrites, Call, Contested, Medium
  <2>. QED  BY <2>1, <2>2
<1>5. NamesReserved' /\ NamesContested'
  <2>1. NamesReserved'
    BY <1>1, <1>4 DEF NamesReserved
  <2>2. NamesContested'
    BY <1>4 DEF NamesContested
  <2>. QED  BY <2>1, <2>2
<1>6. \A k \in Jobs \ {j} : Naming(k) /\ job[k].path = p => Contested(k) /\ Contested(j)
  BY <1>1 DEF NamesContested
<1>7. NamesFree'
  <2>. SUFFICES ASSUME NEW k \in Jobs
                PROVE  /\ Naming(k)' => job'[k].path \notin DOMAIN OldFiles
                       /\ job'[k].at = "rename" /\ job'[k].mode = "buffer" => job'[k].whole
                       /\ Naming(k)' /\ ~Contested(k)' =>
                            IF job'[k].at = "verify"
                            THEN /\ job'[k].path \in DOMAIN files'
                                 /\ files'[job'[k].path].whole = job'[k].whole
                                 /\ files'[job'[k].path].of = Medium(k)'.id
                            ELSE job'[k].path \in DOMAIN files' => ~files'[job'[k].path].whole
    BY DEF NamesFree
  <2>1. CASE k = j
    <3>1. Naming(j)' => job'[j].path = p /\ (Contested(j)' <=> Contested(j)) /\ Medium(j)' = Medium(j)
      BY <1>4
    <3>2. Naming(j)' /\ ~Contested(j) =>
            IF job'[j].at = "verify"
            THEN p \in DOMAIN files' /\ files'[p].whole = job'[j].whole /\ files'[p].of = Medium(j).id
            ELSE p \in DOMAIN files' => ~files'[p].whole
      BY DEF MediumWrites
    <3>3. job'[j].at # "rename"
      BY DEF MediumWrites
    <3>. QED  BY <1>2, <2>1, <3>1, <3>2, <3>3
  <2>2. CASE k # j
    <3>1. job'[k] = job[k] /\ (Naming(k)' <=> Naming(k))
      BY <1>1, <2>2 DEF OnlyJob, Naming
    <3>2. /\ Naming(k) => job[k].path \notin DOMAIN OldFiles
          /\ job[k].at = "rename" /\ job[k].mode = "buffer" => job[k].whole
      BY DEF NamesFree
    <3>3. ASSUME Naming(k), ~Contested(k)'
          PROVE  IF job[k].at = "verify"
                 THEN /\ job[k].path \in DOMAIN files' /\ files'[job[k].path].whole = job[k].whole
                      /\ files'[job[k].path].of = Medium(k)'.id
                 ELSE job[k].path \in DOMAIN files' => ~files'[job[k].path].whole
      <4>1. ~Contested(k) /\ Medium(k)' = Medium(k) /\ job[k].path # p
        BY <1>4, <1>6, <2>2, <3>1, <3>3
      <4>2. IF job[k].at = "verify"
            THEN /\ job[k].path \in DOMAIN files /\ files[job[k].path].whole = job[k].whole
                 /\ files[job[k].path].of = Medium(k).id
            ELSE job[k].path \in DOMAIN files => ~files[job[k].path].whole
        BY <3>3, <4>1 DEF NamesFree
      <4>. QED  BY <1>1, <4>1, <4>2
    <3>. QED  BY <3>1, <3>2, <3>3
  <2>. QED  BY <2>1, <2>2
<1>8. TornFilesKnown'
  <2>. SUFFICES ASSUME NEW f \in DOMAIN files'
                PROVE  \/ files'[f].whole \/ f \in leftovers'
                       \/ \E k \in Jobs : job'[k].at = "verify" /\ job'[k].path = f /\ ~job'[k].whole
    BY DEF TornFilesKnown
  <2>1. CASE f = p
    <3>1. \A k \in Jobs \ {j} : job'[k] = job[k]
      BY <1>1 DEF OnlyJob
    <3>. QED  BY <2>1, <3>1 DEF MediumWrites
  <2>2. CASE f # p
    <3>1. f \in DOMAIN files /\ files'[f] = files[f] /\ (f \in leftovers => f \in leftovers')
      BY <1>1, <2>2 DEF MediumWrites
    <3>2. ASSUME NEW k \in Jobs, job[k].path = f PROVE job'[k] = job[k]
      BY <1>1, <2>2, <3>2 DEF OnlyJob
    <3>. QED  BY <3>1, <3>2 DEF TornFilesKnown
  <2>. QED  BY <2>1, <2>2
<1>9. DownloadsRest'
  <2>. SUFFICES ASSUME NEW k \in Jobs, NEW i \in job'[k].ok \ (contested'[k] \cup FoundOf(k)')
                PROVE  \E f \in DOMAIN files' : /\ files'[f].of = MediaOf[k][i].id /\ files'[f].whole
                                                /\ \A h \in Jobs : Naming(h)' => job'[h].path # f
    BY DEF DownloadsRest
  <2>0. FoundOf(k)' = FoundOf(k)
    BY <1>1 DEF MediumWrites, OnlyJob, FoundOf
  <2>1. CASE i \in job[k].ok
    <3>. PICK f \in DOMAIN files : /\ files[f].of = MediaOf[k][i].id /\ files[f].whole
                                   /\ \A h \in Jobs : Naming(h) => job[h].path # f
      BY <1>1, <2>0, <2>1 DEF DownloadsRest
    <3>1. f \in DOMAIN files' /\ files'[f] = files[f]
      BY <1>1
    <3>2. ASSUME NEW h \in Jobs, Naming(h)' PROVE job'[h].path # f
      BY <1>4, <3>2
    <3>. QED  BY <3>1, <3>2
  <2>2. CASE i \notin job[k].ok
    <3>1. /\ k = j /\ i = job[j].i /\ ~Naming(j)'
          /\ Contested(j) \/ (p \in DOMAIN files' /\ files'[p].of = Medium(j).id /\ files'[p].whole)
      BY <1>1, <2>2 DEF MediumWrites, OnlyJob
    <3>2. ~Contested(j)
      BY <1>1, <3>1 DEF Contested
    <3>3. p \in DOMAIN files' /\ files'[p].of = MediaOf[k][i].id /\ files'[p].whole
      BY <3>1, <3>2 DEF Medium
    <3>4. ASSUME NEW h \in Jobs, Naming(h)' PROVE job'[h].path # p
      BY <1>4, <1>6, <3>1, <3>2, <3>4
    <3>. QED  BY <3>3, <3>4
  <2>. QED  BY <2>1, <2>2
<1>10. WholeStay
  <2>. SUFFICES ASSUME NEW f \in DOMAIN files, files[f].whole
                PROVE  \/ f \in DOMAIN files' /\ files'[f] = files[f]
                       \/ /\ f \notin DOMAIN OldFiles
                          /\ \E k \in Jobs : job[k].path = f /\ job[k].i \in contested[k]
    BY DEF WholeStay
  <2>1. CASE f = p
    BY <1>2, <2>1 DEF MediumWrites, Contested
  <2>2. CASE f # p
    BY <1>1, <2>2
  <2>. QED  BY <2>1, <2>2
<1>. QED  BY <1>3, <1>5, <1>7, <1>8, <1>9, <1>10

LEMMA RenameWrites == ASSUME MediaInv, NEW j \in Jobs, Rename(j) PROVE MediumWrites(j)
<1>. USE DEF MediaInv
<1>. DEFINE c == Content(Medium(j).id, j, job[j].whole)
<1>. PICK p : p = job[j].path
  OBVIOUS
<1>1. /\ job[j].at = "rename" /\ Naming(j) /\ UNCHANGED <<reserved, contested>> /\ leftovers' = leftovers \ {p}
      /\ files' = [g \in DOMAIN files \cup {p} |-> IF g = p THEN c ELSE files[g]]
      /\ IF job[j].mode = "stream" THEN Move(j, "verify") ELSE Settle(j, "ok", {})
  BY DEF Rename, With, Naming, NamingSteps, lookupVars
<1>2. c.whole = job[j].whole /\ c.of = Medium(j).id /\ job[j].whole \in BOOLEAN /\ (job[j].mode = "stream" \/ job[j].whole)
  <2>1. job[j].whole \in BOOLEAN /\ (job[j].mode = "stream" \/ job[j].whole)
    BY <1>1 DEF MediaShape, JobSound, JobShape, NamesFree
  <2>. QED  BY <2>1 DEF Content
<1>. HIDE DEF c
<1>3. /\ DOMAIN files' = DOMAIN files \cup {p} /\ files'[p].whole = job[j].whole /\ files'[p].of = Medium(j).id
      /\ \A g \in DOMAIN files \ {p} : files'[g] = files[g]
  BY <1>1, <1>2
<1>4. IsFiniteSet(DOMAIN files')
  <2>1. IsFiniteSet(DOMAIN files)
    BY DEF MediaShape
  <2>. QED  BY <1>3, <2>1, FS_AddElement
<1>5. ~Contested(j) /\ p \in DOMAIN files => ~files[p].whole
  BY <1>1 DEF NamesFree
<1>6. CASE job[j].mode = "stream"
  <2>1. JobGoesOn(j, "verify") /\ job'[j].whole = job[j].whole
    BY <1>1, <1>6, MoveMoves DEF NamingSteps
  <2>. QED  BY <1>1, <1>2, <1>3, <1>4, <1>5, <2>1 DEF JobGoesOn, MediumWrites
<1>7. CASE job[j].mode # "stream"
  <2>1. MediumSettled(j, "ok", {}) /\ job[j].whole
    BY <1>1, <1>2, <1>7, SettleSettles
  <2>2. ~Naming(j)' /\ OnlyJob(j) /\ job'[j].ok = job[j].ok \cup {job[j].i} /\ job'[j].found = job[j].found /\ job'[j].at # "rename"
    BY <2>1 DEF MediumSettled, Naming, NamingSteps
  <2>. QED  BY <1>1, <1>2, <1>3, <1>4, <1>5, <2>1, <2>2 DEF MediumWrites
<1>. QED  BY <1>6, <1>7

LEMMA VerifyWrites == ASSUME MediaInv, NEW j \in Jobs, Verify(j) PROVE MediumWrites(j)
<1>. USE DEF MediaInv
<1>. PICK p : p = job[j].path
  OBVIOUS
<1>1. /\ job[j].at = "verify" /\ Naming(j) /\ UNCHANGED <<reserved, contested>>
      /\ ~Contested(j) => p \in DOMAIN files /\ files[p].whole = job[j].whole /\ files[p].of = Medium(j).id
      /\ \A f \in DOMAIN files : files[f].whole \in BOOLEAN
  BY DEF Verify, Naming, NamingSteps, NamesFree, MediaShape, lookupVars
<1>2. CASE job[j].whole /\ Settle(j, "ok", {}) /\ UNCHANGED <<files, leftovers>>
  <2>1. MediumSettled(j, "ok", {})
    BY <1>1, <1>2, SettleSettles
  <2>2. ~Naming(j)' /\ OnlyJob(j) /\ job'[j].ok = job[j].ok \cup {job[j].i} /\ job'[j].found = job[j].found /\ job'[j].at # "rename"
    BY <2>1 DEF MediumSettled, Naming, NamingSteps
  <2>3. \/ p \notin DOMAIN files \/ files[p].whole \/ p \in leftovers
        \/ \E k \in Jobs \ {j} : job[k].at = "verify" /\ job[k].path = p /\ ~job[k].whole
    BY <1>2 DEF TornFilesKnown
  <2>4. IsFiniteSet(DOMAIN files)
    BY DEF MediaShape
  <2>. QED  BY <1>1, <1>2, <2>2, <2>3, <2>4 DEF MediumWrites
<1>3. CASE /\ ~job[j].whole /\ StreamAgain(j)
           /\ (files' = Without(p) /\ leftovers' = leftovers) \/ (files' = files /\ leftovers' = leftovers \cup {p})
  <2>1. JobGoesOn(j, "get") \/ MediumSettled(j, "again", {})
    BY <1>1, <1>3, StreamAgainMoves
  <2>2. /\ OnlyJob(j) /\ job'[j].at \notin {"verify", "rename"} /\ job'[j].found = job[j].found /\ job'[j].ok = job[j].ok
        /\ Naming(j)' => job'[j].path = p /\ job'[j].i = job[j].i /\ job'[j].pass = job[j].pass
    BY <2>1 DEF JobGoesOn, MediumSettled, Naming, NamingSteps
  <2>3. /\ DOMAIN files' \subseteq DOMAIN files /\ \A g \in DOMAIN files' : files'[g] = files[g]
        /\ DOMAIN files \ DOMAIN files' \subseteq {p} /\ leftovers \subseteq leftovers'
        /\ p \in DOMAIN files' => p \in leftovers'
    BY <1>3 DEF Without
  <2>4. IsFiniteSet(DOMAIN files')
    BY <2>3, FS_Subset DEF MediaShape
  <2>. QED  BY <1>1, <1>3, <2>2, <2>3, <2>4 DEF MediumWrites
<1>. QED  BY <1>2, <1>3 DEF Verify

-----------------------------------------------------------------------------
(* All steps.                                                              *)

LEMMA MediaCrashKeeps == ASSUME MediaInv, LocksTyped', CrashMedia PROVE MediaInv' /\ WholeStay
<1>. USE DEF MediaInv
<1>1. /\ DOMAIN job' = Jobs /\ \A j \in Jobs : job'[j] = Fresh
      /\ files' = files /\ leftovers' = leftovers \cup {f \in DOMAIN files : ~files[f].whole}
      /\ reserved' = [c \in Calls |-> {}] /\ contested' = [j \in Jobs |-> {}]
  BY DEF CrashMedia
<1>2. MediaShape'
  BY <1>1, FreshSound, FS_EmptySet DEF MediaShape
<1>3. \A j \in Jobs : ~Naming(j)' /\ job'[j].at = "idle" /\ job'[j].ok = {}
  BY <1>1, FreshSound DEF Naming, NamingSteps
<1>4. NamesReserved' /\ NamesContested' /\ NamesFree' /\ DownloadsRest'
  BY <1>3 DEF NamesReserved, NamesContested, NamesFree, DownloadsRest
<1>5. TornFilesKnown' /\ WholeStay
  BY <1>1 DEF TornFilesKnown, WholeStay
<1>. QED  BY <1>2, <1>4, <1>5

LEMMA LocksStayTyped == ASSUME LocksTyped, [MediaNext]_mediaVars PROVE LocksTyped'
<1>1. ASSUME NEW j \in Jobs, MediaStep(j) PROVE LocksTyped'
  <2>1. CASE UNCHANGED <<temps, slotLock>>
    BY <2>1 DEF LocksTyped
  <2>2. CASE temps' = temps \cup {j} /\ slotLock' = [slotLock EXCEPT ![Slot(j)] = j]
    BY <2>2 DEF LocksTyped
  <2>3. CASE temps' = temps \ {j} /\ slotLock' = [slotLock EXCEPT ![Slot(j)] = NoJob]
    BY <2>3 DEF LocksTyped
  <2>4. CASE Begin(j) \/ RetryMedia(j) \/ LookUp(j) \/ UniquePath(j) \/ Head_(j) \/ Get(j) \/ Verify(j)
    BY <2>1, <2>4 DEF Begin, RetryMedia, LookUp, UniquePath, Head_, Get, Verify, diskVars
  <2>5. CASE LockPath(j)
    BY <2>2, <2>5 DEF LockPath
  <2>6. CASE Copy(j) \/ Rename(j)
    BY <2>1, <2>3, <2>6 DEF Copy, Rename
  <2>. QED  BY <1>1, <2>4, <2>5, <2>6 DEF MediaStep
<1>2. CASE CrashMedia
  <2>1. (temps' = {} \/ temps' = {Orphan}) /\ slotLock' = [s \in Slots |-> NoJob]
    BY <1>2 DEF CrashMedia
  <2>. QED  BY <2>1 DEF LocksTyped
<1>3. CASE UNCHANGED mediaVars
  BY <1>3 DEF mediaVars, diskVars, LocksTyped
<1>. QED  BY <1>1, <1>2, <1>3 DEF MediaNext

LEMMA MediaStepKeeps == ASSUME MediaInv, [MediaNext]_mediaVars PROVE MediaInv' /\ WholeStay
<1>0. LocksTyped'
  BY LocksStayTyped DEF MediaInv
<1>1. ASSUME NEW j \in Jobs, Begin(j) \/ RetryMedia(j) \/ LookUp(j) \/ Head_(j) \/ Get(j) \/ LockPath(j) \/ Copy(j)
      PROVE  MediaInv' /\ WholeStay
  <2>1. MediumQuiet(j)
    BY <1>1, BeginningIsQuiet, LookingIsQuiet, FetchingIsQuiet DEF MediaInv
  <2>. QED  BY <1>0, <2>1, QuietKeeps
<1>2. ASSUME NEW j \in Jobs, UniquePath(j) PROVE MediaInv' /\ WholeStay
  BY <1>0, <1>2, NamingKeeps
<1>3. ASSUME NEW j \in Jobs, Rename(j) \/ Verify(j) PROVE MediaInv' /\ WholeStay
  BY <1>0, <1>3, RenameWrites, VerifyWrites, WritesKeep
<1>4. CASE CrashMedia
  BY <1>0, <1>4, MediaCrashKeeps
<1>5. CASE UNCHANGED mediaVars
  BY <1>5 DEF mediaVars, diskVars, lookupVars, MediaInv, MediaShape, NamesReserved, NamesContested, NamesFree,
              TornFilesKnown, DownloadsRest, LocksTyped, Naming, Contested, Call, Medium, FoundOf, WholeStay
<1>. QED  BY <1>1, <1>2, <1>3, <1>4, <1>5 DEF MediaNext, MediaStep

-----------------------------------------------------------------------------
(* What the files promise.                                                 *)

LEMMA MediaPromisesFollow == ASSUME MediaInv PROVE DownloadedIsThere /\ OneResolverOneName /\ TornFilesAreTaken
<1>. USE DEF MediaInv
<1>1. DownloadedIsThere
  BY DEF DownloadsRest, DownloadedIsThere, FoundOf
<1>2. OneResolverOneName
  <2>1. \A j \in Jobs : job[j].path # NoName => Naming(j)
    BY DEF MediaShape, JobSound, JobShape, Naming
  <2>. QED  BY <2>1 DEF NamesContested, OneResolverOneName
<1>3. TornFilesAreTaken
  BY DEF TornFilesKnown, TornFilesAreTaken
<1>. QED  BY <1>1, <1>2, <1>3

(* The media, their files and the jobs have their types, and what is settled is so in one way.    *)
LEMMA MediaTypesFollow == ASSUME MediaInv PROVE MediaTypeOK
<1>1. /\ \A f \in DOMAIN files : files[f].whole \in BOOLEAN /\ f[2] \in Nat
      /\ temps \subseteq Jobs \cup {Orphan} /\ \A s \in Slots : slotLock[s] \in Jobs \cup {NoJob}
  BY DEF MediaInv, MediaShape, LocksTyped
<1>2. ASSUME NEW j \in Jobs
      PROVE  /\ job[j].at \in Steps /\ job[j].try \in 1..MaxTries
             /\ job[j].ok \cap (job[j].again \cup job[j].skipped) = {}
             /\ job[j].at = "done" => job[j].ok \cup job[j].again \cup job[j].skipped = 1..Len(MediaOf[j])
  BY DEF MediaInv, MediaShape, JobSound, JobShape, Going, Settlement
<1>. QED  BY <1>1, <1>2 DEF MediaTypeOK

LEMMA MediaStaysInv == MediaSpec => []MediaInv
<1>1. MediaInit => MediaInv
  BY MediaStarts
<1>2. MediaInv /\ [MediaNext]_mediaVars => MediaInv'
  BY MediaStepKeeps
<1>. QED  BY <1>1, <1>2, PTL DEF MediaSpec

(* A file under its final name is whole, or about to be verified, or was left by a crash or a      *)
(* failed removal: streams that came short never stay, even where two calls gave one name.       *)
THEOREM TornFilesAreKnown == MediaSpec => []TornFilesAreTaken
<1>1. MediaInv => TornFilesAreTaken
  BY MediaPromisesFollow
<1>. QED  BY <1>1, MediaStaysInv, PTL

(* No download replaces or removes a whole file that earlier releases left, or that has a name     *)
(* which no other call gave meanwhile, whichever attempts fail and wherever the process ends.    *)
THEOREM FilesStay == MediaSpec => WholeFilesStay
<1>1. MediaInv /\ [MediaNext]_mediaVars => [WholeStay]_mediaVars
  BY MediaStepKeeps
<1>. QED  BY <1>1, MediaStaysInv, PTL DEF MediaSpec, WholeFilesStay, WholeStay

(* Of the jobs of one call that has a resolver, no two are ever given one name at a time.          *)
THEOREM ResolversGiveOneName == MediaSpec => []OneResolverOneName
<1>1. MediaInv => OneResolverOneName
  BY MediaPromisesFollow
<1>. QED  BY <1>1, MediaStaysInv, PTL

(* A medium that was downloaded, under a name that no other call gave meanwhile, is on disk and    *)
(* whole, whichever attempts fail or come short, of it or of others.                             *)
THEOREM DownloadsAreThere == MediaSpec => []DownloadedIsThere
<1>1. MediaInv => DownloadedIsThere
  BY MediaPromisesFollow
<1>. QED  BY <1>1, MediaStaysInv, PTL

-----------------------------------------------------------------------------
(* The versions of a profile's file: what is inductive.                    *)

VersionsShape ==
  /\ Times \subseteq Nat /\ IsFiniteSet(Times) /\ clock \in Nat
  /\ DOMAIN update = DOMAIN NoWriting
  /\ update.at \in {"idle", "reserve", "copy", "prune", "replace", "discard"}
  /\ update.at # "idle" => update.new \in Contents
  /\ current \in Contents \cup {Nothing, TornVersion}

\* From the reservation of a version to the rename there is a version for the write, and from the
\* copy on it holds the content that is to be replaced.
Backed ==
  /\ update.at = "copy" => update.backup \in Times /\ versions[update.backup] = Nothing
  /\ update.at = "prune" \/ (update.at = "replace" /\ current \in Contents)
       => update.backup \in Times /\ versions[update.backup] = current
  /\ update.at = "discard" => current = TornVersion

VersionsInv == VersionsShape /\ Backed

-----------------------------------------------------------------------------
(* The operators of the versions.                                          *)

(* A finite set of numbers has its first k.                                                      *)
LEMMA FirstOnes ==
  ASSUME NEW T, T \subseteq Nat, IsFiniteSet(T), NEW k \in 0..Cardinality(T)
  PROVE  \E S \in SUBSET T : Cardinality(S) = k /\ \A s \in S, t \in T \ S : s < t
<1>. DEFINE First(n) == \E S \in SUBSET T : Cardinality(S) = n /\ \A s \in S, t \in T \ S : s < t
            Bad      == {n \in 0..Cardinality(T) : ~First(n)}
<1>1. Cardinality(T) \in Nat /\ Bad \subseteq Nat
  BY FS_CardinalityType
<1>2. SUFFICES ASSUME Bad # {} PROVE FALSE
  OBVIOUS
<1>. PICK m \in Bad : \A n \in Bad : m <= n
  <2>. HIDE DEF Bad
  <2>. QED  BY <1>1, <1>2, LeastStamp
<1>3. First(0)
  BY FS_EmptySet
<1>4. m # 0 /\ m \in 1..Cardinality(T)
  BY <1>1, <1>3
<1>5. First(m - 1)
  <2>1. m - 1 \notin Bad /\ m - 1 \in 0..Cardinality(T)
    BY <1>1, <1>4
  <2>. QED  BY <2>1
<1>. PICK S \in SUBSET T : Cardinality(S) = m - 1 /\ \A s \in S, t \in T \ S : s < t
  BY <1>5
<1>6. IsFiniteSet(S) /\ T \ S # {}
  <2>1. IsFiniteSet(S)
    BY FS_Subset
  <2>2. T # S
    BY <1>1, <1>4
  <2>. QED  BY <2>1, <2>2
<1>. PICK x \in T \ S : \A t \in T \ S : x <= t
  BY <1>6, LeastStamp
<1>7. Cardinality(S \cup {x}) = m
  <2>1. Cardinality(S \cup {x}) = Cardinality(S) + 1
    BY <1>6, FS_AddElement
  <2>2. Cardinality(S) = m - 1 /\ m \in Nat
    BY <1>1
  <2>. QED  BY <2>1, <2>2
<1>8. \A s \in S \cup {x}, t \in T \ (S \cup {x}) : s < t
  <2>. SUFFICES ASSUME NEW s \in S \cup {x}, NEW t \in T \ (S \cup {x}) PROVE s < t
    OBVIOUS
  <2>1. CASE s = x
    <3>1. x <= t /\ x # t /\ x \in Nat /\ t \in Nat
      OBVIOUS
    <3>. QED  BY <2>1, <3>1
  <2>2. CASE s # x
    BY <2>2
  <2>. QED  BY <2>1, <2>2
<1>9. First(m)
  <2>1. S \cup {x} \in SUBSET T
    OBVIOUS
  <2>. QED  BY <1>7, <1>8, <2>1
<1>. QED  BY <1>9

(* Of too many versions the stale ones are among the others, and no more than there are too many. *)
LEMMA StaleOnes ==
  ASSUME VersionsShape
  PROVE  /\ Stale \subseteq Times \ {update.backup} /\ IsFiniteSet(Stale) /\ Cardinality(Times) \in Nat
         /\ Stale # {} => Cardinality(Stale) <= Cardinality(Times) - VersionLimit
         /\ VersionLimit > 0 /\ Cardinality(Times) > VersionLimit
              => Cardinality(Stale) = Cardinality(Times) - VersionLimit
<1>. DEFINE others == Times \ {update.backup}
            n      == Cardinality(Times) - VersionLimit
            k      == Min({n, Cardinality(others)})
            Fits(S) == Cardinality(S) = k /\ \A s \in S, t \in others \ S : s < t
<1>1. Times \subseteq Nat /\ IsFiniteSet(Times) /\ Cardinality(Times) \in Nat /\ VersionLimit \in Nat
  BY FS_CardinalityType, ProfileFilesAssumption DEF VersionsShape
<1>2. others \subseteq Nat /\ IsFiniteSet(others) /\ Cardinality(others) \in Nat
  <2>1. IsFiniteSet(others)
    BY <1>1, FS_Subset
  <2>. QED  BY <1>1, <2>1, FS_CardinalityType
<1>3. CASE VersionLimit = 0 \/ n <= 0
  <2>1. Stale = {}
    BY <1>3, Zenon DEF Stale
  <2>. QED  BY <1>1, <1>3, <2>1, FS_EmptySet
<1>4. CASE ~(VersionLimit = 0 \/ n <= 0)
  <2>1. Stale = CHOOSE S \in SUBSET others : Fits(S)
    BY <1>4, Zenon DEF Stale
  <2>2. n \in Nat
    BY <1>1, <1>4
  <2>3. k \in {n, Cardinality(others)} /\ k <= n /\ k <= Cardinality(others)
    <3>. HIDE DEF n, others
    <3>1. {n, Cardinality(others)} \subseteq Nat
      BY <1>2, <2>2
    <3>. QED  BY <3>1, LeastStamp
  <2>4. k \in 0..Cardinality(others)
    <3>. HIDE DEF n, others, k
    <3>. QED  BY <1>2, <2>2, <2>3
  <2>5. \E S \in SUBSET others : Fits(S)
    <3>. HIDE DEF others, k
    <3>. QED  BY <1>2, <2>4, FirstOnes
  <2>6. Stale \in SUBSET others /\ Cardinality(Stale) = k
    <3>. HIDE DEF others, k
    <3>. QED  BY <2>1, <2>5
  <2>7. IsFiniteSet(Stale)
    BY <1>2, <2>6, FS_Subset
  <2>8. k = n
    <3>1. Cardinality(others) \in {Cardinality(Times), Cardinality(Times) - 1}
      BY <1>1, FS_RemoveElement
    <3>2. n <= Cardinality(others)
      <4>. HIDE DEF others
      <4>. QED  BY <1>1, <1>4, <3>1
    <3>. HIDE DEF n, others
    <3>. QED  BY <1>2, <2>2, <2>3, <3>2
  <2>. QED  BY <1>1, <2>3, <2>6, <2>7, <2>8
<1>. QED  BY <1>3, <1>4

(* reserveVersionPath finds a time from now on that no version has.                               *)
LEMMA FreeTime ==
  ASSUME VersionsShape
  PROVE  LET t == CHOOSE s \in clock..(clock + Cardinality(Times)) : s \notin Times /\ \A r \in clock..(s - 1) : r \in Times
         IN  t \in Nat /\ t \notin Times
<1>. DEFINE c     == Cardinality(Times)
            Tries == clock..(clock + c)
            Free_ == {s \in Tries : s \notin Times}
            Fits(s) == s \notin Times /\ \A r \in clock..(s - 1) : r \in Times
<1>1. clock \in Nat /\ IsFiniteSet(Times) /\ c \in Nat
  BY FS_CardinalityType DEF VersionsShape
<1>2. Free_ # {}
  <2>1. SUFFICES ASSUME Tries \subseteq Times PROVE FALSE
    OBVIOUS
  <2>2. Cardinality(Tries) = c + 1
    <3>. HIDE DEF c
    <3>. QED  BY <1>1, FS_Interval
  <2>3. Cardinality(Tries) <= c
    BY <1>1, <2>1, FS_Subset
  <2>. QED  BY <1>1, <2>2, <2>3
<1>3. Free_ \subseteq Nat
  BY <1>1
<1>. PICK m \in Free_ : \A s \in Free_ : m <= s
  <2>. HIDE DEF Free_
  <2>. QED  BY <1>2, <1>3, LeastStamp
<1>4. Fits(m)
  <2>. SUFFICES ASSUME NEW r \in clock..(m - 1) PROVE r \in Times
    OBVIOUS
  <2>1. r \in Tries /\ r < m /\ m \in Nat /\ r \in Nat
    BY <1>1
  <2>. QED  BY <2>1
<1>5. \E s \in Tries : Fits(s)
  BY <1>4
<1>. QED  BY <1>1, <1>5

-----------------------------------------------------------------------------
(* The steps of a write.                                                   *)

\* What ContentsAreKept says of a step.
Keeps ==
  /\ current # current' /\ current \in Contents => \E t \in DOMAIN versions' : versions'[t] = current
  /\ \A t \in Times \ DOMAIN versions' :
       \/ versions[t] = Nothing
       \/ t # update.backup /\ Cardinality(DOMAIN versions') >= VersionLimit

LEMMA VersionsStart == PFInit => VersionsInv
<1>. SUFFICES ASSUME PFInit PROVE VersionsInv
  OBVIOUS
<1>1. Times = {}
  BY DEF PFInit, Times
<1>. QED  BY <1>1, FS_EmptySet DEF PFInit, VersionsInv, VersionsShape, Backed, NoWriting

LEMMA WritingFields == DOMAIN NoWriting = {"at", "new", "stream", "backup", "whole"}
BY DEF NoWriting

(* Steps that leave the versions alone.                                                          *)
LEMMA VersionsAlone ==
  ASSUME VersionsInv, Tick \/ BeginWrite \/ Replace \/ Discard \/ CrashWrite \/ UNCHANGED profileFileVars
  PROVE  VersionsInv' /\ Keeps
<1>. USE WritingFields, ProfileFilesAssumption DEF VersionsInv
<1>1. versions' = versions /\ Times' = Times
  BY DEF Tick, BeginWrite, Replace, Discard, CrashWrite, profileFileVars, Times
<1>2. Nothing \notin Contents /\ TornVersion \notin Contents /\ Nothing # TornVersion
  BY DEF Nothing, TornVersion
<1>3. CASE Tick \/ UNCHANGED profileFileVars
  BY <1>1, <1>3 DEF Tick, profileFileVars, VersionsShape, Backed, Keeps, Times
<1>4. CASE BeginWrite
  <2>1. /\ UNCHANGED <<current, clock>> /\ DOMAIN update' = DOMAIN NoWriting
        /\ update'.at \in {"idle", "reserve", "replace"} /\ (update'.at # "idle" => update'.new \in Contents)
        /\ update'.at = "replace" => current = Nothing
    <3>. PICK new \in Contents, stream \in BOOLEAN :
           update' = IF new = current THEN NoWriting
                     ELSE [NoWriting EXCEPT !.at = IF current = Nothing THEN "replace" ELSE "reserve", !.new = new, !.stream = stream]
      BY <1>4 DEF BeginWrite
    <3>1. CASE new = current
      BY <1>4, <3>1 DEF BeginWrite, NoWriting
    <3>2. CASE new # current
      BY <1>4, <3>2 DEF BeginWrite, NoWriting
    <3>. QED  BY <3>1, <3>2
  <2>. QED  BY <1>1, <1>2, <2>1 DEF VersionsShape, Backed, Keeps, Times
<1>5. CASE Replace
  <2>1. update.at = "replace" /\ clock' = clock /\ (current \in Contents => update.backup \in Times /\ versions[update.backup] = current)
    BY <1>5 DEF Replace, Backed
  <2>2. Keeps
    BY <1>1, <2>1 DEF Keeps, Times
  <2>3. CASE update' = NoWriting
    <3>1. current' \in Contents \cup {Nothing, TornVersion}
      BY <1>5, <2>3 DEF Replace, VersionsShape, NoWriting
    <3>. QED  BY <1>1, <2>1, <2>2, <2>3, <3>1 DEF VersionsShape, Backed, NoWriting
  <2>4. CASE current' = TornVersion /\ update' = [update EXCEPT !.at = "discard", !.whole = FALSE]
    BY <1>1, <2>1, <2>2, <2>4 DEF VersionsShape, Backed
  <2>. QED  BY <1>5, <2>3, <2>4 DEF Replace
<1>6. CASE Discard
  <2>1. /\ update.at = "discard" /\ current = TornVersion /\ current' = Nothing /\ clock' = clock
        /\ update' = [update EXCEPT !.at = "replace", !.whole = TRUE]
    BY <1>6 DEF Discard, Backed
  <2>. QED  BY <1>1, <1>2, <2>1 DEF VersionsShape, Backed, Keeps, Times
<1>7. CASE CrashWrite
  BY <1>1, <1>7 DEF CrashWrite, VersionsShape, Backed, Keeps, NoWriting, Times
<1>. QED  BY <1>3, <1>4, <1>5, <1>6, <1>7

LEMMA ReserveKeeps == ASSUME VersionsInv, Reserve PROVE VersionsInv' /\ Keeps
<1>. USE WritingFields DEF VersionsInv
<1>. DEFINE n == CHOOSE s \in clock..(clock + Cardinality(Times)) : s \notin Times /\ \A r \in clock..(s - 1) : r \in Times
<1>. PICK t : t = n
  OBVIOUS
<1>1. t \in Nat /\ t \notin Times
  BY FreeTime
<1>. HIDE DEF n
<1>2. /\ update.at = "reserve" /\ UNCHANGED <<current, clock>>
      /\ versions' = WithVersion(t, Nothing) /\ update' = [update EXCEPT !.at = "copy", !.backup = t]
  BY DEF Reserve, n
<1>3. Times' = Times \cup {t} /\ versions'[t] = Nothing
  BY <1>2 DEF WithVersion, Times
<1>4. VersionsShape'
  BY <1>1, <1>2, <1>3, FS_AddElement DEF VersionsShape
<1>5. Backed'
  BY <1>2, <1>3 DEF Backed, VersionsShape
<1>. QED  BY <1>2, <1>3, <1>4, <1>5 DEF Keeps, Times

LEMMA VersionCopyKeeps == ASSUME VersionsInv, CopyVersion PROVE VersionsInv' /\ Keeps
<1>. USE WritingFields DEF VersionsInv
<1>1. update.at = "copy" /\ UNCHANGED <<current, clock>> /\ update.backup \in Times /\ versions[update.backup] = Nothing
  BY DEF CopyVersion, Backed
<1>2. CASE versions' = WithVersion(update.backup, current) /\ Step("prune")
  <2>1. Times' = Times /\ versions'[update.backup] = current
    BY <1>1, <1>2 DEF WithVersion, Times
  <2>2. DOMAIN update' = DOMAIN NoWriting /\ update'.at = "prune" /\ update'.backup = update.backup /\ update'.new \in Contents
    BY <1>1, <1>2 DEF Step, VersionsShape
  <2>. QED  BY <1>1, <2>1, <2>2 DEF VersionsShape, Backed, Keeps, Times
<1>3. CASE versions' = WithoutTimes({update.backup}) /\ update' = NoWriting
  <2>1. Times' = Times \ {update.backup}
    BY <1>3 DEF WithoutTimes, Times
  <2>2. IsFiniteSet(Times')
    BY <2>1, FS_Subset DEF VersionsShape
  <2>. QED  BY <1>1, <1>3, <2>1, <2>2 DEF VersionsShape, Backed, Keeps, Times, NoWriting
<1>. QED  BY <1>2, <1>3 DEF CopyVersion

LEMMA PruneKeeps == ASSUME VersionsInv, Prune PROVE VersionsInv' /\ Keeps
<1>. USE WritingFields DEF VersionsInv
<1>1. PICK S \in SUBSET Stale :
        /\ versions' = WithoutTimes(S)
        /\ IF update.backup \in S THEN update' = NoWriting ELSE Step("replace")
  BY DEF Prune
<1>2. update.at = "prune" /\ UNCHANGED <<current, clock>> /\ update.backup \in Times /\ versions[update.backup] = current
  BY DEF Prune, Backed
<1>3. /\ S \subseteq Times /\ update.backup \notin S /\ IsFiniteSet(S) /\ IsFiniteSet(Stale)
      /\ Cardinality(Times) \in Nat /\ VersionLimit \in Nat
      /\ Stale # {} => Cardinality(Stale) <= Cardinality(Times) - VersionLimit
  BY StaleOnes, FS_Subset, ProfileFilesAssumption
<1>4. Times' = Times \ S /\ versions'[update.backup] = current
  BY <1>1, <1>2, <1>3 DEF WithoutTimes, Times
<1>5. DOMAIN update' = DOMAIN NoWriting /\ update'.at = "replace" /\ update'.backup = update.backup /\ update'.new \in Contents
  BY <1>1, <1>2, <1>3 DEF Step, VersionsShape
<1>6. IsFiniteSet(Times')
  BY <1>4, FS_Subset DEF VersionsShape
<1>7. VersionsInv'
  BY <1>2, <1>3, <1>4, <1>5, <1>6 DEF VersionsShape, Backed
<1>8. ASSUME S # {} PROVE Cardinality(Times') >= VersionLimit
  <2>1. Cardinality(S) <= Cardinality(Stale) /\ Cardinality(S) \in Nat /\ Cardinality(Stale) \in Nat
    BY <1>3, FS_Subset, FS_CardinalityType
  <2>2. Cardinality(Times \ S) = Cardinality(Times) - Cardinality(S)
    <3>1. IsFiniteSet(Times) /\ Times \cap S = S
      BY <1>3 DEF VersionsShape
    <3>. QED  BY <1>3, <3>1, FS_Difference
  <2>. QED  BY <1>3, <1>4, <1>8, <2>1, <2>2
<1>. QED  BY <1>2, <1>3, <1>4, <1>7, <1>8 DEF Keeps, Times

LEMMA VersionsStep == ASSUME VersionsInv, [PFNext]_profileFileVars PROVE VersionsInv' /\ Keeps
BY VersionsAlone, ReserveKeeps, VersionCopyKeeps, PruneKeeps DEF PFNext, PFWrite

(* A content that the file has had is kept as a version when another one takes its place, and a   *)
(* version goes only when there are more than the limit, whichever step fails.                   *)
THEOREM VersionsKeepContents == PFSpec => ContentsAreKept
<1>1. PFInit => VersionsInv
  BY VersionsStart
<1>2. VersionsInv /\ [PFNext]_profileFileVars => VersionsInv'
  BY VersionsStep
<1>3. VersionsInv /\ [PFNext]_profileFileVars => [Keeps]_profileFileVars
  BY VersionsStep
<1>. QED  BY <1>1, <1>2, <1>3, PTL DEF PFSpec, ContentsAreKept, Keeps
-----------------------------------------------------------------------------
(* The versions: how many there are, and their types.                      *)

\* Every version has a content, and there is one more than the limit only while it is being
\* written, or because one could not be removed or a crash left it.
Excused == Cardinality(spoiled \cap {"remove", "crash"})
VersionsCounted ==
  /\ \A t \in Times : versions[t] \in Contents \cup {Nothing, TornVersion}
  /\ VersionLimit > 0 =>
       Cardinality(Times) <= VersionLimit + Excused + IF update.at \in {"copy", "prune"} THEN 1 ELSE 0

(* What goes wrong is remembered.                                                                *)
LEMMA ExcusesGrow ==
  /\ Excused \in Nat
  /\ (spoiled' = spoiled => Excused' = Excused)
  /\ \A what : Goes(what) => /\ Excused' \in Nat /\ Excused' >= Excused
                             /\ what \in {"remove", "crash"} => Excused' = Excused + 1
<1>. DEFINE Kinds == {"remove", "crash"}
<1>1. IsFiniteSet(Kinds)
  <2>1. IsFiniteSet({"crash"}) /\ Kinds = {"crash"} \cup {"remove"}
    BY FS_Singleton
  <2>. QED  BY <2>1, FS_AddElement
<1>2. IsFiniteSet(spoiled \cap Kinds) /\ Excused \in Nat
  <2>1. spoiled \cap Kinds \subseteq Kinds
    OBVIOUS
  <2>2. IsFiniteSet(spoiled \cap Kinds)
    <3>. HIDE DEF Kinds
    <3>. QED  BY <1>1, <2>1, FS_Subset
  <2>. QED  BY <2>2, FS_CardinalityType DEF Excused
<1>3. ASSUME NEW what, Goes(what)
      PROVE  /\ Excused' \in Nat /\ Excused' >= Excused
             /\ what \in Kinds => Excused' = Excused + 1
  <2>1. what \notin spoiled /\ spoiled' = spoiled \cup {what}
    BY <1>3 DEF Goes
  <2>2. CASE what \in Kinds
    <3>1. spoiled' \cap Kinds = (spoiled \cap Kinds) \cup {what} /\ what \notin spoiled \cap Kinds
      BY <2>1, <2>2
    <3>2. Cardinality(spoiled' \cap Kinds) = Cardinality(spoiled \cap Kinds) + 1
      <4>. HIDE DEF Kinds
      <4>. QED  BY <1>2, <3>1, FS_AddElement
    <3>. QED  BY <1>2, <3>2 DEF Excused
  <2>3. CASE what \notin Kinds
    <3>1. spoiled' \cap Kinds = spoiled \cap Kinds
      BY <2>1, <2>3
    <3>. QED  BY <1>2, <2>3, <3>1 DEF Excused
  <2>. QED  BY <2>2, <2>3
<1>. QED  BY <1>2, <1>3 DEF Excused

\* The limit and the number of versions are numbers.
LEMMA LimitIsNat == ASSUME VersionsInv PROVE VersionLimit \in Nat /\ IsFiniteSet(Times) /\ Cardinality(Times) \in Nat
BY ProfileFilesAssumption, FS_CardinalityType DEF VersionsInv, VersionsShape

(* No step of a write makes one version too many, unless it fails to remove one or crashes.       *)
LEMMA VersionsStayCounted ==
  ASSUME VersionsInv, VersionsCounted, [PFNext]_profileFileVars
  PROVE  VersionsCounted'
<1>. USE WritingFields DEF VersionsInv
<1>1. VersionLimit \in Nat /\ IsFiniteSet(Times) /\ Cardinality(Times) \in Nat /\ VersionLimit' = VersionLimit
  BY LimitIsNat
<1>2. Excused \in Nat /\ DOMAIN update = DOMAIN NoWriting
  BY ExcusesGrow DEF VersionsShape
<1>3. ASSUME UNCHANGED versions,
             \/ update'.at \in {"copy", "prune"} <=> update.at \in {"copy", "prune"}
             \/ update.at \notin {"copy", "prune"}
             \/ Goes("crash"),
             spoiled' = spoiled \/ \E what : Goes(what)
      PROVE  VersionsCounted'
  <2>1. Times' = Times /\ Excused' \in Nat /\ Excused' >= Excused
    BY <1>2, <1>3, ExcusesGrow DEF Times
  <2>2. Goes("crash") => Excused' = Excused + 1
    BY ExcusesGrow
  <2>. QED  BY <1>1, <1>2, <1>3, <2>1, <2>2 DEF VersionsCounted
<1>4. CASE Tick
  <2>1. UNCHANGED <<versions, update>> /\ (spoiled' = spoiled \/ Goes("back"))
    BY <1>4 DEF Tick
  <2>. QED  BY <1>3, <2>1
<1>5. CASE BeginWrite
  <2>1. UNCHANGED <<versions, spoiled>> /\ update.at = "idle"
    BY <1>5 DEF BeginWrite
  <2>. QED  BY <1>3, <2>1
<1>6. CASE Replace
  <2>1. UNCHANGED versions /\ update.at = "replace" /\ (spoiled' = spoiled \/ Goes("write") \/ Goes("size"))
    BY <1>6 DEF Replace
  <2>. QED  BY <1>3, <2>1
<1>7. CASE Discard
  <2>1. UNCHANGED <<versions, spoiled>> /\ update.at = "discard"
    BY <1>7 DEF Discard
  <2>. QED  BY <1>3, <2>1
<1>8. CASE CrashWrite
  <2>1. UNCHANGED versions /\ Goes("crash")
    BY <1>8 DEF CrashWrite
  <2>. QED  BY <1>3, <2>1
<1>9. CASE Reserve
  <2>. DEFINE n == CHOOSE s \in clock..(clock + Cardinality(Times)) : s \notin Times /\ \A r \in clock..(s - 1) : r \in Times
  <2>. PICK t : t = n
    OBVIOUS
  <2>1. t \notin Times
    BY FreeTime
  <2>. HIDE DEF n
  <2>2. /\ update.at = "reserve" /\ UNCHANGED spoiled
        /\ versions' = WithVersion(t, Nothing) /\ update' = [update EXCEPT !.at = "copy", !.backup = t]
    BY <1>9 DEF Reserve, n
  <2>3. Times' = Times \cup {t} /\ \A s \in Times' : versions'[s] = IF s = t THEN Nothing ELSE versions[s]
    BY <2>2 DEF WithVersion, Times
  <2>4. Cardinality(Times') = Cardinality(Times) + 1 /\ update'.at = "copy"
    BY <1>1, <1>2, <2>1, <2>2, <2>3, FS_AddElement
  <2>5. Excused' = Excused
    BY <2>2, ExcusesGrow
  <2>6. \A s \in Times' : versions'[s] \in Contents \cup {Nothing, TornVersion}
    BY <2>3 DEF VersionsCounted
  <2>7. VersionLimit > 0 => Cardinality(Times) <= VersionLimit + Excused
    BY <1>1, <1>2, <2>2 DEF VersionsCounted
  <2>8. VersionLimit > 0 => Cardinality(Times') <= VersionLimit + Excused' + 1
    BY <1>1, <1>2, <2>4, <2>5, <2>7
  <2>. QED  BY <2>4, <2>6, <2>8 DEF VersionsCounted
<1>10. CASE CopyVersion
  <2>1. update.at = "copy" /\ update.backup \in Times /\ current \in Contents \cup {Nothing, TornVersion}
    BY <1>10 DEF CopyVersion, Backed, VersionsShape
  <2>2. VersionLimit > 0 => Cardinality(Times) <= VersionLimit + Excused + 1
    BY <2>1 DEF VersionsCounted
  <2>3. CASE versions' = WithVersion(update.backup, current) /\ Step("prune") /\ UNCHANGED spoiled
    <3>1. Times' = Times /\ \A s \in Times' : versions'[s] = IF s = update.backup THEN current ELSE versions[s]
      BY <2>1, <2>3 DEF WithVersion, Times
    <3>2. update'.at = "prune" /\ Excused' = Excused
      BY <1>2, <2>3, ExcusesGrow DEF Step
    <3>3. \A s \in Times' : versions'[s] \in Contents \cup {Nothing, TornVersion}
      BY <2>1, <3>1 DEF VersionsCounted
    <3>. QED  BY <2>2, <3>1, <3>2, <3>3 DEF VersionsCounted
  <2>4. CASE Goes("copy") /\ versions' = WithoutTimes({update.backup}) /\ update' = NoWriting
    <3>1. Times' = Times \ {update.backup} /\ \A s \in Times' : versions'[s] = versions[s]
      BY <2>4 DEF WithoutTimes, Times
    <3>2. Cardinality(Times') = Cardinality(Times) - 1
      BY <1>1, <2>1, <3>1, FS_RemoveElement
    <3>3. update'.at = "idle" /\ Excused' \in Nat /\ Excused' >= Excused
      BY <2>4, ExcusesGrow DEF NoWriting
    <3>4. \A s \in Times' : versions'[s] \in Contents \cup {Nothing, TornVersion}
      BY <3>1 DEF VersionsCounted
    <3>5. VersionLimit > 0 => Cardinality(Times') <= VersionLimit + Excused'
      BY <1>1, <1>2, <2>2, <3>2, <3>3
    <3>. QED  BY <1>1, <3>3, <3>4, <3>5 DEF VersionsCounted
  <2>. QED  BY <1>10, <2>3, <2>4 DEF CopyVersion
<1>11. CASE Prune
  <2>1. PICK S \in SUBSET Stale :
          /\ IF S = Stale THEN UNCHANGED spoiled ELSE Goes("remove")
          /\ versions' = WithoutTimes(S)
          /\ IF update.backup \in S THEN update' = NoWriting ELSE Step("replace")
    BY <1>11 DEF Prune
  <2>2. VersionLimit > 0 => Cardinality(Times) <= VersionLimit + Excused + 1
    BY <1>11 DEF Prune, VersionsCounted
  <2>3. /\ S \subseteq Times /\ IsFiniteSet(S) /\ IsFiniteSet(Stale) /\ update.backup \notin S
        /\ VersionLimit > 0 /\ Cardinality(Times) > VersionLimit
             => Cardinality(Stale) = Cardinality(Times) - VersionLimit
    BY StaleOnes, FS_Subset
  <2>4. Times' = Times \ S /\ \A s \in Times' : versions'[s] = versions[s]
    BY <2>1 DEF WithoutTimes, Times
  <2>5. \A s \in Times' : versions'[s] \in Contents \cup {Nothing, TornVersion}
    BY <2>4 DEF VersionsCounted
  <2>6. update'.at = "replace"
    BY <1>2, <2>1, <2>3 DEF Step
  <2>7. Cardinality(Times') = Cardinality(Times) - Cardinality(S) /\ Cardinality(S) \in Nat
    <3>1. Times \cap S = S
      BY <2>3
    <3>2. Cardinality(S) \in Nat
      BY <2>3, FS_CardinalityType
    <3>3. Cardinality(Times \ S) = Cardinality(Times) - Cardinality(S)
      BY <1>1, <3>1, FS_Difference
    <3>. QED  BY <2>4, <3>2, <3>3
  <2>8. VersionLimit > 0 => Cardinality(Times') <= VersionLimit + Excused'
    <3>1. CASE S = Stale
      <4>1. Excused' = Excused
        BY <2>1, <3>1, ExcusesGrow
      <4>. QED  BY <1>1, <1>2, <2>3, <2>7, <3>1, <4>1
    <3>2. CASE S # Stale
      <4>1. Excused' = Excused + 1
        BY <2>1, <3>2, ExcusesGrow
      <4>. QED  BY <1>1, <1>2, <2>2, <2>7, <4>1
    <3>. QED  BY <3>1, <3>2
  <2>9. Excused' \in Nat
    BY <2>1, ExcusesGrow
  <2>. QED  BY <1>1, <2>5, <2>6, <2>8, <2>9 DEF VersionsCounted
<1>12. CASE UNCHANGED profileFileVars
  BY <1>3, <1>12 DEF profileFileVars
<1>. QED  BY <1>4, <1>5, <1>6, <1>7, <1>8, <1>9, <1>10, <1>11, <1>12 DEF PFNext, PFWrite

\* There are none at first.
LEMMA NoVersionsYet == ASSUME PFInit PROVE VersionsCounted
<1>1. Times = {} /\ update.at = "idle" /\ Excused \in Nat /\ VersionLimit \in Nat
  BY ExcusesGrow, ProfileFilesAssumption DEF PFInit, Times, NoWriting
<1>. QED  BY <1>1, FS_EmptySet DEF VersionsCounted

(* The versions have their types.                                                                *)
LEMMA VersionTypesFollow == ASSUME VersionsInv, VersionsCounted PROVE PFTypeOK
<1>1. VersionLimit \in Nat /\ Cardinality(Times) \in Nat /\ Excused \in Nat
  BY LimitIsNat, ExcusesGrow
<1>. QED  BY <1>1 DEF VersionsInv, VersionsShape, VersionsCounted, PFTypeOK, Excused
=============================================================================
