---------------------------- MODULE EntityStorage ----------------------------
(***************************************************************************)
(* Users and lists ("owners") under one storage parent: a row with a name  *)
(* in the database, and the directory of that name, which holds the        *)
(* owner's media (internal/entity).  Row and directory cannot change       *)
(* together: Create, Rename and Remove change one, then the other, and     *)
(* undo the first if the second fails; any database call and any rename of *)
(* a directory may fail, and the process may die between any two steps.    *)
(* Remove moves the directory to a staged name and journals it, so that    *)
(* the next start can finish or undo it (CleanupStagedDirectories).        *)
(*                                                                         *)
(* The operations hold the lock of their parent, so one is under way at a  *)
(* time.  Downloads do not: they write to the path of an entity that they  *)
(* loaded earlier, and make its directory if it is not there.              *)
(*                                                                         *)
(* A name is its letters (stem and caps) and whether it ends in dots or    *)
(* spaces (dotted), as names of older versions may.  What holds media is a *)
(* directory or a staged directory, a "place".                             *)
(***************************************************************************)
EXTENDS Naturals, FiniteSets

CONSTANTS
  Owners,
  Names,        \* records with fields stem, caps and dotted
  NoRow,
  Empty,        \* the empty name of a legacy row
  Platforms,    \* values of runtime.GOOS
  LegacyNames,  \* those that older versions may have left
  NoStage,
  MaxStages,    \* bound: staged directories per name at a time
  MaxOps,       \* bound: creations, renames and removals
  MaxFaults,    \* bound: database calls and renames that fail
  MaxCrashes    \* bound

Trimmed(n) == [n EXCEPT !.dotted = FALSE]

\* The directory of a stored name: Windows drops trailing dots and ignores case.
DirOn(platform, n) == IF platform = "windows" THEN [Trimmed(n) EXCEPT !.caps = FALSE] ELSE n

ASSUME EntityAssumption ==
  /\ Names \subseteq [stem : STRING, caps : BOOLEAN, dotted : BOOLEAN]
  /\ \A n \in Names, p \in Platforms : Trimmed(n) \in Names /\ DirOn(p, n) \in Names
  /\ NoRow \notin Names /\ Empty \notin Names /\ NoRow # Empty
  /\ LegacyNames \subseteq Names
  /\ MaxStages \in Nat /\ MaxOps \in Nat /\ MaxFaults \in Nat /\ MaxCrashes \in Nat
  /\ NoStage \notin [hash : Names, id : 1 .. MaxStages]

VARIABLES
  goos,
  rows,      \* the name in the row of each owner
  journal,   \* the table entity_removal_journal
  present,   \* the places that exist on disk
  media,     \* <<owner, place>>: media of the owner lie there
  phase,     \* of the process
  op,        \* the operation that holds the lock of the parent
  held,      \* the name in the entity that a download of each owner holds
  emptied,   \* owners whose deletion (of the user or list) has found no entity left
  pending,   \* staged directories that the recovery has still to look at
  removals,  \* history: what each staged directory on disk is there for
  used       \* how much of each bound is spent

diskVars == <<present, media>>
dbVars   == <<rows, journal>>
vars == <<goos, dbVars, diskVars, phase, op, held, emptied, pending, removals, used>>

-----------------------------------------------------------------------------
Stages == [hash : Names, id : 1 .. MaxStages]

Dir(n) == DirOn(goos, n)

\* ValidateName: no new name ends in dots or spaces, whatever the platform.
Valid(n) == ~n.dotted

Idle == [at |-> "idle", owner |-> NoRow, name |-> NoRow, old |-> NoRow, change |-> "none",
         stage |-> NoStage, kept |-> FALSE]

Named(o)  == rows[o] \in Names
PathOf(o) == Dir(rows[o])
Active    == {PathOf(o) : o \in {x \in Owners : Named(x)}}
\* (mistake: names are compared as they are stored)
OwnedBySameName(o, d) == \E x \in Owners \ {o} : Named(x) /\ rows[x] = d

OwnedByAnother(o, d) == \E x \in Owners \ {o} : Named(x) /\ PathOf(x) = d

\* The media of o lie where its row says.
InPlace(o) == Named(o) /\ <<o, PathOf(o)>> \in media

\* os.Rename of a directory to a name that is free.
Move(p, q) ==
  /\ present' = (present \ {p}) \cup {q}
  /\ media' = {<<m[1], IF m[2] = p THEN q ELSE m[2]>> : m \in media}

\* ensureEntityDirectory, os.MkdirAll
MakeDir(d) == present' = present \cup {d} /\ UNCHANGED media

\* os.RemoveAll
Destroy(p) ==
  /\ present' = present \ {p}
  /\ media' = {m \in media : m[2] # p}

Fault   == used.faults < MaxFaults /\ used' = [used EXCEPT !.faults = @ + 1]
NoFault == UNCHANGED used
Spend   == used.ops < MaxOps /\ used' = [used EXCEPT !.ops = @ + 1]

\* History: the staged directories in s are left on disk for a reason that is logged.
Excuse(s) == removals' = {IF r.stage \in s THEN [r EXCEPT !.excused = TRUE] ELSE r : r \in removals}
RowGone(o) == removals' = {IF r.owner = o THEN [r EXCEPT !.gone = TRUE] ELSE r : r \in removals}
Renamed(o) == removals' = {IF r.owner = o THEN [r EXCEPT !.renamed = TRUE] ELSE r : r \in removals}
Forget(s) == removals' = {r \in removals : r.stage # s}

\* The lock is released.
Done == op' = Idle

-----------------------------------------------------------------------------
Init ==
  /\ goos \in Platforms
  /\ rows \in [Owners -> LegacyNames \cup {NoRow, Empty}]
  /\ \A o1, o2 \in Owners : o1 # o2 /\ Named(o1) /\ Named(o2) => PathOf(o1) # PathOf(o2)
  /\ present \in SUBSET {Dir(n) : n \in LegacyNames}
  /\ media = {m \in Owners \X present : Named(m[1]) /\ PathOf(m[1]) = m[2]}
  /\ journal = {} /\ removals = {}
  /\ phase = "serving" /\ op = Idle /\ pending = {}
  /\ held = [o \in Owners |-> NoRow] /\ emptied = {}
  /\ used = [ops |-> 0, faults |-> 0, crashes |-> 0]

-----------------------------------------------------------------------------
(* Create, Rename and Remove.  An operation that is refused before it has  *)
(* changed anything is not a step.                                         *)

Begins(at, o, n, change, stage) ==
  op' = [at |-> at, owner |-> o, name |-> n, old |-> rows[o], change |-> change,
         stage |-> stage, kept |-> InPlace(o)]

Ready == phase = "serving" /\ op = Idle /\ Spend

EnsureChange(d) == IF d \in present THEN "none" ELSE "created"

CreateBegins(o, n) ==
  /\ Ready /\ rows[o] = NoRow /\ Valid(n)
  /\ MakeDir(Dir(n))
  /\ Begins("creating", o, n, EnsureChange(Dir(n)), NoStage)
  /\ UNCHANGED <<goos, dbVars, phase, held, emptied, pending, removals>>

CreateCommits ==
  /\ op.at = "creating"
  /\ ~OwnedByAnother(op.owner, Dir(op.name))
  /\ rows' = [rows EXCEPT ![op.owner] = op.name]
  /\ Done
  /\ UNCHANGED <<goos, journal, diskVars, phase, held, emptied, pending, removals, used>>

\* The directory is another's, or the query or the INSERT fails.
CreateFails ==
  /\ op.at = "creating"
  /\ \/ OwnedByAnother(op.owner, Dir(op.name)) /\ NoFault
     \/ Fault
  /\ op' = [op EXCEPT !.at = "undoing"]
  /\ UNCHANGED <<goos, dbVars, diskVars, phase, held, emptied, pending, removals>>

\* Rename and Sync to the name that the row has: the directory is made.
RenameInPlace(o) ==
  /\ Ready /\ Named(o) /\ Valid(rows[o])
  /\ MakeDir(PathOf(o))
  /\ UNCHANGED <<goos, dbVars, phase, op, held, emptied, pending, removals>>

Movable(o, n) == Named(o) /\ PathOf(o) # Dir(n) /\ PathOf(o) \in present

\* When the old directory is missing, one under the new name is taken over.
RenameBegins(o, n) ==
  /\ Ready /\ rows[o] \notin {NoRow, n} /\ Valid(n)
  /\ ~OwnedByAnother(o, Dir(n))
  /\ IF Movable(o, n)
     THEN /\ Dir(n) \notin present
          /\ Move(PathOf(o), Dir(n))
          /\ Begins("renaming", o, n, "moved", NoStage)
     ELSE /\ MakeDir(Dir(n))
          /\ Begins("renaming", o, n, EnsureChange(Dir(n)), NoStage)
  /\ UNCHANGED <<goos, dbVars, phase, held, emptied, pending, removals>>

\* UpdateUserEntityNameIfCurrent
RenameCommits ==
  /\ op.at = "renaming"
  /\ rows[op.owner] = op.old
  /\ rows' = [rows EXCEPT ![op.owner] = op.name]
  /\ Renamed(op.owner)
  /\ Done
  /\ UNCHANGED <<goos, journal, diskVars, phase, held, emptied, pending, used>>

RenameFails ==
  /\ op.at = "renaming"
  /\ \/ rows[op.owner] # op.old /\ NoFault
     \/ Fault
  /\ op' = [op EXCEPT !.at = "undoing"]
  /\ UNCHANGED <<goos, dbVars, diskVars, phase, held, emptied, pending, removals>>

\* (mistake: os.RemoveAll instead of os.Remove)
UndoRemovesAll ==
  LET new == Dir(op.name) IN
  /\ op.at = "undoing"
  /\ IF op.change = "created" THEN Destroy(new)
     ELSE IF op.change = "moved" /\ Dir(op.old) \notin present THEN Move(new, Dir(op.old))
     ELSE UNCHANGED diskVars
  /\ Done
  /\ UNCHANGED <<goos, dbVars, phase, held, emptied, pending, removals, used>>

\* (mistake: a directory that was moved is not moved back)
UndoCreatedOnly ==
  LET new == Dir(op.name) IN
  /\ op.at = "undoing"
  /\ IF op.change = "created" /\ \A m \in media : m[2] # new THEN Destroy(new) ELSE UNCHANGED diskVars
  /\ Done
  /\ UNCHANGED <<goos, dbVars, phase, held, emptied, pending, removals, used>>

\* directoryChange.rollback: os.Remove leaves a directory that is not empty, and
\* os.Rename does not replace one that somebody has made again.
Undo ==
  LET new == Dir(op.name) IN
  /\ op.at = "undoing"
  /\ \/ /\ op.change = "moved" /\ Dir(op.old) \notin present
        /\ Move(new, Dir(op.old))
     \/ /\ op.change = "created" /\ \A m \in media : m[2] # new
        /\ Destroy(new)
     \/ /\ \/ op.change = "none"
           \/ op.change = "moved" /\ Dir(op.old) \in present
           \/ op.change = "created" /\ \E m \in media : m[2] = new
        /\ UNCHANGED diskVars
  /\ NoFault
  /\ Done
  /\ UNCHANGED <<goos, dbVars, phase, held, emptied, pending, removals>>

UndoFails ==
  /\ op.at = "undoing" /\ op.change # "none" /\ Fault
  /\ Done
  /\ UNCHANGED <<goos, dbVars, diskVars, phase, held, emptied, pending, removals>>

RemoveEmptyName(o) ==
  /\ Ready /\ rows[o] = Empty
  /\ rows' = [rows EXCEPT ![o] = NoRow]
  /\ UNCHANGED <<goos, journal, diskVars, phase, op, held, emptied, pending, removals>>

\* os.CreateTemp: a name that nothing has; the smallest stands for all.
Unused(s) == s \notin present /\ \A j \in journal : j.staged # s

RemoveBegins(o) ==
  /\ Ready /\ Named(o)
  /\ \/ /\ PathOf(o) \notin present
        /\ Begins("deleting", o, rows[o], "none", NoStage)
        /\ UNCHANGED <<diskVars, removals>>
     \/ /\ PathOf(o) \in present
        /\ \E i \in 1 .. MaxStages :
             LET s == [hash |-> Trimmed(rows[o]), id |-> i] IN
             /\ Unused(s) /\ \A k \in 1 .. i - 1 : ~Unused([s EXCEPT !.id = k])
             /\ Move(PathOf(o), s)
             /\ Begins("journalling", o, rows[o], "moved", s)
             /\ removals' = removals \cup {[stage |-> s, owner |-> o, gone |-> FALSE,
                                            renamed |-> FALSE, excused |-> FALSE]}
  /\ UNCHANGED <<goos, dbVars, phase, held, emptied, pending>>

\* (mistake: the columns of the journal are swapped)
RemoveJournalsSwapped ==
  /\ op.at = "journalling"
  /\ journal' = journal \cup {[staged |-> Dir(op.old), original |-> op.stage]}
  /\ op' = [op EXCEPT !.at = "deleting"]
  /\ UNCHANGED <<goos, rows, diskVars, phase, held, emptied, pending, removals, used>>

RemoveJournals ==
  /\ op.at = "journalling"
  /\ \/ /\ journal' = journal \cup {[staged |-> op.stage, original |-> Dir(op.old)]}
        /\ op' = [op EXCEPT !.at = "deleting"]
        /\ NoFault
     \/ /\ Fault
        /\ op' = [op EXCEPT !.at = "restoring"]
        /\ UNCHANGED journal
  /\ UNCHANGED <<goos, rows, diskVars, phase, held, emptied, pending, removals>>

RemoveDeletesRow ==
  /\ op.at = "deleting" /\ rows[op.owner] # NoRow
  /\ rows' = [rows EXCEPT ![op.owner] = NoRow]
  /\ RowGone(op.owner)
  /\ op' = IF op.stage = NoStage THEN Idle ELSE [op EXCEPT !.at = "committing"]
  /\ UNCHANGED <<goos, journal, diskVars, phase, held, emptied, pending, used>>

\* The DELETE fails or finds no row.
RemoveFails ==
  /\ op.at = "deleting"
  /\ \/ rows[op.owner] = NoRow /\ NoFault
     \/ Fault
  /\ op' = IF op.stage = NoStage THEN Idle ELSE [op EXCEPT !.at = "restoring"]
  /\ UNCHANGED <<goos, dbVars, diskVars, phase, held, emptied, pending, removals>>

\* The journal entry of s is deleted, unless the database fails.
DropJournal(s) ==
  \/ journal' = {j \in journal : j.staged # s} /\ NoFault
  \/ Fault /\ UNCHANGED journal

\* stagedDirectoryRemoval.rollback
RemoveRestores ==
  /\ op.at = "restoring" /\ Dir(op.old) \notin present
  /\ Move(op.stage, Dir(op.old))
  /\ DropJournal(op.stage)
  /\ Forget(op.stage)
  /\ Done
  /\ UNCHANGED <<goos, rows, phase, held, emptied, pending>>

RemoveCannotRestore ==
  /\ op.at = "restoring"
  /\ \/ Dir(op.old) \in present /\ NoFault
     \/ Fault
  /\ Excuse({op.stage})
  /\ Done
  /\ UNCHANGED <<goos, dbVars, diskVars, phase, held, emptied, pending>>

\* stagedDirectoryRemoval.commit
RemoveCommits ==
  /\ op.at = "committing"
  /\ \/ /\ Destroy(op.stage)
        /\ Forget(op.stage)
        /\ op' = [op EXCEPT !.at = "unjournalling"]
        /\ NoFault
     \/ /\ Fault
        /\ Excuse({op.stage})
        /\ Done
        /\ UNCHANGED diskVars
  /\ UNCHANGED <<goos, dbVars, phase, held, emptied, pending>>

RemoveUnjournals ==
  /\ op.at = "unjournalling"
  /\ DropJournal(op.stage)
  /\ Done
  /\ UNCHANGED <<goos, rows, diskVars, phase, held, emptied, pending, removals>>

-----------------------------------------------------------------------------
(* Others, who do not take the lock.                                       *)

\* NewUserEntity, NewListEntity
TaskLoads(o) ==
  /\ phase = "serving" /\ Named(o) /\ held[o] # rows[o]
  /\ held' = [held EXCEPT ![o] = rows[o]]
  /\ UNCHANGED <<goos, dbVars, diskVars, phase, op, emptied, pending, removals, used>>

\* The last branch of Sync, and the directory a file is to be written to.
TaskMakesDir(o) ==
  /\ phase = "serving" /\ held[o] \in Names
  /\ Dir(held[o]) \notin present
  /\ MakeDir(Dir(held[o]))
  /\ UNCHANGED <<goos, dbVars, phase, op, held, emptied, pending, removals, used>>

TaskWrites(o) ==
  /\ phase = "serving" /\ held[o] \in Names
  /\ Dir(held[o]) \in present
  /\ media' = media \cup {<<o, Dir(held[o])>>}
  /\ UNCHANGED <<goos, dbVars, present, phase, op, held, emptied, pending, removals, used>>

\* A request that deletes the user or list first removes its entities one by one;
\* when it finds none, it deletes the rows that there are by then.
DeleteFindsNone(o) ==
  /\ phase = "serving" /\ rows[o] = NoRow /\ o \notin emptied
  /\ emptied' = emptied \cup {o}
  /\ UNCHANGED <<goos, dbVars, diskVars, phase, op, held, pending, removals, used>>

DeleteRows(o) ==
  /\ phase = "serving" /\ o \in emptied
  /\ emptied' = emptied \ {o}
  /\ rows' = [rows EXCEPT ![o] = NoRow]
  /\ RowGone(o)
  /\ UNCHANGED <<goos, journal, diskVars, phase, op, held, pending, used>>

-----------------------------------------------------------------------------
(* Crash and recovery.                                                     *)

Crash ==
  /\ phase # "down"
  /\ used.crashes < MaxCrashes /\ used' = [used EXCEPT !.crashes = @ + 1]
  /\ phase' = "down" /\ op' = Idle /\ pending' = {}
  /\ held' = [o \in Owners |-> NoRow] /\ emptied' = {}
  /\ UNCHANGED <<goos, dbVars, diskVars, removals>>

OnDisk == {p \in present : p \in Stages}

\* (mistake: only what is journaled is looked at)
RecoveryScansJournal ==
  /\ phase = "down" /\ phase' = "recovering"
  /\ pending' = {p \in OnDisk : \E j \in journal : j.staged = p}
  /\ journal' = {j \in journal : j.staged \in OnDisk}
  /\ UNCHANGED <<goos, rows, diskVars, op, held, emptied, removals, used>>

\* The rows and the journal are read.  Entries without a staged directory are dropped
\* (the code does so at the end; no other step looks at them).
RecoveryBegins ==
  /\ phase = "down"
  /\ \/ /\ phase' = "recovering" /\ pending' = OnDisk
        /\ \/ journal' = {j \in journal : j.staged \in OnDisk} /\ NoFault
           \/ Fault /\ UNCHANGED journal
        /\ UNCHANGED removals
     \/ /\ Fault  \* The startup goes on without.
        /\ phase' = "serving" /\ Excuse(OnDisk)
        /\ UNCHANGED <<journal, pending>>
  /\ UNCHANGED <<goos, rows, diskVars, op, held, emptied>>

Journaled(s) == \E j \in journal : j.staged = s
Original(s)  == (CHOOSE j \in journal : j.staged = s).original

\* The recorded directories that the staged one may belong to.  With a journal entry:
\* the one it names, or else one whose name differs by its trailing dots; without, those
\* whose name has the same hash.
Targets(s) ==
  IF ~Journaled(s) THEN {PathOf(o) : o \in {x \in Owners : Named(x) /\ Trimmed(rows[x]) = s.hash}}
  ELSE IF Original(s) \in Active \/ Original(s).dotted
       THEN Active \cap (IF Original(s) \in Active THEN {Original(s)} ELSE {Trimmed(Original(s))})
       ELSE {d \in Active : Trimmed(d) = Original(s)}

Restorable(s, t) ==
  /\ t \notin present
  /\ ~Journaled(s) => Trimmed(t) \notin present

Recovering(s) == phase = "recovering" /\ s \in pending /\ pending' = pending \ {s}

RecoveryRestores(s) ==
  /\ Recovering(s)
  /\ \E t \in Targets(s) :
       /\ Targets(s) = {t} /\ Restorable(s, t)
       /\ Move(s, t)
  /\ IF Journaled(s) THEN DropJournal(s) ELSE NoFault /\ UNCHANGED journal
  /\ Forget(s)
  /\ UNCHANGED <<goos, rows, phase, op, held, emptied>>

\* (mistake: what cannot be restored because the target exists is taken for a leftover)
RecoveryDestroysLeftovers(s) ==
  /\ Recovering(s)
  /\ Journaled(s) /\ Targets(s) \subseteq present
  /\ Destroy(s)
  /\ DropJournal(s)
  /\ Forget(s)
  /\ UNCHANGED <<goos, rows, phase, op, held, emptied>>

RecoveryDestroys(s) ==
  /\ Recovering(s)
  /\ Journaled(s) /\ Targets(s) = {}
  /\ Destroy(s)
  /\ DropJournal(s)
  /\ Forget(s)
  /\ UNCHANGED <<goos, rows, phase, op, held, emptied>>

\* The target is not known, or there is one already; or a rename or a removal fails.
RecoveryRetains(s) ==
  /\ Recovering(s)
  /\ \/ /\ \/ Cardinality(Targets(s)) > 1
           \/ \E t \in Targets(s) : ~Restorable(s, t)
           \/ ~Journaled(s) /\ Targets(s) = {}
        /\ NoFault
     \/ Fault
  /\ Excuse({s})
  /\ UNCHANGED <<goos, dbVars, diskVars, phase, op, held, emptied>>

RecoveryEnds ==
  /\ phase = "recovering" /\ pending = {}
  /\ phase' = "serving"
  /\ UNCHANGED <<goos, dbVars, diskVars, op, held, emptied, pending, removals, used>>

-----------------------------------------------------------------------------
Next ==
  \/ \E o \in Owners, n \in Names : CreateBegins(o, n) \/ RenameBegins(o, n)
  \/ \E o \in Owners : RenameInPlace(o) \/ RemoveEmptyName(o) \/ RemoveBegins(o)
  \/ CreateCommits \/ CreateFails
  \/ RenameCommits \/ RenameFails
  \/ Undo \/ UndoFails
  \/ RemoveJournals \/ RemoveDeletesRow \/ RemoveFails \/ RemoveRestores \/ RemoveCannotRestore
  \/ RemoveCommits \/ RemoveUnjournals
  \/ \E o \in Owners : TaskLoads(o) \/ TaskMakesDir(o) \/ TaskWrites(o)
  \/ \E o \in Owners : DeleteFindsNone(o) \/ DeleteRows(o)
  \/ Crash \/ RecoveryBegins
  \/ \E s \in pending : RecoveryRestores(s) \/ RecoveryDestroys(s) \/ RecoveryRetains(s)
  \/ RecoveryEnds

Spec == Init /\ [][Next]_vars

-----------------------------------------------------------------------------
Operation ==
  [at : {"idle", "creating", "renaming", "undoing", "journalling", "deleting", "restoring",
         "committing", "unjournalling"},
   owner : Owners \cup {NoRow}, name : Names \cup {NoRow}, old : Names \cup {NoRow, Empty},
   change : {"none", "created", "moved"}, stage : Stages \cup {NoStage}, kept : BOOLEAN]

\* What each kind of operation has to do with.
OperationSound ==
  /\ op.at # "idle" => op.owner \in Owners /\ op.name \in Names
  /\ op.change = "moved" \/ op.at = "deleting" => op.old \in Names
  /\ op.at \in {"journalling", "restoring", "committing", "unjournalling"} =>
       op.stage \in Stages /\ op.old \in Names

Places == Names \cup Stages

\* The variables of the storage (entities, journal, disk, operation) have their types.
TypeOK ==
  /\ goos \in Platforms
  /\ rows \in [Owners -> Names \cup {NoRow, Empty}]
  /\ journal \subseteq [staged : Stages, original : Names]
  /\ present \subseteq Places
  /\ media \subseteq Owners \X Places
  /\ phase \in {"serving", "down", "recovering"}
  /\ op \in Operation /\ OperationSound
  /\ held \in [Owners -> Names \cup {NoRow}]
  /\ emptied \subseteq Owners
  /\ pending \subseteq Stages
  /\ removals \subseteq [stage : Stages, owner : Owners, gone : BOOLEAN, renamed : BOOLEAN,
                         excused : BOOLEAN]
  /\ used \in [ops : Nat, faults : Nat, crashes : Nat]

\* Two rows never resolve to the same directory, whatever their case or trailing dots and
\* whatever fails or is interrupted (entityDirectoryOwnedByAnother, in Create and Rename).
OneRecordPerDirectory ==
  \A o1, o2 \in Owners : o1 # o2 /\ Named(o1) /\ Named(o2) => PathOf(o1) # PathOf(o2)

\* Media that lie where the row of their owner says are moved and destroyed only by an
\* operation on that owner: never by another's rollback, removal or recovery.
OnlyOwnOperationsMove ==
  [][\A o \in Owners : InPlace(o) /\ rows'[o] # NoRow =>
       InPlace(o)' \/ op.owner = o \/ op'.owner = o]_vars

\* An operation that ends with the row still there leaves the media where the row says, if
\* they were there before: exceptions are a rollback that itself fails, and one that finds
\* that a download has made the old directory again.
OperationsKeepMedia ==
  [][\A o \in Owners :
       /\ op.owner = o /\ op.kept
       /\ op'.at = "idle" /\ phase' = "serving" /\ Named(o)'
       => InPlace(o)' \/ used'.faults # used.faults \/ Dir(op.old) \in present]_vars

\* Media stay where the row says, or follow it: nobody moves another's media, and an
\* operation that fails puts back what it moved.
MediaKept == OnlyOwnOperationsMove /\ OperationsKeepMedia

\* Between operations a staged directory is on disk only if a failure or a conflict that is
\* logged has kept it there; a crash at any step of a removal alone does not.
StagesAccountedFor ==
  phase = "serving" /\ op.at = "idle" =>
    \A s \in OnDisk : \E r \in removals : r.stage = s /\ r.excused

Destroyed(s) == s \in present /\ s \notin present' /\ present' \subseteq present

\* A staged directory is destroyed only when the row that it was staged for is gone: the
\* comment of CleanupStagedDirectories (internal/entity/storage.go:178-182).
RemovedOnlyAfterRecordGone ==
  [][\A r \in removals : Destroyed(r.stage) => r.gone]_vars

\* A removal that was interrupted or failed is finished or undone at the next start, or its
\* directory is kept for a reason that was logged; unless the owner was renamed while it was
\* on disk, a staged directory is destroyed only when its row is gone.
RemovalsFinish ==
  [][/\ \A r \in removals : Destroyed(r.stage) => r.gone \/ r.renamed
     /\ StagesAccountedFor']_vars
=============================================================================
