------------------------ MODULE EntityStorageProofs ------------------------
(***************************************************************************)
(* Proofs about EntityStorage, for any owners, any names and either way of *)
(* reading names, and any number of operations, failures and crashes: the  *)
(* types; that no two rows resolve to the same directory; that a removal   *)
(* is finished or undone and destroys only what no row names any more; and *)
(* that media stay in place.                                               *)
(***************************************************************************)
EXTENDS EntityStorage, TLAPS

-----------------------------------------------------------------------------
(* Types.                                                                  *)

\* The directory of a name is a name.
LEMMA DirTyped ==
  ASSUME TypeOK, NEW n \in Names
  PROVE  Dir(n) \in Names /\ Trimmed(n) \in Names
BY EntityAssumption DEF TypeOK, Dir

LEMMA PathTyped ==
  ASSUME TypeOK, NEW o \in Owners, Named(o)
  PROVE  PathOf(o) \in Names
BY DirTyped DEF Named, PathOf

LEMMA ActiveTyped == TypeOK => Active \subseteq Names
BY PathTyped DEF Active

\* What a staged directory may be restored to.
LEMMA TargetsTyped ==
  ASSUME TypeOK, NEW s PROVE Targets(s) \subseteq Names
<1>1. \A o \in {x \in Owners : Named(x) /\ Trimmed(rows[x]) = s.hash} : PathOf(o) \in Names
  BY PathTyped
<1> QED BY <1>1, ActiveTyped DEF Targets

\* What happens on disk.
LEMMA MoveTyped ==
  ASSUME TypeOK, NEW p, NEW q \in Places, Move(p, q)
  PROVE  present' \subseteq Places /\ media' \subseteq Owners \X Places
BY DEF TypeOK, Move

LEMMA MakeDirTyped ==
  ASSUME TypeOK, NEW d \in Names, MakeDir(d)
  PROVE  present' \subseteq Places /\ media' \subseteq Owners \X Places
BY DEF TypeOK, MakeDir, Places

LEMMA DestroyTyped ==
  ASSUME TypeOK, NEW p, Destroy(p)
  PROVE  present' \subseteq Places /\ media' \subseteq Owners \X Places
BY DEF TypeOK, Destroy

Removal == [stage : Stages, owner : Owners, gone : BOOLEAN, renamed : BOOLEAN, excused : BOOLEAN]

LEMMA RemovalsTyped ==
  ASSUME TypeOK, NEW s,
         \/ Excuse(s) \/ Forget(s) \/ RowGone(s) \/ Renamed(s) \/ UNCHANGED removals
  PROVE  removals' \subseteq Removal
<1>1. \A r \in removals : /\ r \in Removal
                          /\ [r EXCEPT !.excused = TRUE] \in Removal
                          /\ [r EXCEPT !.gone = TRUE] \in Removal
                          /\ [r EXCEPT !.renamed = TRUE] \in Removal
  BY DEF TypeOK, Removal
<1>2. CASE Excuse(s)
  <2> SUFFICES ASSUME NEW x \in removals' PROVE x \in Removal
    OBVIOUS
  <2>1. PICK r \in removals : x = r \/ x = [r EXCEPT !.excused = TRUE]
    BY <1>2 DEF Excuse
  <2> QED BY <1>1, <2>1
<1>3. CASE Forget(s) \/ UNCHANGED removals
  BY <1>1, <1>3 DEF Forget
<1>4. CASE RowGone(s)
  <2> SUFFICES ASSUME NEW x \in removals' PROVE x \in Removal
    OBVIOUS
  <2>1. PICK r \in removals : x = r \/ x = [r EXCEPT !.gone = TRUE]
    BY <1>4 DEF RowGone
  <2> QED BY <1>1, <2>1
<1>5. CASE Renamed(s)
  <2> SUFFICES ASSUME NEW x \in removals' PROVE x \in Removal
    OBVIOUS
  <2>1. PICK r \in removals : x = r \/ x = [r EXCEPT !.renamed = TRUE]
    BY <1>5 DEF Renamed
  <2> QED BY <1>1, <2>1
<1> QED BY <1>2, <1>3, <1>4, <1>5

LEMMA UsedTyped ==
  ASSUME TypeOK, Fault \/ NoFault \/ Spend
  PROVE  used' \in [ops : Nat, faults : Nat, crashes : Nat]
BY DEF TypeOK, Fault, NoFault, Spend

\* The operations that are under way.
LEMMA IdleTyped == op = Idle => op \in Operation /\ OperationSound
BY DEF Idle, Operation, OperationSound

LEMMA AtTyped ==
  ASSUME TypeOK, op.at # "idle",
         NEW a \in {"creating", "renaming", "undoing", "journalling", "deleting", "restoring",
                    "committing", "unjournalling"},
         op' = [op EXCEPT !.at = a],
         a = "deleting" => op.old \in Names,
         a \in {"journalling", "restoring", "committing", "unjournalling"} =>
           op.stage \in Stages /\ op.old \in Names
  PROVE  op' \in Operation /\ OperationSound'
BY DEF TypeOK, Operation, OperationSound

LEMMA BeginsTyped ==
  ASSUME TypeOK, NEW o \in Owners, NEW n \in Names, NEW s \in Stages \cup {NoStage},
         NEW a \in {"creating", "renaming", "journalling", "deleting"},
         NEW c \in {"none", "created", "moved"}, Begins(a, o, n, c, s),
         c = "moved" \/ a = "deleting" => Named(o),
         a = "journalling" => s \in Stages /\ Named(o)
  PROVE  op' \in Operation /\ OperationSound'
<1>1. InPlace(o) \in BOOLEAN
  BY DEF InPlace, Named
<1>2. rows[o] \in Names \cup {NoRow, Empty}
  BY DEF TypeOK
<1> USE DEF Begins, Named
<1>3. op' \in Operation
  BY <1>1, <1>2 DEF Operation
<1> QED BY <1>3 DEF OperationSound

-----------------------------------------------------------------------------
LEMMA TypeInit == Init => TypeOK
<1> SUFFICES ASSUME Init PROVE TypeOK
  OBVIOUS
<1> USE DEF Init
<1>1. \A n \in LegacyNames : Dir(n) \in Names
  BY EntityAssumption DEF Dir
<1>2. present \subseteq Places
  BY <1>1 DEF Places
<1>3. rows \in [Owners -> Names \cup {NoRow, Empty}]
  BY EntityAssumption
<1> QED BY <1>2, <1>3, IdleTyped DEF TypeOK

\* The beginnings of Create and Rename.
LEMMA BeginningsTyped ==
  ASSUME TypeOK, NEW o \in Owners, NEW n \in Names, CreateBegins(o, n) \/ RenameBegins(o, n)
  PROVE  TypeOK'
<1>0. Dir(n) \in Names /\ Names \subseteq Places
  BY DirTyped DEF Places
<1>1. CASE CreateBegins(o, n)
  <2>1. present' \subseteq Places /\ media' \subseteq Owners \X Places
    BY <1>0, <1>1, MakeDirTyped DEF CreateBegins
  <2>2. EnsureChange(Dir(n)) \in {"none", "created"}
    BY DEF EnsureChange
  <2>3. op' \in Operation /\ OperationSound'
    BY <1>1, <2>2, BeginsTyped DEF CreateBegins
  <2>4. used' \in [ops : Nat, faults : Nat, crashes : Nat]
    BY <1>1, UsedTyped DEF CreateBegins, Ready
  <2> QED BY <1>1, <2>1, <2>3, <2>4 DEF TypeOK, CreateBegins, dbVars
<1>2. CASE RenameBegins(o, n)
  <2>1. present' \subseteq Places /\ media' \subseteq Owners \X Places
    BY <1>0, <1>2, MakeDirTyped, MoveTyped DEF RenameBegins
  <2>2. EnsureChange(Dir(n)) \in {"none", "created"}
    BY DEF EnsureChange
  <2>3. op' \in Operation /\ OperationSound'
    <3>1. CASE Begins("renaming", o, n, "moved", NoStage) /\ Named(o)
      BY <3>1, BeginsTyped
    <3>2. CASE Begins("renaming", o, n, EnsureChange(Dir(n)), NoStage)
      BY <2>2, <3>2, BeginsTyped
    <3> QED BY <1>2, <3>1, <3>2 DEF RenameBegins, Movable
  <2>4. used' \in [ops : Nat, faults : Nat, crashes : Nat]
    BY <1>2, UsedTyped DEF RenameBegins, Ready
  <2> QED BY <1>2, <2>1, <2>3, <2>4 DEF TypeOK, RenameBegins, dbVars
<1> QED BY <1>1, <1>2

\* Renaming to the same name, and the beginning of Remove.
LEMMA OwnTyped ==
  ASSUME TypeOK, NEW o \in Owners, RenameInPlace(o) \/ RemoveEmptyName(o) \/ RemoveBegins(o)
  PROVE  TypeOK'
<1>1. CASE RenameInPlace(o)
  <2>1. present' \subseteq Places /\ media' \subseteq Owners \X Places
    BY <1>1, PathTyped, MakeDirTyped DEF RenameInPlace
  <2>2. used' \in [ops : Nat, faults : Nat, crashes : Nat]
    BY <1>1, UsedTyped DEF RenameInPlace, Ready
  <2> QED BY <1>1, <2>1, <2>2 DEF TypeOK, RenameInPlace, dbVars, OperationSound
<1>2. CASE RemoveEmptyName(o)
  <2>1. used' \in [ops : Nat, faults : Nat, crashes : Nat]
    BY <1>2, UsedTyped DEF RemoveEmptyName, Ready
  <2> QED BY <1>2, <2>1 DEF TypeOK, RemoveEmptyName, diskVars, OperationSound
<1>3. CASE RemoveBegins(o)
  <2>0. rows[o] \in Names
    BY <1>3 DEF RemoveBegins, Named
  <2>1. used' \in [ops : Nat, faults : Nat, crashes : Nat]
    BY <1>3, UsedTyped DEF RemoveBegins, Ready
  <2>2. CASE Begins("deleting", o, rows[o], "none", NoStage) /\ UNCHANGED <<diskVars, removals>>
    <3>1. op' \in Operation /\ OperationSound'
      BY <2>0, <2>2, BeginsTyped DEF Named
    <3> QED BY <1>3, <2>1, <2>2, <3>1 DEF TypeOK, RemoveBegins, dbVars, diskVars
  <2>3. ASSUME NEW i \in 1 .. MaxStages, NEW s, s = [hash |-> Trimmed(rows[o]), id |-> i],
               Move(PathOf(o), s), Begins("journalling", o, rows[o], "moved", s),
               removals' = removals \cup {[stage |-> s, owner |-> o, gone |-> FALSE,
                                            renamed |-> FALSE, excused |-> FALSE]}
        PROVE  TypeOK'
    <3>1. s \in Stages
      BY <2>0, <2>3, DirTyped DEF Stages
    <3>2. present' \subseteq Places /\ media' \subseteq Owners \X Places
      BY <2>3, <3>1, MoveTyped DEF Places
    <3>3. op' \in Operation /\ OperationSound'
      BY <2>0, <2>3, <3>1, BeginsTyped DEF Named
    <3>4. [stage |-> s, owner |-> o, gone |-> FALSE, renamed |-> FALSE, excused |-> FALSE] \in Removal
      BY <3>1 DEF Removal
    <3>5. removals' \subseteq Removal
      BY <2>3, <3>4 DEF TypeOK, Removal
    <3> QED BY <1>3, <2>1, <3>2, <3>3, <3>5 DEF TypeOK, RemoveBegins, dbVars, Removal
  <2> QED BY <1>3, <2>2, <2>3 DEF RemoveBegins
<1> QED BY <1>1, <1>2, <1>3

\* A step that does not change the operation keeps it sound.
LEMMA SameOperation ==
  ASSUME TypeOK, UNCHANGED op
  PROVE  op' \in Operation /\ OperationSound'
BY DEF TypeOK, OperationSound

\* The ends of Create and Rename.
LEMMA EndsTyped ==
  ASSUME TypeOK, \/ CreateCommits \/ CreateFails \/ RenameCommits \/ RenameFails \/ Undo \/ UndoFails
  PROVE  TypeOK'
<1> USE DEF dbVars, diskVars, Done
<1>0. Done => op' \in Operation /\ OperationSound'
  BY DEF Idle, Operation, OperationSound
<1>1. op.at # "idle" => op.owner \in Owners /\ op.name \in Names
  BY DEF TypeOK, OperationSound
<1>2. CASE CreateCommits
  BY <1>0, <1>1, <1>2 DEF CreateCommits, TypeOK
<1>3. CASE CreateFails
  <2>1. used' \in [ops : Nat, faults : Nat, crashes : Nat]
    BY <1>3, UsedTyped DEF CreateFails
  <2>2. op' \in Operation /\ OperationSound'
    BY <1>3, AtTyped DEF CreateFails
  <2> QED BY <1>3, <2>1, <2>2 DEF CreateFails, TypeOK
<1>4. CASE RenameCommits
  <2>1. removals' \subseteq Removal
    BY <1>4, RemovalsTyped DEF RenameCommits
  <2> QED BY <1>0, <1>1, <1>4, <2>1 DEF RenameCommits, Removal, TypeOK
<1>5. CASE RenameFails
  <2>1. used' \in [ops : Nat, faults : Nat, crashes : Nat]
    BY <1>5, UsedTyped DEF RenameFails
  <2>2. op' \in Operation /\ OperationSound'
    BY <1>5, AtTyped DEF RenameFails
  <2> QED BY <1>5, <2>1, <2>2 DEF RenameFails, TypeOK
<1>6. CASE Undo
  <2>1. present' \subseteq Places /\ media' \subseteq Owners \X Places
    <3>1. CASE op.change = "moved" /\ Move(Dir(op.name), Dir(op.old))
      <4>1. Dir(op.old) \in Places
        BY <3>1, DirTyped DEF TypeOK, OperationSound, Places
      <4> QED BY <3>1, <4>1, MoveTyped
    <3>2. CASE Destroy(Dir(op.name))
      BY <3>2, DestroyTyped
    <3>3. CASE UNCHANGED diskVars
      BY <3>3 DEF TypeOK
    <3> QED BY <1>6, <3>1, <3>2, <3>3 DEF Undo
  <2> QED BY <1>0, <1>6, <2>1 DEF Undo, NoFault, TypeOK
<1>7. CASE UndoFails
  <2>1. used' \in [ops : Nat, faults : Nat, crashes : Nat]
    BY <1>7, UsedTyped DEF UndoFails
  <2> QED BY <1>0, <1>7, <2>1 DEF UndoFails, TypeOK
<1> QED BY <1>2, <1>3, <1>4, <1>5, <1>6, <1>7

\* The steps of Remove that follow.
LEMMA DropTyped ==
  ASSUME TypeOK, NEW s, DropJournal(s)
  PROVE  /\ journal' \subseteq [staged : Stages, original : Names]
         /\ used' \in [ops : Nat, faults : Nat, crashes : Nat]
BY UsedTyped DEF TypeOK, DropJournal

LEMMA RemoveTyped ==
  ASSUME TypeOK,
         \/ RemoveJournals \/ RemoveDeletesRow \/ RemoveFails \/ RemoveRestores
         \/ RemoveCannotRestore \/ RemoveCommits \/ RemoveUnjournals
  PROVE  TypeOK'
<1> USE DEF dbVars, diskVars
<1>0. Idle \in Operation /\ (op' = Idle => OperationSound')
  BY DEF Idle, Operation, OperationSound
<1>1. /\ op.at # "idle" => op.owner \in Owners
      /\ op.at \in {"journalling", "restoring", "committing", "unjournalling"} =>
           op.stage \in Stages /\ op.old \in Names /\ Dir(op.old) \in Names
      /\ op.at = "deleting" => op.old \in Names /\ op.stage \in Stages \cup {NoStage}
  BY DirTyped DEF TypeOK, OperationSound, Operation
<1>2. CASE RemoveJournals
  <2>1. journal' \subseteq [staged : Stages, original : Names]
    BY <1>1, <1>2 DEF RemoveJournals, TypeOK
  <2>2. used' \in [ops : Nat, faults : Nat, crashes : Nat]
    BY <1>2, UsedTyped DEF RemoveJournals
  <2>3. op' \in Operation /\ OperationSound'
    BY <1>1, <1>2, AtTyped DEF RemoveJournals
  <2> QED BY <1>2, <2>1, <2>2, <2>3 DEF RemoveJournals, TypeOK
<1>3. CASE RemoveDeletesRow
  <2>1. removals' \subseteq Removal
    BY <1>3, RemovalsTyped DEF RemoveDeletesRow
  <2>2. op' \in Operation /\ OperationSound'
    BY <1>0, <1>1, <1>3, AtTyped DEF RemoveDeletesRow
  <2> QED BY <1>1, <1>3, <2>1, <2>2 DEF RemoveDeletesRow, Removal, TypeOK
<1>4. CASE RemoveFails
  <2>1. used' \in [ops : Nat, faults : Nat, crashes : Nat]
    BY <1>4, UsedTyped DEF RemoveFails
  <2>2. op' \in Operation /\ OperationSound'
    BY <1>0, <1>1, <1>4, AtTyped DEF RemoveFails
  <2> QED BY <1>4, <2>1, <2>2 DEF RemoveFails, TypeOK
<1>5. CASE RemoveRestores
  <2>1. present' \subseteq Places /\ media' \subseteq Owners \X Places
    BY <1>1, <1>5, MoveTyped DEF RemoveRestores, Places
  <2>2. removals' \subseteq Removal
    BY <1>5, RemovalsTyped DEF RemoveRestores
  <2> QED BY <1>0, <1>5, <2>1, <2>2, DropTyped DEF RemoveRestores, Done, Removal, TypeOK
<1>6. CASE RemoveCannotRestore
  <2>1. used' \in [ops : Nat, faults : Nat, crashes : Nat]
    BY <1>6, UsedTyped DEF RemoveCannotRestore
  <2>2. removals' \subseteq Removal
    BY <1>6, RemovalsTyped DEF RemoveCannotRestore
  <2> QED BY <1>0, <1>6, <2>1, <2>2 DEF RemoveCannotRestore, Done, Removal, TypeOK
<1>7. CASE RemoveCommits
  <2>1. used' \in [ops : Nat, faults : Nat, crashes : Nat]
    BY <1>7, UsedTyped DEF RemoveCommits
  <2>2. removals' \subseteq Removal
    BY <1>7, RemovalsTyped DEF RemoveCommits
  <2>3. present' \subseteq Places /\ media' \subseteq Owners \X Places
    BY <1>7, DestroyTyped DEF RemoveCommits, TypeOK
  <2>4. op' \in Operation /\ OperationSound'
    BY <1>0, <1>1, <1>7, AtTyped DEF RemoveCommits, Done
  <2> QED BY <1>7, <2>1, <2>2, <2>3, <2>4 DEF RemoveCommits, Removal, TypeOK
<1>8. CASE RemoveUnjournals
  BY <1>0, <1>8, DropTyped DEF RemoveUnjournals, Done, TypeOK
<1> QED BY <1>2, <1>3, <1>4, <1>5, <1>6, <1>7, <1>8

\* Downloads, and the deletion of users and lists.
LEMMA OthersTyped ==
  ASSUME TypeOK, NEW o \in Owners,
         \/ TaskLoads(o) \/ TaskMakesDir(o) \/ TaskWrites(o) \/ DeleteFindsNone(o) \/ DeleteRows(o)
  PROVE  TypeOK'
<1> USE DEF dbVars, diskVars
<1>1. CASE TaskLoads(o)
  BY <1>1, SameOperation DEF TaskLoads, Named, TypeOK
<1>2. CASE TaskMakesDir(o)
  BY <1>2, SameOperation, DirTyped, MakeDirTyped DEF TaskMakesDir, TypeOK
<1>3. CASE TaskWrites(o)
  BY <1>3, SameOperation, DirTyped DEF TaskWrites, Places, TypeOK
<1>4. CASE DeleteFindsNone(o)
  BY <1>4, SameOperation DEF DeleteFindsNone, TypeOK
<1>5. CASE DeleteRows(o)
  <2>1. removals' \subseteq Removal
    BY <1>5, RemovalsTyped DEF DeleteRows
  <2> QED BY <1>5, <2>1, SameOperation DEF DeleteRows, Removal, TypeOK
<1> QED BY <1>1, <1>2, <1>3, <1>4, <1>5

\* Crashes and recovery.
LEMMA RecoveryTyped ==
  ASSUME TypeOK,
         \/ Crash \/ RecoveryBegins \/ RecoveryEnds
         \/ \E s \in pending : RecoveryRestores(s) \/ RecoveryDestroys(s) \/ RecoveryRetains(s)
  PROVE  TypeOK'
<1> USE DEF dbVars, diskVars
<1>1. CASE Crash
  <2>1. op' \in Operation /\ OperationSound'
    BY <1>1 DEF Crash, Idle, Operation, OperationSound
  <2> QED BY <1>1, <2>1 DEF Crash, TypeOK
<1>2. CASE RecoveryBegins
  <2>1. used' \in [ops : Nat, faults : Nat, crashes : Nat]
    BY <1>2, UsedTyped DEF RecoveryBegins
  <2>2. removals' \subseteq Removal
    BY <1>2, RemovalsTyped DEF RecoveryBegins
  <2>3. journal' \subseteq [staged : Stages, original : Names] /\ pending' \subseteq Stages
    BY <1>2 DEF RecoveryBegins, OnDisk, TypeOK
  <2>4. phase' \in {"serving", "down", "recovering"}
    BY <1>2 DEF RecoveryBegins
  <2> QED BY <1>2, <2>1, <2>2, <2>3, <2>4, SameOperation DEF RecoveryBegins, Removal, TypeOK
<1>3. CASE RecoveryEnds
  BY <1>3, SameOperation DEF RecoveryEnds, TypeOK
<1>4. ASSUME NEW s \in pending, RecoveryRestores(s) PROVE TypeOK'
  <2>1. present' \subseteq Places /\ media' \subseteq Owners \X Places
    BY <1>4, TargetsTyped, MoveTyped DEF RecoveryRestores, Places
  <2>2. removals' \subseteq Removal
    BY <1>4, RemovalsTyped DEF RecoveryRestores
  <2>3. /\ journal' \subseteq [staged : Stages, original : Names]
        /\ used' \in [ops : Nat, faults : Nat, crashes : Nat]
    BY <1>4, DropTyped DEF RecoveryRestores, NoFault, TypeOK
  <2> QED BY <1>4, <2>1, <2>2, <2>3, SameOperation DEF RecoveryRestores, Recovering, Removal, TypeOK
<1>5. ASSUME NEW s \in pending, RecoveryDestroys(s) PROVE TypeOK'
  <2>1. present' \subseteq Places /\ media' \subseteq Owners \X Places
    BY <1>5, DestroyTyped DEF RecoveryDestroys
  <2>2. removals' \subseteq Removal
    BY <1>5, RemovalsTyped DEF RecoveryDestroys
  <2>3. /\ journal' \subseteq [staged : Stages, original : Names]
        /\ used' \in [ops : Nat, faults : Nat, crashes : Nat]
    BY <1>5, DropTyped DEF RecoveryDestroys
  <2> QED BY <1>5, <2>1, <2>2, <2>3, SameOperation DEF RecoveryDestroys, Recovering, Removal, TypeOK
<1>6. ASSUME NEW s \in pending, RecoveryRetains(s) PROVE TypeOK'
  <2>1. used' \in [ops : Nat, faults : Nat, crashes : Nat]
    BY <1>6, UsedTyped DEF RecoveryRetains
  <2>2. removals' \subseteq Removal
    BY <1>6, RemovalsTyped DEF RecoveryRetains
  <2> QED BY <1>6, <2>1, <2>2, SameOperation DEF RecoveryRetains, Recovering, Removal, TypeOK
<1> QED BY <1>1, <1>2, <1>3, <1>4, <1>5, <1>6

\* A step that changes nothing.
LEMMA StutterTyped == TypeOK /\ UNCHANGED vars => TypeOK'
BY SameOperation DEF TypeOK, vars, dbVars, diskVars

LEMMA TypeStep == TypeOK /\ [Next]_vars => TypeOK'
<1> SUFFICES ASSUME TypeOK, [Next]_vars PROVE TypeOK'
  OBVIOUS
<1>1. CASE \/ \E o \in Owners, n \in Names : CreateBegins(o, n) \/ RenameBegins(o, n)
           \/ \E o \in Owners : RenameInPlace(o) \/ RemoveEmptyName(o) \/ RemoveBegins(o)
  BY <1>1, BeginningsTyped, OwnTyped
<1>2. CASE CreateCommits \/ CreateFails \/ RenameCommits \/ RenameFails \/ Undo \/ UndoFails
  BY <1>2, EndsTyped
<1>3. CASE \/ RemoveJournals \/ RemoveDeletesRow \/ RemoveFails \/ RemoveRestores
           \/ RemoveCannotRestore \/ RemoveCommits \/ RemoveUnjournals
  BY <1>3, RemoveTyped
<1>4. CASE \/ \E o \in Owners : TaskLoads(o) \/ TaskMakesDir(o) \/ TaskWrites(o)
           \/ \E o \in Owners : DeleteFindsNone(o) \/ DeleteRows(o)
  BY <1>4, OthersTyped
<1>5. CASE \/ Crash \/ RecoveryBegins \/ RecoveryEnds
           \/ \E s \in pending : RecoveryRestores(s) \/ RecoveryDestroys(s) \/ RecoveryRetains(s)
  BY <1>5, RecoveryTyped
<1>6. CASE UNCHANGED vars
  BY <1>6, StutterTyped
<1> QED BY <1>1, <1>2, <1>3, <1>4, <1>5, <1>6 DEF Next

\* The variables of the storage have their types: in particular each step of an operation
\* finds the owner, the old name and the staged directory that its code relies on
\* (internal/entity/storage.go, user.go, list.go).
THEOREM EntityTypes == Spec => []TypeOK
<1>1. Init => TypeOK
  BY TypeInit
<1>2. TypeOK /\ [Next]_vars => TypeOK'
  BY TypeStep
<1> QED BY <1>1, <1>2, PTL DEF Spec

-----------------------------------------------------------------------------
(* No two rows resolve to the same directory.  Create looks for another    *)
(* owner of the directory in the step that inserts the row, but Rename     *)
(* looks before it moves the directory and commits later.  In between the  *)
(* lock of the parent keeps every other Create and Rename away: nobody     *)
(* else comes to own the new name.                                         *)

RenameApart == op.at = "renaming" => ~OwnedByAnother(op.owner, Dir(op.name))

\* Rows that are only removed stay apart.
LEMMA FewerRowsApart ==
  ASSUME TypeOK, OneRecordPerDirectory, goos' = goos,
         \A o \in Owners : Named(o)' => Named(o) /\ rows'[o] = rows[o]
  PROVE  /\ OneRecordPerDirectory'
         /\ \A o \in Owners : \A d : OwnedByAnother(o, d)' => OwnedByAnother(o, d)
BY DEF OneRecordPerDirectory, OwnedByAnother, PathOf, Named, Dir

\* A row that takes a name whose directory nobody else owns stays apart from the others.
LEMMA TakenNameApart ==
  ASSUME TypeOK, OneRecordPerDirectory, goos' = goos,
         NEW o \in Owners, NEW n \in Names, ~OwnedByAnother(o, Dir(n)),
         rows' = [rows EXCEPT ![o] = n]
  PROVE  OneRecordPerDirectory'
<1> SUFFICES ASSUME NEW x \in Owners, NEW y \in Owners, x # y, Named(x)', Named(y)'
             PROVE  PathOf(x)' # PathOf(y)'
  BY DEF OneRecordPerDirectory
<1> USE DEF PathOf, Dir, Named, TypeOK
<1>1. CASE x = o
  BY <1>1 DEF OwnedByAnother
<1>2. CASE y = o
  BY <1>2 DEF OwnedByAnother
<1>3. CASE x # o /\ y # o
  BY <1>3 DEF OneRecordPerDirectory
<1> QED BY <1>1, <1>2, <1>3

LEMMA ApartStep ==
  ASSUME TypeOK, OneRecordPerDirectory, RenameApart, [Next]_vars
  PROVE  OneRecordPerDirectory' /\ RenameApart'
<1> USE DEF dbVars, diskVars
<1>0. goos' = goos
  BY DEF Next, vars, CreateBegins, RenameBegins, RenameInPlace, RemoveEmptyName, RemoveBegins,
         CreateCommits, CreateFails, RenameCommits, RenameFails, Undo, UndoFails, RemoveJournals,
         RemoveDeletesRow, RemoveFails, RemoveRestores, RemoveCannotRestore, RemoveCommits,
         RemoveUnjournals, TaskLoads, TaskMakesDir, TaskWrites, DeleteFindsNone, DeleteRows, Crash,
         RecoveryBegins, RecoveryRestores, RecoveryDestroys, RecoveryRetains, RecoveryEnds
<1>1. CASE CreateCommits
  BY <1>0, <1>1, TakenNameApart DEF CreateCommits, Done, Idle, RenameApart, TypeOK, OperationSound
<1>2. CASE RenameCommits
  BY <1>0, <1>2, TakenNameApart DEF RenameCommits, Done, Idle, RenameApart, TypeOK, OperationSound
<1>3. ASSUME NEW o \in Owners, NEW n \in Names, RenameBegins(o, n)
      PROVE  OneRecordPerDirectory' /\ RenameApart'
  <2>1. rows' = rows /\ ~OwnedByAnother(o, Dir(n)) /\ op'.owner = o /\ op'.name = n
    BY <1>3 DEF RenameBegins, Begins
  <2> QED BY <1>0, <2>1, FewerRowsApart DEF RenameApart, Named, Dir
<1>4. CASE RemoveDeletesRow \/ \E o \in Owners : RemoveEmptyName(o) \/ DeleteRows(o)
  <2>1. PICK x \in Owners : rows' = [rows EXCEPT ![x] = NoRow]
    BY <1>4 DEF RemoveEmptyName, RemoveDeletesRow, DeleteRows, TypeOK, OperationSound
  <2>2. \A y \in Owners : Named(y)' => Named(y) /\ rows'[y] = rows[y]
    BY <2>1, EntityAssumption DEF Named, TypeOK
  <2>3. op'.at = "renaming" => op' = op
    BY <1>4 DEF RemoveEmptyName, RemoveDeletesRow, DeleteRows, Idle, TypeOK, Operation
  <2> QED BY <1>0, <2>2, <2>3, FewerRowsApart DEF RenameApart, Dir, TypeOK, OperationSound
<1>5. ASSUME rows' = rows, op'.at = "renaming" => op' = op
      PROVE  OneRecordPerDirectory' /\ RenameApart'
  BY <1>0, <1>5, FewerRowsApart DEF RenameApart, Named, Dir, TypeOK, OperationSound
<1>6. ASSUME NEW o \in Owners, \/ RenameInPlace(o) \/ RemoveBegins(o)
                               \/ \E n \in Names : CreateBegins(o, n)
      PROVE  OneRecordPerDirectory' /\ RenameApart'
  <2>1. rows' = rows
    BY <1>6 DEF RenameInPlace, RemoveBegins, CreateBegins
  <2>2. op'.at \in {"idle", "creating", "journalling", "deleting"}
    <3>1. CASE RenameInPlace(o)
      <4>1. op' = Idle
        BY <3>1 DEF RenameInPlace, Ready
      <4> QED BY <4>1 DEF Idle
    <3>2. CASE RemoveBegins(o)
      <4>1. \E s : \/ Begins("deleting", o, rows[o], "none", NoStage)
                   \/ Begins("journalling", o, rows[o], "moved", s)
        BY <3>2, Zenon DEF RemoveBegins
      <4> QED BY <4>1 DEF Begins
    <3>3. CASE \E n \in Names : CreateBegins(o, n)
      BY <3>3 DEF CreateBegins, Begins
    <3> QED BY <1>6, <3>1, <3>2, <3>3
  <2> QED BY <1>5, <2>1, <2>2
<1>7. CASE CreateFails \/ RenameFails \/ Undo \/ UndoFails
  <2>1. rows' = rows /\ op'.at \in {"idle", "undoing"}
    BY <1>7 DEF CreateFails, RenameFails, Undo, UndoFails, Done, Idle, TypeOK, Operation
  <2> QED BY <1>5, <2>1
<1>8. CASE RemoveJournals \/ RemoveFails \/ RemoveRestores \/ RemoveCannotRestore
           \/ RemoveCommits \/ RemoveUnjournals
  <2>1. rows' = rows
    <3>1. RemoveJournals \/ RemoveFails \/ RemoveRestores => rows' = rows
      BY DEF RemoveJournals, RemoveFails, RemoveRestores
    <3>2. RemoveCannotRestore \/ RemoveCommits \/ RemoveUnjournals => rows' = rows
      BY DEF RemoveCannotRestore, RemoveCommits, RemoveUnjournals
    <3> QED BY <1>8, <3>1, <3>2
  <2>2. op'.at # "renaming"
    BY <1>8 DEF RemoveJournals, RemoveFails, RemoveRestores, RemoveCannotRestore, RemoveCommits,
                RemoveUnjournals, Done, Idle, TypeOK, Operation
  <2> QED BY <1>5, <2>1, <2>2
<1>9. CASE \/ (\E o \in Owners : TaskLoads(o) \/ TaskMakesDir(o) \/ TaskWrites(o) \/ DeleteFindsNone(o))
           \/ RecoveryBegins \/ RecoveryEnds \/ UNCHANGED vars
           \/ \E s \in pending : RecoveryRestores(s) \/ RecoveryDestroys(s) \/ RecoveryRetains(s)
  BY <1>5, <1>9 DEF TaskLoads, TaskMakesDir, TaskWrites, DeleteFindsNone, RecoveryBegins,
          RecoveryEnds, RecoveryRestores, RecoveryDestroys, RecoveryRetains, vars
<1>10. CASE Crash
  BY <1>5, <1>10 DEF Crash, Idle
<1>11. CASE \/ (\E o \in Owners, n \in Names : CreateBegins(o, n) \/ RenameBegins(o, n))
            \/ \E o \in Owners : RenameInPlace(o) \/ RemoveEmptyName(o) \/ RemoveBegins(o)
  BY <1>3, <1>4, <1>6, <1>11
<1>12. CASE \/ (\E o \in Owners : TaskLoads(o) \/ TaskMakesDir(o) \/ TaskWrites(o))
            \/ \E o \in Owners : DeleteFindsNone(o) \/ DeleteRows(o)
  BY <1>4, <1>9, <1>12
<1> QED BY <1>1, <1>2, <1>4, <1>7, <1>8, <1>9, <1>10, <1>11, <1>12 DEF Next

\* Two rows never resolve to the same directory, on either platform and whatever fails or is
\* interrupted: the checks of entityDirectoryOwnedByAnother in Create and Rename are enough
\* although Rename's comes before the rename on disk (internal/entity/storage.go).
THEOREM RecordsApart == Spec => []OneRecordPerDirectory
<1>1. Init => TypeOK /\ OneRecordPerDirectory /\ RenameApart
  BY TypeInit DEF Init, OneRecordPerDirectory, RenameApart, Idle
<1>2. TypeOK /\ OneRecordPerDirectory /\ RenameApart /\ [Next]_vars
        => TypeOK' /\ OneRecordPerDirectory' /\ RenameApart'
  BY TypeStep, ApartStep
<1> QED BY <1>1, <1>2, PTL DEF Spec

-----------------------------------------------------------------------------
(* Rows.  While an operation is under way on an owner, its row is the one  *)
(* that the operation has read, or it is gone: the lock keeps the other    *)
(* operations away, but not the deletion of a user or list.                *)

RowHeld ==
  /\ phase # "serving" => op.at = "idle"
  /\ op.at \in {"creating", "committing", "unjournalling"} => rows[op.owner] = NoRow
  /\ op.at # "idle" /\ Named(op.owner) => rows[op.owner] = op.old

-----------------------------------------------------------------------------
(* Removals.                                                               *)

\* The operation is at work on the staged directory s.
InHand(s) ==
  op.stage = s /\ op.at \in {"journalling", "deleting", "restoring", "committing"}

\* Each staged directory on disk has one removal in the history; it is the one under
\* way, or waits for the recovery, or was left for a reason that is logged.  A removal
\* whose row is neither gone nor renamed belongs to a row that names the directory that
\* the journal gives as the original.
RemovalsHeld ==
  /\ \A r \in removals : r.stage \in OnDisk
  /\ \A q, r \in removals : q.stage = r.stage => q = r
  /\ \A s \in OnDisk : \E r \in removals :
       /\ r.stage = s
       /\ r.excused \/ phase = "down" \/ s \in pending \/ InHand(s)
  /\ phase # "recovering" => pending = {}
  /\ \A r \in removals : InHand(r.stage) =>
       /\ r.owner = op.owner
       /\ op.at = "committing"  => r.gone
       /\ op.at = "journalling" => r.gone \/ r.renamed \/ rows[op.owner] = op.old
  /\ \A r \in removals : ~r.gone /\ ~r.renamed =>
       /\ Named(r.owner)
       /\ \A j \in journal : j.staged = r.stage => j.original = PathOf(r.owner)

-----------------------------------------------------------------------------
(* The row of an owner that is operated on.                                *)

\* An operation that goes on to its next step.
LEMMA GoesOn ==
  ASSUME TypeOK, NEW a, op' = [op EXCEPT !.at = a]
  PROVE  /\ op'.at = a /\ op'.owner = op.owner /\ op'.name = op.name /\ op'.old = op.old
         /\ op'.change = op.change /\ op'.stage = op.stage /\ op'.kept = op.kept
BY DEF TypeOK, Operation

LEMMA RowHeldStep == TypeOK /\ RowHeld /\ [Next]_vars => RowHeld'
<1> SUFFICES ASSUME TypeOK, RowHeld, [Next]_vars PROVE RowHeld'
  OBVIOUS
<1> USE DEF dbVars, diskVars
<1>0. ~(NoRow \in Names) /\ rows \in [Owners -> Names \cup {NoRow, Empty}]
      /\ (op.at # "idle" => op.owner \in Owners)
  BY EntityAssumption DEF TypeOK, OperationSound, Operation
<1>1. ASSUME op' = Idle PROVE RowHeld'
  BY <1>1 DEF RowHeld, Idle
\* The operation goes on and its row stays, or is gone.
<1>2. ASSUME phase' = phase, op'.owner = op.owner, op'.old = op.old, op.at # "idle",
             op'.at \in {"undoing", "deleting", "restoring", "committing", "unjournalling"},
             op'.at \in {"committing", "unjournalling"} =>
               rows'[op.owner] = NoRow,
             rows'[op.owner] \in {rows[op.owner], NoRow}
      PROVE  RowHeld'
  BY <1>0, <1>2 DEF RowHeld, Named
<1>3. ASSUME NEW o \in Owners, NEW n \in Names, CreateBegins(o, n) \/ RenameBegins(o, n)
      PROVE  RowHeld'
  BY <1>3 DEF CreateBegins, RenameBegins, Ready, Begins, RowHeld
<1>4. ASSUME NEW o \in Owners, RenameInPlace(o) \/ RemoveEmptyName(o) PROVE RowHeld'
  BY <1>1, <1>4 DEF RenameInPlace, RemoveEmptyName, Ready
<1>5. ASSUME NEW o \in Owners, RemoveBegins(o) PROVE RowHeld'
  <2>1. \E s : \/ Begins("deleting", o, rows[o], "none", NoStage)
               \/ Begins("journalling", o, rows[o], "moved", s)
    BY <1>5, Zenon DEF RemoveBegins
  <2> QED BY <1>5, <2>1 DEF RemoveBegins, Ready, Begins, RowHeld
<1>6. CASE CreateCommits \/ RenameCommits \/ Undo \/ UndoFails \/ RemoveRestores
           \/ RemoveCannotRestore \/ RemoveUnjournals
  BY <1>1, <1>6 DEF CreateCommits, RenameCommits, Undo, UndoFails, RemoveRestores,
                    RemoveCannotRestore, RemoveUnjournals, Done
<1>7. CASE CreateFails \/ RenameFails \/ RemoveJournals \/ RemoveFails \/ RemoveCommits
           \/ RemoveDeletesRow
  <2>1. CASE CreateFails \/ RenameFails
    BY <1>0, <1>2, <2>1, GoesOn DEF CreateFails, RenameFails
  <2>2. CASE RemoveJournals
    BY <1>0, <1>2, <2>2, GoesOn DEF RemoveJournals
  <2>3. CASE RemoveFails
    BY <1>0, <1>1, <1>2, <2>3, GoesOn DEF RemoveFails
  <2>4. CASE RemoveCommits
    BY <1>0, <1>1, <1>2, <2>4, GoesOn DEF RemoveCommits, Done, RowHeld
  <2>5. CASE RemoveDeletesRow
    BY <1>0, <1>1, <1>2, <2>5, GoesOn DEF RemoveDeletesRow
  <2> QED BY <1>7, <2>1, <2>2, <2>3, <2>4, <2>5
<1>8. ASSUME NEW o \in Owners,
             \/ TaskLoads(o) \/ TaskMakesDir(o) \/ TaskWrites(o) \/ DeleteFindsNone(o)
      PROVE  RowHeld'
  BY <1>8 DEF TaskLoads, TaskMakesDir, TaskWrites, DeleteFindsNone, RowHeld, Named
<1>9. ASSUME NEW o \in Owners, DeleteRows(o) PROVE RowHeld'
  BY <1>0, <1>9 DEF DeleteRows, RowHeld, Named
<1>10. CASE Crash
  BY <1>1, <1>10 DEF Crash
<1>11. CASE \/ RecoveryBegins \/ RecoveryEnds \/ UNCHANGED vars
            \/ \E s \in pending : RecoveryRestores(s) \/ RecoveryDestroys(s) \/ RecoveryRetains(s)
  <2>1. rows' = rows /\ op' = op /\ (phase' = phase \/ phase # "serving")
    BY <1>11 DEF RecoveryBegins, RecoveryEnds, RecoveryRestores, RecoveryDestroys, RecoveryRetains,
                 Recovering, vars
  <2> QED BY <2>1 DEF RowHeld, Named
<1> QED BY <1>3, <1>4, <1>5, <1>6, <1>7, <1>8, <1>9, <1>10, <1>11 DEF Next

-----------------------------------------------------------------------------
(* What a step does to the staged directories and to their history.        *)

\* A staged directory has no name that a row can have.
LEMMA StagesApart == \A n \in Names, s \in Stages : n # s
BY EntityAssumption DEF Stages

\* What happens to directories with names leaves the staged ones alone.
LEMMA StagesStay ==
  ASSUME TypeOK, NEW p \in Names, NEW q \in Names,
         MakeDir(q) \/ Move(p, q) \/ Destroy(p) \/ UNCHANGED diskVars
  PROVE  OnDisk' = OnDisk
BY StagesApart DEF MakeDir, Move, Destroy, OnDisk, diskVars

LEMMA StageLeaves ==
  ASSUME TypeOK, NEW s \in Stages, NEW n \in Names, Move(s, n) \/ Destroy(s)
  PROVE  OnDisk' = OnDisk \ {s}
BY StagesApart DEF Move, Destroy, OnDisk

\* x is r at a later time.
Follows(x, r) ==
  /\ x.stage = r.stage /\ x.owner = r.owner
  /\ r.gone => x.gone
  /\ r.renamed => x.renamed
  /\ r.excused => x.excused

HistoryFollows ==
  /\ \A x \in removals' : x.stage \in OnDisk' /\ \E r \in removals : Follows(x, r)
  /\ \A r \in removals : r.stage \in OnDisk' => \E x \in removals' : Follows(x, r)
  /\ \A x, y \in removals' : x.stage = y.stage => x = y

LEMMA HistoryStays ==
  ASSUME TypeOK, RemovalsHeld, OnDisk' = OnDisk, UNCHANGED removals
  PROVE  HistoryFollows
BY DEF RemovalsHeld, HistoryFollows, Follows

LEMMA HistoryForgets ==
  ASSUME TypeOK, RemovalsHeld, NEW s, OnDisk' = OnDisk \ {s}, Forget(s)
  PROVE  HistoryFollows
BY DEF RemovalsHeld, HistoryFollows, Follows, Forget

LEMMA HistoryExcuses ==
  ASSUME TypeOK, RemovalsHeld, OnDisk' = OnDisk, NEW s, Excuse(s)
  PROVE  HistoryFollows /\ \A x \in removals' : x.stage \in s => x.excused
<1>1. \A r \in removals : r \in Removal
  BY DEF TypeOK, Removal
<1> DEFINE f(r) == IF r.stage \in s THEN [r EXCEPT !.excused = TRUE] ELSE r
<1>2. removals' = {f(r) : r \in removals}
  BY DEF Excuse
<1>3. \A r \in removals : Follows(f(r), r) /\ (r.stage \in s => f(r).excused)
  BY <1>1 DEF Follows, Removal
<1>4. \A q, r \in removals : f(q).stage = f(r).stage => q = r
  BY <1>3 DEF Follows, RemovalsHeld
<1> HIDE DEF f
<1>5. \A x \in removals' : \E r \in removals : x = f(r) /\ Follows(x, r)
  BY <1>2, <1>3
<1> QED BY <1>2, <1>3, <1>4, <1>5 DEF HistoryFollows, Follows, RemovalsHeld

LEMMA HistoryOfRowGone ==
  ASSUME TypeOK, RemovalsHeld, OnDisk' = OnDisk, NEW o, RowGone(o)
  PROVE  HistoryFollows /\ \A x \in removals' : x.owner = o => x.gone
<1>1. \A r \in removals : r \in Removal
  BY DEF TypeOK, Removal
<1> DEFINE f(r) == IF r.owner = o THEN [r EXCEPT !.gone = TRUE] ELSE r
<1>2. removals' = {f(r) : r \in removals}
  BY DEF RowGone
<1>3. \A r \in removals : Follows(f(r), r) /\ (r.owner = o => f(r).gone)
  BY <1>1 DEF Follows, Removal
<1>4. \A q, r \in removals : f(q).stage = f(r).stage => q = r
  BY <1>3 DEF Follows, RemovalsHeld
<1> HIDE DEF f
<1>5. \A x \in removals' : \E r \in removals : x = f(r) /\ Follows(x, r)
  BY <1>2, <1>3
<1> QED BY <1>2, <1>3, <1>4, <1>5 DEF HistoryFollows, Follows, RemovalsHeld

LEMMA HistoryOfRenamed ==
  ASSUME TypeOK, RemovalsHeld, OnDisk' = OnDisk, NEW o, Renamed(o)
  PROVE  HistoryFollows /\ \A x \in removals' : x.owner = o => x.renamed
<1>1. \A r \in removals : r \in Removal
  BY DEF TypeOK, Removal
<1> DEFINE f(r) == IF r.owner = o THEN [r EXCEPT !.renamed = TRUE] ELSE r
<1>2. removals' = {f(r) : r \in removals}
  BY DEF Renamed
<1>3. \A r \in removals : Follows(f(r), r) /\ (r.owner = o => f(r).renamed)
  BY <1>1 DEF Follows, Removal
<1>4. \A q, r \in removals : f(q).stage = f(r).stage => q = r
  BY <1>3 DEF Follows, RemovalsHeld
<1> HIDE DEF f
<1>5. \A x \in removals' : \E r \in removals : x = f(r) /\ Follows(x, r)
  BY <1>2, <1>3
<1> QED BY <1>2, <1>3, <1>4, <1>5 DEF HistoryFollows, Follows, RemovalsHeld

-----------------------------------------------------------------------------
(* What a step must do to keep RemovalsHeld, unless it adds a removal.     *)

\* The journal grows only by what agrees with the rows, and a row that changes has its
\* removals marked.
RecordsFollow ==
  /\ goos' = goos
  /\ \A x \in removals' : rows'[x.owner] = rows[x.owner] \/ x.gone \/ x.renamed
  /\ \A j \in journal' : \/ j \in journal
                         \/ \A x \in removals' : j.staged = x.stage =>
                              x.gone \/ x.renamed \/ j.original = Dir(rows[x.owner])

\* Whoever answers for a staged directory passes it on, or it is excused; and the
\* operation that has one in hand has had it before.
CustodyFollows ==
  /\ phase' # "recovering" => pending' = {}
  /\ \A s \in OnDisk' : phase = "down" \/ s \in pending \/ InHand(s) =>
       \/ phase' = "down" \/ s \in pending' \/ InHand(s)'
       \/ \A x \in removals' : x.stage = s => x.excused
  /\ \A x \in removals' : InHand(x.stage)' =>
       /\ InHand(x.stage) /\ op'.owner = op.owner /\ op'.old = op.old
       /\ op'.at = "journalling" => op.at = "journalling"
       /\ op'.at = "committing"  => op.at = "committing" \/ x.gone

LEMMA RemovalsFrame ==
  ASSUME TypeOK, RemovalsHeld, OnDisk' \subseteq OnDisk, HistoryFollows, RecordsFollow,
         CustodyFollows
  PROVE  RemovalsHeld'
<1>1. (\A r \in removals : r.stage \in OnDisk)' /\ (\A q, r \in removals : q.stage = r.stage => q = r)'
  BY DEF HistoryFollows
<1>2. ASSUME NEW s \in OnDisk'
      PROVE  \E x \in removals' : x.stage = s /\ (x.excused \/ phase' = "down" \/ s \in pending' \/ InHand(s)')
  <2>1. PICK r \in removals : r.stage = s /\ (r.excused \/ phase = "down" \/ s \in pending \/ InHand(s))
    BY <1>2 DEF RemovalsHeld
  <2>2. PICK x \in removals' : Follows(x, r)
    BY <1>2, <2>1 DEF HistoryFollows
  <2> QED BY <1>2, <2>1, <2>2 DEF Follows, CustodyFollows
<1>3. (phase # "recovering" => pending = {})'
  BY DEF CustodyFollows
<1>4. ASSUME NEW x \in removals', InHand(x.stage)'
      PROVE  /\ x.owner = op'.owner
             /\ op'.at = "committing" => x.gone
             /\ op'.at = "journalling" => x.gone \/ x.renamed \/ rows'[op'.owner] = op'.old
  <2>1. PICK r \in removals : Follows(x, r)
    BY DEF HistoryFollows
  <2> QED BY <1>4, <2>1 DEF Follows, RemovalsHeld, CustodyFollows, RecordsFollow
<1>5. ASSUME NEW x \in removals', ~x.gone, ~x.renamed
      PROVE  /\ rows'[x.owner] \in Names
             /\ \A j \in journal' : j.staged = x.stage => j.original = DirOn(goos', rows'[x.owner])
  <2>1. PICK r \in removals : Follows(x, r)
    BY DEF HistoryFollows
  <2> QED BY <1>5, <2>1 DEF Follows, RemovalsHeld, RecordsFollow, Named, PathOf, Dir
<1> QED BY <1>1, <1>2, <1>3, <1>4, <1>5 DEF RemovalsHeld, Named, PathOf, Dir

\* The frame for a step that leaves the staged directories, their history, the journal
\* and the process alone.
LEMMA RemovalsUntouched ==
  ASSUME TypeOK, RemovalsHeld, goos' = goos, phase' = phase, pending' = pending,
         UNCHANGED removals, journal' \subseteq journal, OnDisk' = OnDisk,
         \A r \in removals : rows'[r.owner] = rows[r.owner] \/ r.gone \/ r.renamed,
         \A s \in Stages : InHand(s)' => InHand(s) /\ op' = op,
         \A s \in Stages : InHand(s) => op' = op \/ \A r \in removals : r.stage = s => r.excused
  PROVE  RemovalsHeld'
<1>1. HistoryFollows
  BY HistoryStays
<1>2. RecordsFollow
  BY DEF RecordsFollow
<1>3. OnDisk \subseteq Stages /\ \A r \in removals : r.stage \in Stages
  BY DEF OnDisk, TypeOK
<1>4. CustodyFollows
  BY <1>3 DEF CustodyFollows, RemovalsHeld, InHand
<1> QED BY <1>1, <1>2, <1>4, RemovalsFrame

\* Create and Rename.
LEMMA RemovalsInRename ==
  ASSUME TypeOK, RowHeld, RemovalsHeld,
         \/ \E o \in Owners, n \in Names : CreateBegins(o, n) \/ RenameBegins(o, n)
         \/ \E o \in Owners : RenameInPlace(o) \/ RemoveEmptyName(o)
         \/ CreateCommits \/ CreateFails \/ RenameFails \/ Undo \/ UndoFails
  PROVE  RemovalsHeld'
<1> USE DEF dbVars, diskVars
<1>0. \A r \in removals : ~r.gone /\ ~r.renamed => Named(r.owner)
  BY DEF RemovalsHeld
<1>1. ASSUME NEW o \in Owners, NEW n \in Names, CreateBegins(o, n) \/ RenameBegins(o, n)
      PROVE  RemovalsHeld'
  <2>1. OnDisk' = OnDisk
    BY <1>1, DirTyped, PathTyped, StagesStay DEF CreateBegins, RenameBegins, Movable
  <2>2. op.at = "idle" /\ op'.at \in {"creating", "renaming"}
    BY <1>1 DEF CreateBegins, RenameBegins, Ready, Begins, Idle
  <2>3. \A s : ~InHand(s) /\ ~InHand(s)'
    BY <2>2 DEF InHand
  <2> QED BY <1>1, <2>1, <2>3, RemovalsUntouched DEF CreateBegins, RenameBegins
<1>2. ASSUME NEW o \in Owners, RenameInPlace(o) PROVE RemovalsHeld'
  <2>1. OnDisk' = OnDisk
    BY <1>2, PathTyped, StagesStay DEF RenameInPlace
  <2> QED BY <1>2, <2>1, RemovalsUntouched DEF RenameInPlace, InHand
<1>3. ASSUME NEW o \in Owners, RemoveEmptyName(o) PROVE RemovalsHeld'
  <2>1. \A r \in removals : rows'[r.owner] = rows[r.owner] \/ r.gone \/ r.renamed
    BY <1>0, <1>3, EntityAssumption DEF RemoveEmptyName, Named, TypeOK
  <2> QED BY <1>3, <2>1, RemovalsUntouched DEF RemoveEmptyName, InHand, OnDisk
<1>4. CASE CreateCommits
  <2>1. \A r \in removals : rows'[r.owner] = rows[r.owner] \/ r.gone \/ r.renamed
    BY <1>0, <1>4, EntityAssumption DEF CreateCommits, RowHeld, Named, TypeOK
  <2>2. \A s : ~InHand(s) /\ ~InHand(s)'
    BY <1>4 DEF CreateCommits, Done, Idle, InHand
  <2> QED BY <1>4, <2>1, <2>2, RemovalsUntouched DEF CreateCommits, OnDisk
<1>5. CASE CreateFails \/ RenameFails \/ UndoFails
  <2>1. \A s : ~InHand(s) /\ ~InHand(s)'
    BY <1>5, GoesOn DEF CreateFails, RenameFails, UndoFails, Done, Idle, InHand
  <2> QED BY <1>5, <2>1, RemovalsUntouched DEF CreateFails, RenameFails, UndoFails, OnDisk
<1>6. CASE Undo
  <2>1. op.name \in Names /\ (op.change = "moved" => op.old \in Names)
    BY <1>6 DEF Undo, TypeOK, OperationSound
  <2>2. Dir(op.name) \in Names /\ (op.change = "moved" => Dir(op.old) \in Names)
    BY <2>1, DirTyped
  <2>3. OnDisk' = OnDisk
    BY <1>6, <2>2, StagesStay DEF Undo
  <2>4. \A s : ~InHand(s) /\ ~InHand(s)'
    BY <1>6 DEF Undo, Done, Idle, InHand
  <2> QED BY <1>6, <2>3, <2>4, RemovalsUntouched DEF Undo
<1> QED BY <1>1, <1>2, <1>3, <1>4, <1>5, <1>6

LEMMA RemovalsRenamed ==
  ASSUME TypeOK, RowHeld, RemovalsHeld, RenameCommits PROVE RemovalsHeld'
<1> USE DEF dbVars, diskVars
<1>1. OnDisk' = OnDisk
  BY DEF RenameCommits, OnDisk
<1>2. HistoryFollows /\ \A x \in removals' : x.owner = op.owner => x.renamed
  BY <1>1, HistoryOfRenamed DEF RenameCommits
<1>3. \A x \in removals' : x.owner \in Owners
  BY <1>2 DEF HistoryFollows, Follows, TypeOK
<1>4. RecordsFollow
  BY <1>2, <1>3 DEF RecordsFollow, RenameCommits, TypeOK
<1>5. CustodyFollows
  BY DEF CustodyFollows, RenameCommits, Done, Idle, InHand, RemovalsHeld
<1> QED BY <1>1, <1>2, <1>4, <1>5, RemovalsFrame

\* A row goes.
LEMMA RemovalsOfGone ==
  ASSUME TypeOK, RowHeld, RemovalsHeld, RemoveDeletesRow \/ \E o \in Owners : DeleteRows(o)
  PROVE  RemovalsHeld'
<1> USE DEF dbVars, diskVars
<1>0. PICK o \in Owners : /\ rows' = [rows EXCEPT ![o] = NoRow] /\ RowGone(o)
                          /\ RemoveDeletesRow => o = op.owner
                          /\ ~RemoveDeletesRow => op' = op
  BY DEF RemoveDeletesRow, DeleteRows, TypeOK, OperationSound
<1>1. /\ OnDisk' = OnDisk /\ goos' = goos /\ phase' = phase /\ pending' = pending
      /\ journal' = journal
  BY DEF RemoveDeletesRow, DeleteRows, OnDisk
<1>2. HistoryFollows /\ \A x \in removals' : x.owner = o => x.gone
  BY <1>0, <1>1, HistoryOfRowGone
<1>3. \A x \in removals' : x.owner \in Owners
  BY <1>2 DEF HistoryFollows, Follows, TypeOK
<1>4. RecordsFollow
  BY <1>0, <1>1, <1>2, <1>3 DEF RecordsFollow, TypeOK
<1>7. phase' # "recovering" => pending' = {}
  BY <1>1 DEF RemovalsHeld
<1>5. ASSUME RemoveDeletesRow PROVE CustodyFollows
  <2>1. /\ op.at = "deleting"
        /\ \/ op.stage = NoStage /\ op' = Idle
           \/ op' = [op EXCEPT !.at = "committing"]
    BY <1>5 DEF RemoveDeletesRow
  <2>2. \A s : InHand(s) /\ s \in Stages => InHand(s)'
    BY <2>1, GoesOn, EntityAssumption DEF InHand, Idle, Stages
  <2>3. \A s : InHand(s)' => InHand(s) /\ op'.owner = op.owner /\ op'.old = op.old
                             /\ op'.at = "committing"
    BY <2>1, GoesOn DEF InHand, Idle
  <2>4. \A x \in removals' : InHand(x.stage)' => x.gone
    <3>1. ASSUME NEW x \in removals', InHand(x.stage)' PROVE x.owner = op.owner
      <4>1. PICK r \in removals : Follows(x, r)
        BY <1>2 DEF HistoryFollows
      <4> QED BY <2>3, <3>1, <4>1 DEF Follows, RemovalsHeld
    <3> QED BY <1>0, <1>2, <1>5, <3>1
  <2>5. \A s \in OnDisk' : InHand(s) => InHand(s)'
    BY <2>2 DEF OnDisk
  <2> QED BY <1>1, <1>7, <2>3, <2>4, <2>5 DEF CustodyFollows
<1>6. ASSUME ~RemoveDeletesRow PROVE CustodyFollows
  <2>1. \A s : InHand(s)' <=> InHand(s)
    BY <1>0, <1>6 DEF InHand
  <2> QED BY <1>0, <1>1, <1>6, <1>7, <2>1 DEF CustodyFollows
<1> QED BY <1>1, <1>2, <1>4, <1>5, <1>6, RemovalsFrame

\* The beginning of Remove: the staged directory has a new name, which nothing else has.
LEMMA RemovalsBegin ==
  ASSUME TypeOK, RowHeld, RemovalsHeld, NEW o \in Owners, RemoveBegins(o)
  PROVE  RemovalsHeld'
<1> USE DEF dbVars, diskVars
<1>0. /\ goos' = goos /\ rows' = rows /\ journal' = journal /\ phase' = phase /\ pending' = pending
      /\ op.at = "idle" /\ rows[o] \in Names /\ PathOf(o) \in Names
  BY PathTyped DEF RemoveBegins, Ready, Idle, Named
<1>1. CASE Begins("deleting", o, rows[o], "none", NoStage) /\ UNCHANGED <<diskVars, removals>>
  <2>1. \A s \in Stages : ~InHand(s) /\ ~InHand(s)'
    BY <1>0, <1>1, EntityAssumption DEF Begins, InHand, Stages
  <2> QED BY <1>0, <1>1, <2>1, RemovalsUntouched DEF OnDisk
<1>2. ASSUME NEW i \in 1 .. MaxStages, NEW s, s = [hash |-> Trimmed(rows[o]), id |-> i], Unused(s),
             Move(PathOf(o), s), Begins("journalling", o, rows[o], "moved", s),
             removals' = removals \cup {[stage |-> s, owner |-> o, gone |-> FALSE,
                                          renamed |-> FALSE, excused |-> FALSE]}
      PROVE  RemovalsHeld'
  <2>1. s \in Stages
    BY <1>0, <1>2, DirTyped DEF Stages
  <2>2. OnDisk' = OnDisk \cup {s} /\ s \notin OnDisk
    BY <1>0, <1>2, <2>1, StagesApart DEF Move, OnDisk, Unused
  <2> DEFINE x == [stage |-> s, owner |-> o, gone |-> FALSE, renamed |-> FALSE, excused |-> FALSE]
  <2>3. /\ x.stage = s /\ x.owner = o /\ ~x.gone /\ ~x.renamed
        /\ removals' = removals \cup {x}
        /\ \A r \in removals : r.stage \in OnDisk /\ r.stage # s
    BY <1>2, <2>2 DEF RemovalsHeld
  <2> HIDE DEF x
  <2>4. \A t : ~InHand(t) /\ (InHand(t)' <=> t = s)
    BY <1>0, <1>2 DEF InHand, Begins
  <2>5. op'.owner = o /\ op'.old = rows[o] /\ op'.at = "journalling"
    BY <1>2 DEF Begins
  <2>6. (\A r \in removals : r.stage \in OnDisk)' /\ (\A q, r \in removals : q.stage = r.stage => q = r)'
    BY <2>2, <2>3 DEF RemovalsHeld
  <2>7. (\A t \in OnDisk : \E r \in removals :
           r.stage = t /\ (r.excused \/ phase = "down" \/ t \in pending \/ InHand(t)))'
    BY <1>0, <2>2, <2>3, <2>4 DEF RemovalsHeld
  <2>8. (phase # "recovering" => pending = {})'
    BY <1>0 DEF RemovalsHeld
  <2>9. \A r \in removals' : InHand(r.stage)' =>
          r.owner = op'.owner /\ op'.at # "committing" /\ rows'[op'.owner] = op'.old
    BY <1>0, <2>3, <2>4, <2>5
  <2>10. \A r \in removals' : ~r.gone /\ ~r.renamed =>
           /\ rows'[r.owner] \in Names
           /\ \A j \in journal' : j.staged = r.stage => j.original = DirOn(goos', rows'[r.owner])
    BY <1>0, <1>2, <2>3 DEF Unused, RemovalsHeld, Named, PathOf, Dir
  <2> QED BY <2>6, <2>7, <2>8, <2>9, <2>10 DEF RemovalsHeld, Named, PathOf, Dir
<1> QED BY <1>1, <1>2 DEF RemoveBegins

\* Remove stages, journals, deletes and destroys, or puts back.
LEMMA RemovalsInRemove ==
  ASSUME TypeOK, RowHeld, RemovalsHeld,
         \/ RemoveJournals \/ RemoveFails \/ RemoveRestores \/ RemoveCannotRestore
         \/ RemoveCommits \/ RemoveUnjournals
  PROVE  RemovalsHeld'
<1> USE DEF dbVars, diskVars
<1>0. /\ goos' = goos /\ rows' = rows /\ phase' = phase /\ pending' = pending
      /\ phase' # "recovering" => pending' = {}
  BY DEF RemovalsHeld, RemoveJournals, RemoveFails, RemoveRestores, RemoveCannotRestore,
         RemoveCommits, RemoveUnjournals
<1>1. /\ op.at \in {"journalling", "restoring", "committing"} => op.stage \in Stages /\ op.old \in Names
      /\ op.old \in Names => Dir(op.old) \in Names
  BY DirTyped DEF TypeOK, OperationSound
<1>2. \A r \in removals : r.stage \in OnDisk
  BY DEF RemovalsHeld
<1>3. CASE RemoveJournals
  <2>1. OnDisk' = OnDisk /\ HistoryFollows /\ removals' = removals
    BY <1>3, HistoryStays DEF RemoveJournals, OnDisk
  <2>2. op.at = "journalling" /\ op'.at \in {"deleting", "restoring"} /\ op'.stage = op.stage
        /\ op'.owner = op.owner /\ op'.old = op.old
    BY <1>3, GoesOn DEF RemoveJournals
  <2>3. CustodyFollows
    BY <1>0, <2>2 DEF CustodyFollows, InHand
  <2>4. \A r \in removals : r.stage = op.stage =>
          r.gone \/ r.renamed \/ Dir(op.old) = Dir(rows[r.owner])
    BY <2>2 DEF RemovalsHeld, InHand
  <2>5. \A j \in journal' : j \in journal \/ (j.staged = op.stage /\ j.original = Dir(op.old))
    <3> DEFINE e == [staged |-> op.stage, original |-> Dir(op.old)]
    <3>1. journal' = journal \cup {e} \/ journal' = journal
      BY <1>3 DEF RemoveJournals
    <3>2. e.staged = op.stage /\ e.original = Dir(op.old)
      OBVIOUS
    <3> HIDE DEF e
    <3> QED BY <3>1, <3>2
  <2>6. RecordsFollow
    BY <1>0, <2>1, <2>4, <2>5 DEF RecordsFollow
  <2> QED BY <2>1, <2>3, <2>6, RemovalsFrame
<1>4. CASE RemoveFails
  <2>1. OnDisk' = OnDisk /\ HistoryFollows
    BY <1>4, HistoryStays DEF RemoveFails, OnDisk
  <2>2. /\ op.at = "deleting"
        /\ \/ op'.at = "restoring" /\ op'.stage = op.stage /\ op'.owner = op.owner /\ op'.old = op.old
           \/ op.stage = NoStage /\ op' = Idle
    BY <1>4, GoesOn DEF RemoveFails
  <2>3. \A s \in OnDisk' : s # NoStage
    BY EntityAssumption DEF OnDisk, Stages
  <2>4. CustodyFollows
    BY <1>0, <2>2, <2>3 DEF CustodyFollows, InHand, Idle
  <2>5. RecordsFollow
    BY <1>0, <1>4 DEF RecordsFollow, RemoveFails
  <2> QED BY <2>1, <2>4, <2>5, RemovalsFrame
<1>5. CASE RemoveRestores
  <2>1. op.at = "restoring" /\ op' = Idle /\ journal' \subseteq journal
    BY <1>5 DEF RemoveRestores, Done, DropJournal
  <2>2. OnDisk' = OnDisk \ {op.stage} /\ HistoryFollows
    BY <1>1, <1>5, <2>1, StageLeaves, HistoryForgets DEF RemoveRestores
  <2>3. CustodyFollows
    BY <1>0, <2>1, <2>2 DEF CustodyFollows, InHand, Idle
  <2>4. RecordsFollow
    BY <1>0, <2>1 DEF RecordsFollow
  <2> QED BY <2>2, <2>3, <2>4, RemovalsFrame
<1>6. CASE RemoveCannotRestore
  <2>1. OnDisk' = OnDisk /\ op' = Idle /\ journal' = journal
    BY <1>6 DEF RemoveCannotRestore, Done, OnDisk
  <2>2. HistoryFollows /\ \A x \in removals' : x.stage = op.stage => x.excused
    BY <1>6, <2>1, HistoryExcuses DEF RemoveCannotRestore
  <2>3. CustodyFollows
    BY <1>0, <2>1, <2>2 DEF CustodyFollows, InHand, Idle
  <2>4. RecordsFollow
    BY <1>0, <2>1 DEF RecordsFollow
  <2> QED BY <2>1, <2>2, <2>3, <2>4, RemovalsFrame
<1>7. CASE RemoveCommits
  <2>1. CASE Destroy(op.stage) /\ Forget(op.stage) /\ op' = [op EXCEPT !.at = "unjournalling"]
    <3>1. op.at = "committing" /\ op'.at = "unjournalling" /\ journal' = journal
      BY <1>7, <2>1, GoesOn DEF RemoveCommits
    <3>2. OnDisk' = OnDisk \ {op.stage} /\ HistoryFollows
      BY <1>1, <2>1, <3>1, StageLeaves, HistoryForgets
    <3>3. CustodyFollows
      BY <1>0, <3>1, <3>2 DEF CustodyFollows, InHand
    <3>4. RecordsFollow
      BY <1>0, <3>1 DEF RecordsFollow
    <3> QED BY <3>2, <3>3, <3>4, RemovalsFrame
  <2>2. CASE Excuse({op.stage}) /\ op' = Idle /\ UNCHANGED diskVars
    <3>1. OnDisk' = OnDisk /\ journal' = journal
      BY <1>7, <2>2 DEF RemoveCommits, OnDisk
    <3>2. HistoryFollows /\ \A x \in removals' : x.stage = op.stage => x.excused
      BY <2>2, <3>1, HistoryExcuses
    <3>3. CustodyFollows
      BY <1>0, <2>2, <3>2 DEF CustodyFollows, InHand, Idle
    <3>4. RecordsFollow
      BY <1>0, <3>1 DEF RecordsFollow
    <3> QED BY <3>1, <3>2, <3>3, <3>4, RemovalsFrame
  <2> QED BY <1>7, <2>1, <2>2 DEF RemoveCommits, Done
<1>8. CASE RemoveUnjournals
  <2>1. op.at = "unjournalling" /\ op' = Idle /\ journal' \subseteq journal
    BY <1>8 DEF RemoveUnjournals, Done, DropJournal
  <2>2. \A s : ~InHand(s) /\ ~InHand(s)'
    BY <2>1 DEF InHand, Idle
  <2> QED BY <1>0, <1>8, <2>1, <2>2, RemovalsUntouched DEF RemoveUnjournals, OnDisk
<1> QED BY <1>3, <1>4, <1>5, <1>6, <1>7, <1>8

\* Downloads and the deletion of users and lists, crashes and the recovery.
LEMMA RemovalsInRecovery ==
  ASSUME TypeOK, RowHeld, RemovalsHeld,
         \/ \E o \in Owners : TaskLoads(o) \/ TaskMakesDir(o) \/ TaskWrites(o) \/ DeleteFindsNone(o)
         \/ Crash \/ RecoveryBegins \/ RecoveryEnds \/ UNCHANGED vars
         \/ \E s \in pending : RecoveryRestores(s) \/ RecoveryDestroys(s) \/ RecoveryRetains(s)
  PROVE  RemovalsHeld'
<1> USE DEF dbVars, diskVars
<1>1. ASSUME NEW o \in Owners,
             TaskLoads(o) \/ TaskMakesDir(o) \/ TaskWrites(o) \/ DeleteFindsNone(o)
      PROVE  RemovalsHeld'
  <2>1. OnDisk' = OnDisk
    <3>1. TaskMakesDir(o) => OnDisk' = OnDisk
      BY DirTyped, StagesStay DEF TaskMakesDir
    <3> QED BY <1>1, <3>1 DEF TaskLoads, TaskWrites, DeleteFindsNone, vars, OnDisk
  <2>2. /\ goos' = goos /\ rows' = rows /\ journal' = journal /\ phase' = phase
        /\ pending' = pending /\ op' = op /\ removals' = removals
    BY <1>1 DEF TaskLoads, TaskMakesDir, TaskWrites, DeleteFindsNone, vars
  <2> QED BY <2>1, <2>2, RemovalsUntouched DEF InHand
<1>2. CASE UNCHANGED vars
  <2>1. OnDisk' = OnDisk
    BY <1>2 DEF vars, OnDisk
  <2> QED BY <1>2, <2>1, RemovalsUntouched DEF vars, InHand
<1>3. CASE Crash
  <2>1. OnDisk' = OnDisk /\ HistoryFollows
    BY <1>3, HistoryStays DEF Crash, OnDisk
  <2>2. CustodyFollows
    BY <1>3 DEF Crash, CustodyFollows, InHand, Idle
  <2>3. RecordsFollow
    BY <1>3 DEF Crash, RecordsFollow
  <2> QED BY <2>1, <2>2, <2>3, RemovalsFrame
<1>4. CASE RecoveryBegins
  <2>1. OnDisk' = OnDisk /\ phase = "down" /\ op' = op
        /\ goos' = goos /\ rows' = rows /\ journal' \subseteq journal
    BY <1>4 DEF RecoveryBegins, OnDisk
  <2>2. pending = {}
    BY <2>1 DEF RemovalsHeld
  <2>3. RecordsFollow
    BY <2>1 DEF RecordsFollow
  <2>4. CASE phase' = "recovering" /\ pending' = OnDisk /\ UNCHANGED removals
    <3>1. HistoryFollows
      BY <2>1, <2>4, HistoryStays
    <3>2. CustodyFollows
      BY <2>1, <2>4 DEF CustodyFollows, InHand
    <3> QED BY <2>1, <2>3, <3>1, <3>2, RemovalsFrame
  <2>5. CASE phase' = "serving" /\ Excuse(OnDisk) /\ UNCHANGED pending
    <3>1. HistoryFollows /\ \A x \in removals' : x.stage \in OnDisk => x.excused
      BY <2>1, <2>5, HistoryExcuses
    <3>2. CustodyFollows
      BY <2>1, <2>2, <2>5, <3>1 DEF CustodyFollows, InHand
    <3> QED BY <2>1, <2>3, <3>1, <3>2, RemovalsFrame
  <2> QED BY <1>4, <2>4, <2>5 DEF RecoveryBegins
<1>5. CASE RecoveryEnds
  <2>1. OnDisk' = OnDisk /\ HistoryFollows
    BY <1>5, HistoryStays DEF RecoveryEnds, OnDisk
  <2>2. CustodyFollows
    BY <1>5 DEF RecoveryEnds, CustodyFollows, InHand
  <2>3. RecordsFollow
    BY <1>5 DEF RecoveryEnds, RecordsFollow
  <2> QED BY <2>1, <2>2, <2>3, RemovalsFrame
<1>6. ASSUME NEW s \in pending, RecoveryRestores(s) \/ RecoveryDestroys(s) PROVE RemovalsHeld'
  <2>1. s \in Stages /\ op' = op /\ phase = "recovering" /\ phase' = phase
        /\ pending' = pending \ {s} /\ goos' = goos /\ rows' = rows /\ Forget(s)
    BY <1>6 DEF RecoveryRestores, RecoveryDestroys, Recovering, TypeOK
  <2>2. journal' \subseteq journal
    BY <1>6 DEF RecoveryRestores, RecoveryDestroys, DropJournal
  <2>3. OnDisk' = OnDisk \ {s}
    <3>1. ASSUME NEW t \in Targets(s), Move(s, t) PROVE OnDisk' = OnDisk \ {s}
      BY <2>1, <3>1, TargetsTyped, StageLeaves
    <3>2. Destroy(s) => OnDisk' = OnDisk \ {s}
      BY <2>1 DEF Destroy, OnDisk
    <3> QED BY <1>6, <3>1, <3>2 DEF RecoveryRestores, RecoveryDestroys
  <2>4. HistoryFollows
    BY <2>1, <2>3, HistoryForgets
  <2>5. CustodyFollows
    BY <2>1, <2>3 DEF CustodyFollows, InHand
  <2>6. RecordsFollow
    BY <2>1, <2>2 DEF RecordsFollow
  <2> QED BY <2>3, <2>4, <2>5, <2>6, RemovalsFrame
<1>7. ASSUME NEW s \in pending, RecoveryRetains(s) PROVE RemovalsHeld'
  <2>1. op' = op /\ phase = "recovering" /\ phase' = phase /\ pending' = pending \ {s}
        /\ goos' = goos /\ rows' = rows /\ journal' = journal /\ Excuse({s}) /\ OnDisk' = OnDisk
    BY <1>7 DEF RecoveryRetains, Recovering, OnDisk
  <2>2. HistoryFollows /\ \A x \in removals' : x.stage = s => x.excused
    BY <2>1, HistoryExcuses
  <2>3. CustodyFollows
    BY <2>1, <2>2 DEF CustodyFollows, InHand
  <2>4. RecordsFollow
    BY <2>1 DEF RecordsFollow
  <2> QED BY <2>1, <2>2, <2>3, <2>4, RemovalsFrame
<1> QED BY <1>1, <1>2, <1>3, <1>4, <1>5, <1>6, <1>7

LEMMA RemovalsStep == TypeOK /\ RowHeld /\ RemovalsHeld /\ [Next]_vars => RemovalsHeld'
BY RemovalsInRename, RemovalsRenamed, RemovalsOfGone, RemovalsBegin, RemovalsInRemove,
   RemovalsInRecovery DEF Next

\* A staged directory that vanishes is destroyed by the removal that has deleted the row, or
\* by the recovery, which finds that no row names the original.
LEMMA DestroyedStep ==
  ASSUME TypeOK, RemovalsHeld, [Next]_vars, NEW r \in removals, Destroyed(r.stage)
  PROVE  r.gone \/ r.renamed
<1> USE DEF dbVars, diskVars
<1>0. r.stage \in Stages /\ r.stage \in OnDisk /\ r.owner \in Owners
      /\ r.stage \notin present' /\ r.stage \in present /\ present' \subseteq present
  BY DEF TypeOK, RemovalsHeld, Destroyed
\* What is moved does not leave a smaller set of directories.
<1>1. \A p, q : Move(p, q) => q \in present
  BY <1>0 DEF Move
<1>2. ASSUME NEW p \in Names, Destroy(p) PROVE FALSE
  BY <1>0, <1>2, StagesApart DEF Destroy
<1>3. present' # present
  BY <1>0
<1>4. \A d : ~MakeDir(d)
  BY <1>0 DEF MakeDir
<1>5. CASE RemoveCommits
  <2>1. op.at = "committing" /\ r.stage = op.stage
    BY <1>0, <1>3, <1>5 DEF RemoveCommits, Destroy
  <2> QED BY <2>1 DEF RemovalsHeld, InHand
<1>6. ASSUME NEW s \in pending, RecoveryDestroys(s) PROVE r.gone \/ r.renamed
  <2>1. r.stage = s /\ Journaled(s) /\ Targets(s) = {}
    BY <1>0, <1>6 DEF RecoveryDestroys, Destroy
  <2>2. \E j \in journal : j.staged = s /\ Original(s) = j.original
    BY <2>1 DEF Journaled, Original
  <2>3. SUFFICES ASSUME ~r.gone, ~r.renamed PROVE FALSE
    OBVIOUS
  <2>4. Named(r.owner) /\ Original(s) = PathOf(r.owner)
    BY <2>1, <2>2, <2>3 DEF RemovalsHeld
  <2>5. Original(s) \in Active
    BY <1>0, <2>4 DEF Active
  <2> QED BY <2>1, <2>5 DEF Targets
<1>7. ASSUME NEW s \in pending, RecoveryRestores(s) PROVE FALSE
  BY <1>1, <1>7 DEF RecoveryRestores, Restorable
<1>8. ASSUME NEW o \in Owners, RemoveBegins(o) PROVE FALSE
  BY <1>1, <1>3, <1>8 DEF RemoveBegins, Unused
<1>9. ASSUME NEW o \in Owners, NEW n \in Names, CreateBegins(o, n) \/ RenameBegins(o, n) PROVE FALSE
  BY <1>1, <1>4, <1>9 DEF CreateBegins, RenameBegins
<1>10. ~RemoveRestores
  BY <1>1 DEF RemoveRestores
<1>11. ~Undo
  <2>1. Undo => op.name \in Names
    BY DEF Undo, TypeOK, OperationSound
  <2>2. Undo => Dir(op.name) \in Names
    BY <2>1, DirTyped
  <2> QED BY <1>1, <1>2, <1>3, <2>2 DEF Undo
<1>12. ASSUME \/ CreateCommits \/ CreateFails \/ RenameCommits \/ RenameFails \/ UndoFails
              \/ RemoveJournals \/ RemoveDeletesRow \/ RemoveFails \/ RemoveCannotRestore
              \/ RemoveUnjournals \/ Crash \/ RecoveryBegins \/ RecoveryEnds \/ UNCHANGED vars
       PROVE  FALSE
  BY <1>3, <1>12 DEF CreateCommits, CreateFails, RenameCommits, RenameFails, UndoFails,
         RemoveJournals, RemoveDeletesRow, RemoveFails, RemoveCannotRestore, RemoveUnjournals, Crash,
         RecoveryBegins, RecoveryEnds, vars
<1>13. ASSUME NEW o \in Owners,
              \/ RenameInPlace(o) \/ RemoveEmptyName(o) \/ TaskLoads(o) \/ TaskMakesDir(o)
              \/ TaskWrites(o) \/ DeleteFindsNone(o) \/ DeleteRows(o)
       PROVE  FALSE
  BY <1>3, <1>4, <1>13 DEF RenameInPlace, RemoveEmptyName, TaskLoads, TaskMakesDir, TaskWrites,
         DeleteFindsNone, DeleteRows
<1>14. ASSUME NEW s \in pending, RecoveryRetains(s) PROVE FALSE
  BY <1>3, <1>14 DEF RecoveryRetains
<1> QED BY <1>5, <1>6, <1>7, <1>8, <1>9, <1>10, <1>11, <1>12, <1>13, <1>14 DEF Next

LEMMA AccountedFor == TypeOK /\ RemovalsHeld => StagesAccountedFor
BY DEF RemovalsHeld, StagesAccountedFor, InHand

LEMMA RowHeldInit == Init => RowHeld /\ RemovalsHeld
<1> SUFFICES ASSUME Init PROVE RowHeld /\ RemovalsHeld
  OBVIOUS
<1>1. \A n \in LegacyNames : Dir(n) \in Names
  BY EntityAssumption DEF Init, Dir
<1>2. OnDisk = {}
  BY <1>1, StagesApart DEF Init, OnDisk
<1> QED BY <1>2 DEF Init, RowHeld, RemovalsHeld, Idle

\* A removal that is interrupted or fails is finished or undone at the next start, or its
\* directory is kept for a reason that is logged, and a staged directory is destroyed only
\* when its row is gone, unless the row was renamed meanwhile (RemoveWithDirectory and
\* CleanupStagedDirectories, internal/entity/storage.go).
THEOREM RemovalsAreFinished == Spec => RemovalsFinish
<1>1. Init => TypeOK /\ RowHeld /\ RemovalsHeld
  BY TypeInit, RowHeldInit
<1>2. TypeOK /\ RowHeld /\ RemovalsHeld /\ [Next]_vars
        => /\ (TypeOK /\ RowHeld /\ RemovalsHeld)'
           /\ \A r \in removals : Destroyed(r.stage) => r.gone \/ r.renamed
  BY TypeStep, RowHeldStep, RemovalsStep, DestroyedStep
<1>3. TypeOK /\ RemovalsHeld => StagesAccountedFor
  BY AccountedFor
<1> QED BY <1>1, <1>2, <1>3, PTL DEF Spec, RemovalsFinish

-----------------------------------------------------------------------------
(* Media.                                                                  *)

\* Media lie in directories that exist; the media that an operation found in place lie
\* where it has moved them.
MediaHeld ==
  /\ \A m \in media : m[2] \in present
  /\ op.at \in {"idle", "creating"} => ~op.kept /\ op.change # "moved"
  /\ op.at \in {"renaming", "undoing"} =>
       /\ op.change = "moved" => ~OwnedByAnother(op.owner, Dir(op.name))
       /\ op.kept => /\ op.old \in Names /\ <<op.owner, Dir(op.name)>> \in media
                     /\ op.change # "moved" => Dir(op.name) = Dir(op.old)
  /\ op.at \in {"journalling", "deleting", "restoring"} /\ op.stage \in Stages /\ op.kept =>
       <<op.owner, op.stage>> \in media

\* What the operations on disk do to media.
LEMMA MediaMove ==
  ASSUME TypeOK, NEW p, NEW q, Move(p, q)
  PROVE  /\ \A o, d : <<o, d>> \in media => <<o, IF d = p THEN q ELSE d>> \in media'
         /\ \A m \in media' : m[2] = q \/ (m[2] # p /\ \E x \in media : m[2] = x[2])
<1>1. media' = {<<m[1], IF m[2] = p THEN q ELSE m[2]>> : m \in media}
  BY DEF Move
<1>2. ASSUME NEW o, NEW d, <<o, d>> \in media PROVE <<o, IF d = p THEN q ELSE d>> \in media'
  <2> DEFINE m == <<o, d>>
  <2>1. m \in media /\ m[1] = o /\ m[2] = d
    BY <1>2
  <2> HIDE DEF m
  <2> QED BY <1>1, <2>1
<1>3. ASSUME NEW m \in media'
      PROVE  m[2] = q \/ (m[2] # p /\ \E x \in media : m[2] = x[2])
  <2>1. PICK x \in media : m = <<x[1], IF x[2] = p THEN q ELSE x[2]>>
    BY <1>1
  <2>2. m[2] = IF x[2] = p THEN q ELSE x[2]
    BY <2>1
  <2> QED BY <2>2
<1> QED BY <1>2, <1>3

\* Media lie in directories that exist.
LEMMA MediaLie ==
  ASSUME TypeOK, \A m \in media : m[2] \in present,
         \/ \E p, q : Move(p, q)
         \/ \E d : MakeDir(d) \/ Destroy(d)
         \/ UNCHANGED diskVars
  PROVE  \A m \in media' : m[2] \in present'
<1>1. ASSUME NEW p, NEW q, Move(p, q) PROVE \A m \in media' : m[2] \in present'
  BY <1>1, MediaMove DEF Move
<1> QED BY <1>1 DEF MakeDir, Destroy, diskVars

\* Media that a step leaves in place.
LEMMA StaysInPlace ==
  ASSUME TypeOK, goos' = goos, NEW o \in Owners, InPlace(o), rows'[o] = rows[o],
         \/ \E p, q : Move(p, q) /\ PathOf(o) # p
         \/ \E d : MakeDir(d) \/ (Destroy(d) /\ PathOf(o) # d)
         \/ UNCHANGED media
  PROVE  InPlace(o)'
<1> DEFINE d == PathOf(o)
<1>1. <<o, d>> \in media
  BY DEF InPlace
<1>2. d' = d /\ Named(o)'
  BY DEF InPlace, Named, PathOf, Dir
<1>3. SUFFICES <<o, d>> \in media'
  BY <1>2 DEF InPlace
<1>4. ASSUME NEW p, NEW q, Move(p, q), d # p PROVE <<o, d>> \in media'
  <2> HIDE DEF d
  <2> QED BY <1>1, <1>4, MediaMove
<1>5. ASSUME NEW c, Destroy(c), d # c PROVE <<o, d>> \in media'
  <2> HIDE DEF d
  <2> QED BY <1>1, <1>5 DEF Destroy
<1> QED BY <1>1, <1>4, <1>5 DEF MakeDir

\* A step that leaves the operation under way alone and destroys nothing.
LEMMA MediaOthers ==
  ASSUME TypeOK, MediaHeld, goos' = goos, op' = op, media \subseteq media',
         \A m \in media' : m[2] \in present',
         \A o \in Owners : rows'[o] = rows[o] \/ rows'[o] = NoRow
  PROVE  MediaHeld'
<1>1. \A o \in Owners : \A d : OwnedByAnother(o, d)' => OwnedByAnother(o, d)
  BY EntityAssumption DEF OwnedByAnother, Named, PathOf, Dir
<1>2. op.at # "idle" => op.owner \in Owners
  BY DEF TypeOK, OperationSound
<1> QED BY <1>1, <1>2 DEF MediaHeld, Dir

\* The next step of an operation.
LEMMA MediaGoesOn ==
  ASSUME TypeOK, MediaHeld, goos' = goos, UNCHANGED rows, media \subseteq media',
         \A m \in media' : m[2] \in present',
         NEW a, op' = [op EXCEPT !.at = a],
         \/ a = "undoing" /\ op.at \in {"creating", "renaming"}
         \/ a \in {"deleting", "restoring"} /\ op.at \in {"journalling", "deleting"}
  PROVE  MediaHeld'
BY GoesOn DEF MediaHeld, OwnedByAnother, Named, PathOf, Dir

LEMMA MediaEnds ==
  ASSUME op' = Idle \/ (op'.at \in {"committing", "unjournalling"}),
         \A m \in media' : m[2] \in present'
  PROVE  MediaHeld'
BY DEF MediaHeld, Idle

\* Whoever begins an operation finds the media in place, and moves them to where they are
\* to be found.
LEMMA MediaBegins ==
  ASSUME TypeOK, MediaHeld,
         \/ \E o \in Owners, n \in Names : CreateBegins(o, n) \/ RenameBegins(o, n)
         \/ \E o \in Owners : RenameInPlace(o) \/ RemoveEmptyName(o) \/ RemoveBegins(o)
  PROVE  MediaHeld'
<1> USE DEF dbVars, diskVars
<1>0. \A m \in media : m[2] \in present
  BY DEF MediaHeld
<1>1. ASSUME NEW o \in Owners, NEW n \in Names, CreateBegins(o, n) PROVE MediaHeld'
  <2>1. \A m \in media' : m[2] \in present'
    BY <1>0, <1>1, MediaLie DEF CreateBegins
  <2>2. op'.at = "creating" /\ op'.change # "moved"
    BY <1>1 DEF CreateBegins, Begins, EnsureChange
  <2>3. rows[o] \notin Names
    BY <1>1, EntityAssumption DEF CreateBegins
  <2>4. ~op'.kept
    BY <1>1, <2>3 DEF CreateBegins, Begins, InPlace, Named
  <2> QED BY <2>1, <2>2, <2>4 DEF MediaHeld
<1>2. ASSUME NEW o \in Owners, NEW n \in Names, RenameBegins(o, n) PROVE MediaHeld'
  <2>1. \A m \in media' : m[2] \in present'
    BY <1>0, <1>2, MediaLie DEF RenameBegins
  <2>2. goos' = goos /\ rows' = rows /\ ~OwnedByAnother(o, Dir(n))
    BY <1>2 DEF RenameBegins
  <2>3. \A d : OwnedByAnother(o, d)' <=> OwnedByAnother(o, d)
    BY <2>2 DEF OwnedByAnother, Named, PathOf, Dir
  <2>4. \E c : Begins("renaming", o, n, c, NoStage) /\ (c = "moved" => Move(PathOf(o), Dir(n)))
             /\ (c # "moved" => MakeDir(Dir(n)) /\ ~Movable(o, n))
    <3>1. EnsureChange(Dir(n)) # "moved"
      BY DEF EnsureChange
    <3>2. CASE Movable(o, n)
      <4>1. Begins("renaming", o, n, "moved", NoStage) /\ Move(PathOf(o), Dir(n))
        BY <1>2, <3>2 DEF RenameBegins
      <4> QED BY <4>1
    <3>3. CASE ~Movable(o, n)
      <4>1. Begins("renaming", o, n, EnsureChange(Dir(n)), NoStage) /\ MakeDir(Dir(n))
        BY <1>2, <3>3 DEF RenameBegins
      <4> QED BY <3>1, <3>3, <4>1
    <3> QED BY <3>2, <3>3
  <2>5. PICK c : Begins("renaming", o, n, c, NoStage) /\ (c = "moved" => Move(PathOf(o), Dir(n)))
             /\ (c # "moved" => MakeDir(Dir(n)) /\ ~Movable(o, n))
    BY <2>4
  <2>6. op'.at = "renaming" /\ op'.owner = o /\ op'.name = n /\ op'.old = rows[o] /\ op'.change = c
        /\ (op'.kept <=> InPlace(o))
    BY <2>5 DEF Begins
  <2>7. ASSUME InPlace(o)
        PROVE  rows[o] \in Names /\ <<o, Dir(n)>> \in media' /\ (c # "moved" => Dir(n) = Dir(rows[o]))
    <3>1. rows[o] \in Names /\ <<o, PathOf(o)>> \in media /\ PathOf(o) = Dir(rows[o])
      BY <2>7 DEF InPlace, Named, PathOf
    <3>2. PathOf(o) \in present
      BY <1>0, <3>1
    <3>3. CASE c = "moved"
      BY <2>5, <3>1, <3>3, MediaMove
    <3>4. CASE c # "moved"
      BY <2>5, <3>1, <3>2, <3>4 DEF Movable, Named, MakeDir
    <3> QED BY <3>1, <3>3, <3>4
  <2> QED BY <2>1, <2>2, <2>3, <2>6, <2>7 DEF MediaHeld, Dir
<1>3. ASSUME NEW o \in Owners, RenameInPlace(o) \/ RemoveEmptyName(o) PROVE MediaHeld'
  <2>1. \A m \in media' : m[2] \in present'
    BY <1>0, <1>3, MediaLie DEF RenameInPlace, RemoveEmptyName
  <2>2. op' = Idle
    BY <1>3 DEF RenameInPlace, RemoveEmptyName, Ready
  <2> QED BY <2>1, <2>2, MediaEnds
<1>4. ASSUME NEW o \in Owners, RemoveBegins(o) PROVE MediaHeld'
  <2>1. \A m \in media' : m[2] \in present'
    BY <1>0, <1>4, MediaLie DEF RemoveBegins
  <2>2. CASE Begins("deleting", o, rows[o], "none", NoStage)
    <3>1. op'.at = "deleting" /\ op'.stage = NoStage
      BY <2>2 DEF Begins
    <3>2. NoStage \notin Stages
      BY EntityAssumption DEF Stages
    <3> QED BY <2>1, <3>1, <3>2 DEF MediaHeld
  <2>3. ASSUME NEW s, Move(PathOf(o), s), Begins("journalling", o, rows[o], "moved", s)
        PROVE  MediaHeld'
    <3>1. op'.at = "journalling" /\ op'.stage = s /\ op'.owner = o /\ (op'.kept <=> InPlace(o))
      BY <2>3 DEF Begins
    <3>2. InPlace(o) => <<o, s>> \in media'
      BY <2>3, MediaMove DEF InPlace
    <3> QED BY <2>1, <3>1, <3>2 DEF MediaHeld
  <2> QED BY <1>4, <2>2, <2>3 DEF RemoveBegins
<1> QED BY <1>1, <1>2, <1>3, <1>4

LEMMA MediaStep == TypeOK /\ RowHeld /\ MediaHeld /\ [Next]_vars => MediaHeld'
<1> SUFFICES ASSUME TypeOK, RowHeld, MediaHeld, [Next]_vars PROVE MediaHeld'
  OBVIOUS
<1> USE DEF dbVars, diskVars
<1>0. \A m \in media : m[2] \in present
  BY DEF MediaHeld
<1>1. CASE \/ \E o \in Owners, n \in Names : CreateBegins(o, n) \/ RenameBegins(o, n)
           \/ \E o \in Owners : RenameInPlace(o) \/ RemoveEmptyName(o) \/ RemoveBegins(o)
  BY <1>1, MediaBegins
<1>2. CASE CreateCommits \/ RenameCommits \/ Undo \/ UndoFails
  <2>1. \A m \in media' : m[2] \in present'
    BY <1>0, <1>2, MediaLie DEF CreateCommits, RenameCommits, Undo, UndoFails
  <2> QED BY <1>2, <2>1, MediaEnds DEF CreateCommits, RenameCommits, Undo, UndoFails, Done
<1>3. CASE CreateFails \/ RenameFails
  BY <1>0, <1>3, MediaGoesOn DEF CreateFails, RenameFails
<1>4. CASE RemoveJournals
  BY <1>0, <1>4, MediaGoesOn DEF RemoveJournals
<1>5. CASE RemoveFails
  BY <1>0, <1>5, MediaGoesOn, MediaEnds DEF RemoveFails
<1>6. CASE RemoveDeletesRow \/ RemoveRestores \/ RemoveCannotRestore \/ RemoveCommits \/ RemoveUnjournals
  <2>1. \A m \in media' : m[2] \in present'
    BY <1>0, <1>6, MediaLie DEF RemoveDeletesRow, RemoveRestores, RemoveCannotRestore,
       RemoveCommits, RemoveUnjournals
  <2>2. op' = Idle \/ op'.at \in {"committing", "unjournalling"}
    BY <1>6, GoesOn DEF RemoveDeletesRow, RemoveRestores, RemoveCannotRestore, RemoveCommits,
       RemoveUnjournals, Done
  <2> QED BY <2>1, <2>2, MediaEnds
<1>7. ASSUME NEW o \in Owners,
             \/ TaskLoads(o) \/ TaskMakesDir(o) \/ TaskWrites(o) \/ DeleteFindsNone(o) \/ DeleteRows(o)
      PROVE  MediaHeld'
  <2>1. \A m \in media' : m[2] \in present'
    <3>1. CASE TaskWrites(o)
      <4> DEFINE x == <<o, Dir(held[o])>>
      <4>1. x[2] \in present /\ media' = media \cup {x} /\ present' = present
        BY <3>1 DEF TaskWrites
      <4> HIDE DEF x
      <4> QED BY <1>0, <4>1
    <3>2. CASE TaskLoads(o) \/ TaskMakesDir(o) \/ DeleteFindsNone(o) \/ DeleteRows(o)
      BY <1>0, <3>2, MediaLie DEF TaskLoads, TaskMakesDir, DeleteFindsNone, DeleteRows
    <3> QED BY <1>7, <3>1, <3>2
  <2>2. /\ goos' = goos /\ op' = op /\ media \subseteq media'
        /\ \A x \in Owners : rows'[x] = rows[x] \/ rows'[x] = NoRow
    BY <1>7 DEF TaskLoads, TaskMakesDir, TaskWrites, DeleteFindsNone, DeleteRows, MakeDir, TypeOK
  <2> QED BY <2>1, <2>2, MediaOthers
<1>8. CASE Crash
  BY <1>0, <1>8, MediaEnds DEF Crash
<1>9. CASE \/ RecoveryBegins \/ RecoveryEnds \/ UNCHANGED vars
           \/ \E s \in pending : RecoveryRetains(s)
  <2>1. goos' = goos /\ op' = op /\ rows' = rows /\ media' = media /\ present' = present
    BY <1>9 DEF RecoveryBegins, RecoveryEnds, RecoveryRetains, vars
  <2> QED BY <1>0, <2>1, MediaOthers
<1>10. ASSUME NEW s \in pending, RecoveryRestores(s) \/ RecoveryDestroys(s) PROVE MediaHeld'
  <2>1. op.at = "idle" /\ op' = op
    BY <1>10 DEF RecoveryRestores, RecoveryDestroys, Recovering, RowHeld
  <2>2. \A m \in media' : m[2] \in present'
    BY <1>0, <1>10, MediaLie DEF RecoveryRestores, RecoveryDestroys
  <2> QED BY <2>1, <2>2 DEF MediaHeld
<1> QED BY <1>1, <1>2, <1>3, <1>4, <1>5, <1>6, <1>7, <1>8, <1>9, <1>10 DEF Next

-----------------------------------------------------------------------------
(* What steps do to media.                                                 *)

\* A path that a row has is a name: no staged directory, and nobody else's.
LEMMA PathsApart ==
  ASSUME TypeOK, OneRecordPerDirectory, NEW x \in Owners, Named(x)
  PROVE  /\ PathOf(x) \in Names
         /\ \A s \in Stages : PathOf(x) # s
         /\ \A o \in Owners : o # x /\ Named(o) => PathOf(o) # PathOf(x)
         /\ \A o, d : o # x /\ ~OwnedByAnother(o, d) => PathOf(x) # d
BY PathTyped, StagesApart DEF OneRecordPerDirectory, OwnedByAnother

OthersStay(x) == op.owner # x /\ op'.owner # x => InPlace(x)'

LEMMA OthersStayInRename ==
  ASSUME TypeOK, OneRecordPerDirectory, MediaHeld, NEW x \in Owners, InPlace(x), rows'[x] # NoRow,
         \/ \E o \in Owners, n \in Names : CreateBegins(o, n) \/ RenameBegins(o, n)
         \/ \E o \in Owners : RenameInPlace(o) \/ RemoveEmptyName(o) \/ RemoveBegins(o)
         \/ CreateCommits \/ CreateFails \/ RenameCommits \/ RenameFails \/ Undo \/ UndoFails
  PROVE  OthersStay(x)
<1> SUFFICES ASSUME op.owner # x, op'.owner # x PROVE InPlace(x)'
  BY DEF OthersStay
<1> USE DEF dbVars, diskVars
<1>0. Named(x) /\ x \in Owners /\ rows[x] \in Names
  BY DEF InPlace, Named
<1>1. ASSUME NEW o \in Owners, NEW n \in Names, CreateBegins(o, n) PROVE InPlace(x)'
  BY <1>1, StaysInPlace DEF CreateBegins
<1>2. ASSUME NEW o \in Owners, NEW n \in Names, RenameBegins(o, n) PROVE InPlace(x)'
  <2>1. o # x
    BY <1>2 DEF RenameBegins, Begins
  <2>2. Movable(o, n) => PathOf(x) # PathOf(o)
    BY <1>0, <2>1, PathsApart DEF Movable
  <2> QED BY <1>2, <2>2, StaysInPlace DEF RenameBegins
<1>3. ASSUME NEW o \in Owners, RenameInPlace(o) PROVE InPlace(x)'
  BY <1>3, StaysInPlace DEF RenameInPlace
<1>4. ASSUME NEW o \in Owners, RemoveEmptyName(o) PROVE InPlace(x)'
  <2>1. rows'[x] = rows[x]
    BY <1>0, <1>4, EntityAssumption DEF RemoveEmptyName, TypeOK
  <2> QED BY <1>4, <2>1, StaysInPlace DEF RemoveEmptyName
<1>5. ASSUME NEW o \in Owners, RemoveBegins(o) PROVE InPlace(x)'
  <2>1. CASE UNCHANGED diskVars
    BY <1>5, <2>1, StaysInPlace DEF RemoveBegins
  <2>2. ASSUME NEW s, Move(PathOf(o), s), Begins("journalling", o, rows[o], "moved", s)
        PROVE  InPlace(x)'
    <3>1. o # x
      BY <2>2 DEF Begins
    <3>2. PathOf(x) # PathOf(o)
      BY <1>0, <1>5, <3>1, PathsApart DEF RemoveBegins
    <3> QED BY <1>5, <2>2, <3>2, StaysInPlace DEF RemoveBegins
  <2> QED BY <1>5, <2>1, <2>2 DEF RemoveBegins
<1>6. CASE CreateCommits \/ RenameCommits
  <2>1. rows'[x] = rows[x]
    BY <1>6 DEF CreateCommits, RenameCommits, TypeOK
  <2> QED BY <1>6, <2>1, StaysInPlace DEF CreateCommits, RenameCommits
<1>7. CASE CreateFails \/ RenameFails \/ UndoFails
  BY <1>7, StaysInPlace DEF CreateFails, RenameFails, UndoFails
<1>8. CASE Undo
  <2> DEFINE new == Dir(op.name)
  <2>1. \/ op.change = "moved" /\ Move(new, Dir(op.old))
        \/ Destroy(new) /\ \A m \in media : m[2] # new
        \/ UNCHANGED diskVars
    BY <1>8 DEF Undo
  <2>2. op.change = "moved" => PathOf(x) # new
    BY <1>0, <1>8, PathsApart DEF Undo, MediaHeld
  <2>3. PathOf(x) # new \/ \E m \in media : m[2] = new
    <3>1. <<x, PathOf(x)>> \in media
      BY DEF InPlace
    <3> QED BY <3>1
  <2> HIDE DEF new
  <2> QED BY <1>8, <2>1, <2>2, <2>3, StaysInPlace DEF Undo
<1> QED BY <1>1, <1>2, <1>3, <1>4, <1>5, <1>6, <1>7, <1>8

LEMMA OthersStayInRemove ==
  ASSUME TypeOK, OneRecordPerDirectory, NEW x \in Owners, InPlace(x), rows'[x] # NoRow,
         \/ RemoveJournals \/ RemoveDeletesRow \/ RemoveFails \/ RemoveRestores
         \/ RemoveCannotRestore \/ RemoveCommits \/ RemoveUnjournals
         \/ \E o \in Owners : TaskLoads(o) \/ TaskMakesDir(o) \/ TaskWrites(o)
         \/ \E o \in Owners : DeleteFindsNone(o) \/ DeleteRows(o)
         \/ Crash \/ RecoveryBegins \/ RecoveryEnds \/ UNCHANGED vars
         \/ \E s \in pending : RecoveryRestores(s) \/ RecoveryDestroys(s) \/ RecoveryRetains(s)
  PROVE  InPlace(x)'
<1> USE DEF dbVars, diskVars
<1>0. Named(x) /\ (\A s \in Stages : PathOf(x) # s)
  BY PathsApart DEF InPlace
<1>1. op.at \in {"restoring", "committing"} => op.stage \in Stages
  BY DEF TypeOK, OperationSound
<1>2. CASE RemoveJournals \/ RemoveFails \/ RemoveCannotRestore \/ RemoveUnjournals
  BY <1>2, StaysInPlace DEF RemoveJournals, RemoveFails, RemoveCannotRestore, RemoveUnjournals
<1>3. CASE RemoveDeletesRow \/ \E o \in Owners : DeleteRows(o)
  <2>1. rows'[x] = rows[x] /\ goos' = goos /\ UNCHANGED media
    BY <1>3 DEF RemoveDeletesRow, DeleteRows, TypeOK
  <2> QED BY <2>1, StaysInPlace
<1>4. CASE RemoveRestores
  <2>1. PathOf(x) # op.stage
    BY <1>0, <1>1, <1>4 DEF RemoveRestores
  <2> QED BY <1>4, <2>1, StaysInPlace DEF RemoveRestores
<1>5. CASE RemoveCommits
  <2>1. PathOf(x) # op.stage
    BY <1>0, <1>1, <1>5 DEF RemoveCommits
  <2> QED BY <1>5, <2>1, StaysInPlace DEF RemoveCommits
<1>6. ASSUME NEW o \in Owners,
             TaskLoads(o) \/ TaskMakesDir(o) \/ DeleteFindsNone(o)
      PROVE  InPlace(x)'
  BY <1>6, StaysInPlace DEF TaskLoads, TaskMakesDir, DeleteFindsNone
<1>7. ASSUME NEW o \in Owners, TaskWrites(o) PROVE InPlace(x)'
  BY <1>7 DEF TaskWrites, InPlace, Named, PathOf, Dir
<1>8. CASE Crash \/ RecoveryBegins \/ RecoveryEnds \/ UNCHANGED vars
  BY <1>8, StaysInPlace DEF Crash, RecoveryBegins, RecoveryEnds, vars
<1>9. ASSUME NEW s \in pending, RecoveryRestores(s) \/ RecoveryDestroys(s) \/ RecoveryRetains(s)
      PROVE  InPlace(x)'
  <2>1. PathOf(x) # s
    BY <1>0 DEF TypeOK
  <2> QED BY <1>9, <2>1, StaysInPlace DEF RecoveryRestores, RecoveryDestroys, RecoveryRetains
<1> QED BY <1>2, <1>3, <1>4, <1>5, <1>6, <1>7, <1>8, <1>9

LEMMA OthersStayStep ==
  ASSUME TypeOK, OneRecordPerDirectory, MediaHeld, [Next]_vars
  PROVE  \A o \in Owners : InPlace(o) /\ rows'[o] # NoRow =>
           InPlace(o)' \/ op.owner = o \/ op'.owner = o
BY OthersStayInRename, OthersStayInRemove DEF Next, OthersStay

\* The end of an operation finds its media where the row says.
LEMMA EndsInPlace ==
  ASSUME TypeOK, RowHeld, MediaHeld, [Next]_vars, NEW o \in Owners, op.owner = o, op.kept,
         op'.at = "idle", phase' = "serving", Named(o)'
  PROVE  InPlace(o)' \/ used'.faults # used.faults \/ Dir(op.old) \in present
<1> USE DEF dbVars, diskVars
<1>0. /\ op.at \notin {"idle", "creating"}
      /\ op.at \in {"committing", "unjournalling"} => rows[o] = NoRow
      /\ op.at # "idle" /\ Named(o) => rows[o] = op.old
      /\ NoRow \notin Names
      /\ op.name \in Names
  BY EntityAssumption DEF MediaHeld, RowHeld, TypeOK, OperationSound
<1>1. Fault => used'.faults # used.faults
  BY DEF Fault, TypeOK
<1>2. op' # op
  BY <1>0
<1>3. CASE RenameCommits
  <2>1. <<o, Dir(op.name)>> \in media /\ rows'[o] = op.name /\ goos' = goos /\ media' = media
    BY <1>3 DEF RenameCommits, MediaHeld, TypeOK
  <2> QED BY <1>0, <2>1 DEF InPlace, Named, PathOf, Dir
<1>4. CASE Undo
  <2>1. /\ <<o, Dir(op.name)>> \in media
        /\ op.change # "moved" => Dir(op.name) = Dir(op.old)
        /\ rows' = rows /\ goos' = goos /\ rows[o] = op.old
    BY <1>0, <1>4 DEF Undo, MediaHeld, Named
  <2>2. SUFFICES ASSUME Dir(op.old) \notin present PROVE <<o, Dir(op.old)>> \in media'
    BY <1>0, <2>1 DEF InPlace, PathOf, Dir
  <2>3. CASE op.change = "moved" /\ Move(Dir(op.name), Dir(op.old))
    BY <2>1, <2>3, MediaMove
  <2>4. CASE \A m \in media : m[2] # Dir(op.name)
    <3> DEFINE m == <<o, Dir(op.name)>>
    <3>1. m \in media /\ m[2] = Dir(op.name)
      BY <2>1
    <3> QED BY <2>4, <3>1
  <2>5. CASE UNCHANGED diskVars /\ op.change # "moved"
    BY <2>1, <2>5
  <2> QED BY <1>4, <2>2, <2>3, <2>4, <2>5 DEF Undo
<1>5. CASE UndoFails \/ CreateFails \/ RenameFails
  BY <1>0, <1>1, <1>5, GoesOn DEF UndoFails, CreateFails, RenameFails
<1>6. CASE RemoveRestores
  <2>1. op.stage \in Stages /\ <<o, op.stage>> \in media /\ Move(op.stage, Dir(op.old))
        /\ rows' = rows /\ goos' = goos /\ rows[o] = op.old
    BY <1>0, <1>6 DEF RemoveRestores, MediaHeld, Named, TypeOK, OperationSound
  <2>2. <<o, Dir(op.old)>> \in media'
    BY <2>1, MediaMove
  <2> QED BY <2>1, <2>2 DEF InPlace, PathOf, Dir
<1>7. CASE RemoveCannotRestore
  BY <1>1, <1>7 DEF RemoveCannotRestore
<1>8. CASE RemoveFails \/ RemoveDeletesRow
  BY <1>0, <1>1, <1>8, GoesOn DEF RemoveFails, RemoveDeletesRow, Named, TypeOK, OperationSound
<1>9. CASE RemoveCommits \/ RemoveUnjournals \/ CreateCommits
  BY <1>0, <1>9 DEF RemoveCommits, RemoveUnjournals, CreateCommits, Named
<1>10. CASE RemoveJournals
  BY <1>0, <1>10, GoesOn DEF RemoveJournals
<1>11. CASE \/ \E x \in Owners, n \in Names : CreateBegins(x, n) \/ RenameBegins(x, n)
            \/ \E x \in Owners : RenameInPlace(x) \/ RemoveEmptyName(x) \/ RemoveBegins(x)
  <2>1. Ready => op.at = "idle"
    BY DEF Ready, Idle
  <2> QED BY <1>0, <1>11, <2>1 DEF CreateBegins, RenameBegins, RenameInPlace, RemoveEmptyName,
              RemoveBegins
<1>12. CASE \/ \E x \in Owners : TaskLoads(x) \/ TaskMakesDir(x) \/ TaskWrites(x)
            \/ \E x \in Owners : DeleteFindsNone(x) \/ DeleteRows(x)
            \/ RecoveryBegins \/ RecoveryEnds \/ UNCHANGED vars
            \/ \E s \in pending : RecoveryRestores(s) \/ RecoveryDestroys(s) \/ RecoveryRetains(s)
  BY <1>2, <1>12 DEF TaskLoads, TaskMakesDir, TaskWrites, DeleteFindsNone, DeleteRows,
         RecoveryBegins, RecoveryEnds, RecoveryRestores, RecoveryDestroys, RecoveryRetains, vars
<1>13. ~Crash
  BY DEF Crash
<1> QED BY <1>3, <1>4, <1>5, <1>6, <1>7, <1>8, <1>9, <1>10, <1>11, <1>12, <1>13 DEF Next

LEMMA MediaHeldInit == Init => MediaHeld
<1> SUFFICES ASSUME Init PROVE MediaHeld
  OBVIOUS
<1>1. \A m \in media : m[2] \in present
  BY DEF Init
<1>2. op.at = "idle" /\ ~op.kept /\ op.change # "moved"
  BY DEF Init, Idle
<1> QED BY <1>1, <1>2 DEF MediaHeld

\* Media stay where the row of their owner says, or follow it: nobody but an operation on
\* the owner moves them, and one that fails puts back what it moved, unless that fails too
\* or a download has made the old directory again (directoryChange.rollback and
\* stagedDirectoryRemoval.rollback, internal/entity/storage.go).
THEOREM MediaIsKept == Spec => MediaKept
<1>1. Init => TypeOK /\ RowHeld /\ MediaHeld
  BY TypeInit, RowHeldInit, MediaHeldInit
<1>2. TypeOK /\ RowHeld /\ MediaHeld /\ [Next]_vars => (TypeOK /\ RowHeld /\ MediaHeld)'
  BY TypeStep, RowHeldStep, MediaStep
<1>3. TypeOK /\ OneRecordPerDirectory /\ MediaHeld /\ [Next]_vars =>
        \A o \in Owners : InPlace(o) /\ rows'[o] # NoRow =>
          InPlace(o)' \/ op.owner = o \/ op'.owner = o
  BY OthersStayStep
<1>4. TypeOK /\ RowHeld /\ MediaHeld /\ [Next]_vars =>
        \A o \in Owners :
          /\ op.owner = o /\ op.kept
          /\ op'.at = "idle" /\ phase' = "serving" /\ Named(o)'
          => InPlace(o)' \/ used'.faults # used.faults \/ Dir(op.old) \in present
  BY EndsInPlace
<1>5. Spec => OnlyOwnOperationsMove
  BY <1>1, <1>2, <1>3, RecordsApart, PTL DEF Spec, OnlyOwnOperationsMove
<1>6. Spec => OperationsKeepMedia
  BY <1>1, <1>2, <1>4, PTL DEF Spec, OperationsKeepMedia
<1> QED BY <1>5, <1>6 DEF MediaKept

=============================================================================
