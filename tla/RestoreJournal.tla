--------------------------- MODULE RestoreJournal ---------------------------
(***************************************************************************)
(* Restoring a verified backup (recovery/restore.ts), what a restart does  *)
(* with a restore that was cut short (index.ts, whenReady), and resetting  *)
(* the local data (recovery/reset.ts), all under recovery/lifecycle.ts.    *)
(*                                                                         *)
(* A routine of restore.ts looks at the files once and then does a fixed   *)
(* list of steps, each a rename, a removal, or a new version of the        *)
(* checkpoint; `todo' is what is left of that list.  The process can die   *)
(* between any two steps, any step can throw, and a directory is removed   *)
(* (rm recursive) or filled piece by piece.  Renames and checkpoints are   *)
(* durable when their step is done: the fsyncs are not modelled.           *)
(*                                                                         *)
(* A version 1 restore replaces the database alone, a version 2 restore    *)
(* the database and the settings.  settingsPreviouslyExisted is always     *)
(* true: openSettingsStore has written the file before a restore begins.   *)
(*                                                                         *)
(* Of the Keychain records, the model has the secret of the service, the   *)
(* admin credential a startup derives from it, and one Google account.  A  *)
(* reset renames the whole data root, so that `quarantine' is a copy of    *)
(* all that was in it; an older quarantine is never touched again and is   *)
(* dropped.                                                                *)
(***************************************************************************)
EXTENDS Naturals, Sequences

CONSTANTS MaxBegun,      \* bound: restores begun
          MaxResets,     \* bound: resets begun
          MaxTroubles,   \* bound: crashes, failing steps, failing startups
          Missing,       \* nothing is there
          Hollow,        \* a directory without all its data
          Fresh,         \* the database of a first start
          Default        \* the settings of a first start

ASSUME BoundsAreNaturals ==
  MaxBegun \in Nat /\ MaxResets \in Nat /\ MaxTroubles \in Nat
ASSUME ContentsDiffer ==
  /\ {Missing, Hollow, Fresh, Default} \cap Nat = {}
  /\ Missing # Hollow /\ Missing # Fresh /\ Missing # Default
  /\ Hollow # Fresh /\ Hollow # Default /\ Fresh # Default

VARIABLES files,      \* what is at each place of the data root
          checkpoint, \* .restore-pending.json
          marker,     \* is desktop-build-marker.json that of this build?
          mem,        \* the settings the open settings store holds
          mode,       \* where the process is
          todo,       \* the steps left of the routine that runs
          pending,    \* verifiedRestorePendingHealth
          prior,      \* the owners before the last restore
          target,     \* the owners that restore is to bring
          accepted,   \* a startup was healthy after that restore
          restores,   \* restores begun
          troubles,   \* troubles so far
          keys,       \* the Keychain records; 0 is a missing one
          values,     \* what the reset has read of them
          served,     \* the records the root in place was last served with
          quarantine, \* what the last reset has moved aside, if it has
          resets      \* resets begun

restoreVars == <<files, checkpoint, marker, mem, mode, todo, pending, prior,
                 target, accepted, restores, troubles>>
resetVars == <<keys, values, served, quarantine, resets>>
rootVars == <<restoreVars, resetVars>>

(***************************************************************************)
(* Contents are numbered: 1 is what the user began with, n + 1 what the    *)
(* n-th restore brings.                                                    *)
(***************************************************************************)
Whole == 1 .. MaxBegun + 1
Contents == Whole \cup {Missing, Hollow, Default, Fresh}

Databases == {"database", "dbStaging", "dbDisplaced"}
Directories == Databases \cup {"setStaging", "orphan"}
Places == Directories \cup {"settings", "setDisplaced"}

NoCheckpoint == [version |-> 0, phase |-> "none"]
PhasesV1 == {"prepared", "displaced", "activated", "verified"}
PhasesV2 == {"verified", "database-displaced", "settings-displaced",
             "database-activated", "settings-activated", "runtime-healthy",
             "finalized"}
Checkpoints == {NoCheckpoint} \cup [version: {1}, phase: PhasesV1]
                              \cup [version: {2}, phase: PhasesV2]

Modes == {"down", "opened", "recovering", "starting", "finalizing",
          "backing-out", "serving", "restoring", "undoing", "cleaning",
          "idle", "stopped", "resetting", "reverting"}

\* QALI_KEYCHAIN_RECORDS, in their order.
Records == <<"secret", "admin", "account">>
Keys == {"secret", "admin", "account"}
Every(v) == [r \in Keys |-> v]
Unread == MaxResets + 2
Unserved == Every(MaxResets + 2)

Exists(p) == files[p] # Missing

(***************************************************************************)
(* The steps of a routine.                                                 *)
(***************************************************************************)
Put(p, c) == [op |-> "put", place |-> p, content |-> c]
Move(p, q) == [op |-> "move", from |-> p, to |-> q]
Discard(ps) == [op |-> "discard", places |-> ps]
Record(v, f) == [op |-> "record", version |-> v, phase |-> f]
Forget == [op |-> "forget"]
Invalidate == [op |-> "invalidate"]
Verify == [op |-> "verify"]
When(c, s) == IF c THEN <<s>> ELSE <<>>
BackUp == [op |-> "backUp"]
MoveRoot == [op |-> "moveRoot"]
ReturnRoot == [op |-> "returnRoot"]

StageSteps(v, n) ==
  IF v = 1
  THEN <<Put("dbStaging", Hollow), Put("dbStaging", n)>>
  ELSE <<Put("dbStaging", Hollow), Put("setStaging", Hollow),
         Put("dbStaging", n), Put("setStaging", n)>>

ActivateSteps(v) ==
  IF v = 1
  THEN <<Record(1, "prepared"),
         Move("database", "dbDisplaced"), Record(1, "displaced"),
         Move("dbStaging", "database"), Record(1, "activated"),
         Invalidate, Verify, Record(1, "verified")>>
  ELSE <<Record(2, "verified"),
         Move("database", "dbDisplaced"), Record(2, "database-displaced"),
         Move("settings", "setDisplaced"), Record(2, "settings-displaced"),
         Move("dbStaging", "database"), Record(2, "database-activated"),
         Move("setStaging", "settings"), Discard({"setStaging"}),
         Record(2, "settings-activated"),
         Invalidate, Verify, Record(2, "runtime-healthy")>>

\* The staged copy of the checkpoint goes, then the checkpoint.
CleanUpSteps == When(Exists("dbStaging"), Discard({"dbStaging"})) \o <<Forget>>

UndoV1Steps ==
  (IF Exists("dbDisplaced")
   THEN When(Exists("database"), Discard({"database"}))
        \o <<Move("dbDisplaced", "database")>>
   ELSE <<>>) \o CleanUpSteps

\* Mutant: a settings file that is there is kept.
UndoV2KeepingSettings ==
  (IF Exists("dbDisplaced")
   THEN When(Exists("database"), Discard({"database"}))
        \o <<Move("dbDisplaced", "database")>>
   ELSE <<>>)
  \o When(Exists("setDisplaced") /\ ~Exists("settings"),
          Move("setDisplaced", "settings"))
  \o <<Discard({"dbStaging", "setStaging", "setDisplaced"}), Forget>>

UndoV2Steps ==
  (IF Exists("dbDisplaced")
   THEN When(Exists("database"), Discard({"database"}))
        \o <<Move("dbDisplaced", "database")>>
   ELSE <<>>)
  \o (IF Exists("setDisplaced")
      THEN When(Exists("settings"), Discard({"settings"}))
           \o <<Move("setDisplaced", "settings")>>
      ELSE <<>>)
  \o When(Exists("dbStaging"), Discard({"dbStaging"}))
  \o When(Exists("setStaging"), Discard({"setStaging"}))
  \o <<Forget>>

\* The two checks of rollbackV2Checkpoint that can fail.
UndoV2Unavailable ==
  \/ ~Exists("database") /\ ~Exists("dbDisplaced")
  \/ checkpoint.phase # "verified" /\ ~Exists("dbDisplaced")
  \/ ~Exists("settings") /\ ~Exists("setDisplaced")
  \/ /\ checkpoint.phase \notin {"verified", "database-displaced"}
     /\ ~Exists("setDisplaced")

FinishV2Steps ==
  <<Discard({"dbDisplaced", "setDisplaced", "dbStaging", "setStaging"}), Forget>>

(***************************************************************************)
(* recoverInterruptedRestore: whether it throws, whether it leaves a       *)
(* verified restore for the startup to judge, and what it does.            *)
(***************************************************************************)
VerifiedPending ==
  /\ Exists("database") /\ Exists("dbDisplaced")
  /\ \/ checkpoint = [version |-> 1, phase |-> "verified"]
     \/ /\ checkpoint = [version |-> 2, phase |-> "runtime-healthy"]
        /\ Exists("settings")

Unavailable ==
  CASE checkpoint = NoCheckpoint -> ~Exists("database")
    [] checkpoint.version = 1 -> ~Exists("database") /\ ~Exists("dbDisplaced")
    [] checkpoint.phase = "finalized" -> ~Exists("database") \/ ~Exists("settings")
    [] OTHER -> ~VerifiedPending /\ UndoV2Unavailable

RecoverSteps ==
  IF checkpoint = NoCheckpoint
  THEN <<Discard({"dbStaging", "setStaging", "orphan"})>>
  ELSE IF VerifiedPending
  THEN When(checkpoint.version = 1 /\ Exists("dbStaging"), Discard({"dbStaging"}))
  ELSE IF checkpoint.version = 1
  THEN IF checkpoint.phase = "verified" /\ Exists("database") THEN CleanUpSteps
       ELSE UndoV1Steps
  ELSE IF checkpoint.phase = "finalized" THEN FinishV2Steps
  ELSE UndoV2Steps

\* rollbackPendingRestore, of a startup that fails with a restore pending.
BackOutUnavailable ==
  IF checkpoint.version = 1 THEN ~Exists("dbDisplaced") ELSE UndoV2Unavailable
BackOutSteps == IF checkpoint.version = 1 THEN UndoV1Steps ELSE UndoV2Steps

\* finalizePendingRestore.
FinalizeSteps ==
  CASE checkpoint = NoCheckpoint -> <<>>
    [] checkpoint.version = 1 ->
         When(Exists("dbDisplaced"), Discard({"dbDisplaced"})) \o <<Forget>>
    [] OTHER -> <<Record(2, "finalized")>> \o FinishV2Steps

\* resetLocalData, and its catch: each record that was read and was there.
ForKeys(op) == [i \in 1 .. 3 |-> [op |-> op, key |-> Records[i]]]
ResetSteps ==
  <<BackUp, MoveRoot>> \o ForKeys("readKey") \o ForKeys("deleteKey")

\* The records of W are written again, in their order.
WriteKey(r) == [op |-> "writeKey", key |-> r]
Writes(W) == When("secret" \in W, WriteKey("secret"))
             \o When("admin" \in W, WriteKey("admin"))
             \o When("account" \in W, WriteKey("account"))

RevertSteps == Writes({r \in Keys : values[r] \notin {Unread, 0}}) \o <<ReturnRoot>>

Owners == [database |-> files["database"], settings |-> files["settings"]]

RestoreInit ==
  /\ files = [p \in Places |-> IF p \in {"database", "settings"} THEN 1 ELSE Missing]
  /\ checkpoint = NoCheckpoint
  /\ marker = TRUE
  /\ mem = 1
  /\ mode = "down"
  /\ todo = <<>>
  /\ pending = FALSE
  /\ prior = Owners
  /\ target = Owners
  /\ accepted = FALSE
  /\ restores = 0
  /\ troubles = 0
  /\ keys = Every(1)
  /\ values = Every(Unread)
  /\ served = Unserved
  /\ quarantine = <<>>
  /\ resets = 0

SameRun == UNCHANGED <<prior, target, restores, values, quarantine, resets>>
SameRestore == SameRun /\ UNCHANGED <<keys, served>>
SameDisk == UNCHANGED <<files, checkpoint, marker>>

GoesTo(m, steps) == mode' = m /\ todo' = steps
Trouble == troubles < MaxTroubles /\ troubles' = troubles + 1
NoTrouble == UNCHANGED troubles

(***************************************************************************)
(* One step of the running routine.                                        *)
(***************************************************************************)
Doing(op) == todo # <<>> /\ Head(todo).op = op
StepDone == todo' = Tail(todo)
InRoutine ==
  UNCHANGED <<mem, mode, pending, accepted>> /\ SameRestore /\ NoTrouble

PutStep ==
  /\ Doing("put")
  /\ files' = [files EXCEPT ![Head(todo).place] = Head(todo).content]
  /\ StepDone
  /\ UNCHANGED <<checkpoint, marker>> /\ InRoutine

\* The staged settings are a file in a directory of their own, which stays.
LeftBehind(p) == IF p = "setStaging" THEN Hollow ELSE Missing

MoveStep ==
  /\ Doing("move")
  /\ LET from == Head(todo).from
     IN  files' = [files EXCEPT ![Head(todo).to] = files[from],
                                ![from] = LeftBehind(from)]
  /\ StepDone
  /\ UNCHANGED <<checkpoint, marker>> /\ InRoutine

\* rm recursive takes a directory apart before it is gone.
Shrunk(p) ==
  IF p \in Directories /\ files[p] # Hollow THEN Hollow ELSE Missing

RemoveStep ==
  /\ Doing("discard")
  /\ \E p \in Head(todo).places :
        /\ Exists(p)
        /\ files' = [files EXCEPT ![p] = Shrunk(p)]
  /\ UNCHANGED <<checkpoint, marker, todo>> /\ InRoutine

RemovedStep ==
  /\ Doing("discard")
  /\ \A p \in Head(todo).places : ~Exists(p)
  /\ StepDone
  /\ SameDisk /\ InRoutine

RecordStep ==
  /\ Doing("record")
  /\ checkpoint' = [version |-> Head(todo).version, phase |-> Head(todo).phase]
  /\ StepDone
  /\ UNCHANGED <<files, marker>> /\ InRoutine

ForgetStep ==
  /\ Doing("forget")
  /\ checkpoint' = NoCheckpoint
  /\ StepDone
  /\ UNCHANGED <<files, marker>> /\ InRoutine

\* verifyRestoredDatabase: the build marker goes, so that the functions are
\* deployed into the restored database, and comes back with completeMigration.
InvalidateStep ==
  /\ Doing("invalidate")
  /\ marker' = FALSE
  /\ StepDone
  /\ UNCHANGED <<files, checkpoint>> /\ InRoutine

VerifyStep ==
  /\ Doing("verify")
  /\ marker' = TRUE
  /\ StepDone
  /\ UNCHANGED <<files, checkpoint>> /\ InRoutine

(***************************************************************************)
(* A start: resolveQaliPaths makes the directories that are missing and    *)
(* openSettingsStore the settings file, both before the recovery.          *)
(***************************************************************************)
Created(p, c) == IF Exists(p) THEN files[p] ELSE c

OpenStores ==
  /\ mode = "down"
  /\ files' = [files EXCEPT !["database"] = Created("database", Hollow),
                            !["settings"] = Created("settings", Default)]
  /\ mem' = files'["settings"]
  /\ GoesTo("opened", <<>>)
  /\ UNCHANGED <<checkpoint, marker, pending, accepted>> /\ SameRestore /\ NoTrouble

Recover ==
  /\ mode = "opened" /\ ~Unavailable
  /\ GoesTo("recovering", RecoverSteps)
  /\ pending' = VerifiedPending
  /\ SameDisk /\ UNCHANGED <<mem, accepted>> /\ SameRestore /\ NoTrouble

\* The startup fails, and the process quits.
RecoveryThrows ==
  /\ mode = "opened" /\ Unavailable
  /\ GoesTo("down", <<>>)
  /\ SameDisk /\ UNCHANGED <<mem, pending, accepted>> /\ SameRestore /\ NoTrouble

\* The bootstrap makes a secret, and derives a credential, when it is missing.
KeysOfStartup ==
  LET secret == IF keys["secret"] = 0 THEN resets + 1 ELSE keys["secret"]
  IN  [keys EXCEPT !["secret"] = secret,
                   !["admin"] = IF @ = 0 THEN secret ELSE @]

Recovered ==
  /\ mode = "recovering" /\ todo = <<>>
  /\ keys' = KeysOfStartup
  /\ GoesTo("starting", <<>>)
  /\ SameDisk /\ UNCHANGED <<mem, pending, accepted, served>> /\ SameRun /\ NoTrouble

\* Convex serves a hollow directory as an empty database; the broker finds its
\* functions there only if they are deployed, that is if the marker is another.
\* Every launch proves the admin credential, which is derived from the secret.
Startable ==
  /\ marker => files["database"] # Hollow
  /\ keys["admin"] = keys["secret"]

Healthy ==
  /\ mode = "starting" /\ Startable
  /\ files' = [files EXCEPT !["database"] =
                 IF files["database"] = Hollow THEN Fresh ELSE files["database"]]
  /\ marker' = TRUE
  /\ accepted' = TRUE
  /\ served' = keys
  /\ GoesTo("finalizing", FinalizeSteps)
  /\ UNCHANGED <<checkpoint, mem, pending, keys>> /\ SameRun /\ NoTrouble

\* The catch of whenReady.
StartupFails(m) ==
  /\ mode = m
  /\ IF pending /\ ~BackOutUnavailable
     THEN GoesTo("backing-out", BackOutSteps)
     ELSE GoesTo("down", <<>>)
  /\ pending' = FALSE
  /\ SameDisk /\ UNCHANGED <<mem, accepted>> /\ SameRestore

Unhealthy == StartupFails("starting") /\ IF Startable THEN Trouble ELSE NoTrouble
FinalizeFails == StartupFails("finalizing") /\ Trouble

Finalized ==
  /\ mode = "finalizing" /\ todo = <<>>
  /\ GoesTo("serving", <<>>)
  /\ pending' = FALSE
  /\ SameDisk /\ UNCHANGED <<mem, accepted>> /\ SameRestore /\ NoTrouble

\* Whether the roll-back ended or threw, the process quits.
BackedOut ==
  /\ mode = "backing-out" /\ todo = <<>>
  /\ GoesTo("down", <<>>)
  /\ SameDisk /\ UNCHANGED <<mem, pending, accepted>> /\ SameRestore /\ NoTrouble

\* A settings patch: the store writes what it holds, with the user's change.
PatchSettings ==
  /\ mode = "serving" /\ files["settings"] # mem
  /\ files' = [files EXCEPT !["settings"] = mem]
  /\ UNCHANGED <<checkpoint, marker, mem, mode, todo, pending, accepted>>
  /\ SameRestore /\ NoTrouble

(***************************************************************************)
(* The restore.  The lifecycle has drained the services and closed the     *)
(* settings store, and refuses another once one has completed.             *)
(***************************************************************************)
Leftover == \E p \in {"dbStaging", "setStaging", "orphan"} : Exists(p)

BeginRestore(v) ==
  /\ mode \in {"serving", "idle"}
  /\ checkpoint = NoCheckpoint /\ Exists("database")
  /\ restores < MaxBegun
  /\ restores' = restores + 1
  /\ files' = [files EXCEPT !["orphan"] = IF Leftover THEN Hollow ELSE Missing,
                            !["dbStaging"] = Missing, !["setStaging"] = Missing]
  /\ GoesTo("restoring", StageSteps(v, restores + 2) \o ActivateSteps(v))
  /\ prior' = Owners
  /\ target' = IF v = 1 THEN [Owners EXCEPT !.database = restores + 2]
               ELSE [database |-> restores + 2, settings |-> restores + 2]
  /\ accepted' = FALSE
  /\ UNCHANGED <<checkpoint, marker, mem, pending>> /\ UNCHANGED resetVars /\ NoTrouble

Restored ==
  /\ mode = "restoring" /\ todo = <<>>
  /\ GoesTo("stopped", <<>>)
  /\ SameDisk /\ UNCHANGED <<mem, pending, accepted>> /\ SameRestore /\ NoTrouble

\* The catch of activate.  Of a checkpoint whose write threw after its rename
\* the routine knows nothing.
Journaled == checkpoint # NoCheckpoint
MayNotKnow == Journaled /\ todo # <<>> /\ Head(todo).op = "move"
              /\ Head(todo).from = "database"

RestoreFails ==
  /\ mode = "restoring" /\ Trouble
  /\ \/ /\ ~Journaled \/ MayNotKnow
        /\ GoesTo("cleaning", <<Discard({"dbStaging", "setStaging"})>>)
     \/ /\ Journaled
        /\ IF Unavailable THEN GoesTo("idle", <<>>) ELSE GoesTo("undoing", RecoverSteps)
  /\ SameDisk /\ UNCHANGED <<mem, pending, accepted>> /\ SameRestore

RestoreUndone ==
  /\ mode \in {"undoing", "cleaning"} /\ todo = <<>>
  /\ GoesTo("idle", <<>>)
  /\ SameDisk /\ UNCHANGED <<mem, pending, accepted>> /\ SameRestore /\ NoTrouble

UndoFails ==
  /\ mode \in {"undoing", "cleaning"} /\ Trouble
  /\ GoesTo("idle", <<>>)
  /\ SameDisk /\ UNCHANGED <<mem, pending, accepted>> /\ SameRestore

(***************************************************************************)
(* The lifecycle of a restore or reset: it drains the services first, and  *)
(* all of them are tried when one fails.                                   *)
(***************************************************************************)
DrainFails ==
  /\ mode = "serving" /\ Trouble
  /\ GoesTo("idle", <<>>)
  /\ SameDisk /\ UNCHANGED <<mem, pending, accepted>> /\ SameRestore

(***************************************************************************)
(* The user connects Google where no account is, or disconnects it.        *)
(***************************************************************************)
ConnectOrDisconnect ==
  /\ mode = "serving"
  /\ keys' = [keys EXCEPT !["account"] = IF @ = 0 THEN resets + 1 ELSE 0]
  /\ served' = keys'
  /\ SameDisk /\ UNCHANGED <<mem, mode, todo, pending, accepted>> /\ SameRun /\ NoTrouble

(***************************************************************************)
(* The reset.                                                              *)
(***************************************************************************)
BeginReset ==
  /\ mode \in {"serving", "idle"}
  /\ resets < MaxResets
  /\ resets' = resets + 1
  /\ values' = Every(Unread)
  /\ GoesTo("resetting", ResetSteps)
  /\ SameDisk /\ UNCHANGED <<mem, pending, accepted, prior, target, restores>>
  /\ UNCHANGED <<keys, served, quarantine>> /\ NoTrouble

InReset == UNCHANGED <<mem, mode, pending, prior, target, restores, resets>> /\ NoTrouble

\* createColdBackup of a root that has both owners.
BackUpStep ==
  /\ Doing("backUp")
  /\ Exists("database") /\ Exists("settings")
  /\ StepDone
  /\ SameDisk /\ InRoutine

MoveRootStep ==
  /\ Doing("moveRoot")
  /\ quarantine' = <<[files |-> files, checkpoint |-> checkpoint, marker |-> marker,
                      accepted |-> accepted, served |-> served]>>
  /\ files' = [p \in Places |-> Missing]
  /\ checkpoint' = NoCheckpoint
  /\ marker' = FALSE
  /\ accepted' = TRUE
  /\ served' = Unserved
  /\ StepDone
  /\ UNCHANGED <<keys, values>> /\ InReset

ReturnRootStep ==
  /\ Doing("returnRoot")
  /\ files' = Head(quarantine).files
  /\ checkpoint' = Head(quarantine).checkpoint
  /\ marker' = Head(quarantine).marker
  /\ accepted' = Head(quarantine).accepted
  /\ served' = Head(quarantine).served
  /\ quarantine' = <<>>
  /\ StepDone
  /\ UNCHANGED <<keys, values>> /\ InReset

ReadKeyStep ==
  /\ Doing("readKey")
  /\ values' = [values EXCEPT ![Head(todo).key] = keys[Head(todo).key]]
  /\ StepDone
  /\ SameDisk /\ UNCHANGED <<accepted, keys, served, quarantine>> /\ InReset

DeleteKeyStep ==
  /\ Doing("deleteKey")
  /\ keys' = [keys EXCEPT ![Head(todo).key] = 0]
  /\ StepDone
  /\ SameDisk /\ UNCHANGED <<accepted, values, served, quarantine>> /\ InReset

WriteKeyStep ==
  /\ Doing("writeKey")
  /\ keys' = [keys EXCEPT ![Head(todo).key] = values[Head(todo).key]]
  /\ StepDone
  /\ SameDisk /\ UNCHANGED <<accepted, values, served, quarantine>> /\ InReset

ResetDone ==
  /\ mode = "resetting" /\ todo = <<>>
  /\ GoesTo("stopped", <<>>)
  /\ SameDisk /\ UNCHANGED <<mem, pending, accepted>> /\ SameRestore /\ NoTrouble

\* A backup that fails leaves the root alone; of a rename that throws the
\* routine takes it that nothing was moved.
ResetFails ==
  /\ mode = "resetting" /\ todo # <<>>
  /\ IF Doing("backUp") /\ ~(Exists("database") /\ Exists("settings"))
     THEN NoTrouble ELSE Trouble
  /\ IF Head(todo).op \in {"backUp", "moveRoot"}
     THEN GoesTo("idle", <<>>) ELSE GoesTo("reverting", RevertSteps)
  /\ SameDisk /\ UNCHANGED <<mem, pending, accepted>> /\ SameRestore

\* Mutant: the root comes back with the records that could be written.
RevertFailsAndReturns ==
  /\ mode = "reverting" /\ todo # <<>> /\ Trouble
  /\ GoesTo("reverting", Tail(todo))
  /\ SameDisk /\ UNCHANGED <<mem, pending, accepted>> /\ SameRestore

\* The return of the root, if it is still to come, is the last step.
WithoutReturn(steps) ==
  IF steps # <<>> /\ steps[Len(steps)] = ReturnRoot
  THEN SubSeq(steps, 1, Len(steps) - 1) ELSE steps

\* A record that cannot be written keeps the root in quarantine, and the
\* others are written all the same.
RevertFails ==
  /\ mode = "reverting" /\ todo # <<>> /\ Trouble
  /\ GoesTo("reverting", WithoutReturn(Tail(todo)))
  /\ SameDisk /\ UNCHANGED <<mem, pending, accepted>> /\ SameRestore

Reverted ==
  /\ mode = "reverting" /\ todo = <<>>
  /\ GoesTo("idle", <<>>)
  /\ SameDisk /\ UNCHANGED <<mem, pending, accepted>> /\ SameRestore /\ NoTrouble

(***************************************************************************)
(* The process ends: it is quit, it dies, or a recovery or roll-back of a  *)
(* startup throws.                                                         *)
(***************************************************************************)
Ends ==
  /\ mode # "down"
  /\ IF mode \in {"serving", "idle", "stopped"} THEN NoTrouble ELSE Trouble
  /\ GoesTo("down", <<>>)
  /\ pending' = FALSE
  /\ SameDisk /\ UNCHANGED <<mem, accepted>> /\ SameRestore

\* A new build is installed.
Update ==
  /\ mode = "down" /\ marker
  /\ marker' = FALSE
  /\ UNCHANGED <<files, checkpoint, mem, mode, todo, pending, accepted>>
  /\ SameRestore /\ NoTrouble

Step ==
  \/ PutStep \/ MoveStep \/ RemoveStep \/ RemovedStep
  \/ RecordStep \/ ForgetStep \/ InvalidateStep \/ VerifyStep

Startup ==
  \/ OpenStores \/ Recover \/ RecoveryThrows \/ Recovered \/ Healthy \/ Finalized
  \/ BackedOut

RestoreEnds == Restored \/ RestoreUndone

ResetStep ==
  \/ BackUpStep \/ MoveRootStep \/ ReturnRootStep
  \/ ReadKeyStep \/ DeleteKeyStep \/ WriteKeyStep

Reset ==
  \/ BeginReset \/ ResetStep \/ ResetDone \/ ResetFails \/ RevertFails \/ Reverted

RestoreNext ==
  \/ Step \/ Startup \/ RestoreEnds
  \/ Unhealthy \/ FinalizeFails \/ RestoreFails \/ UndoFails \/ Ends
  \/ PatchSettings \/ ConnectOrDisconnect \/ Update \/ DrainFails \/ Reset
  \/ \E v \in {1, 2} : BeginRestore(v)

RestoreSpec == RestoreInit /\ [][RestoreNext]_rootVars

(***************************************************************************)
(* Properties.                                                             *)
(***************************************************************************)
RestoreTypeOK ==
  /\ files \in [Places -> Contents]
  /\ checkpoint \in Checkpoints
  /\ {marker, pending, accepted} \subseteq BOOLEAN
  /\ mem \in Contents
  /\ mode \in Modes
  /\ {prior, target} \subseteq [database : Contents, settings : Contents]
  /\ restores \in 0 .. MaxBegun /\ troubles \in 0 .. MaxTroubles
  /\ keys \in [Keys -> 0 .. MaxResets + 1]
  /\ resets \in 0 .. MaxResets

(***************************************************************************)
(* "Prior database stays available until the restored database verifies"   *)
(* (docs/desktop/data-backup-recovery.md), and until a startup was healthy *)
(* with it: whatever dies or throws, both owners are then in their place   *)
(* or under the name the checkpoint has for them.  The one recovery that   *)
(* cannot go on is that of a version 2 roll-back which was cut short after *)
(* the prior database was back in its place.                               *)
(***************************************************************************)
PriorKept ==
  /\ checkpoint # NoCheckpoint /\ ~accepted =>
       /\ prior.database \in {files["database"], files["dbDisplaced"]}
       /\ prior.settings \in {files["settings"], files["setDisplaced"]}
  /\ mode = "opened" /\ Unavailable =>
       /\ checkpoint.version = 2
       /\ ~accepted => files["database"] = prior.database

(***************************************************************************)
(* Once a restore is settled, and until a startup accepts the outcome, the *)
(* owners are the prior pair or the backup's pair and never one of each;   *)
(* one that failed and was undone in the process left no trace, and one    *)
(* that is settled leaves neither displaced owners nor staged copies.  The *)
(* checkpoint says "verified" only of what the restore brought, but that a *)
(* roll-back which was cut short may have hollowed the database.           *)
(***************************************************************************)
OneOfTheTwo ==
  /\ checkpoint = NoCheckpoint /\ ~accepted =>
       /\ mode = "starting" => Owners \in {prior, target}
       /\ mode = "idle" => Owners = prior
  /\ VerifiedPending /\ ~accepted =>
       /\ files["database"] \in {target.database, Hollow}
       /\ files["settings"] = target.settings
       /\ mode = "stopped" => Owners = target
  /\ mode = "serving" =>
       \A p \in {"dbStaging", "dbDisplaced", "setStaging", "setDisplaced"} : ~Exists(p)

(***************************************************************************)
(* A reset "moves the exact Qali root to a timestamped quarantine, and     *)
(* deletes Qali's exact Keychain records" (docs/desktop/                   *)
(* data-backup-recovery.md).  Whatever dies or throws in it or in its      *)
(* roll-back, a root is never in its place without the very records it was *)
(* served with, and after a reset that has ended well there are none.      *)
(***************************************************************************)
CredentialsFollowRoot ==
  /\ mode \notin {"down", "opened"} /\ served # Unserved => keys = served
  /\ mode = "stopped" /\ ~Exists("database") => keys = Every(0)

\* Whatever dies or throws, no owner is lost and no pair is mixed.
OwnersKept == PriorKept /\ OneOfTheTwo
=============================================================================
