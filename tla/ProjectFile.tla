---------------------------- MODULE ProjectFile ----------------------------
(***************************************************************************)
(* The project file of lvtprj (ct_lvtprj_projectfile.cpp) as the main      *)
(* window drives it (desktopapp/mainwindow.cpp): creating, opening, saving,*)
(* auto-saving and closing a project, with I/O errors at every step and a  *)
(* crash of the process at any moment.                                     *)
(*                                                                         *)
(* An open project is a workspace folder in $TEMP; saving compresses it    *)
(* into an archive.  A content is a number: every edit, and every new      *)
(* project, makes a content that never existed before.  archive[p] is the  *)
(* file at path p (name.lks), bpk[p] the file saveAs keeps beside it       *)
(* (name.lks.bpk).  A file may be absent (NoFile) or cut short (Torn).     *)
(***************************************************************************)
EXTENDS Naturals

CONSTANTS
  UserPaths,     \* paths the user picks in a file dialog
  BackupPaths,   \* backupFolder()/name.lks, one for every project name
  DotLks,        \* ".lks", what saveAs makes of the empty path
  NoPath,        \* the empty std::filesystem::path
  NoFile, Torn,
  Faults,        \* what may go wrong, see FaultsAssumption
  MaxVersion, MaxProjects, MaxCrashes   \* bounds

Paths == UserPaths \cup BackupPaths \cup {DotLks}
Contents == Nat \ {0}

ASSUME PathsAssumption ==
  /\ UserPaths \cap BackupPaths = {}
  /\ DotLks \notin UserPaths \cup BackupPaths
  /\ NoPath \notin Paths
ASSUME FilesAssumption == NoFile \notin Nat /\ Torn \notin Nat /\ NoFile # Torn
ASSUME FaultsAssumption ==
  Faults \subseteq {"rename", "dump", "compress", "create", "close", "crash"}
ASSUME BoundsAssumption == MaxVersion \in Nat /\ MaxProjects \in Nat /\ MaxCrashes \in Nat

VARIABLES
  archive, bpk,              \* the disk
  isOpen, isDirty, allowedAutoSave, location, backupLocation,  \* ProjectFile::Private
  work,                      \* what the folder openLocation holds
  timer,                     \* projectSaveBackupTimer is running
  connected,                 \*   and its timeout is connected to saveBackup
  initialised,               \* requestAutosave's function-local static
  enabled,                   \* the main window's project widgets are enabled
  pc, saving,                \* saveAs: its next step, its argument and caller
  error,                     \* the last save reported an error
  version, projects, crashes,   \* counters
  last,                      \* history: last[p] is what saveAs last completed at p
  saved                      \* history: the content of the last save the user made

diskVars == <<archive, bpk>>
projectVars == <<isOpen, isDirty, allowedAutoSave, location, backupLocation, work>>
timerVars == <<timer, connected, initialised>>
saveVars == <<pc, saving, error>>
counters == <<version, projects, crashes>>
history == <<last, saved>>
vars == <<diskVars, projectVars, timerVars, enabled, saveVars, counters, history>>

NotSaving == [path |-> NoPath, caller |-> "none"]

(* Auto-saving is allowed if the backup folder exists or can be created.    *)
Init ==
  /\ archive = [p \in Paths |-> NoFile] /\ bpk = [p \in Paths |-> NoFile]
  /\ isOpen = FALSE /\ isDirty = FALSE /\ allowedAutoSave \in BOOLEAN
  /\ location = NoPath /\ backupLocation = NoPath /\ work = NoFile
  /\ timer = FALSE /\ connected = FALSE /\ initialised = FALSE
  /\ enabled = FALSE
  /\ pc = "idle" /\ saving = NotSaving /\ error = FALSE
  /\ version = 0 /\ projects = 0 /\ crashes = 0
  /\ last = [p \in Paths |-> NoFile]
  /\ saved = NoFile

-----------------------------------------------------------------------------
(* ProjectFile::close: the workspace is deleted and a fresh Private takes   *)
(* the place of the old one, timer included.  Closing a closed project is a *)
(* no-op.                                                                   *)
Closed ==
  IF isOpen
  THEN /\ isOpen' = FALSE /\ isDirty' = FALSE /\ allowedAutoSave' = TRUE
       /\ location' = NoPath /\ backupLocation' = NoPath /\ work' = NoFile
       /\ timer' = FALSE /\ connected' = FALSE
  ELSE UNCHANGED <<projectVars, timer, connected>>

(* remove_all threw or found nothing: the project stays open on what is left*)
(* of its folder.                                                           *)
CloseFailed ==
  /\ "close" \in Faults /\ isOpen
  /\ work' \in {work, Torn}
  /\ UNCHANGED <<isOpen, isDirty, allowedAutoSave, location, backupLocation,
                 timer, connected>>

(* MainWindow::closeProject, from its menu entry or before another project  *)
(* is asked for.                                                            *)
CloseProject ==
  /\ pc = "idle" /\ isOpen
  /\ enabled' = FALSE
  /\ Closed \/ CloseFailed
  /\ UNCHANGED <<diskVars, initialised, saveVars, counters, last, saved>>

(* MainWindow::newProject: close, ask for a name, createEmpty, set the name.*)
(* The result of closing is not looked at, and createEmpty only replaces the*)
(* workspace: what a failed close left in Private stays.  A createEmpty that*)
(* fails has marked the project open already.                               *)
NewProject(backup) ==
  /\ pc = "idle" /\ projects < MaxProjects /\ version < MaxVersion
  /\ projects' = projects + 1 /\ version' = version + 1
  /\ isOpen' = TRUE
  /\ \E closed, created \in BOOLEAN :
       /\ closed => isOpen
       /\ isOpen /\ ~closed => "close" \in Faults
       /\ ~created => "create" \in Faults
       /\ enabled' = created
       /\ work' = IF created THEN version + 1 ELSE Torn
       /\ backupLocation' = IF created THEN backup ELSE IF closed THEN NoPath ELSE backupLocation
       /\ \/ /\ closed
             /\ isDirty' = FALSE /\ allowedAutoSave' = TRUE /\ location' = NoPath
             /\ timer' = FALSE /\ connected' = FALSE
          \/ ~closed /\ UNCHANGED <<isDirty, allowedAutoSave, location, timer, connected>>
  /\ UNCHANGED <<diskVars, initialised, saveVars, crashes, last, saved>>

(* MainWindow::openProjectAction and openProjectFromPath, with no project   *)
(* open or after a close that failed.  The project's name is read from the  *)
(* metadata without setProjectName: backupLocation stays what it was, which *)
(* is empty after a proper close.                                           *)
OpenProject(p) ==
  /\ pc = "idle" /\ ~enabled /\ projects < MaxProjects
  /\ archive[p] # NoFile
  /\ projects' = projects + 1
  /\ isOpen' = TRUE /\ work' = archive[p]
  /\ location' = p
  /\ enabled' = TRUE
  /\ UNCHANGED <<diskVars, isDirty, allowedAutoSave, backupLocation, timerVars,
                 saveVars, version, crashes, last, saved>>

(* A file that was cut short may not extract; the workspace is then an empty*)
(* folder, which matters to a project that did not close.                   *)
OpenFailed(p) ==
  /\ pc = "idle" /\ ~enabled /\ isOpen
  /\ archive[p] = Torn
  /\ work' = Torn
  /\ UNCHANGED <<diskVars, isOpen, isDirty, allowedAutoSave, location, backupLocation,
                 timerVars, enabled, saveVars, counters, history>>

(* ProjectSettingsDialog::applyChanges calls setProjectName.                *)
SetProjectName(backup) ==
  /\ pc = "idle" /\ enabled
  /\ backupLocation' = backup
  /\ UNCHANGED <<diskVars, isOpen, isDirty, allowedAutoSave, location, work,
                 timerVars, enabled, saveVars, counters, history>>

(* ProjectFile::requestAutosave (re)starts the timer.  It connects the timer*)
(* of the Private that is current the first time, and never again.          *)
RequestAutosave ==
  \/ /\ allowedAutoSave
     /\ timer' = TRUE /\ initialised' = TRUE
     /\ connected' = (connected \/ ~initialised)
  \/ ~allowedAutoSave /\ UNCHANGED timerVars

(* NodeStorage emits storageChanged: the database in the workspace changed. *)
Edit ==
  /\ pc = "idle" /\ enabled /\ version < MaxVersion
  /\ version' = version + 1 /\ work' = version + 1
  /\ RequestAutosave
  /\ UNCHANGED <<diskVars, isOpen, isDirty, allowedAutoSave, location, backupLocation,
                 enabled, saveVars, projects, crashes, history>>

(* MainWindow::setCurrentGraph and removeBookmark: only these, and saving   *)
(* the tabs, call setDirty.                                                 *)
ChangeView ==
  /\ pc = "idle" /\ enabled
  /\ isDirty' = TRUE
  /\ UNCHANGED <<diskVars, isOpen, allowedAutoSave, location, backupLocation, work,
                 timerVars, enabled, saveVars, counters, history>>

-----------------------------------------------------------------------------
(* Who calls saveAs, and with what path.                                    *)
StartSave(path, caller) ==
  /\ pc = "idle"
  /\ pc' = "rename" /\ saving' = [path |-> path, caller |-> caller]
  /\ error' = FALSE
  /\ UNCHANGED <<diskVars, isOpen, allowedAutoSave, location, backupLocation, work,
                 connected, initialised, enabled, counters, history>>

(* MainWindow::saveProjectAs and saveProject write the tabs with            *)
(* saveBookmark first, which marks the project dirty.                       *)
SaveProjectAs(p) == enabled /\ isDirty' = TRUE /\ StartSave(p, "saveAs") /\ UNCHANGED timer

SaveProject ==
  /\ enabled /\ location # NoPath /\ isDirty' = TRUE
  /\ StartSave(location, "save") /\ UNCHANGED timer

(* The auto-save timer fires: ProjectFile::saveBackup.  saveAs appends      *)
(* ".lks" to a path without that suffix, the empty one included.            *)
\* Mutant: the empty path is used as it is.
BareBackupPath == backupLocation
BackupPath == IF backupLocation = NoPath THEN DotLks ELSE backupLocation
\* Mutant: only a project that is marked dirty is saved, as when closing the window.
SaveBackupIfDirty ==
  /\ timer /\ connected /\ timer' = FALSE
  /\ IF isDirty THEN StartSave(BackupPath, "saveBackup")
     ELSE /\ pc = "idle"
          /\ UNCHANGED <<diskVars, isOpen, allowedAutoSave, location, backupLocation, work,
                         connected, initialised, saveVars, enabled, counters, history>>
  /\ UNCHANGED isDirty
SaveBackup ==
  /\ timer /\ connected /\ timer' = FALSE
  /\ StartSave(BackupPath, "saveBackup")
  /\ UNCHANGED isDirty

(* The steps of saveAs.  An error returns at once; whatever the steps before*)
(* did stays done.                                                          *)
SaveFailed(fault) ==
  /\ fault \in Faults
  /\ pc' = "idle" /\ saving' = NotSaving /\ error' = TRUE

SaveUnchanged == <<isOpen, allowedAutoSave, backupLocation, work, timerVars, enabled, counters>>

(* An existing file is renamed to .bpk, over the one of an earlier save.    *)
\* Mutant: an existing .bpk is not replaced.
BpkOnce(p) ==
  [bpk EXCEPT ![p] = IF archive[p] = NoFile \/ @ # NoFile THEN @ ELSE archive[p]]
MovedAway(p) == [bpk EXCEPT ![p] = IF archive[p] = NoFile THEN @ ELSE archive[p]]

(* An existing file is moved out of the way; the new path is now location.  *)
Rename ==
  LET p == saving.path IN
  /\ pc = "rename"
  /\ \/ /\ archive[p] # NoFile /\ SaveFailed("rename")
        /\ UNCHANGED <<diskVars, location>>
     \/ /\ archive' = [archive EXCEPT ![p] = NoFile]
        /\ bpk' = MovedAway(p)
        /\ location' = p
        /\ pc' = "dump" /\ UNCHANGED <<saving, error>>
  /\ UNCHANGED <<SaveUnchanged, isDirty, last, saved>>

(* dumpProjectMetadata writes metadata.json into the workspace.             *)
Dump ==
  /\ pc = "dump"
  /\ \/ SaveFailed("dump")
     \/ pc' = "compress" /\ UNCHANGED <<saving, error>>
  /\ UNCHANGED <<SaveUnchanged, diskVars, location, isDirty, history>>

(* JlCompress::compressDir creates the file, fills it, and removes it when  *)
(* it fails.                                                                *)
Compress ==
  /\ pc = "compress"
  /\ archive' = [archive EXCEPT ![saving.path] = Torn]
  /\ pc' = "writing"
  /\ UNCHANGED <<SaveUnchanged, bpk, location, isDirty, saving, error, history>>

Written ==
  LET p == saving.path IN
  /\ pc = "writing"
  /\ \/ /\ SaveFailed("compress")
        /\ archive' = [archive EXCEPT ![p] = NoFile]
        /\ UNCHANGED last
     \/ /\ archive' = [archive EXCEPT ![p] = work]
        /\ last' = [last EXCEPT ![p] = work]
        /\ \/ /\ saving.caller = "saveBackup"
              /\ pc' = "idle" /\ saving' = NotSaving
           \/ /\ saving.caller # "saveBackup"
              /\ pc' = "discard" /\ UNCHANGED saving
        /\ UNCHANGED error
  /\ UNCHANGED <<SaveUnchanged, bpk, location, isDirty, saved>>

(* BackupFileBehavior::Discard: the auto-saved file is deleted.  save() then*)
(* clears the dirty flag; saveAs() does not.                                *)
Discard ==
  /\ pc = "discard"
  /\ archive' = [p \in Paths |-> IF p = backupLocation THEN NoFile ELSE archive[p]]
  /\ isDirty' = (isDirty /\ saving.caller # "save")
  /\ saved' = work
  /\ pc' = "idle" /\ saving' = NotSaving
  /\ UNCHANGED <<SaveUnchanged, bpk, location, error, last>>

(* The user quits, or the process dies in the middle of anything, and starts*)
(* again.  The disk keeps its files; the workspace is never looked at again.*)
Exit ==
  /\ \/ pc = "idle" /\ UNCHANGED crashes
     \/ "crash" \in Faults /\ crashes < MaxCrashes /\ crashes' = crashes + 1
  /\ isOpen \/ initialised \/ pc # "idle"
  /\ isOpen' = FALSE /\ isDirty' = FALSE /\ allowedAutoSave' \in BOOLEAN
  /\ location' = NoPath /\ backupLocation' = NoPath /\ work' = NoFile
  /\ timer' = FALSE /\ connected' = FALSE /\ initialised' = FALSE
  /\ enabled' = FALSE
  /\ pc' = "idle" /\ saving' = NotSaving /\ error' = FALSE
  /\ UNCHANGED <<diskVars, version, projects, last, saved>>

-----------------------------------------------------------------------------
SaveStep == Rename \/ Dump \/ Compress \/ Written \/ Discard

User ==
  \/ CloseProject \/ Edit \/ ChangeView \/ SaveProject
  \/ \E b \in BackupPaths : NewProject(b) \/ SetProjectName(b)
  \/ \E p \in Paths : OpenProject(p) \/ OpenFailed(p)
  \/ \E p \in UserPaths : SaveProjectAs(p)

Next == User \/ SaveBackup \/ SaveStep \/ Exit

Spec == Init /\ [][Next]_vars

(* saveAs runs to its end on the GUI thread, whose event loop delivers an   *)
(* expired timer when it gets back to it.  The user owes nothing.           *)
FairSpec == Spec /\ WF_vars(SaveStep) /\ WF_vars(SaveBackup)

-----------------------------------------------------------------------------
FileStates == Contents \cup {NoFile, Torn}

DiskType ==
  /\ archive \in [Paths -> FileStates] /\ bpk \in [Paths -> FileStates]
  /\ last \in [Paths -> FileStates]

FlagsType ==
  /\ isOpen \in BOOLEAN /\ isDirty \in BOOLEAN /\ allowedAutoSave \in BOOLEAN
  /\ timer \in BOOLEAN /\ connected \in BOOLEAN /\ initialised \in BOOLEAN
  /\ enabled \in BOOLEAN /\ error \in BOOLEAN

ProjectType ==
  /\ location \in Paths \cup {NoPath}
  /\ backupLocation \in BackupPaths \cup {NoPath}
  /\ work \in FileStates /\ saved \in FileStates
  /\ version \in Nat /\ projects \in Nat /\ crashes \in Nat

SaveType ==
  /\ pc \in {"idle", "rename", "dump", "compress", "writing", "discard"}
  /\ saving \in [path : Paths \cup {NoPath},
                 caller : {"none", "save", "saveAs", "saveBackup"}]
  /\ pc # "idle" => saving.path \in Paths

(* Every variable holds a value the code can put there, and saveAs never    *)
(* works on the empty path.                                                 *)
TypeOK == DiskType /\ FlagsType /\ ProjectType /\ SaveType

(* What was last saved under a path the user chose stays readable, at that  *)
(* path or at its .bpk, in the middle of every later save and after every   *)
(* error.  Only a crash in the middle of writing, followed by another save  *)
(* to the same path, puts that at risk.                                     *)
LastSaveSurvives ==
  \A p \in UserPaths : last[p] # NoFile =>
     \/ archive[p] = last[p] \/ bpk[p] = last[p]
     \/ crashes > 0 /\ bpk[p] = Torn

(* The inductive form: a file cut short is one being written now, one a     *)
(* crash left behind, or the copy of a workspace that a failed close had    *)
(* damaged; saveAs writes where it has just moved the old file away, and    *)
(* until it is done that old file is the one to rely on.                    *)
Kept(p) == bpk[p] = last[p] \/ (crashes > 0 /\ bpk[p] = Torn)

SaveInv ==
  /\ \A p \in UserPaths :
       \/ archive[p] \in {NoFile, last[p]}
       \/ archive[p] = Torn /\ (crashes > 0 \/ (pc = "writing" /\ saving.path = p))
  /\ pc \in {"dump", "compress"} => archive[saving.path] = NoFile
  /\ \A p \in UserPaths : last[p] # NoFile =>
       \/ Kept(p)
       \/ /\ archive[p] = last[p]
          /\ ~(pc \in {"dump", "compress", "writing"} /\ saving.path = p)

(* "When the timer is over, we save the backup file": the content the     *)
(* timer was last started for reaches a file, unless an error is reported,  *)
(* or the content is gone or edited again first.  This is said of a timer   *)
(* that is connected.  requestAutosave connects that of the first project   *)
(* of a process and no other (initialised is static): the edits of a later  *)
(* project reach no file until the user saves them.                         *)
OnDisk(c) == \E p \in Paths : archive[p] = c \/ bpk[p] = c

EditIsBackedUp ==
  \A c \in 1..MaxVersion :
    (timer /\ connected /\ work = c) ~> (OnDisk(c) \/ error \/ work # c)
=============================================================================
