------------------------- MODULE ProjectFile_proofs -------------------------
(***************************************************************************)
(* Proofs about ProjectFile, for every set of paths, every combination of  *)
(* faults and any number of edits, projects and crashes.                   *)
(***************************************************************************)
EXTENDS ProjectFile, TLAPS

(* What the steps need to know of the values a file can have.               *)
LEMMA FileFacts ==
  /\ NoFile \in FileStates /\ Torn \in FileStates
  /\ \A c \in Contents : c \in FileStates
  /\ \A n \in Nat : n + 1 \in Contents
BY DEF FileStates, Contents

LEMMA InitType == Init => TypeOK
<1> SUFFICES ASSUME Init PROVE TypeOK
    OBVIOUS
<1> USE FileFacts DEF Init
<1>1. DiskType /\ FlagsType
      BY DEF DiskType, FlagsType
<1>2. ProjectType
      BY DEF ProjectType
<1>3. SaveType
      BY DEF SaveType, NotSaving
<1> QED
    BY <1>1, <1>2, <1>3 DEF TypeOK

(* The files: only the steps of saveAs write them.                          *)
LEMMA DiskStep == TypeOK /\ Next => DiskType'
<1> SUFFICES ASSUME TypeOK, Next PROVE DiskType'
    OBVIOUS
<1> USE FileFacts DEF TypeOK, DiskType, ProjectType, diskVars, history
<1>1. CASE Rename
      BY <1>1 DEF Rename, MovedAway
<1>2. CASE Compress
      BY <1>2 DEF Compress
<1>3. CASE Written
      BY <1>3 DEF Written
<1>4. CASE Discard
      BY <1>4 DEF Discard
<1>5. CASE Dump \/ Exit
      BY <1>5 DEF Dump, Exit
<1>6. CASE User \/ SaveBackup
      BY <1>6 DEF User, CloseProject, Edit, ChangeView, SaveProject, NewProject, SetProjectName,
                  OpenProject, OpenFailed, SaveProjectAs, SaveBackup, StartSave
<1> QED
    BY <1>1, <1>2, <1>3, <1>4, <1>5, <1>6 DEF Next, SaveStep

(* The flags.                                                               *)
LEMMA FlagsStep == TypeOK /\ Next => FlagsType'
<1> SUFFICES ASSUME TypeOK, Next PROVE FlagsType'
    OBVIOUS
<1> USE DEF TypeOK, FlagsType, projectVars, timerVars, saveVars
<1>1. CASE CloseProject
      BY <1>1 DEF CloseProject, Closed, CloseFailed
<1>2. CASE Edit \/ ChangeView
      BY <1>2 DEF Edit, RequestAutosave, ChangeView
<1>3. CASE SaveProject \/ SaveBackup
      BY <1>3 DEF SaveProject, SaveBackup, StartSave
<1>4. CASE \E b \in BackupPaths : NewProject(b) \/ SetProjectName(b)
  <2>1. ASSUME NEW b \in BackupPaths, NewProject(b) PROVE FlagsType'
    <3>1. isOpen' = TRUE /\ enabled' \in BOOLEAN /\ UNCHANGED <<initialised, error>>
          BY <2>1 DEF NewProject
    <3>2. \/ isDirty' = FALSE /\ allowedAutoSave' = TRUE /\ timer' = FALSE /\ connected' = FALSE
          \/ UNCHANGED <<isDirty, allowedAutoSave, timer, connected>>
          BY <2>1 DEF NewProject
    <3> QED
        BY <3>1, <3>2
  <2>2. CASE \E b \in BackupPaths : SetProjectName(b)
        BY <2>2 DEF SetProjectName
  <2> QED
      BY <1>4, <2>1, <2>2
<1>5. CASE \E p \in Paths : OpenProject(p) \/ OpenFailed(p)
      BY <1>5 DEF OpenProject, OpenFailed
<1>6. CASE \E p \in UserPaths : SaveProjectAs(p)
      BY <1>6 DEF SaveProjectAs, StartSave
<1>7. CASE SaveStep
      BY <1>7 DEF SaveStep, Rename, Dump, Compress, Written, Discard, SaveFailed, SaveUnchanged
<1>8. CASE Exit
      BY <1>8 DEF Exit
<1> QED
    BY <1>1, <1>2, <1>3, <1>4, <1>5, <1>6, <1>7, <1>8 DEF Next, User

(* The workspace, its locations and the counters.                           *)
LEMMA ProjectStep == TypeOK /\ Next => ProjectType'
<1> SUFFICES ASSUME TypeOK, Next PROVE ProjectType'
    OBVIOUS
<1> USE FileFacts DEF TypeOK, ProjectType, projectVars, counters, history
<1>1. CASE CloseProject
      BY <1>1 DEF CloseProject, Closed, CloseFailed
<1>2. CASE Edit \/ ChangeView
      BY <1>2 DEF Edit, RequestAutosave, ChangeView
<1>3. CASE SaveProject \/ SaveBackup
      BY <1>3 DEF SaveProject, SaveBackup, StartSave
<1>4. CASE \E b \in BackupPaths : NewProject(b) \/ SetProjectName(b)
      BY <1>4 DEF NewProject, SetProjectName
<1>5. CASE \E p \in Paths : OpenProject(p) \/ OpenFailed(p)
      BY <1>5 DEF OpenProject, DiskType, OpenFailed
<1>6. CASE \E p \in UserPaths : SaveProjectAs(p)
      BY <1>6 DEF SaveProjectAs, StartSave
<1>7. CASE Rename
      BY <1>7 DEF Rename, SaveType, SaveUnchanged
<1>8. CASE Dump \/ Compress \/ Written \/ Discard
      BY <1>8 DEF Dump, Compress, Written, Discard, SaveUnchanged
<1>9. CASE Exit
      BY <1>9 DEF Exit
<1> QED
    BY <1>1, <1>2, <1>3, <1>4, <1>5, <1>6, <1>7, <1>8, <1>9 DEF Next, User, SaveStep

(* saveAs is called with a path: the location, a path of the user's, or the *)
(* backup location, which ".lks" stands in for when it is empty.            *)
LEMMA SaveTypeStep == TypeOK /\ Next => SaveType'
<1> SUFFICES ASSUME TypeOK, Next PROVE SaveType'
    OBVIOUS
<1> USE DEF TypeOK, SaveType, saveVars, NotSaving
<1>1. CASE SaveProject
      BY <1>1 DEF SaveProject, StartSave, ProjectType
<1>2. CASE SaveBackup
      <2>1. BackupPath \in Paths
            BY DEF BackupPath, Paths, ProjectType
      <2> QED
          BY <1>2, <2>1 DEF SaveBackup, StartSave
<1>3. ASSUME NEW p \in UserPaths, SaveProjectAs(p) PROVE SaveType'
      BY <1>3 DEF SaveProjectAs, StartSave, Paths
<1>4. CASE \/ CloseProject \/ Edit \/ ChangeView
           \/ \E b \in BackupPaths : NewProject(b) \/ SetProjectName(b)
           \/ \E p \in Paths : OpenProject(p) \/ OpenFailed(p)
      BY <1>4 DEF CloseProject, Edit, ChangeView, NewProject, SetProjectName, OpenProject, OpenFailed
<1>5. CASE SaveStep
      BY <1>5 DEF SaveStep, Rename, Dump, Compress, Written, Discard, SaveFailed
<1>6. CASE Exit
      BY <1>6 DEF Exit
<1> QED
    BY <1>1, <1>2, <1>3, <1>4, <1>5, <1>6 DEF Next, User

(* Every variable keeps its type in every reachable state.                  *)
THEOREM TypeCorrect == Spec => []TypeOK
<1>1. TypeOK /\ [Next]_vars => TypeOK'
      <2>1. CASE Next
            BY <2>1, DiskStep, FlagsStep, ProjectStep, SaveTypeStep DEF TypeOK
      <2>2. CASE UNCHANGED vars
            BY <2>2 DEF TypeOK, DiskType, FlagsType, ProjectType, SaveType, vars, diskVars,
                        projectVars, timerVars, saveVars, counters, history
      <2> QED
          BY <2>1, <2>2
<1> QED
    BY InitType, <1>1, PTL DEF Spec

-----------------------------------------------------------------------------
LEMMA InitSave == Init => SaveInv
BY DEF Init, SaveInv, Paths

(* Whatever leaves the disk and the record of saves alone and is not inside *)
(* saveAs keeps the invariant.                                              *)
LEMMA OutsideSave ==
  ASSUME SaveInv, pc = "idle", pc' \in {"idle", "rename"},
         UNCHANGED <<diskVars, crashes, last>>
  PROVE  SaveInv'
BY DEF SaveInv, Kept, diskVars

LEMMA UserSave == SaveInv /\ (User \/ SaveBackup) => SaveInv'
<1> SUFFICES ASSUME SaveInv, User \/ SaveBackup PROVE SaveInv'
    OBVIOUS
<1>1. pc = "idle" /\ pc' \in {"idle", "rename"} /\ UNCHANGED <<diskVars, crashes, last>>
      BY DEF User, SaveBackup, CloseProject, Edit, ChangeView, SaveProject, NewProject,
             SetProjectName, OpenProject, OpenFailed, SaveProjectAs, StartSave, saveVars, counters, history
<1> QED
    BY <1>1, OutsideSave

(* The old file is moved to .bpk: from here on that copy is the safe one.   *)
LEMMA RenameSave == TypeOK /\ SaveInv /\ Rename => SaveInv'
<1> SUFFICES ASSUME TypeOK, SaveInv, Rename PROVE SaveInv'
    OBVIOUS
<1> USE DEF SaveInv, Kept, Rename, MovedAway, SaveUnchanged, counters, diskVars
<1>1. CASE SaveFailed("rename") /\ UNCHANGED <<diskVars, location>>
      BY <1>1 DEF SaveFailed
<1>2. CASE /\ archive' = [archive EXCEPT ![saving.path] = NoFile]
           /\ bpk' = [bpk EXCEPT ![saving.path] =
                        IF archive[saving.path] = NoFile THEN @ ELSE archive[saving.path]]
           /\ pc' = "dump" /\ UNCHANGED saving
      <2>1. saving.path \in Paths
            BY DEF TypeOK, SaveType
      <2>2. archive'[saving'.path] = NoFile
            BY <1>2, <2>1 DEF TypeOK, DiskType
      <2>3. ASSUME NEW p \in UserPaths, p # saving.path
            PROVE  archive'[p] = archive[p] /\ bpk'[p] = bpk[p]
            BY <1>2, <2>3 DEF TypeOK, DiskType, Paths
      <2>4. ASSUME NEW p \in UserPaths, p = saving.path, last[p] # NoFile
            PROVE  Kept(p)'
            <3>1. archive[p] \in {NoFile, last[p]} \/ (archive[p] = Torn /\ crashes > 0)
                  BY <2>4
            <3>2. bpk'[p] = IF archive[p] = NoFile THEN bpk[p] ELSE archive[p]
                  BY <1>2, <2>4, <2>1 DEF TypeOK, DiskType
            <3>3. archive[p] = NoFile => Kept(p)
                  BY <2>4
            <3> QED
                BY <3>1, <3>2, <3>3, <2>4
      <2>5. \A p \in UserPaths :
              \/ archive'[p] \in {NoFile, last'[p]}
              \/ archive'[p] = Torn /\ (crashes' > 0 \/ (pc' = "writing" /\ saving'.path = p))
            BY <1>2, <2>2, <2>3
      <2>6. \A p \in UserPaths : last'[p] # NoFile =>
              \/ Kept(p)'
              \/ /\ archive'[p] = last'[p]
                 /\ ~(pc' \in {"dump", "compress", "writing"} /\ saving'.path = p)
            BY <1>2, <2>3, <2>4
      <2> QED
          BY <2>2, <2>5, <2>6
<1> QED
    BY <1>1, <1>2

(* The new file is written while the .bpk copy stays untouched.             *)
LEMMA WriteSave == TypeOK /\ SaveInv /\ (Dump \/ Compress \/ Written) => SaveInv'
<1> SUFFICES ASSUME TypeOK, SaveInv, Dump \/ Compress \/ Written PROVE SaveInv'
    OBVIOUS
<1> USE DEF SaveInv, Kept, SaveUnchanged, counters, history, diskVars, SaveFailed, NotSaving
<1>0. UserPaths \subseteq Paths /\ (pc # "idle" => saving.path \in Paths)
      BY DEF Paths, TypeOK, SaveType
<1>1. CASE Dump
      BY <1>1 DEF Dump
<1>2. CASE Compress
      BY <1>2, <1>0 DEF Compress, TypeOK, DiskType
<1>3. CASE Written
      BY <1>3, <1>0 DEF Written, TypeOK, DiskType, ProjectType
<1> QED
    BY <1>1, <1>2, <1>3

(* Discarding the auto-saved file touches no path of the user's.            *)
LEMMA DiscardSave == TypeOK /\ SaveInv /\ Discard => SaveInv'
<1> SUFFICES ASSUME TypeOK, SaveInv, Discard PROVE SaveInv'
    OBVIOUS
<1>1. \A p \in UserPaths : archive'[p] = archive[p]
      BY PathsAssumption DEF Discard, TypeOK, DiskType, ProjectType, Paths
<1> QED
    BY <1>1 DEF Discard, SaveInv, Kept, SaveUnchanged, counters

(* A crash may leave the file being written cut short, and counts.          *)
LEMMA ExitSave == TypeOK /\ SaveInv /\ Exit => SaveInv'
<1> SUFFICES ASSUME TypeOK, SaveInv, Exit PROVE SaveInv'
    OBVIOUS
<1>1. /\ crashes > 0 => crashes' > 0
      /\ pc # "idle" => crashes' > 0
      BY DEF Exit, TypeOK, ProjectType
<1> QED
    BY <1>1 DEF Exit, SaveInv, Kept, diskVars

(* What was last saved under a path of the user's stays readable there or   *)
(* at its .bpk, for all paths, faults and histories, short of a crash.      *)
THEOREM SavedFilesSurvive == Spec => []LastSaveSurvives
<1>1. TypeOK /\ SaveInv /\ [Next]_vars => SaveInv'
      <2>1. CASE Next
            BY <2>1, UserSave, RenameSave, WriteSave, DiscardSave, ExitSave DEF Next, SaveStep
      <2>2. CASE UNCHANGED vars
            BY <2>2 DEF SaveInv, Kept, vars, diskVars, saveVars, counters, history
      <2> QED
          BY <2>1, <2>2
<1>2. SaveInv => LastSaveSurvives
      BY DEF SaveInv, Kept, LastSaveSurvives
<1> QED
    BY InitSave, TypeCorrect, <1>1, <1>2, PTL DEF Spec
=============================================================================
