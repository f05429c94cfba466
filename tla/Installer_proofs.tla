--------------------------- MODULE Installer_proofs ---------------------------
(***************************************************************************)
(* Proofs about the two installers.  Installer: the marker file can be     *)
(* trusted, for any number of releases and edits, and what is written over *)
(* is lost in two ways only, for any set of stamps.  Setup: what the       *)
(* script says it ended with is in place, wherever runs die.               *)
(***************************************************************************)
EXTENDS Installer, Setup, TLAPS

\* What the run has put in place so far, on disk and in the Agent, up to edits.
Placed ==
  /\ step \in {"backup conf", "copy conf"} => disk["py"] \in {repo} \cup Edits
  /\ step \in {"restart", "settle", "mark"} => OfRelease(disk, repo)
  /\ step \in {"settle", "mark"} /\ running => OfRelease(loaded, repo)

\* There is no marker once a run has begun to change files.
Guarded == marker => step \in {"idle", "clear"}

MarkerInv == TypeOK /\ Placed /\ Guarded /\ MarkerMeansInstalled

-----------------------------------------------------------------------------
LEMMA Numbers ==
  /\ MaxRelease \in Nat /\ MaxRelease # 0 /\ MaxEdit \in Nat
  /\ 1 \in Releases /\ Releases \subseteq Int /\ Edits \subseteq Int
  /\ Absent \notin Releases \cup Edits /\ Torn \notin Releases \cup Edits
  /\ Absent # Torn
PROOF BY InstallerAssumption DEF InstallerAssumption, Releases, Edits, Absent, Torn

LEMMA Initially == Init => MarkerInv
PROOF
<1>. SUFFICES ASSUME Init PROVE MarkerInv
  OBVIOUS
<1>1. DOMAIN backups = {}
  BY DEF Init
<1>2. disk \in [Files -> Contents] /\ loaded \in [Files -> Contents]
  BY DEF Init, Contents
<1>3. TypeOK
  BY <1>1, <1>2, Numbers DEF Init, TypeOK, Steps
<1>. QED BY <1>3 DEF Init, MarkerInv, Placed, Guarded, MarkerMeansInstalled

(***************************************************************************)
(* Types, one lemma for the actions that write.                            *)
(***************************************************************************)
LEMMA BackupType ==
  ASSUME TypeOK, NEW f \in Files, NEW s \in Stamps, NEW content \in Contents \ {Absent},
         backups' = Saved(f, s, content)
  PROVE  /\ DOMAIN backups' = DOMAIN backups \cup {<<f, s>>}
         /\ DOMAIN backups' \subseteq Files \X Stamps
         /\ \A b \in DOMAIN backups' : backups'[b] \in Contents \ {Absent}
PROOF BY DEF TypeOK, Saved

LEMMA TypeStep == TypeOK /\ [Next]_vars => TypeOK'
PROOF
<1>. SUFFICES ASSUME TypeOK, [Next]_vars PROVE TypeOK'
  OBVIOUS
<1>1. CASE Pull
  BY <1>1, Numbers DEF Pull, TypeOK, Releases, observed
<1>2. CASE Edit
  BY <1>2 DEF Edit, TypeOK, Contents
<1>3. CASE AgentStops \/ AgentStarts
  BY <1>3 DEF AgentStops, AgentStarts, TypeOK, observed
<1>4. CASE Start \/ ClearMarker \/ CheckRunning \/ CreateMarker \/ Die
  BY <1>4 DEF Start, ClearMarker, CheckRunning, CreateMarker, Die, TypeOK, Steps, observed
<1>5. ASSUME NEW f \in Files, NEW here, NEW next \in Steps, BackupFile(f, here, next)
      PROVE  TypeOK'
  <2>1. /\ UNCHANGED <<repo, disk, marker, running, loaded, replaced, watched>>
        /\ step' \in Steps /\ excused' \in BOOLEAN
    BY <1>5 DEF BackupFile, Steps, TypeOK
  <2>2. CASE UNCHANGED backups
    BY <2>1, <2>2 DEF TypeOK
  <2>3. CASE backups' # backups
    <3>1. disk[f] # Absent /\ disk[f] \in Contents
      BY <1>5, <2>3 DEF BackupFile, TypeOK
    <3>2. PICK s \in Stamps : backups' = Saved(f, s, disk[f]) \/ backups' = Saved(f, s, Torn)
      BY <1>5, <2>3 DEF BackupFile
    <3>3. Torn \in Contents \ {Absent} /\ disk[f] \in Contents \ {Absent}
      BY <3>1, Numbers DEF Contents
    <3>. QED BY <2>1, <3>2, <3>3, BackupType DEF TypeOK
  <2>. QED BY <2>2, <2>3
<1>6. ASSUME NEW f \in Files, NEW here, NEW next \in Steps, CopyFile(f, here, next)
      PROVE  TypeOK'
  <2>1. disk' \in [Files -> Contents]
    BY <1>6 DEF CopyFile, TypeOK, Contents
  <2>2. replaced' \in BOOLEAN /\ UNCHANGED <<excused, watched>>
    BY <1>6 DEF CopyFile, TypeOK
  <2>3. step' \in Steps
    BY <1>6 DEF CopyFile, Steps
  <2>. QED BY <1>6, <2>1, <2>2, <2>3 DEF CopyFile, TypeOK
<1>7. CASE RestartAgent
  BY <1>7 DEF RestartAgent, TypeOK, Steps, observed
<1>8. CASE UNCHANGED vars
  BY <1>8 DEF vars, TypeOK
<1>9. /\ "py" \in Files /\ "conf" \in Files
      /\ {"copy py", "backup conf", "copy conf", "restart"} \subseteq Steps
  BY DEF Files, Steps
<1>. QED BY <1>1, <1>2, <1>3, <1>4, <1>5, <1>6, <1>7, <1>8, <1>9 DEF Next

-----------------------------------------------------------------------------
(***************************************************************************)
(* The marker.                                                             *)
(***************************************************************************)
LEMMA MarkerStep == MarkerInv /\ [Next]_vars => Placed' /\ Guarded' /\ MarkerMeansInstalled'
PROOF
<1>. SUFFICES ASSUME MarkerInv, [Next]_vars
     PROVE  Placed' /\ Guarded' /\ MarkerMeansInstalled'
  OBVIOUS
<1>. USE DEF MarkerInv, Placed, Guarded, MarkerMeansInstalled, OfRelease
<1>1. CASE Pull
  BY <1>1 DEF Pull
<1>2. CASE Edit
  <2>1. PICK f \in Files, e \in Edits : disk' = [disk EXCEPT ![f] = e]
    BY <1>2 DEF Edit
  <2>2. \A g \in Files : disk'[g] = disk[g] \/ disk'[g] \in Edits
    BY <2>1 DEF TypeOK
  <2>3. UNCHANGED <<repo, backups, marker, step, running, loaded>>
    BY <1>2 DEF Edit
  <2>4. Placed' /\ Guarded'
    BY <2>2, <2>3 DEF Files
  <2>5. ASSUME NEW r \in Releases, \A g \in Files : disk[g] \in {r} \cup Edits
        PROVE  \A g \in Files : disk'[g] \in {r} \cup Edits
    BY <2>2, <2>5
  <2>. QED BY <2>3, <2>4, <2>5
<1>3. CASE AgentStops
  BY <1>3 DEF AgentStops
<1>4. CASE AgentStarts
  BY <1>4 DEF AgentStarts
<1>5. CASE Start
  BY <1>5 DEF Start
<1>6. CASE ClearMarker
  BY <1>6 DEF ClearMarker
<1>7. CASE BackupFile("py", "backup py", "copy py")
  BY <1>7 DEF BackupFile
<1>8. CASE CopyFile("py", "copy py", "backup conf")
  <2>1. \/ disk' = [disk EXCEPT !["py"] = repo] /\ step' = "backup conf"
        \/ step' = "idle"
    BY <1>8 DEF CopyFile
  <2>2. ~marker /\ marker' = marker /\ repo' = repo
    BY <1>8 DEF CopyFile
  <2>3. step' = "backup conf" => disk'["py"] = repo
    BY <2>1 DEF TypeOK, Files
  <2>. QED BY <2>1, <2>2, <2>3
<1>9. CASE BackupFile("conf", "backup conf", "copy conf")
  BY <1>9 DEF BackupFile
<1>10. CASE CopyFile("conf", "copy conf", "restart")
  <2>1. \/ disk' = [disk EXCEPT !["conf"] = repo] /\ step' = "restart"
        \/ step' = "idle"
    BY <1>10 DEF CopyFile
  <2>2. ~marker /\ marker' = marker /\ repo' = repo /\ disk["py"] \in {repo} \cup Edits
    BY <1>10 DEF CopyFile
  <2>3. step' = "restart" => \A f \in Files : disk'[f] \in {repo} \cup Edits
    BY <2>1, <2>2 DEF TypeOK, Files
  <2>. QED BY <2>1, <2>2, <2>3
<1>11. CASE RestartAgent
  BY <1>11 DEF RestartAgent
<1>12. CASE CheckRunning
  BY <1>12 DEF CheckRunning
<1>13. CASE CreateMarker
  <2>1. /\ step' = "idle" /\ UNCHANGED <<repo, disk, running, loaded>> /\ repo \in Releases
        /\ \A f \in Files : disk[f] \in {repo} \cup Edits
        /\ running => \A f \in Files : loaded[f] \in {repo} \cup Edits
    BY <1>13 DEF CreateMarker, TypeOK
  <2>. QED BY <2>1
<1>14. CASE Die
  BY <1>14 DEF Die
<1>15. CASE UNCHANGED vars
  BY <1>15 DEF vars
<1>. QED
  BY <1>1, <1>2, <1>3, <1>4, <1>5, <1>6, <1>7, <1>8, <1>9, <1>10, <1>11, <1>12, <1>13, <1>14, <1>15
  DEF Next

LEMMA Invariance == Spec => []MarkerInv
PROOF
<1>1. MarkerInv /\ [Next]_vars => MarkerInv'
  BY TypeStep, MarkerStep DEF MarkerInv
<1>. QED BY <1>1, Initially, PTL DEF Spec

(***************************************************************************)
(* Files, backups and marker are always of a known kind.                   *)
(***************************************************************************)
THEOREM TypeCorrect == Spec => []TypeOK
PROOF
<1>1. MarkerInv => TypeOK BY DEF MarkerInv
<1>. QED BY <1>1, Invariance, PTL

(***************************************************************************)
(* The marker is there only with a whole installation of one release, on   *)
(* disk and in the running Agent, however many releases and edits there    *)
(* are and wherever a run dies.                                            *)
(***************************************************************************)
THEOREM MarkerTrusted == Spec => []MarkerMeansInstalled
PROOF
<1>1. MarkerInv => MarkerMeansInstalled BY DEF MarkerInv
<1>. QED BY <1>1, Invariance, PTL

-----------------------------------------------------------------------------
(* The backups.                                                            *)

\* What is about to be replaced has been backed up, or is excused.
BackedUp ==
  \A f \in BetweenBackupAndCopy : watched = <<f, disk[f]>> => Kept \/ excused

BackupInv == TypeOK /\ BackedUp /\ LossExplained

(***************************************************************************)
(* A backup is under its name afterwards, and takes from the others only   *)
(* the one of that name.                                                   *)
(***************************************************************************)
LEMMA KeptStays ==
  ASSUME NEW f, NEW s, NEW content, backups' = Saved(f, s, content), watched' = watched
  PROVE  /\ watched = <<f, content>> => Kept'
         /\ Kept => Kept' \/ WrittenOver(<<f, s>>)
PROOF
<1>1. DOMAIN backups' = DOMAIN backups \cup {<<f, s>>} /\ backups'[<<f, s>>] = content
  BY DEF Saved
<1>2. \A b \in DOMAIN backups : b # <<f, s>> => backups'[b] = backups[b]
  BY DEF Saved
<1>3. watched = <<f, content>> => Kept'
  BY <1>1 DEF Kept
<1>4. ASSUME Kept PROVE Kept' \/ WrittenOver(<<f, s>>)
  <2>1. PICK b \in DOMAIN backups : b[1] = watched[1] /\ backups[b] = watched[2]
    BY <1>4 DEF Kept
  <2>2. CASE b = <<f, s>>
    BY <2>1, <2>2 DEF WrittenOver
  <2>3. CASE b # <<f, s>>
    BY <1>1, <1>2, <2>1, <2>3 DEF Kept
  <2>. QED BY <2>2, <2>3
<1>. QED BY <1>3, <1>4

LEMMA Backed ==
  ASSUME BackupInv, NEW f \in Files, NEW here, NEW next, BackupFile(f, here, next)
  PROVE  /\ LossExplained' /\ disk' = disk /\ watched' = watched
         /\ \/ step' = "idle"
            \/ step' = next /\ (watched = <<f, disk[f]>> /\ disk[f] # Absent => Kept')
PROOF
<1>1. UNCHANGED <<disk, replaced, watched>>
  BY DEF BackupFile
<1>2. CASE disk[f] = Absent /\ step' = next /\ UNCHANGED <<backups, excused>>
  BY <1>1, <1>2 DEF BackupInv, LossExplained, Kept
<1>3. ASSUME NEW s \in Stamps, backups' = Saved(f, s, disk[f]), step' = next,
             excused' = (watched # <<f, disk[f]>> /\ (excused \/ WrittenOver(<<f, s>>)))
      PROVE  LossExplained' /\ (watched = <<f, disk[f]>> => Kept')
  <2>1. /\ watched = <<f, disk[f]>> => Kept'
        /\ Kept => Kept' \/ WrittenOver(<<f, s>>)
    BY <1>1, <1>3, KeptStays
  <2>. QED BY <1>1, <1>3, <2>1 DEF BackupInv, LossExplained
<1>4. ASSUME NEW s \in Stamps, backups' = Saved(f, s, Torn),
             excused' = (excused \/ WrittenOver(<<f, s>>))
      PROVE  LossExplained'
  <2>1. Kept => Kept' \/ WrittenOver(<<f, s>>)
    BY <1>1, <1>4, KeptStays
  <2>. QED BY <1>1, <1>4, <2>1 DEF BackupInv, LossExplained
<1>. QED BY <1>1, <1>2, <1>3, <1>4 DEF BackupFile

LEMMA Replacing ==
  ASSUME BackupInv, NEW f \in BetweenBackupAndCopy, NEW here, NEW next, CopyFile(f, here, next)
  PROVE  LossExplained'
PROOF
<1>1. UNCHANGED <<backups, excused, watched>> /\ replaced' = (replaced \/ watched = <<f, disk[f]>>)
  BY DEF CopyFile
<1>2. Kept' = Kept
  BY <1>1 DEF Kept
<1>. QED BY <1>1, <1>2 DEF BackupInv, BackedUp, LossExplained

LEMMA Edited == ASSUME BackupInv, Edit PROVE BackedUp' /\ LossExplained'
PROOF
<1>1. PICK f \in Files, e \in Edits :
        /\ disk' = [disk EXCEPT ![f] = e]
        /\ excused' = (excused \/ (watched = <<f, e>> /\ f \in BetweenBackupAndCopy))
  BY DEF Edit
<1>2. UNCHANGED <<backups, replaced, watched, step>> /\ Kept' = Kept
  BY DEF Edit, Kept
<1>3. BetweenBackupAndCopy' = BetweenBackupAndCopy /\ BetweenBackupAndCopy \subseteq Files
  BY <1>2 DEF BetweenBackupAndCopy
<1>4. LossExplained'
  BY <1>1, <1>2 DEF BackupInv, LossExplained
<1>5. ASSUME NEW g \in BetweenBackupAndCopy, watched = <<g, disk'[g]>>
      PROVE  Kept \/ excused'
  <2>1. CASE g = f
    BY <1>1, <1>5, <2>1 DEF BackupInv, TypeOK
  <2>2. CASE g # f
    <3>1. disk'[g] = disk[g]
      BY <1>1, <1>3, <2>2 DEF BackupInv, TypeOK
    <3>. QED BY <1>1, <1>5, <3>1 DEF BackupInv, BackedUp
  <2>. QED BY <2>1, <2>2
<1>6. BackedUp'
  BY <1>2, <1>3, <1>5 DEF BackedUp
<1>. QED BY <1>4, <1>6

\* The steps at which one file has been backed up and not been copied yet.
LEMMA Between ==
  /\ step = "copy py" => BetweenBackupAndCopy = {"py"}
  /\ step = "copy conf" => BetweenBackupAndCopy = {"conf"}
  /\ step \notin {"copy py", "copy conf"} => BetweenBackupAndCopy = {}
PROOF BY DEF BetweenBackupAndCopy, Files

LEMMA BackupStep == BackupInv /\ [Next]_vars => BackedUp' /\ LossExplained'
PROOF
<1>. SUFFICES ASSUME BackupInv, [Next]_vars PROVE BackedUp' /\ LossExplained'
  OBVIOUS
<1>1. CASE UNCHANGED <<backups, observed>> /\ step' \notin {"copy py", "copy conf"}
  <2>1. BetweenBackupAndCopy' = {}
    BY <1>1 DEF BetweenBackupAndCopy, Files
  <2>. QED BY <1>1, <2>1 DEF observed, BackupInv, BackedUp, LossExplained, Kept
<1>2. CASE UNCHANGED <<backups, observed, step, disk>>
  BY <1>2 DEF observed, BackupInv, BackedUp, LossExplained, Kept, BetweenBackupAndCopy
<1>3. ASSUME NEW f \in Files, NEW here, NEW next, BackupFile(f, here, next),
             step' = next => BetweenBackupAndCopy' = {f},
             step' = "idle" => BetweenBackupAndCopy' = {}
      PROVE  BackedUp' /\ LossExplained'
  <2>1. /\ LossExplained' /\ disk' = disk /\ watched' = watched
        /\ \/ step' = "idle"
           \/ step' = next /\ (watched = <<f, disk[f]>> /\ disk[f] # Absent => Kept')
    BY <1>3, Backed
  <2>2. watched # <<f, Absent>>
    BY Numbers DEF BackupInv, TypeOK
  <2>. QED BY <1>3, <2>1, <2>2 DEF BackedUp
<1>4. "py" \in Files /\ "conf" \in Files
  BY DEF Files
<1>5. /\ step' = "copy py" => BetweenBackupAndCopy' = {"py"}
      /\ step' = "copy conf" => BetweenBackupAndCopy' = {"conf"}
      /\ step' \notin {"copy py", "copy conf"} => BetweenBackupAndCopy' = {}
  BY DEF BetweenBackupAndCopy, Files
<1>6. CASE BackupFile("py", "backup py", "copy py")
  BY <1>3, <1>4, <1>5, <1>6
<1>7. CASE BackupFile("conf", "backup conf", "copy conf")
  BY <1>3, <1>4, <1>5, <1>7
<1>8. CASE CopyFile("py", "copy py", "backup conf")
  <2>1. step' \notin {"copy py", "copy conf"} /\ BetweenBackupAndCopy = {"py"}
    BY <1>8, Between DEF CopyFile
  <2>2. LossExplained'
    BY <1>8, <2>1, Replacing
  <2>. QED BY <1>5, <2>1, <2>2 DEF BackedUp
<1>9. CASE CopyFile("conf", "copy conf", "restart")
  <2>1. step' \notin {"copy py", "copy conf"} /\ BetweenBackupAndCopy = {"conf"}
    BY <1>9, Between DEF CopyFile
  <2>2. LossExplained'
    BY <1>9, <2>1, Replacing
  <2>. QED BY <1>5, <2>1, <2>2 DEF BackedUp
<1>10. CASE Pull
  BY <1>1, <1>10 DEF Pull
<1>11. CASE AgentStops \/ AgentStarts \/ UNCHANGED vars
  BY <1>2, <1>11 DEF AgentStops, AgentStarts, vars, observed
<1>12. CASE Start \/ ClearMarker \/ RestartAgent \/ CheckRunning \/ CreateMarker \/ Die
  BY <1>1, <1>12 DEF Start, ClearMarker, RestartAgent, CheckRunning, CreateMarker, Die
<1>. QED BY <1>6, <1>7, <1>8, <1>9, <1>10, <1>11, <1>12, Edited DEF Next

(***************************************************************************)
(* Whatever has been written over is in some backup, unless a later backup *)
(* had the name of that one or the file was edited between backup and      *)
(* copy, for any set of stamps and wherever the runs die                   *)
(* (Install-ZgDnsMonitor.ps1:94-100, 208-209, 233-234).                    *)
(***************************************************************************)
THEOREM BackupsSuffice == Spec => []LossExplained
PROOF
<1>1. Init => BackupInv
  BY Initially, Between DEF Init, MarkerInv, BackupInv, BackedUp, LossExplained
<1>2. BackupInv /\ [Next]_vars => BackupInv'
  BY TypeStep, BackupStep DEF BackupInv
<1>3. BackupInv => LossExplained
  BY DEF BackupInv
<1>. QED BY <1>1, <1>2, <1>3, PTL DEF Spec

-----------------------------------------------------------------------------
(***************************************************************************)
(* The other installer, setup.ps1 (Setup), whose proofs are kept here: it  *)
(* writes to the same disk and restarts the same Agent.                    *)
(***************************************************************************)
TargetStates == [exe : Scripts, config : Configs, check : Scripts, conf : Scripts]

InUseStates == [check : Scripts, conf : Scripts]

(***************************************************************************)
(* What a run has put in place, or removed, so far.  An Agent that runs    *)
(* after the restart has loaded the files, also one started afterwards.    *)
(***************************************************************************)
Copied ==
  /\ phase \in {"config", "env", "write env", "check", "conf", "patch", "dry run",
                "restart", "settle", "installed"}
       => files.exe = "new"
  /\ phase \in {"conf", "patch", "dry run", "restart", "settle", "installed"} => files.check = "new"
  /\ phase \in {"dry run", "restart", "settle", "installed"} => files.conf = "new"

Removed ==
  /\ phase \in {"remove config", "remove check", "remove conf", "last restart", "uninstalled"}
       => files.exe = "absent"
  /\ phase \in {"remove check", "remove conf", "last restart", "uninstalled"}
       => files.config = "absent"
  /\ phase \in {"remove conf", "last restart", "uninstalled"} => files.check = "absent"
  /\ phase \in {"last restart", "uninstalled"} => files.conf = "absent"

LoadedInv ==
  phase \in {"settle", "installed", "uninstalled"} /\ agentUp => inUse = Installed

(***************************************************************************)
(* While a run makes the configuration, it is the example's or edited; at  *)
(* all other times it is its maker's, edited, or what a run that died has  *)
(* left of it.                                                             *)
(***************************************************************************)
InTheMaking ==
  /\ files.config \in {Default, "edited"} /\ wanted = asked
  /\ phase = "write env" => got \in {Default, "edited"}

Settled ==
  files.config \in {"absent", "edited", wanted} \/ (cut /\ files.config \in {"torn", Default})

ConfigInv ==
  /\ phase \in {"env", "write env"} => InTheMaking
  /\ phase \notin {"env", "write env"} => Settled
  /\ phase \in {"check", "conf", "patch", "dry run", "restart", "settle", "installed"}
       => files.config # "absent"

SetupInv == SetupTypeOK /\ Copied /\ Removed /\ LoadedInv /\ ConfigInv

-----------------------------------------------------------------------------
LEMMA Kinds ==
  /\ Default \in Envs /\ Envs \subseteq Configs
  /\ Default \notin {"absent", "torn", "edited"}
  /\ {"absent", "torn", "edited"} \subseteq Configs
PROOF BY SetupAssumption DEF SetupAssumption, Configs

(***************************************************************************)
(* A file that is put in place or removed is the only one that changes.    *)
(***************************************************************************)
LEMMA OneFile ==
  ASSUME files \in TargetStates, NEW f \in Targets, NEW content,
         content \in IF f = "config" THEN Configs ELSE Scripts,
         files' = [files EXCEPT ![f] = content]
  PROVE  files' \in TargetStates /\ files'[f] = content /\ \A g \in Targets \ {f} : files'[g] = files[g]
PROOF
<1>1. f \in {"exe", "config", "check", "conf"}
  BY DEF Targets
<1>. QED BY <1>1 DEF TargetStates, Targets

LEMMA InstalledFiles == ASSUME files \in TargetStates PROVE Installed \in InUseStates
PROOF BY DEF TargetStates, InUseStates, Installed

\* What does not touch configuration, -Env or files keeps the invariant on them.
LEMMA ConfigStays ==
  ASSUME ConfigInv, files'["config"] = files["config"], UNCHANGED <<wanted, cut>>,
         phase \notin {"env", "write env"}, phase' \notin {"env", "write env"},
         phase' \in {"check", "conf", "patch", "dry run", "restart", "settle", "installed"}
           => files["config"] # "absent"
  PROVE  ConfigInv'
PROOF
<1>1. Settled'
  BY DEF ConfigInv, Settled
<1>. QED BY <1>1 DEF ConfigInv

LEMMA SetupInitially == SetupInit => SetupInv
PROOF
<1>. SUFFICES ASSUME SetupInit PROVE SetupInv
  OBVIOUS
<1>1. files \in TargetStates
  BY DEF SetupInit, TargetStates, Scripts
<1>2. files.config \in Configs
  BY <1>1 DEF TargetStates
<1>3. SetupTypeOK
  BY <1>1, <1>2, Kinds, InstalledFiles
  DEF SetupInit, SetupTypeOK, TargetStates, InUseStates, SetupSteps, Ended
<1>. QED BY <1>3 DEF SetupInit, SetupInv, Copied, Removed, LoadedInv, ConfigInv, Settled

(***************************************************************************)
(* Steps that write no file.                                               *)
(***************************************************************************)
LEMMA AgentStep ==
  ASSUME SetupInv, ServiceStops \/ ServiceStarts \/ AgentRunsBinary
  PROVE  SetupInv'
PROOF
<1>. USE DEF injection
<1>1. SetupTypeOK'
  BY InstalledFiles DEF SetupInv, SetupTypeOK, TargetStates, InUseStates,
     ServiceStops, ServiceStarts, AgentRunsBinary
<1>2. Copied' /\ Removed'
  BY DEF SetupInv, Copied, Removed, ServiceStops, ServiceStarts, AgentRunsBinary
<1>3. LoadedInv'
  BY DEF SetupInv, LoadedInv, Installed, ServiceStops, ServiceStarts, AgentRunsBinary
<1>4. UNCHANGED <<files, phase, asked, got, wanted, cut>>
  BY DEF ServiceStops, ServiceStarts, AgentRunsBinary
<1>5. ConfigInv'
  BY <1>4 DEF SetupInv, ConfigInv, InTheMaking, Settled
<1>. QED BY <1>1, <1>2, <1>3, <1>5 DEF SetupInv

LEMMA ScriptStep ==
  ASSUME SetupInv, Begin \/ Checks \/ DryRun \/ Finish
  PROVE  SetupInv'
PROOF
<1>. USE DEF injection, agentState
<1>1. SetupTypeOK'
  <2>1. UNCHANGED <<files, agentUp, inUse, runs, listens, got, wanted, cut>>
    BY DEF Begin, Checks, DryRun, Finish
  <2>2. phase' \in SetupSteps
    BY DEF SetupSteps, Ended, Begin, Checks, DryRun, Finish
  <2>3. dryRun' \in [exit : {0, 1}, sent : BOOLEAN]
    <3>1. \/ dryRun' = dryRun
          \/ \E code \in {0, 1}, metrics \in BOOLEAN : dryRun' = [exit |-> code, sent |-> metrics]
      BY DEF Begin, Checks, DryRun, Finish
    <3>. QED BY <3>1 DEF SetupInv, SetupTypeOK
  <2>4. asked' \in Envs
    BY DEF Begin, Checks, DryRun, Finish, SetupInv, SetupTypeOK
  <2>. QED BY <2>1, <2>2, <2>3, <2>4 DEF SetupInv, SetupTypeOK
<1>2. Copied' /\ Removed'
  BY DEF SetupInv, Copied, Removed, Begin, Checks, DryRun, Finish
<1>3. LoadedInv'
  BY DEF SetupInv, LoadedInv, Installed, Begin, Checks, DryRun, Finish
<1>4. ConfigInv'
  <2>1. UNCHANGED <<files, wanted, cut>>
    BY DEF Begin, Checks, DryRun, Finish
  <2>2. /\ phase \notin {"env", "write env"} /\ phase' \notin {"env", "write env"}
        /\ phase' \in {"check", "conf", "patch", "dry run", "restart", "settle", "installed"}
             => phase \in {"dry run", "settle"}
    BY DEF Ended, Begin, Checks, DryRun, Finish
  <2>3. phase \in {"dry run", "settle"} => files["config"] # "absent"
    BY DEF SetupInv, ConfigInv
  <2>. QED BY <2>1, <2>2, <2>3, ConfigStays DEF SetupInv
<1>. QED BY <1>1, <1>2, <1>3, <1>4 DEF SetupInv

\* A run that dies while it makes the configuration leaves it finished or cut.
LEMMA DeathStep == ASSUME SetupInv, SetupDies PROVE SetupInv'
PROOF
<1>. USE DEF agentState
<1>1. /\ UNCHANGED <<files, agentUp, inUse, runs, listens, dryRun, asked, wanted>>
      /\ phase' = "idle" /\ got' = "absent"
      /\ cut' = (cut \/ (phase \in {"env", "write env"} /\ files.config \notin {"edited", wanted}))
  BY DEF SetupDies
<1>2. cut' \in BOOLEAN
  BY <1>1 DEF SetupInv, SetupTypeOK
<1>3. SetupTypeOK'
  BY <1>1, <1>2, Kinds DEF SetupInv, SetupTypeOK, SetupSteps, Ended
<1>4. Copied' /\ Removed' /\ LoadedInv'
  BY <1>1 DEF Copied, Removed, LoadedInv
<1>5. Settled'
  <2>1. CASE phase \in {"env", "write env"}
    <3>1. files.config \in {Default, "edited"}
      BY <2>1 DEF SetupInv, ConfigInv, InTheMaking
    <3>. QED BY <1>1, <2>1, <3>1 DEF Settled
  <2>2. CASE phase \notin {"env", "write env"}
    <3>1. Settled /\ (cut => cut')
      BY <1>1, <2>2 DEF SetupInv, ConfigInv
    <3>. QED BY <1>1, <3>1 DEF Settled
  <2>. QED BY <2>1, <2>2
<1>6. ConfigInv'
  BY <1>1, <1>5 DEF ConfigInv
<1>. QED BY <1>3, <1>4, <1>6 DEF SetupInv

LEMMA RestartStep ==
  ASSUME SetupInv, Restart("restart", "settle") \/ Restart("last restart", "uninstalled")
  PROVE  SetupInv'
PROOF
<1>. USE DEF injection
<1>1. SetupTypeOK'
  BY InstalledFiles DEF SetupInv, SetupTypeOK, TargetStates, InUseStates, SetupSteps, Ended, Restart
<1>2. Copied' /\ Removed'
  BY DEF SetupInv, Copied, Removed, Restart
<1>3. LoadedInv'
  BY DEF SetupInv, LoadedInv, Installed, Restart
<1>4. ConfigInv'
  <2>1. /\ UNCHANGED <<files, wanted, cut>>
        /\ phase \in {"restart", "last restart"} /\ phase' \in {"idle", "settle", "uninstalled"}
        /\ phase' = "settle" => phase = "restart"
    BY DEF Restart
  <2>2. phase = "restart" => files["config"] # "absent"
    BY DEF SetupInv, ConfigInv
  <2>. QED BY <2>1, <2>2, ConfigStays DEF SetupInv
<1>. QED BY <1>1, <1>2, <1>3, <1>4 DEF SetupInv

(***************************************************************************)
(* Steps that write a file, or stop where they cannot or die while they    *)
(* write.  A torn configuration is left with cut.                          *)
(***************************************************************************)
LEMMA BinaryCopied == ASSUME SetupInv, CopyBinary PROVE SetupInv'
PROOF
<1>. USE DEF SetupInv, CopyBinary
<1>1. UNCHANGED <<agentUp, inUse, runs, listens, dryRun, asked, got, wanted, cut>>
  BY DEF agentState, injection
<1>2. \/ files' = files /\ phase' = "idle"
      \/ \E content \in {"new", "torn"} :
           /\ files' = [files EXCEPT !["exe"] = content]
           /\ phase' = IF content = "new" THEN "config" ELSE "idle"
  BY DEF Put
<1>3. /\ files' \in TargetStates /\ \A g \in {"config", "check", "conf"} : files'[g] = files[g]
      /\ phase' = "config" => files'["exe"] = "new"
      /\ phase' \in {"config", "idle"}
  BY <1>2, OneFile DEF Targets, Scripts, SetupTypeOK, TargetStates
<1>4. SetupTypeOK'
  BY <1>1, <1>3 DEF SetupTypeOK, TargetStates, SetupSteps, Ended
<1>5. Copied' /\ Removed' /\ LoadedInv'
  BY <1>1, <1>3 DEF Copied, Removed, LoadedInv
<1>6. ConfigInv'
  BY <1>1, <1>3, ConfigStays
<1>. QED BY <1>4, <1>5, <1>6

LEMMA ConfigCopied == ASSUME SetupInv, CopyConfig PROVE SetupInv'
PROOF
<1>1. UNCHANGED <<agentUp, inUse, runs, listens, dryRun, asked, got>> /\ phase = "config"
  BY DEF CopyConfig, agentState
<1>2. CASE files["config"] # "absent"
  <2>1. UNCHANGED <<files, wanted, cut>> /\ phase' = "check"
    BY <1>2 DEF CopyConfig
  <2>2. SetupTypeOK'
    BY <1>1, <2>1 DEF SetupInv, SetupTypeOK, SetupSteps
  <2>3. Copied' /\ Removed' /\ LoadedInv'
    BY <1>1, <2>1 DEF SetupInv, Copied, Removed, LoadedInv
  <2>4. ConfigInv'
    BY <1>1, <1>2, <2>1, ConfigStays DEF SetupInv
  <2>. QED BY <2>2, <2>3, <2>4 DEF SetupInv
<1>3. CASE files["config"] = "absent"
  <2>1. /\ wanted' = asked /\ cut' = (phase' = "idle")
        /\ \/ files' = [files EXCEPT !["config"] = Default] /\ phase' = "env"
           \/ files' = [files EXCEPT !["config"] = "torn"] /\ phase' = "idle"
    BY <1>3 DEF CopyConfig, Put
  <2>2. /\ files' \in TargetStates /\ \A g \in {"exe", "check", "conf"} : files'[g] = files[g]
        /\ \/ files'["config"] = Default /\ phase' = "env"
           \/ files'["config"] = "torn" /\ phase' = "idle"
    BY <2>1, OneFile, Kinds DEF SetupInv, Targets, SetupTypeOK, TargetStates
  <2>3. asked \in Envs /\ asked \in Configs
    BY Kinds DEF SetupInv, SetupTypeOK
  <2>4. SetupTypeOK'
    BY <1>1, <2>1, <2>2, <2>3 DEF SetupInv, SetupTypeOK, TargetStates, SetupSteps, Ended
  <2>5. Copied' /\ Removed' /\ LoadedInv'
    BY <1>1, <2>2 DEF SetupInv, Copied, Removed, LoadedInv
  <2>6. ConfigInv'
    BY <1>1, <2>1, <2>2 DEF ConfigInv, InTheMaking, Settled
  <2>. QED BY <2>4, <2>5, <2>6 DEF SetupInv
<1>. QED BY <1>2, <1>3

LEMMA ConfigRead == ASSUME SetupInv, ReadConfig PROVE SetupInv'
PROOF
<1>1. /\ UNCHANGED <<files, agentUp, inUse, runs, listens, dryRun, asked, wanted, cut>>
      /\ phase = "env" /\ phase' = "write env" /\ got' = files["config"]
  BY DEF ReadConfig, agentState
<1>2. files["config"] \in {Default, "edited"} /\ wanted = asked
  BY <1>1 DEF SetupInv, ConfigInv, InTheMaking
<1>3. SetupTypeOK'
  BY <1>1, <1>2, Kinds DEF SetupInv, SetupTypeOK, SetupSteps
<1>4. Copied' /\ Removed' /\ LoadedInv'
  BY <1>1 DEF SetupInv, Copied, Removed, LoadedInv
<1>5. ConfigInv'
  BY <1>1, <1>2 DEF ConfigInv, InTheMaking
<1>. QED BY <1>3, <1>4, <1>5 DEF SetupInv

LEMMA EnvInjected == ASSUME SetupInv, InjectEnv PROVE SetupInv'
PROOF
<1>1. /\ UNCHANGED <<agentUp, inUse, runs, listens, dryRun, asked, wanted>> /\ phase = "write env"
      /\ got' = "absent" /\ cut' = (phase' = "idle")
  BY DEF InjectEnv, agentState
<1>2. got \in {Default, "edited"} /\ wanted = asked
  BY <1>1 DEF SetupInv, ConfigInv, InTheMaking
<1>3. Injected(got) \in {"edited", wanted}
  BY <1>2 DEF Injected
<1>4. PICK content \in {"torn", "edited", wanted} :
        /\ files' = [files EXCEPT !["config"] = content]
        /\ \/ content \in {"edited", wanted} /\ phase' = "check"
           \/ content = "torn" /\ phase' = "idle"
  BY <1>3 DEF InjectEnv, Put
<1>5. asked \in Envs /\ asked \in Configs /\ asked # "absent" /\ content \in Configs
  BY <1>2, <1>4, Kinds, SetupAssumption DEF SetupInv, SetupTypeOK, SetupAssumption
<1>6. /\ files' \in TargetStates /\ \A g \in {"exe", "check", "conf"} : files'[g] = files[g]
      /\ files'["config"] = content
  BY <1>4, <1>5, OneFile DEF SetupInv, Targets, SetupTypeOK, TargetStates
<1>7. SetupTypeOK'
  BY <1>1, <1>4, <1>6, Kinds DEF SetupInv, SetupTypeOK, TargetStates, SetupSteps, Ended
<1>8. Copied' /\ Removed' /\ LoadedInv'
  BY <1>1, <1>4, <1>6 DEF SetupInv, Copied, Removed, LoadedInv
<1>9. ConfigInv'
  <2>1. Settled'
    BY <1>1, <1>4, <1>6 DEF Settled
  <2>2. phase' = "check" => files'["config"] # "absent"
    BY <1>2, <1>4, <1>5, <1>6
  <2>. QED BY <1>4, <2>1, <2>2 DEF ConfigInv
<1>. QED BY <1>7, <1>8, <1>9 DEF SetupInv

LEMMA WrapperCopied == ASSUME SetupInv, CopyWrapper \/ PatchConf PROVE SetupInv'
PROOF
<1>1. UNCHANGED <<agentUp, inUse, runs, listens, dryRun, asked, got, wanted, cut>>
  BY DEF CopyWrapper, PatchConf, agentState, injection
<1>2. \/ files' = [files EXCEPT !["check"] = "new"] /\ phase = "check" /\ phase' = "conf"
      \/ files' = [files EXCEPT !["conf"] = "unpatched"] /\ phase = "conf" /\ phase' = "patch"
      \/ files' = [files EXCEPT !["conf"] = "new"] /\ phase = "patch" /\ phase' = "dry run"
      \/ \E f \in {"check", "conf"} :
           files' = [files EXCEPT ![f] = "torn"] /\ phase \in {"check", "conf", "patch"} /\ phase' = "idle"
  BY DEF CopyWrapper, PatchConf, Put
<1>3. /\ files' \in TargetStates /\ files'["exe"] = files["exe"] /\ files'["config"] = files["config"]
      /\ phase \in {"check", "conf", "patch"} /\ phase' \in {"conf", "patch", "dry run", "idle"}
      /\ phase' = "conf" => files'["check"] = "new"
      /\ phase' \in {"patch", "dry run"} => files'["check"] = files["check"] /\ phase \in {"conf", "patch"}
      /\ phase' = "dry run" => files'["conf"] = "new"
  BY <1>2, OneFile DEF SetupInv, Targets, Scripts, SetupTypeOK, TargetStates
<1>4. SetupTypeOK'
  BY <1>1, <1>3 DEF SetupInv, SetupTypeOK, TargetStates, SetupSteps, Ended
<1>5. Copied' /\ Removed' /\ LoadedInv'
  BY <1>1, <1>3 DEF SetupInv, Copied, Removed, LoadedInv
<1>6. files["config"] # "absent"
  BY <1>3 DEF SetupInv, ConfigInv
<1>7. ConfigInv'
  BY <1>1, <1>3, <1>6, ConfigStays DEF SetupInv
<1>. QED BY <1>4, <1>5, <1>7 DEF SetupInv

LEMMA FileRemoved ==
  ASSUME SetupInv, NEW f \in Targets, NEW here, NEW next,
         \/ f = "exe" /\ here = "remove exe" /\ next = "remove config"
         \/ f = "config" /\ here = "remove config" /\ next = "remove check"
         \/ f = "check" /\ here = "remove check" /\ next = "remove conf"
         \/ f = "conf" /\ here = "remove conf" /\ next = "last restart",
         Remove(f, here, next)
  PROVE  SetupInv'
PROOF
<1>1. /\ UNCHANGED <<agentUp, inUse, runs, listens, dryRun, asked, got, wanted>> /\ phase = here
      /\ cut' \in BOOLEAN /\ (f # "config" => cut' = cut)
  BY DEF Remove, agentState, SetupInv, SetupTypeOK
<1>2. CASE files' = files /\ phase' = "idle" /\ f = "exe"
  <2>1. SetupTypeOK' /\ Copied' /\ Removed' /\ LoadedInv'
    BY <1>1, <1>2 DEF SetupInv, SetupTypeOK, SetupSteps, Ended, Copied, Removed, LoadedInv
  <2>2. ConfigInv'
    BY <1>1, <1>2, ConfigStays DEF SetupInv
  <2>. QED BY <2>1, <2>2 DEF SetupInv
<1>3. CASE files' = [files EXCEPT ![f] = "absent"] /\ phase' = next
  <2>1. files' \in TargetStates /\ files'[f] = "absent" /\ \A g \in Targets \ {f} : files'[g] = files[g]
    BY <1>3, OneFile DEF SetupInv, Scripts, Configs, SetupTypeOK, TargetStates
  <2>2. SetupTypeOK' /\ Copied' /\ Removed' /\ LoadedInv'
    BY <1>1, <1>3, <2>1
    DEF SetupInv, Targets, SetupTypeOK, TargetStates, SetupSteps, Ended, Copied, Removed, LoadedInv
  <2>3. CASE f = "config"
    <3>1. files'["config"] = "absent" /\ next = "remove check"
      BY <2>1, <2>3
    <3>2. phase' = "remove check"
      BY <1>3, <3>1
    <3>. QED BY <2>2, <3>1, <3>2 DEF SetupInv, ConfigInv, Settled
  <2>4. CASE f # "config"
    <3>1. files'["config"] = files["config"] /\ cut' = cut
      BY <1>1, <2>1, <2>4 DEF Targets
    <3>. QED BY <1>1, <1>3, <2>2, <3>1, ConfigStays DEF SetupInv
  <2>. QED BY <2>2, <2>3, <2>4 DEF SetupInv
<1>. QED BY <1>2, <1>3 DEF Remove

LEMMA ConfigEdited == ASSUME SetupInv, EditConfig PROVE SetupInv'
PROOF
<1>1. files' = [files EXCEPT !["config"] = "edited"] /\ files["config"] # "absent"
  BY DEF EditConfig
<1>2. /\ files' \in TargetStates /\ files'["config"] = "edited"
      /\ \A g \in {"exe", "check", "conf"} : files'[g] = files[g]
  BY <1>1, OneFile, Kinds DEF SetupInv, Targets, SetupTypeOK, TargetStates
<1>3. UNCHANGED <<phase, agentUp, inUse, runs, listens, dryRun, asked, got, wanted>> /\ cut' = FALSE
  BY DEF EditConfig, agentState
<1>4. phase \notin {"remove check", "remove conf", "last restart", "uninstalled"}
  BY <1>1 DEF SetupInv, Removed
<1>5. SetupTypeOK'
  BY <1>2, <1>3 DEF SetupInv, SetupTypeOK, TargetStates
<1>6. Copied' /\ Removed'
  BY <1>2, <1>3, <1>4 DEF SetupInv, Copied, Removed
<1>7. LoadedInv'
  BY <1>2, <1>3 DEF SetupInv, LoadedInv, Installed
<1>8. ConfigInv'
  BY <1>2, <1>3 DEF SetupInv, ConfigInv, InTheMaking, Settled
<1>. QED BY <1>5, <1>6, <1>7, <1>8 DEF SetupInv

LEMMA SetupStep == SetupInv /\ [SetupNext]_setupVars => SetupInv'
PROOF
<1>. SUFFICES ASSUME SetupInv, [SetupNext]_setupVars PROVE SetupInv'
  OBVIOUS
<1>1. CASE UNCHANGED setupVars
  <2>1. SetupTypeOK' /\ Copied' /\ Removed' /\ LoadedInv'
    BY <1>1 DEF SetupInv, setupVars, SetupTypeOK, Copied, Removed, LoadedInv, Installed
  <2>2. ConfigInv'
    BY <1>1 DEF SetupInv, setupVars, ConfigInv, InTheMaking, Settled
  <2>. QED BY <2>1, <2>2 DEF SetupInv
<1>2. Targets = {"exe", "config", "check", "conf"}
  BY DEF Targets
<1>3. CASE Remove("exe", "remove exe", "remove config")
  BY <1>2, <1>3, FileRemoved
<1>4. CASE Remove("config", "remove config", "remove check")
  BY <1>2, <1>4, FileRemoved
<1>5. CASE Remove("check", "remove check", "remove conf")
  BY <1>2, <1>5, FileRemoved
<1>6. CASE Remove("conf", "remove conf", "last restart")
  BY <1>2, <1>6, FileRemoved
<1>. QED
  BY <1>1, <1>3, <1>4, <1>5, <1>6, AgentStep, ScriptStep, DeathStep, RestartStep, BinaryCopied,
     ConfigCopied, ConfigRead, EnvInjected, WrapperCopied, ConfigEdited DEF SetupNext

LEMMA SetupInvariance == SetupSpec => []SetupInv
PROOF BY SetupInitially, SetupStep, PTL DEF SetupSpec

(***************************************************************************)
(* The four files are always of a known kind.                              *)
(***************************************************************************)
THEOREM SetupTypeCorrect == SetupSpec => []SetupTypeOK
PROOF
<1>1. SetupInv => SetupTypeOK BY DEF SetupInv
<1>. QED BY <1>1, SetupInvariance, PTL

(***************************************************************************)
(* "installed successfully" means that binary, wrapper and its             *)
(* configuration are of this version, on disk and in the running Agent,    *)
(* and the end of an uninstallation that no file is left, wherever earlier *)
(* runs died (setup.ps1:60-71, 101-159).                                   *)
(***************************************************************************)
THEOREM EndInPlace == SetupSpec => []EndedInPlace
PROOF
<1>1. SetupInv => EndedInPlace
  BY DEF SetupInv, Copied, Removed, LoadedInv, EndedInPlace, Targets
<1>. QED BY <1>1, SetupInvariance, PTL

(***************************************************************************)
(* An installed configuration has the -Env of the run that made it,        *)
(* whatever the later ones ask for, or is the operator's, unless its maker *)
(* died before -Env was in it (setup.ps1:108-115).                         *)
(***************************************************************************)
THEOREM EnvInstalled == SetupSpec => []EnvOfMaker
PROOF
<1>1. SetupInv => EnvOfMaker
  BY DEF SetupInv, ConfigInv, Settled, EnvOfMaker
<1>. QED BY <1>1, SetupInvariance, PTL

(***************************************************************************)
(* What the operator has edited is removed by an uninstallation, and       *)
(* otherwise lost only to the writing of line 111 (setup.ps1:108-116).     *)
(***************************************************************************)
THEOREM EditsKept == SetupSpec => EditsSurvive
PROOF
<1>1. SetupInv /\ [SetupNext]_setupVars =>
        (files.config = "edited" =>
           files'.config = "edited" \/ phase \in {"remove config", "write env"})
  <2>. SUFFICES ASSUME SetupInv, [SetupNext]_setupVars, files["config"] = "edited",
                       phase \notin {"remove config", "write env"}
       PROVE  files'["config"] = "edited"
    OBVIOUS
  <2>1. files \in TargetStates /\ Targets = {"exe", "config", "check", "conf"}
    BY DEF SetupInv, SetupTypeOK, TargetStates, Targets
  <2>2. ASSUME NEW f \in {"exe", "check", "conf"}, NEW content,
               files' = [files EXCEPT ![f] = content]
        PROVE  files'["config"] = files["config"]
    BY <2>1, <2>2 DEF TargetStates
  <2>3. CASE UNCHANGED files
    BY <2>3
  <2>4. CASE EditConfig
    <3>1. files' = [files EXCEPT !["config"] = "edited"]
      BY <2>4 DEF EditConfig
    <3>. QED BY <2>1, <3>1 DEF TargetStates
  <2>5. CASE CopyBinary \/ CopyWrapper \/ PatchConf
    BY <2>2, <2>5 DEF CopyBinary, CopyWrapper, PatchConf, Put
  <2>6. CASE CopyConfig
    BY <2>6 DEF CopyConfig
  <2>7. CASE \/ Remove("exe", "remove exe", "remove config")
             \/ Remove("check", "remove check", "remove conf")
             \/ Remove("conf", "remove conf", "last restart")
    BY <2>2, <2>7 DEF Remove
  <2>8. ~Remove("config", "remove config", "remove check") /\ ~InjectEnv
    BY DEF Remove, InjectEnv
  <2>9. CASE \/ ServiceStops \/ ServiceStarts \/ AgentRunsBinary \/ Begin \/ Checks \/ ReadConfig
             \/ DryRun \/ Finish \/ SetupDies
             \/ Restart("restart", "settle") \/ Restart("last restart", "uninstalled")
    BY <2>9 DEF ServiceStops, ServiceStarts, AgentRunsBinary, Begin, Checks, ReadConfig,
                DryRun, Finish, SetupDies, Restart
  <2>. QED BY <2>3, <2>4, <2>5, <2>6, <2>7, <2>8, <2>9 DEF SetupNext, setupVars
<1>. QED BY <1>1, SetupInvariance, PTL DEF SetupSpec, EditsSurvive

=============================================================================
