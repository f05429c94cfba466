------------------------------- MODULE Installer -------------------------------
(***************************************************************************)
(* setup/Install-ZgDnsMonitor.ps1, which puts the check and its conf.yaml  *)
(* from a clone of the repository into the Agent's directories, restarts   *)
(* the Agent and writes a marker file.  It can die between any two steps   *)
(* and in the middle of a copy, a step can fail, and it can be run again;  *)
(* the operator may edit installed files, and the Agent may stop and start *)
(* whenever they like, also while the files are being replaced.            *)
(*                                                                         *)
(* A file is abstracted to which content it holds.  A copy that reports    *)
(* no error is whole, so that the installer's own look at the copied files *)
(* (211-224, 236-244, 253-288) finds nothing.  The clone does not change   *)
(* during a run.                                                           *)
(***************************************************************************)
EXTENDS Integers

CONSTANTS
  MaxRelease,    \* releases the clone can be at: 1 .. MaxRelease
  MaxEdit,       \* contents of the operator: MaxRelease + 1 .. MaxEdit
  Stamps         \* what Get-Date -Format 'yyyyMMdd_HHmmss' can yield

ASSUME InstallerAssumption ==
  MaxRelease \in Nat \ {0} /\ MaxEdit \in Nat

VARIABLES
  repo,     \* the release of the clone
  disk,     \* what is installed
  backups,  \* what has been backed up, by file and stamp
  marker,   \* the marker file is there
  step,     \* of the installer, or "idle"
  running,  \* the Agent
  loaded,   \* the files it was started with
  watched,  \* any one content of any one file
  replaced, \* it has been written over
  excused   \* it was taken from the backups by one of the same name, or edited
            \* too late to be in one, and has not been backed up since

vars == <<repo, disk, backups, marker, step, running, loaded, watched, replaced, excused>>
observed == <<watched, replaced, excused>>

Files    == {"py", "conf"}
Releases == 1 .. MaxRelease
Edits    == MaxRelease + 1 .. MaxEdit
Absent   == 0
Torn     == -1

BetweenBackupAndCopy ==
  {f \in Files : step = IF f = "py" THEN "copy py" ELSE "copy conf"}

Steps == {"idle", "clear", "backup py", "copy py", "backup conf", "copy conf",
          "restart", "settle", "mark"}

-----------------------------------------------------------------------------
\* The prerequisites hold (127-188).
Init ==
  /\ repo = 1
  /\ disk = [f \in Files |-> Absent]
  /\ backups = <<>>
  /\ marker = FALSE /\ step = "idle"
  /\ running \in BOOLEAN /\ loaded = disk
  /\ watched \in Files \X (Releases \cup Edits)
  /\ replaced = FALSE /\ excused = FALSE

-----------------------------------------------------------------------------
(* The world around the installer.                                         *)

Pull ==
  /\ step = "idle" /\ repo < MaxRelease
  /\ repo' = repo + 1
  /\ UNCHANGED <<disk, backups, marker, step, running, loaded, observed>>

\* At any time, also between the backup of a file and its replacement.
Edit ==
  /\ \E f \in Files, e \in Edits :
       /\ disk[f] # Absent
       /\ disk' = [disk EXCEPT ![f] = e]
       /\ excused' = (excused \/ (watched = <<f, e>> /\ f \in BetweenBackupAndCopy))
  /\ UNCHANGED <<repo, backups, marker, step, running, loaded, replaced, watched>>

AgentStops ==
  /\ running /\ running' = FALSE
  /\ UNCHANGED <<repo, disk, backups, marker, step, loaded, observed>>

AgentStarts ==
  /\ ~running /\ running' = TRUE
  /\ loaded' = disk
  /\ UNCHANGED <<repo, disk, backups, marker, step, observed>>

-----------------------------------------------------------------------------
(* The installer.                                                          *)

Start ==
  /\ step = "idle" /\ step' = "clear"
  /\ UNCHANGED <<repo, disk, backups, marker, running, loaded, observed>>

\* Faulty: an old marker stays until it is replaced anew.
ClearNothing ==
  /\ step = "clear" /\ step' = "backup py"
  /\ UNCHANGED <<repo, disk, backups, marker, running, loaded, observed>>

ClearMarker ==
  /\ step = "clear" /\ step' = "backup py"
  /\ marker' = FALSE
  /\ UNCHANGED <<repo, disk, backups, running, loaded, observed>>

\* Faulty: a backup that is there already is good enough.
SavedOnce(f, s, content) ==
  [b \in DOMAIN backups \cup {<<f, s>>} |-> IF b \in DOMAIN backups THEN backups[b] ELSE content]

\* Copy-Item -Force writes over a backup of the same name.
Saved(f, s, content) ==
  [b \in DOMAIN backups \cup {<<f, s>>} |-> IF b = <<f, s>> THEN content ELSE backups[b]]

WrittenOver(b) == watched[1] = b[1] /\ b \in DOMAIN backups /\ backups[b] = watched[2]

BackupFile(f, here, next) ==
  /\ step = here
  /\ \/ disk[f] = Absent /\ step' = next /\ UNCHANGED <<backups, excused>>
     \/ /\ disk[f] # Absent
        /\ \E s \in Stamps :
             \/ /\ backups' = Saved(f, s, disk[f]) /\ step' = next
                /\ excused' = (watched # <<f, disk[f]>> /\ (excused \/ WrittenOver(<<f, s>>)))
             \/ /\ backups' = Saved(f, s, Torn) /\ step' = "idle"
                /\ excused' = (excused \/ WrittenOver(<<f, s>>))
  /\ UNCHANGED <<repo, disk, marker, running, loaded, replaced, watched>>

CopyFile(f, here, next) ==
  /\ step = here
  /\ \/ disk' = [disk EXCEPT ![f] = repo] /\ step' = next
     \/ disk' = [disk EXCEPT ![f] = Torn] /\ step' = "idle"
  /\ replaced' = (replaced \/ watched = <<f, disk[f]>>)
  /\ UNCHANGED <<repo, backups, marker, running, loaded, excused, watched>>

\* Restart-Service -ErrorAction Stop: exit 1 with the Agent up or down.
RestartAgent ==
  /\ step = "restart"
  /\ \/ running' = TRUE /\ loaded' = disk /\ step' = "settle"
     \/ running' \in {running, FALSE} /\ step' = "idle" /\ UNCHANGED loaded
  /\ UNCHANGED <<repo, disk, backups, marker, observed>>

\* Eight seconds later.
CheckRunning ==
  /\ step = "settle"
  /\ step' = IF running THEN "mark" ELSE "idle"
  /\ UNCHANGED <<repo, disk, backups, marker, running, loaded, observed>>

CreateMarker ==
  /\ step = "mark" /\ step' = "idle"
  /\ marker' \in BOOLEAN
  /\ UNCHANGED <<repo, disk, backups, running, loaded, observed>>

Die ==
  /\ step # "idle" /\ step' = "idle"
  /\ UNCHANGED <<repo, disk, backups, marker, running, loaded, observed>>

Next ==
  \/ Pull \/ Edit \/ AgentStops \/ AgentStarts
  \/ Start \/ ClearMarker
  \/ BackupFile("py", "backup py", "copy py") \/ CopyFile("py", "copy py", "backup conf")
  \/ BackupFile("conf", "backup conf", "copy conf") \/ CopyFile("conf", "copy conf", "restart")
  \/ RestartAgent \/ CheckRunning \/ CreateMarker \/ Die

Spec == Init /\ [][Next]_vars

-----------------------------------------------------------------------------
Contents == {Torn, Absent} \cup Releases \cup Edits

TypeOK ==
  /\ repo \in Releases
  /\ disk \in [Files -> Contents] /\ loaded \in [Files -> Contents]
  /\ DOMAIN backups \subseteq Files \X Stamps
  /\ \A b \in DOMAIN backups : backups[b] \in Contents \ {Absent}
  /\ marker \in BOOLEAN /\ running \in BOOLEAN
  /\ step \in Steps
  /\ watched \in Files \X (Releases \cup Edits) /\ {replaced, excused} \subseteq BOOLEAN

OfRelease(files, r) == \A f \in Files : files[f] \in {r} \cup Edits

(***************************************************************************)
(* While the marker is there, the check and its configuration are whole    *)
(* and of one release, up to edits of the operator, and so is what the     *)
(* Agent runs with: no run that died, failed or is still going on leaves   *)
(* it behind (Install-ZgDnsMonitor.ps1:195-201, 295-337).                  *)
(***************************************************************************)
MarkerMeansInstalled ==
  marker => \E r \in Releases : OfRelease(disk, r) /\ (running => OfRelease(loaded, r))

Kept == \E b \in DOMAIN backups : b[1] = watched[1] /\ backups[b] = watched[2]

(***************************************************************************)
(* Whatever a run has written over is in a backup, however many runs died  *)
(* on the way, unless one of two things took it: a later backup of that    *)
(* file in the same second, or an edit between backup and copy (94-100,    *)
(* 208-209, 233-234).                                                      *)
(***************************************************************************)
LossExplained == replaced => Kept \/ excused

(***************************************************************************)
(* Install-ZgDnsMonitor.ps1:15 without a condition: "backs up any existing *)
(* files".                                                                 *)
(***************************************************************************)
NothingLost == replaced => Kept

=============================================================================
