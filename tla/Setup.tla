--------------------------------- MODULE Setup ---------------------------------
(***************************************************************************)
(* scripts/setup.ps1, which installs the binary, its configuration, the    *)
(* wrapper and the wrapper's configuration, runs the binary once and       *)
(* restarts the Agent; -Uninstall removes them.  It may be run on a        *)
(* machine that has an older version, or the check of dns_moniter.py,      *)
(* whose files have the same names.  The Agent runs the binary once a      *)
(* minute while it has a wrapper loaded; Windows neither overwrites nor    *)
(* removes the file of a running program.                                  *)
(*                                                                         *)
(* A file is abstracted to whose content it holds: "new" is that of this   *)
(* version, "other" an older one or that of dns_moniter.py, "unpatched"    *)
(* the wrapper's configuration as it is copied.  The binary's own          *)
(* configuration is told by the env it has, until the operator edits it.   *)
(* The script can die at any step and be run again, with another -Env.     *)
(***************************************************************************)
EXTENDS Naturals

CONSTANTS
  Envs,     \* what -Env may be
  Default   \* the one in dns-monitor-config.yaml.example

ASSUME SetupAssumption ==
  Default \in Envs /\ Envs \cap {"absent", "torn", "edited"} = {}

VARIABLES
  files,    \* the four files
  phase,    \* of the script, or how it ended
  agentUp,  \* the Agent
  inUse,    \* the wrapper and its configuration the Agent was started with
  runs,     \* the binary, started by the Agent, which it may outlive
  listens,  \* DogStatsD on port 8125
  dryRun,   \* the exit code of step 7, and whether metrics were sent
  asked,    \* -Env of the run
  got,      \* the configuration as line 111 has read it
  wanted,   \* -Env of the run that made the configuration
  cut       \* that run died before it was in it

setupVars == <<files, phase, agentUp, inUse, runs, listens, dryRun, asked, got, wanted, cut>>
agentState == <<agentUp, inUse, runs>>
injection  == <<asked, got, wanted, cut>>

Targets == {"exe", "config", "check", "conf"}
Scripts == {"absent", "torn", "other", "unpatched", "new"}
Configs == {"absent", "torn", "edited"} \cup Envs
Ended == {"idle", "installed", "uninstalled"}
SetupSteps ==
  {"checks", "exe", "config", "env", "write env", "check", "conf", "patch", "dry run", "restart", "settle",
   "remove exe", "remove config", "remove check", "remove conf", "last restart"} \cup Ended

-----------------------------------------------------------------------------
Installed == [check |-> files.check, conf |-> files.conf]

SetupInit ==
  /\ files \in [exe : {"absent", "other"}, config : Configs \ {"torn"},
                check : {"absent", "other"}, conf : {"absent", "other"}]
  /\ phase = "idle"
  /\ agentUp \in BOOLEAN /\ inUse = Installed /\ runs = FALSE
  /\ listens \in BOOLEAN /\ dryRun = [exit |-> 0, sent |-> FALSE]
  /\ asked = Default /\ got = "absent" /\ wanted = files.config /\ cut = FALSE

-----------------------------------------------------------------------------
(* The Agent and the operator.                                             *)

ServiceStops ==
  /\ agentUp /\ agentUp' = FALSE /\ runs' \in {runs, FALSE}
  /\ UNCHANGED <<files, phase, inUse, listens, dryRun, injection>>

ServiceStarts ==
  /\ ~agentUp /\ agentUp' = TRUE /\ inUse' = Installed
  /\ UNCHANGED <<files, phase, runs, listens, dryRun, injection>>

AgentRunsBinary ==
  /\ \/ runs /\ runs' = FALSE
     \/ /\ agentUp /\ inUse.check # "absent" /\ files.exe \in {"other", "new"}
        /\ runs' = TRUE
  /\ UNCHANGED <<files, phase, agentUp, inUse, listens, dryRun, injection>>

\* At any time, also while the script is at work on the file.
EditConfig ==
  /\ files.config # "absent"
  /\ files' = [files EXCEPT !.config = "edited"] /\ cut' = FALSE
  /\ UNCHANGED <<phase, agentState, listens, dryRun, asked, got, wanted>>

-----------------------------------------------------------------------------
(* The installation.                                                       *)

Begin ==
  /\ phase \in Ended /\ phase' \in {"checks", "remove exe"}
  /\ asked' \in Envs
  /\ dryRun' = [exit |-> 0, sent |-> FALSE]
  /\ UNCHANGED <<files, agentState, listens, got, wanted, cut>>

\* [1/8] to [3/8].  A datagram is sent to 8125 whether it is read or not; that
\* the DNS role and the files of the release are there is not varied.
Checks ==
  /\ phase = "checks"
  /\ phase' = IF agentUp THEN "exe" ELSE "idle"
  /\ UNCHANGED <<files, agentState, listens, dryRun, injection>>

\* A file is put over what is there; the script may die on the way.
Put(f, content, next) ==
  \/ files' = [files EXCEPT ![f] = content] /\ phase' = next
  \/ files' = [files EXCEPT ![f] = "torn"] /\ phase' = "idle"

\* A running binary cannot be written: the script ends.
CopyBinary ==
  /\ phase = "exe"
  /\ \/ runs /\ phase' = "idle" /\ UNCHANGED files
     \/ ~runs /\ Put("exe", "new", "config")
  /\ UNCHANGED <<agentState, listens, dryRun, injection>>

\* Faulty: the configuration is copied in any case.
CopyConfigAlways ==
  /\ phase = "config"
  /\ Put("config", Default, "env") /\ wanted' = asked /\ cut' = (phase' = "idle")
  /\ UNCHANGED <<agentState, listens, dryRun, asked, got>>

\* Only where there is none.
CopyConfig ==
  /\ phase = "config"
  /\ IF files.config = "absent"
     THEN Put("config", Default, "env") /\ wanted' = asked /\ cut' = (phase' = "idle")
     ELSE phase' = "check" /\ UNCHANGED <<files, wanted, cut>>
  /\ UNCHANGED <<agentState, listens, dryRun, asked, got>>

\* Get-Content has read the whole file before Set-Content writes it.
ReadConfig ==
  /\ phase = "env" /\ phase' = "write env"
  /\ got' = files.config
  /\ UNCHANGED <<files, agentState, listens, dryRun, asked, wanted, cut>>

\* Faulty: what was changed is not written back.
ForgetEnv ==
  /\ phase = "write env" /\ phase' = "check"
  /\ got' = "absent" /\ cut' = FALSE
  /\ UNCHANGED <<files, agentState, listens, dryRun, asked, wanted>>

\* -replace finds the line of the example.
Injected(content) == IF content = Default THEN asked ELSE content

InjectEnv ==
  /\ phase = "write env"
  /\ Put("config", Injected(got), "check")
  /\ got' = "absent" /\ cut' = (phase' = "idle")
  /\ UNCHANGED <<agentState, listens, dryRun, asked, wanted>>

\* Faulty: the example configuration is put over the wrapper.
CopyWrongSource ==
  /\ \/ phase = "check" /\ Put("check", Default, "conf")
     \/ phase = "conf" /\ Put("conf", "unpatched", "patch")
  /\ UNCHANGED <<agentState, listens, dryRun, injection>>

CopyWrapper ==
  /\ \/ phase = "check" /\ Put("check", "new", "conf")
     \/ phase = "conf" /\ Put("conf", "unpatched", "patch")
  /\ UNCHANGED <<agentState, listens, dryRun, injection>>

\* Read, changed and written back like the configuration.
PatchConf ==
  /\ phase = "patch" /\ Put("conf", "new", "dry run")
  /\ UNCHANGED <<agentState, listens, dryRun, injection>>

\* & $BinaryDest: it is an error only if the program cannot be started.
DryRun ==
  /\ phase = "dry run"
  /\ \/ phase' = "idle" /\ UNCHANGED dryRun
     \/ /\ phase' = "restart"
        /\ dryRun' \in {[exit |-> 0, sent |-> TRUE], [exit |-> 1, sent |-> FALSE]}
  /\ UNCHANGED <<files, agentState, listens, injection>>

\* Restart-Service -Force, which may fail with the Agent up or down.
Restart(here, next) ==
  /\ phase = here
  /\ \/ agentUp' = TRUE /\ inUse' = Installed /\ phase' = next
     \/ agentUp' \in {agentUp, FALSE} /\ phase' = "idle" /\ UNCHANGED inUse
  /\ runs' \in {runs, FALSE}
  /\ UNCHANGED <<files, listens, dryRun, injection>>

\* Five seconds later the status of the Agent is shown, whatever it is.
Finish ==
  /\ phase = "settle" /\ phase' = "installed"
  /\ UNCHANGED <<files, agentState, listens, dryRun, injection>>

-----------------------------------------------------------------------------
(* -Uninstall.                                                             *)

\* Faulty: a file that cannot be removed is passed over.
RemoveIfPossible(f, here, next) ==
  /\ phase = here /\ phase' = next
  /\ files' = IF f = "exe" /\ runs THEN files ELSE [files EXCEPT ![f] = "absent"]
  /\ cut' = (cut /\ f # "config")
  /\ UNCHANGED <<agentState, listens, dryRun, asked, got, wanted>>

Remove(f, here, next) ==
  /\ phase = here
  /\ IF f = "exe" /\ runs THEN phase' = "idle" /\ UNCHANGED files
     ELSE phase' = next /\ files' = [files EXCEPT ![f] = "absent"]
  /\ cut' = (cut /\ f # "config")
  /\ UNCHANGED <<agentState, listens, dryRun, asked, got, wanted>>

SetupDies ==
  /\ phase \notin Ended /\ phase' = "idle"
  /\ got' = "absent"
  /\ cut' = (cut \/ (phase \in {"env", "write env"} /\ files.config \notin {"edited", wanted}))
  /\ UNCHANGED <<files, agentState, listens, dryRun, asked, wanted>>

SetupNext ==
  \/ ServiceStops \/ ServiceStarts \/ AgentRunsBinary \/ EditConfig
  \/ Begin \/ Checks \/ CopyBinary \/ CopyConfig \/ ReadConfig \/ InjectEnv
  \/ CopyWrapper \/ PatchConf \/ DryRun
  \/ Restart("restart", "settle") \/ Finish
  \/ Remove("exe", "remove exe", "remove config")
  \/ Remove("config", "remove config", "remove check")
  \/ Remove("check", "remove check", "remove conf")
  \/ Remove("conf", "remove conf", "last restart")
  \/ Restart("last restart", "uninstalled")
  \/ SetupDies

SetupSpec == SetupInit /\ [][SetupNext]_setupVars

-----------------------------------------------------------------------------
SetupTypeOK ==
  /\ files \in [exe : Scripts, config : Configs, check : Scripts, conf : Scripts]
  /\ inUse \in [check : Scripts, conf : Scripts]
  /\ phase \in SetupSteps
  /\ {agentUp, runs, listens, cut} \subseteq BOOLEAN
  /\ dryRun \in [exit : {0, 1}, sent : BOOLEAN]
  /\ asked \in Envs /\ {got, wanted} \subseteq Configs

(***************************************************************************)
(* After "installed successfully" the binary, the wrapper and the          *)
(* wrapper's configuration are of this version and patched, and an Agent   *)
(* that runs has loaded them, whatever it did in the meantime; after       *)
(* "Complete" of an uninstallation none of the four files is left, on disk *)
(* or loaded (setup.ps1:60-71, 101-159).                                   *)
(***************************************************************************)
EndedInPlace ==
  /\ phase = "installed" =>
       /\ \A f \in {"exe", "check", "conf"} : files[f] = "new"
       /\ agentUp => inUse = Installed
  /\ phase = "uninstalled" =>
       /\ \A f \in Targets : files[f] = "absent"
       /\ agentUp => inUse = Installed

(***************************************************************************)
(* A configuration that the operator has edited survives every             *)
(* installation, also one that dies and is repeated.  Only an edit that    *)
(* falls between the reading and the writing of line 111, in the run that  *)
(* made the file, is lost to it (setup.ps1:108-116).                       *)
(***************************************************************************)
EditsSurvive ==
  [][files.config = "edited" =>
       files'.config = "edited" \/ phase \in {"remove config", "write env"}]_setupVars

(***************************************************************************)
(* After an installation the configuration has the -Env of the run that    *)
(* made it - an earlier one perhaps, which a run with another -Env leaves  *)
(* as it is - or is the operator's.  The exception is a run that dies      *)
(* before -Env is in the file: every later one takes the example, or its   *)
(* torn rest, for a finished configuration (setup.ps1:108-115).            *)
(***************************************************************************)
EnvOfMaker ==
  phase = "installed" =>
    files.config \in {"edited", wanted} \/ (cut /\ files.config \in {"torn", Default})

(***************************************************************************)
(* setup.ps1 on step 7: "metrics printed not sent".                        *)
(***************************************************************************)
DryRunSendsNothing == ~dryRun.sent

(***************************************************************************)
(* setup.ps1, after step 7: "Binary executed successfully".                *)
(***************************************************************************)
BinarySucceeded == phase \in {"restart", "settle", "installed"} => dryRun.exit = 0

(***************************************************************************)
(* setup.ps1 on step 2: "Verify DogStatsD on UDP :8125".                   *)
(***************************************************************************)
DogStatsDVerified == phase \in {"exe", "config"} => listens

=============================================================================
