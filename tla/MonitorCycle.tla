----------------------------- MODULE MonitorCycle -----------------------------
(***************************************************************************)
(* One DNS server with the Go stack installed: the Agent calls the check   *)
(* of checks.d/dns_monitor.py, which starts dns-monitor.exe and waits for  *)
(* it with a timeout; the binary (main.go, collector.Run) loads its        *)
(* configuration, runs the collectors one after the other, adds the two    *)
(* self-monitoring lines and flushes everything (StatsdClient).            *)
(*                                                                         *)
(* The wrapper and the binary are two processes: between the moment the    *)
(* timeout expires and the moment the binary is terminated the binary goes *)
(* on, and it may have finished.  A collector that hangs (WMI and          *)
(* PowerShell are called without a deadline) is one that takes no step.    *)
(*                                                                         *)
(* MaxCalls bounds the number of check calls.                              *)
(***************************************************************************)
EXTENDS Naturals, Sequences, FiniteSets

CONSTANTS
  MaxPacketBytes,  \* of StatsdClient
  Outputs,         \* what a collector may return: lengths of lines; Line makes none empty
  MonitorLine,     \* the length of a self-monitoring line
  MaxCalls

ASSUME CycleAssumption ==
  /\ MaxPacketBytes \in Nat \ {0}
  /\ \A out \in Outputs : out \in Seq(Nat \ {0})
  /\ MonitorLine \in Nat \ {0}
  /\ MaxCalls \in Nat

VARIABLES
  installed,  \* the binary is a file at binary_path
  calls,      \* check calls begun
  wrapper,    \* where the check call is
  checks,     \* service checks of the current, or else the last call
  proc,       \* where the binary of this call is
  exitCode,
  stage,      \* the collector that runs
  emitted,    \* the value of dns.monitor.metrics_emitted
  lines, next, buf, wire, flushed  \* of StatsdClient; lines is allLines

wrapperVars == <<calls, wrapper, checks>>
runVars     == <<proc, exitCode, stage, emitted>>
flushVars   == <<lines, next, buf, wire, flushed>>
vars        == <<installed, wrapperVars, runVars, flushVars>>

Client == INSTANCE StatsdClient WITH Batches <- {}

\* Run: forwarder detection returns no lines, then the six collectors.
Collectors ==
  <<"service", "perfmon", "forwarders", "resolution", "zones", "process">>

Present(status)    == <<"binary_present", status>>
Collection(status) == <<"collection", status>>

Running == proc \in {"loading", "connecting", "detecting", "collecting", "flushing"}

-----------------------------------------------------------------------------
Init ==
  /\ installed \in BOOLEAN
  /\ calls = 0 /\ wrapper = "idle" /\ checks = <<>>
  /\ proc = "none" /\ exitCode = 0 /\ stage = 1 /\ emitted = 0
  /\ lines = <<>> /\ next = 1 /\ buf = Client!NoPayload /\ wire = <<>> /\ flushed = FALSE

\* An operator, an installer or a virus scanner puts the file there or takes
\* it away; Windows does not delete the file of a running program.
Deploy ==
  /\ ~Running
  /\ installed' = ~installed
  /\ UNCHANGED <<wrapperVars, runVars, flushVars>>

NoProcess ==
  /\ proc' = "none" /\ exitCode' = 0 /\ stage' = 1 /\ emitted' = 0
  /\ lines' = <<>> /\ next' = 1 /\ buf' = Client!NoPayload /\ wire' = <<>> /\ flushed' = FALSE

-----------------------------------------------------------------------------
(* The check call.                                                         *)

BeginCall ==
  /\ wrapper = "idle" /\ calls < MaxCalls
  /\ calls' = calls + 1
  /\ NoProcess
  /\ UNCHANGED installed

\* Faulty: the early return is missing.
CheckMissingGoesOn ==
  /\ BeginCall
  /\ ~installed
  /\ checks' = <<Present("critical")>>
  /\ wrapper' = "starting"

CheckMissing ==
  /\ BeginCall
  /\ ~installed
  /\ checks' = <<Present("critical")>>
  /\ UNCHANGED wrapper

CheckPresent ==
  /\ BeginCall
  /\ installed
  /\ checks' = <<Present("ok")>>
  /\ wrapper' = "starting"

Spawn ==
  /\ wrapper = "starting" /\ installed
  /\ wrapper' = "waiting"
  /\ proc' = "loading"
  /\ UNCHANGED <<installed, calls, checks, exitCode, stage, emitted, flushVars>>

EndCall(status) ==
  /\ checks' = Append(checks, Collection(status))
  /\ wrapper' = "idle"
  /\ UNCHANGED <<installed, calls, runVars, flushVars>>

\* The file went away after isfile, or may not be executed.
SpawnFails == wrapper = "starting" /\ EndCall("critical")

\* Faulty: the exit code is not looked at.
WaitEndsOk ==
  /\ wrapper = "waiting" /\ proc = "exited"
  /\ EndCall("ok")

WaitEnds ==
  /\ wrapper = "waiting" /\ proc = "exited"
  /\ EndCall(IF exitCode = 0 THEN "ok" ELSE "critical")

\* Faulty: no timeout is given.
ExpireNever == FALSE

\* subprocess.run finds the binary still running when the timeout is over...
Expire ==
  /\ wrapper = "waiting" /\ Running
  /\ wrapper' = "expired"
  /\ UNCHANGED <<installed, calls, checks, runVars, flushVars>>

\* ... and kills it, unless it has ended in the meantime, ...
Kill ==
  /\ wrapper = "expired"
  /\ wrapper' = "reaping"
  /\ proc' = IF Running THEN "killed" ELSE proc
  /\ UNCHANGED <<installed, calls, checks, exitCode, stage, emitted, flushVars>>

\* ... and raises TimeoutExpired after the process is gone, in both cases.
ReportTimeout == wrapper = "reaping" /\ EndCall("critical")

WrapperStep ==
  Spawn \/ SpawnFails \/ WaitEnds \/ Expire \/ Kill \/ ReportTimeout

-----------------------------------------------------------------------------
(* The binary.                                                             *)

Exit(code) == proc' = "exited" /\ exitCode' = code

\* A missing file means defaults; one that cannot be read or parsed is fatal.
LoadConfig ==
  /\ proc = "loading"
  /\ \/ proc' = "connecting" /\ UNCHANGED exitCode
     \/ Exit(1)
  /\ UNCHANGED <<installed, wrapperVars, stage, emitted, flushVars>>

\* statsd.New fails when the address does not resolve; with forwarder_ips
\* configured the detection is skipped.
Connect ==
  /\ proc = "connecting"
  /\ \/ proc' \in {"detecting", "collecting"} /\ UNCHANGED exitCode
     \/ Exit(1)
  /\ UNCHANGED <<installed, wrapperVars, stage, emitted, flushVars>>

Detect ==
  /\ proc = "detecting"
  /\ proc' = "collecting"
  /\ UNCHANGED <<installed, wrapperVars, exitCode, stage, emitted, flushVars>>

\* Faulty: the loop over the collectors runs once too often.
CollectOnceMore ==
  /\ proc = "collecting" /\ stage <= Len(Collectors) + 1
  /\ \E out \in Outputs : lines' = lines \o out
  /\ stage' = stage + 1
  /\ UNCHANGED <<installed, wrapperVars, proc, exitCode, emitted, next, buf, wire, flushed>>

Collect ==
  /\ proc = "collecting" /\ stage <= Len(Collectors)
  /\ \E out \in Outputs : lines' = lines \o out
  /\ stage' = stage + 1
  /\ UNCHANGED <<installed, wrapperVars, proc, exitCode, emitted, next, buf, wire, flushed>>

\* Faulty: the count leaves out the lines that follow.
SelfMonitorShort ==
  /\ proc = "collecting" /\ stage > Len(Collectors)
  /\ emitted' = Len(lines)
  /\ lines' = lines \o <<MonitorLine, MonitorLine>>
  /\ proc' = "flushing"
  /\ UNCHANGED <<installed, wrapperVars, exitCode, stage, next, buf, wire, flushed>>

\* The count is taken before the two lines are added to what it counts.
SelfMonitor ==
  /\ proc = "collecting" /\ stage > Len(Collectors)
  /\ emitted' = Len(lines) + 2
  /\ lines' = lines \o <<MonitorLine, MonitorLine>>
  /\ proc' = "flushing"
  /\ UNCHANGED <<installed, wrapperVars, exitCode, stage, next, buf, wire, flushed>>

Flush ==
  /\ proc = "flushing"
  /\ Client!FlushStep
  /\ UNCHANGED <<installed, wrapperVars, runVars>>

\* Faulty: the binary does not wait for the end of the flush.
FinishEarly ==
  /\ proc = "flushing"
  /\ Exit(0)
  /\ UNCHANGED <<installed, wrapperVars, stage, emitted, flushVars>>

Finish ==
  /\ proc = "flushing" /\ flushed
  /\ Exit(0)
  /\ UNCHANGED <<installed, wrapperVars, stage, emitted, flushVars>>

\* A panic, or somebody terminates the process.
Crash ==
  /\ Running
  /\ Exit(1)
  /\ UNCHANGED <<installed, wrapperVars, stage, emitted, flushVars>>

BinaryStep ==
  LoadConfig \/ Connect \/ Detect \/ Collect \/ SelfMonitor \/ Flush \/ Finish \/ Crash

-----------------------------------------------------------------------------
Next == Deploy \/ CheckMissing \/ CheckPresent \/ WrapperStep \/ BinaryStep

(***************************************************************************)
(* The wrapper runs in the Agent, and its timeout fires.  Nothing is       *)
(* assumed of the binary: any of its steps may take for ever.              *)
(***************************************************************************)
Spec == Init /\ [][Next]_vars /\ WF_vars(WrapperStep)

-----------------------------------------------------------------------------
TypeOK ==
  /\ installed \in BOOLEAN
  /\ calls \in 0 .. MaxCalls
  /\ wrapper \in {"idle", "starting", "waiting", "expired", "reaping"}
  /\ checks \in Seq({"binary_present", "collection"} \X {"ok", "critical"})
  /\ proc \in {"none", "exited", "killed"} \/ Running
  /\ exitCode \in 0 .. 1
  /\ stage \in 1 .. Len(Collectors) + 1
  /\ emitted \in Nat
  /\ Client!TypeOK

(***************************************************************************)
(* Each call that has ended reported binary_present once, and collection   *)
(* once if and only if the binary was there, whatever failed on the way    *)
(* (dns_monitor.py:36-74).                                                 *)
(***************************************************************************)
OneVerdictPerCall ==
  wrapper = "idle" /\ calls > 0 =>
    \/ checks = <<Present("critical")>>
    \/ \E status \in {"ok", "critical"} : checks = <<Present("ok"), Collection(status)>>

(***************************************************************************)
(* The lines of the datagrams up to the k-th.                              *)
(***************************************************************************)
PushedBy(k) == UNION {{wire[l].ids[n] : n \in DOMAIN wire[l].ids} : l \in 1 .. k}

(***************************************************************************)
(* collection:OK is reported only when every line of the cycle has been    *)
(* handed to the socket: neither an early exit nor a kill in the middle of *)
(* the flush is reported as a success (dns_monitor.py:54-68, main.go).     *)
(***************************************************************************)
OkMeansAllPushed ==
  wrapper = "idle" /\ calls > 0 /\ checks[Len(checks)] = Collection("ok") =>
    /\ flushed
    /\ \A i \in DOMAIN lines : lines[i] # 0 => i \in PushedBy(Len(wire))

(***************************************************************************)
(* metrics_emitted is the last line of the cycle.  Whoever receives it     *)
(* reads the number of lines handed to the socket, this one included:      *)
(* a cycle cut short by a kill does not show a count at all                *)
(* (collector.go:85-94).                                                   *)
(***************************************************************************)
CountIsTruthful ==
  \A k \in DOMAIN wire :
    (\E n \in DOMAIN wire[k].ids : wire[k].ids[n] = Len(lines)) =>
      emitted = Cardinality(PushedBy(k))

(***************************************************************************)
(* Every call ends, even when a collector hangs for ever                   *)
(* (dns_monitor.py:47-68).                                                 *)
(***************************************************************************)
CallReturns == wrapper # "idle" ~> wrapper = "idle"

(***************************************************************************)
(* The check implements the contract: one verdict per call, no datagram    *)
(* of the binary after the call has ended, "ok" only after the whole       *)
(* flush, and every call ends.                                             *)
(***************************************************************************)
Verdict ==
  IF wrapper # "idle" \/ checks = <<>> THEN "none"
  ELSE CASE checks[Len(checks)] = Present("critical") -> "missing"
         [] checks[Len(checks)] = Collection("ok")    -> "ok"
         [] OTHER                                     -> "failed"

Contract == INSTANCE CheckContract
              WITH busy <- wrapper # "idle", verdict <- Verdict,
                   pushed <- Len(wire), complete <- flushed

ImplementsContract == Contract!Spec

(***************************************************************************)
(* README.md:259 on collection_duration_ms: "If the collector itself is    *)
(* slow or failing, you need to know", by an alert above 30000 ms.  So a   *)
(* collector that asks PowerShell or WMI and hangs should at least show in *)
(* this metric: it returns, or the binary ends by itself, or the last line *)
(* but one of the cycle, which is collection_duration_ms, is pushed.       *)
(***************************************************************************)
AsksPowerShellOrWMI == {c \in DOMAIN Collectors : Collectors[c] \in {"forwarders", "zones", "process"}}

Runs(c) == proc = "collecting" /\ stage = c

DurationPushed == lines # <<>> /\ Len(lines) - 1 \in PushedBy(Len(wire))

HangingCollectorShows ==
  \A c \in AsksPowerShellOrWMI :
    wrapper = "waiting" /\ Runs(c) ~> stage # c \/ proc = "exited" \/ DurationPushed

=============================================================================
