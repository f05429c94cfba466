# Microsoft DNS Monitor for Datadog: models and proofs

The repository monitors a Windows DNS server for Datadog, twice over:

- the **Go stack**: `checks.d/dns_monitor.py`, a thin check that the Agent calls every minute,
  starts `dns-monitor.exe`, waits for it with a timeout and reports two service checks; the binary
  (`main.go`, `collector/`, `statsd/`) collects and pushes DogStatsD lines over UDP;
- the **Python stack**: `dns_moniter.py`, a check of its own that does the same work inside the Agent;
- installers for each (`scripts/setup.ps1`, `setup/Install-ZgDnsMonitor.ps1`).

This directory holds TLA+ modules of the parts that are hard to test, TLC configurations that
check them on small instances, and TLAPS proofs of what holds for every instance.

## 1. Inventory

| Component | State it keeps | Operations | Interacts with | What makes it correct |
|---|---|---|---|---|
| DogStatsD client `statsd/client.go` | socket, global tags; during `Flush` the buffer | `Flush`, `send`, `Line` | called once per cycle; datagrams to the Agent | no line lost, repeated or reordered; joined lines fit a packet |
| Check wrapper `checks.d/dns_monitor.py` | none between calls | `check` | Agent (service checks); starts, awaits and kills the binary | one verdict per call; OK only for a full cycle; every call ends |
| Binary `main.go`, `collector/collector.go`, `config/config.go` | lines of the cycle | `Load`, `Run` | collectors, client | all collectors, then the count, then one flush |
| Forwarder collector `collector/forwarder.go`, `_collect_forwarders` | result of the running probe, number up, best latency | probe, TCP connect, summary | forwarders over UDP and TCP | up only if answered; the summary agrees with the parts; it ends |
| Python check `dns_moniter.py` | metrics submitted, `metric_count` | nine collectors, self-monitoring | Agent, PowerShell, sc.exe, typeperf | the gap between counted and submitted is known; no timeout is missing |
| Counters `perfmon.go`, `_read_pdh_counters`, `_collect_perfmon` | what the Agent adds up of them | one reading per cycle | PDH, `typeperf` | each value under its own name; nothing made up |
| Statistics `_read_dns_statistics`, `_collect_statistics` | none | groups read one by one, then submitted | PowerShell | ratios of one cycle agree; a failure is not a zero |
| Event log `_collect_events` | none between calls | one query over a window | `Get-WinEvent` | no error falls between two windows; a number that is cut off says so |
| Resolution `resolution.go`, `_collect_resolution` | none | baseline and external probe | the DNS server, its cache and forwarders | up only on a fresh answer; an outage shows |
| Readers `service.go`, `wmi.go`, `zones.go`, `process.go`, `forwarder_detect.go` | none | one `Collect…` each | WMI, PowerShell | failures are told apart from zeros |
| Installer `setup/Install-ZgDnsMonitor.ps1` | files, backups, marker | steps of one run, reruns | Agent, operator, file system | the marker only with a whole installation; what is overwritten is in a backup, but for the two ways to lose it |
| Setup script `scripts/setup.ps1` | four files | installation, `-Uninstall` | Agent, the running binary, operator | what says it is installed is; `-Env` gets into a new configuration; edits survive |
| Build, CI, configuration files | – | – | – | – |

Hard behaviours, each listed with its line in `PROJECT.json` under `hazards`:

- *two processes*: the timeout of the wrapper races the exit of the binary, and the kill races its flush;
- *hangs*: WMI and PowerShell are called by the Go collectors without a deadline, the Service Control
  Manager, `getaddrinfo` and PDH by the Python check;
- *packet boundaries*: exact fit, the newline between lines, empty and oversized lines;
- *network*: lost, late, repeated and reordered answers, ports that are used again;
- *partial failure*: an exception in the middle of a collector; all metrics depend on one flush at the end;
- *time budget*: silent forwarders cost 8 s each against a timeout of 55 s;
- *counters*: totals since the start of the service sent as increments; columns of a reading that are empty;
- *moments*: the groups of one reading belong to different moments; windows of the event log overlap or do not;
- *state outside*: caches and forwarders of the DNS server change between and during the probes;
- *installation*: a crash between steps, backups within the same second, an edit between two steps, a
  rerun with other parameters, a program that runs while its file is replaced, an Agent that restarts at
  any moment.

## 2. Modules

| Module | Models | Role |
|---|---|---|
| `StatsdClient` | `Flush` and `send` of `statsd/client.go` | component |
| `DatagramStream` | what `Flush` promises: the lines leave in order as datagrams that fit | abstract specification |
| `MonitorCycle` | wrapper + binary + the flush (`Client == INSTANCE StatsdClient`) | composition |
| `CheckContract` | what the Agent may rely on: one verdict, "ok" after the whole push, calls end | abstract specification |
| `CycleBudget` | the clock of one cycle against the timeout of the wrapper | component |
| `ForwarderProbe` | `CollectForwarders` and `_collect_forwarders` with the network | component |
| `PyCheck` | `check()` and the nine collectors of `dns_moniter.py`, call after call | component |
| `CounterPipeline` | counters read through PDH or `typeperf`, sent as counts, added up by a monitor | component with its reader |
| `DnsStatistics` | one statistics reading while the DNS service counts on | component with its source |
| `EventWindow` | event log queries over a log that goes on | component with its source |
| `Resolution` | both resolution probes against a server with a cache and forwarders | component with its server |
| `Installer` | `setup/Install-ZgDnsMonitor.ps1` beside Agent and operator | component |
| `Setup` | `scripts/setup.ps1` beside Agent, binary and operator | component |
| `…_proofs` | theorems about the module of that name (eight of them); `DnsStatistics_proofs` also about `EventWindow`, `ForwarderProbe_proofs` about `Resolution`, `Installer_proofs` about `Setup` | proofs |
| `MC…` | values of the constants and refinement mappings | model checking |

Where the Go and the Python program do the same work by other means, one module holds both: which of
them is installed is a variable that the initial states choose and no step changes (`connected` of
`ForwarderProbe`, `typeperf` of `CounterPipeline`, `python` of `Resolution`). A run covers both, and so
does a theorem.

### StatsdClient

A line is its length in bytes, a payload the positions of its lines and its length; 0 is the empty
string, which `Flush` skips. `SkipEmpty`, `Join` and `Cut` are the three ways through the loop body
(client.go:64–76), `SendRest` is what follows the loop (78–80) and the early return (59–61), whose
effect is the same. `Send` ignores errors as the code does, so a payload that is "on the wire" has
been handed to the socket, no more. `Next` lets the model rest when `Flush` has returned.

### MonitorCycle

`wrapper` follows `check()`: `CheckMissing` and `CheckPresent` (dns_monitor.py:36–44), `Spawn` or
`SpawnFails` (46–52, 69–74), then `WaitEnds` (54–61), or `Expire`, `Kill`, `ReportTimeout` (63–68 and
`subprocess.run`, which kills and reaps before it raises). `proc` follows the binary: `LoadConfig`
(config.go:56–81), `Connect` and `Detect` (collector.go:34–44), `Collect` once per collector (50–82),
`SelfMonitor` (85–91), `Flush` (94, one step of `StatsdClient` each) and `Finish`; a panic, or a
termination from outside, may end it at any point (`Crash`). A collector returns any of `Outputs`,
none of whose lines is empty: every one is made by `Line`, which puts a colon and a type into it
(client.go:85–106). That `Flush` copes with empty lines is a matter of `StatsdClient`.
Between `Expire` and `Kill` the binary goes on. A collector that hangs is a binary that takes no
further step, which the specification allows at every point. The binary may appear and disappear
between calls and between the test for the file and the start (`Deploy`).

### CycleBudget

The same cycle seen by the clock. Each step of the binary takes some whole seconds (`Takes`): at most
its deadline where the code sets one (`ProbeUdp`, `ConnectTcp`, `Resolve`), and for the steps without
a deadline (`Undeadlined`: WMI, PowerShell, PDH) what is left of `Others`, the one assumption about
the machine. A silent forwarder takes the whole of both its deadlines. `Kill` is enabled when the step
in hand can run into the timeout.

### ForwarderProbe

One cycle over a list that may name a forwarder twice. `SendQuery`, `ReadReply`, `ReadFails` and
`SendFails` are `probeForwarder` and `_probe_dns`; `TcpConnect` is the rest of the loop body with the
counting; `Summarise` is what follows the loop. The network is the set of datagrams in flight:
any of them may be lost (`Lose`), answered (`Answer`), delivered late and delivered again (`ReadReply`
may leave it in flight). All sockets get the same local port, the worst case. `connected` tells the Go
program (a dialled socket takes datagrams of its peer only) from the Python program (`recvfrom` takes
any). `answered` observes for which probes the query was answered while they waited: what makes a
forwarder "up" must be such an answer, and not one to an earlier probe of the same forwarder or one of
another that comes in late. A transaction id is different from those in flight; a chance collision (1 in 65535) is left out.
`"unreachable"` stands for whatever makes the read fail early.

### PyCheck

Each collector is one action with its outcomes, since nothing runs beside it; it submits some metrics
(`submitted`), counts some (`count`, the code's `metric_count`), and goes to the next stage. While it
waits (`outside`), a subprocess or socket with a timeout may not answer (`Hang`); then only the timeout
goes on (`Expire`), and the collector has what the code makes of it (`OnTimeout`). A call without a
deadline - the Service Control Manager, `getaddrinfo`, PDH (`WithoutDeadline`) - may never return
(`Stick`). `cutShort` records the collectors that gave up after submitting a part. `ServiceRaises` is the one exception that leaves
`check()`. `NextCall` begins the next call of the same check object; what outlives a call are the PDH
queries that `_collect_process` has not closed (`queries`). The values of the metrics are abstracted.
The configuration is well formed.

### CounterPipeline

`Grow` and `Restart` are the DNS service. `CollectTypeperf` builds the line that `typeperf` writes (time
stamp, then one column per counter, any of them empty; or the header alone; or nothing) and parses it
as `_read_pdh_counters` does; `CollectPdh` has the outcomes of `perfmon.go`. `Push` sends what was read as
counts, which a monitor of `Window` cycles adds up. `sinceFailure` and `sinceRestart` are observers.

### DnsStatistics, EventWindow

`ReadQueries` and `ReadRecursion` fill one group each while `Query`, `Recurse` and `Restart` go on;
`ReadFails` is every way in which nothing is submitted; `Submit` computes the two ratios, which are kept
as numerators of the same denominator. In `EventWindow` each minute may log one event; `ReadEvents` takes
the newest `Cap` of the window and counts the errors among them, `QueryFails` sends the two zeros of the
code, `ReadGarbled` nothing. `seen`, `since` and `last` are observers.

### Resolution

`SendBaseline`, `Wait`, `BaselineReads`, `BaselineReadFails` and `BaselineSendFails` are
`probeViaRawDNS` and `_probe_dns` with what is sent of their result (`Baseline`); `External` is
`LookupHost` or `getaddrinfo`. The server stops, hangs, loses its forwarders, and forgets (`Change`)
at any moment, also while a probe waits. `FreshName` says that a random label is not in the cache.

### Installer, Setup

One action per step of the script, each of which can fail, be cut in the middle of a copy (`Torn`,
`"torn"`), or be the last (`Die`, `SetupDies`), after which the script may be run again. Beside it the
operator pulls a release or edits a file - an edit may fall between any two steps - and the Agent stops
and starts, loading what is on disk at that moment (`loaded`, in `Setup` `inUse`).

`Installer` keeps every backup by file and stamp; any stamp may be met again, since the code looks at
nothing but the time and copies with `-Force` (`Saved`). What becomes of one arbitrary content of one
file is observed (`watched`): whether it was written over (`replaced`), and whether it is `excused`,
that is, taken from the backups by a later one of the same name, or edited in after the backup, and not
backed up since.

In `Setup` line 111 is two steps, `ReadConfig` and `InjectEnv`, since the operator may save the file in
between, and the wrapper's configuration is copied (`"unpatched"`) and then patched (`PatchConf`). Each
run asks for any of `Envs` (`asked`); `wanted` observes what the run asked for that made the
configuration, `cut` that it died before that was in the file. The Agent's own run of the binary
(`runs`) keeps its file from being replaced or removed, as Windows does.

## 3. Runs

| Run | Shows | Bounds and why they are enough |
|---|---|---|
| `flush` | `TypeOK`; joined lines fit; nothing lost; in order and once; a cut only where needed; implements `DatagramStream` (with its liveness) | packets of 5 bytes, every batch of up to 5 lines of length 0, 1, 2, 5, 7: empty, exact fit with newline (2+1+2), a full line, a line too long; up to 5 datagrams |
| `cycle` | `TypeOK`; one verdict per call; ok means all pushed; the count is true for whoever receives it; every call returns; implements `CheckContract` | two calls (what one leaves behind the next finds), each of six collectors returning no, one short, or a short and a long line; packets of 6 bytes, so a flush takes several datagrams and can be cut by the kill |
| `budget` | a cycle whose deadlines fit into the timeout is never killed | the seconds of the code (5, 3, 5 + 5, timeout 55), 4 seconds for everything else, 0 to 6 forwarders of which any number is silent: five fit exactly (54 s), six do not, so the kill happens too |
| `probe` | `TypeOK`; up means answered, by this forwarder, to this probe, while it waited; the summary agrees with the parts; the cycle ends | two forwarders, the first twice in the list: a late answer can meet a later probe of the same (either program) and of another forwarder (Python); one tick of timeout tells immediate from late answers; three ids for three probes; both kinds of socket |
| `pycheck` | how far `metrics_emitted` is off and why; a raising call reports nothing; each service check once; PDH queries left open show; only a call without a deadline can keep a call from ending | up to two counters, forwarders, domains and zones: none, one, several; two calls, so that what one leaves open meets the next; every collector may hang, and those with a call without a deadline get stuck |
| `counters` | each value under its own name; quiet after a restart | three counters with the watched one in the middle (a shift by one shows on either side), totals up to 2, a monitor of two cycles; both programs |
| `statistics` | the ratios agree; a total drops only for a reason | four queries: recursed can be less than, equal to and, by the order of reading, more than the queries read |
| `events` | `EventsTypeOK`; a number not marked as capped is exact; no error falls between whole reports that meet | six minutes, lookback 2, cap 2: a window holds up to three events, and cycles can come too late to meet |
| `resolution` | `ResolutionTypeOK`; up means a fresh answer; an outage that stays shows and stays shown; a silent server looks slow (Go) | deadline 3 above thresholds 1 and 2: OK, WARNING, CRITICAL and too late all happen; with and without the zone on the server; both programs |
| `installer` | the marker can be trusted; what is written over is in a backup, unless a backup of the same name or an edit after the backup took it | two releases, one content of the operator, two stamps: a run that dies, a second that backs up what it left under the same name or another, and an upgrade. The stamps are symmetric: nothing looks at which one a backup has |
| `setup` | `SetupTypeOK`; what says it ended is in place and loaded; the configuration has the `-Env` of the run that made it, unless that was cut off; edits survive | two values of `-Env`: that of the example, where copying alone would do, and another; every combination of old files, exhaustively |
| `cycle_overrun` | a **violation**, section 5: a collector that hangs in PowerShell or WMI is killed while it runs, and `collection_duration_ms` is not sent | as `cycle` |

Every property of a passing run has a *faulty variant* of one definition (named in `PROJECT.json`
under `mutants`, and standing before the definition it replaces) with which TLC finds the property
violated: a forgotten newline, a missing early return, an ignored exit code, a skipped comparison.
The type invariants of `CycleBudget`, `PyCheck`, `CounterPipeline`, `DnsStatistics` and `Installer` are
proved (section 4) and therefore not run.

### Fairness

- `StatsdClient`: `WF(FlushStep)`. `Flush` is a loop over a finite slice with no blocking call but a UDP write.
- `MonitorCycle`: `WF(WrapperStep)` only. The wrapper runs in the Agent and its timeout is a timer of
  `subprocess.run`. **Nothing** is assumed of the binary: that calls end must not rest on it.
- `ForwarderProbe`: `WF(Tick)` and `WF(Collector)`: time passes, and the sequential program runs;
  every socket has a deadline. Nothing is assumed of the network.
- `Resolution`: the same (`WF(Wait)`, `WF(ResolutionStep)`), and nothing is assumed of the DNS server.
- `PyCheck`: `WF(CheckStep)`: the check runs, and the timeouts it sets do fire. Nothing is assumed of
  what it calls: a hang ends only because there is a timeout (`Expire`), and what has none may last.
- The other modules state safety only and need no fairness.

## 4. Proofs

Each theorem has the form `Spec => []P` (or `Spec => [][A]_v`) and is proved from an inductive invariant:
it holds initially, each action preserves it, it implies `P`. The only assumptions are the `ASSUME`s on
the constants in the modules, and where a theorem says so a hypothesis named below. Each inductive
invariant was checked by TLC before it was proved: as an invariant of a run, or (`Setup`) as preserved
by each step from every well-formed state. Three proof modules treat two components each, one after
the other; this is why the names of `EventWindow`, `Resolution` and `Setup` (`EventsSpec`,
`ResolutionSpec`, `SetupSpec`, and so on) differ from those of the module they share it with.

`StatsdClient_proofs`, for every packet size and every set of batches:

| Theorem | Property | Argument |
|---|---|---|
| `TypeCorrect` | `TypeOK` | inductive by itself; one lemma per payload the loop builds |
| `SharedFit` | `SharedPayloadsFit` | strengthened by: the buffer fits as well unless it holds one line, and an empty buffer has no bytes. Without this the buffer sent by `Cut` could be anything |
| `Ordered` | `OrderedOnce` | strengthened by: all positions in the buffer and on the wire are below `next`, so the appended one is the largest |
| `NoLoss` | `NothingLost` | strengthened by: before the return nothing but lines up to `next - 1` has been passed, and a payload of no bytes holds no line, so `Send` drops nothing by not writing it |
| `Greedy` | `CutOnlyWhenFull` | strengthened by: if something is on the wire and the buffer is not empty, the last datagram was cut by the first line of the buffer |
| `KeepsStream` | `Stream!Safety` | the safety part of `ImplementsStream`: `Cut` and `SendRest` are `Emit` or write nothing, every other step changes nothing. By `Ordered` and `NoLoss` the buffer holds exactly the lines still due up to its last one. That its length is theirs needs `BytesInv`: nonempty lines of the batch, each once, with the length of their joined text. The abstract length is a recursive sum over the batch, and three lemmas carry it without induction: there is no other such sum (`SumsUnique`, by the least place where two differ), so the recursive definition is the one in hand (`SumsOf`), and one more line adds its length (`SumsAdd`) |

`MonitorCycle_proofs`, for every packet size, every set of collector outputs and any number of calls:

| Theorem | Property | Argument |
|---|---|---|
| `TypeCorrect` | `TypeOK` | with `CycleInv` below, whose lemmas carry the state of the flush, and `VerdictInv`, which knows the reports |
| `OneVerdict` | `OneVerdictPerCall` | strengthened by (`VerdictInv`): between the two reports of a call, exactly "binary present" has been reported, so whatever ends the call adds the second report |
| `OkAfterFlush` | `OkMeansAllPushed` | strengthened by (`CycleInv`): the client is untouched until the flush begins; from then on the lemmas about `Flush` keep their invariants, taken over with `INSTANCE StatsdClient_proofs`; exit code 0, and with it "ok", come after the return of `Flush`, when nothing is left in the buffer |
| `CountTrue` | `CountIsTruthful` | strengthened by `CountInv`: from the end of the collection on the count is that of the lines. The lines are on the wire in order (`OrderInv` of the client, whose strengthening also says that position 0 is nobody's) and none is lost, so the datagram with the last line comes with or after all others, and the positions up to it are `1 .. Len(lines)`: as many as counted |
| `KeepsContract` | `Contract!Safety` | the safety part of `ImplementsContract`, as a step simulation: `CheckPresent` is `Begin`, `CheckMissing` is `Refuse`, the steps of `Flush` are `Push` or change nothing, whatever ends a call is `Return` (`ok` needs `flushed`, from `CycleInv`), every other step leaves the contract alone |

`CycleBudget_proofs`, for all deadlines and any number of forwarders, silent or not:

| Theorem | Property | Argument |
|---|---|---|
| `TypeCorrect` | `TypeOK` | with `InLoop`: in the loop one forwarder is left |
| `FittingEnds` | `FittingCycleEnds` | strengthened by `WithinBudget`: the clock never exceeds what the steps so far may have cost. Then the room left covers the step in hand, and `Kill` is not enabled. The property by itself says nothing of the clock and is not inductive |

`ForwarderProbe_proofs`, for any list, timeout, set of forwarders, and both kinds of socket:

| Theorem | Property | Argument |
|---|---|---|
| `TypeCorrect` | `TypeOK` | with `Position`, which ties the step to the place in the list |
| `UpIsAnswered` | `UpMeansAnswered` | strengthened by `OwnId`: every datagram with the id of the running probe is its query, or an answer of the current forwarder that `answered` knows of; and by `UpAnswered`, which carries this over to the report. That a fresh id exists at all is an argument by cardinality (`FewIds`): no more ids are in flight than probes were sent |
| `Agreement` | `SummaryAgrees` | strengthened by `Tally`: counter and best latency agree with the part of the report so far, and by `Copied`: the summary is taken from them after the last |

and about `Resolution`, for any thresholds and deadline, either program, and a server that changes as it likes:

| Theorem | Property | Argument |
|---|---|---|
| `ResolutionTypeCorrect` | `ResolutionTypeOK` | inductive with (`ResolutionInv`): the reply on its way to the baseline probe never comes from the cache, because a fresh name is not in it |
| `UpIsFresh` | `UpMeansFreshAnswer` | an action property, from `ResolutionInv` and `BaselineEnds`: three steps end a measurement, and only the one that reads a valid reply reports up |
| `SilenceLooksSlow` | `SilentLooksSlow` | an action property, **under `Crit < Deadline`**: the code's defaults are 500 ms and 5 s. With a threshold above the deadline it is false |

`PyCheck_proofs`, for any numbers of counters, forwarders, domains, zones and calls:

| Theorem | Property | Argument |
|---|---|---|
| `TypeCorrect` | `TypeOK` | inductive by itself |
| `GapExplained` | `CountGapExplained` | strengthened by `CountInv`: the gap at each stage lies between one and what each collector in `cutShort` can leave uncounted, and collectors come in order, so each is in it once |
| `SilentRaise` | `RaisedIsSilent` | from the same invariant: before `service` nothing has been submitted |
| `OneCheckEach` | `EveryServiceCheckOnce` | strengthened by `ChecksInv`: after `service` as many checks as domains resolved, and one |
| `LeaksVisible` | `LeaksShow` | strengthened by `LeaksInv`: before `process` the calls counted are those ended, after it one more |

`DnsStatistics_proofs`, for any number of queries:

| Theorem | Property | Argument |
|---|---|---|
| `TypeCorrect` | `TypeOK` | with the next |
| `RatiosSum` | `RatiosAddUp` | inductive with `TypeOK` |
| `DipExcused` | `DipIsExcused` | an action property, from `Growing`: unless a restart is remembered, the counter is not below the last report and the total read not either. A failed reading must keep the restart in mind, or the next dip has no excuse |

and about `EventWindow`, for any lookback, cap, and number of minutes:

| Theorem | Property | Argument |
|---|---|---|
| `EventsTypeCorrect` | `EventsTypeOK` | with the next; that the number of errors does not exceed the cap is an argument by cardinality (`AtMostCap`), over the newest events taken by a least-number argument |
| `ErrorsCounted` | `NoErrorMissed` | inductive with `TypeOK`: a reading that is not capped has read its whole window (`FewAreWhole`), and what lies before the window was in an earlier one |
| `UncappedExact` | `UncappedIsExact` | an action property, from `FewAreWhole` |

`CounterPipeline_proofs`, for any number of counters, any window and any bound:

| Theorem | Property | Argument |
|---|---|---|
| `TypeCorrect` | `TypeOK` | inductive by itself |
| `QuietLater` | `QuietAfterRestart` | strengthened by `Explained`: every point that is not zero and as young as the service was caused by a failure since its start |
| `NamesHold` | `SentUnderItsName` | an action property of `Parse`: dropping the time stamp puts each column back at the position of its counter |

`Installer_proofs`, for any number of releases and edits and any set of stamps:

| Theorem | Property | Argument |
|---|---|---|
| `TypeCorrect` | `TypeOK` | inductive by itself |
| `MarkerTrusted` | `MarkerMeansInstalled` | strengthened by `Guarded`: there is no marker once a run has begun to change files, and `Placed`: what the steps so far have put in place is of the release of the clone, up to edits |
| `BackupsSuffice` | `LossExplained` | strengthened by `BackedUp`: between backup and copy the file as it is has been backed up, or is excused. A backup takes from the others only the one of its own name (`KeptStays`) |

and about `Setup`, for any values of `-Env`:

| Theorem | Property | Argument |
|---|---|---|
| `SetupTypeCorrect` | `SetupTypeOK` | with the invariants of the next two |
| `EndInPlace` | `EndedInPlace` | strengthened by `Copied` and `Removed`: what each step of either script has done to the files is still so at every later step, since nobody else writes them (the operator writes the configuration only); and by `LoadedInv`: an Agent that runs once the script has restarted it has loaded these files, also when it stops and starts meanwhile |
| `EnvInstalled` | `EnvOfMaker` | strengthened by `ConfigInv`: while a run makes the configuration, it is the example or edited (`InTheMaking`); at all other times it is as its maker asked, edited, or what a run that died left of it (`Settled`). A torn or unfinished one is the only exception, and it lasts |
| `EditsKept` | `EditsSurvive` | an action property: every other file is written at its own name, and the configuration only where there is none, but for the writing of line 111 |

Only model-checked: all liveness (`CallReturns`, `CycleEnds`, `CheckEnds`, `OutageShows`) and the fairness parts of both refinements, `ImplementsStream` and `ImplementsContract`,
which TLAPS cannot treat. Every safety property of a passing run is proved, and of the two refinements
the initial states and the steps.

## 5. Where the documentation says otherwise

One disagreement is a run of the project (`cycle_overrun`). The others were met while modelling. Each is
stated as a property at the end of its module, and the configuration named shows the shortest
counterexample: `tlc -config MCForwarderBroken.cfg MCForwarderProbe`, and so on.

- `EveryDatagramFits` (`MCStatsdOversize.cfg`, statsd/client.go:71). Flush sends a line that is longer than maxPacketBytes by itself as one datagram (the guard requires buf != ""), so with many or long global tags a datagram exceeds 1300 bytes. CHANGELOG.md:71 says "Batched UDP client — MTU-safe 1300-byte packet splitting", and client.go:12 "stay safely below 1500-byte MTU".
- `HangingCollectorShows` (`MCMonitorOverrun.cfg`, collector/collector.go:94). All lines are pushed by one Flush at the end of Run, and PowerShell (forwarder.go:119, zones.go:41) and WMI (process.go:42) are called without a deadline. When such a call hangs, the wrapper kills the binary in the middle of that collector - in the counterexample while the zones are read - and neither collection_duration_ms nor any other metric of the cycle is sent. README.md:259 says of this metric "If the collector itself is slow or failing, you need to know. `collection_duration_ms` trending above 10 seconds means something is hanging (usually a PowerShell subprocess or WMI timeout)."
- `BrokenIsForwarderSide` (`MCForwarderBroken.cfg`, collector/forwarder.go:212). resolver_broken is set when the one UDP probe got no valid answer and TCP connects: the network losing one datagram of a healthy forwarder is enough. README.md:497 says "This is a forwarder-side issue, not a network issue."
- `UpMeansResolving` (`MCForwarderRefused.cfg`, collector/forwarder.go:53). Every answer but SERVFAIL counts as up, REFUSED included: a forwarder that refuses all recursion is reported available. README.md:167 says "This proves the forwarder is reachable AND resolving, not just port-open."
- `DownIsTimeoutOrServfail` (`MCForwarderStale.cfg`, dns_moniter.py:148). The first datagram that reaches the unconnected socket decides: an answer to an earlier probe that used the same local port has another transaction id, is not valid, and the forwarder is reported down at once although its own answer is still to come. dns_moniter.py:137 says "NXDOMAIN = server UP. Timeout/SERVFAIL = server DOWN."
- `EmittedIsExact` (`MCPyCheckExact.cfg`, dns_moniter.py:401). metrics_emitted is metric_count + 2, but three metrics about the check itself are submitted, and metrics of a collector that gave up half-way are not in metric_count. README.md:264 says of metrics_emitted "Metrics pushed this cycle".
- `AllDownIsReported` (`MCCycleSilent.cfg`, collector/forwarder.go:202). Each silent forwarder costs its UDP timeout and three seconds more for TCP, one after the other, inside the 55 seconds of the wrapper: with seven of them the binary is killed before its only flush, and no dns.forwarders.availability = 0 is ever sent. README.md:470 gives "Query   : min(last_5m):min:dns.forwarders.availability{*} by {host,forwarder_ip} < 1" as the alert for forwarders that are down.
- `AlertMeansRecent` (`MCCountersRecent.cfg`, collector/perfmon.go:104). zone_transfer_failures_total is the total since the DNS service started and is sent as a DogStatsD count in each cycle, so one failure keeps the sum above 0 until the service restarts. README.md:505-507 says "sum(last_5m):sum:dns.performance.zone_transfer_failures_total{*} by {host}.as_rate() > 0" and "Zone transfer failures detected on {{host.name}}." of the last five minutes.
- `SilentLooksSlowAlways` (`MCResolutionSlow.cfg`, dns_moniter.py:152). A timeout returns latency 0.0, so a server that answers nobody has the best latency of all. dns_monitor.d/conf.yaml:45-46 says "Suggested Datadog monitor query: avg:dns.resolution.latency_ms{zone:corp.zoosglobal.com,probe_scope:baseline} > 100", and line 31 "anything over 100ms is a real problem".
- `BaselineIsLocal` (`MCResolutionLocal.cfg`, collector/resolution.go:106). The random name is asked for under the probe domain or example.com, which this server has to forward: without a forwarder it answers SERVFAIL at once, and the baseline is down. resolution.go:99 says "Measures pure DNS server responsiveness, independent of zone content."
- `ExternalIsRecursive` (`MCResolutionCached.cfg`, collector/resolution.go:140). LookupHost asks this server for the fixed probe domain, which it answers from its cache while no forwarder answers. resolution.go:135 says "Tests full recursive resolution through forwarders to the internet."
- `NothingLost` (`MCInstallerStamp.cfg`, setup/Install-ZgDnsMonitor.ps1:96). The backup is named by local time in seconds and copied with -Force: a second backup with the same name (two runs in a second, or in the hour that the end of summer time repeats) replaces the first. An edit that is saved between the backup (233) and the copy (234) is lost as well. Install-ZgDnsMonitor.ps1:15 says "backs up any existing files". What does hold, `LossExplained`, names these two ways and no other.
- `DryRunSendsNothing` (`MCSetupDryRun.cfg`, scripts/setup.ps1:142). Step 7 runs the binary with the installed configuration, which pushes a full cycle to DogStatsD, as line 138 itself says. setup.ps1:18 says "[7/8]  Dry-run — binary runs once, metrics printed not sent".
- `BinarySucceeded` (`MCSetupExit.cfg`, scripts/setup.ps1:142). A native program that exits with 1 does not throw in PowerShell 5.1 and $LASTEXITCODE is not looked at, so the catch is reached only if the program cannot be started. setup.ps1:144 says "Binary executed successfully" after a run that exited with 1.
- `DogStatsDVerified` (`MCSetupStatsd.cfg`, scripts/setup.ps1:85). Connecting a UDP socket and sending one datagram succeeds whether or not anything listens. setup.ps1:12 says "[2/8]  Verify DogStatsD on UDP :8125" and line 89 "DogStatsD reachable at 127.0.0.1:8125".
- Read off the source, without a model: `PatchConf` changes nothing (scripts/setup.ps1:132-133). In a double-quoted PowerShell string a backslash stands for itself, so the two patterns have four between the parts of the path, which match two; conf.d/dns_monitor.d/conf.yaml:13 and :17 have one. With -DDAgentPath the wrapper therefore keeps looking in C:\ProgramData\Datadog. setup.ps1:130 says "Patch binary and config paths into conf.yaml". In `Setup` a file that has been through this step is told from one that has not; what is in it is not modelled.
- Likewise: a rerun with another -Env ends with "installed successfully" and leaves the configuration as its maker asked (scripts/setup.ps1:115, which says so for the file, not for the parameter). `EnvOfMaker` is worded accordingly.

## 6. Not modelled

- `service.go`, `wmi.go`, `zones.go`, `process.go` and the parsing in `forwarder_detect.go`: queries
  whose values are sent on, without state. In `MonitorCycle` and `CycleBudget` they are steps that
  return, fail, take time or hang. That a failed zone query is sent as zeros (zones.go:78) is read off
  one early return.
- The groups of `_collect_statistics` besides queries and recursion, which are copied in the same way.
- The Agent behind the DogStatsD socket and its aggregation (but for the sum of a monitor in
  `CounterPipeline`); a UDP datagram to it that gets lost.
- The texts of lines, tags and messages; DNS packet encoding (only which answers are valid).
- Two check calls at once: the Agent runs one instance of a check at a time. A binary that survives
  a restart of the Agent in the middle of a call is not covered either, but for its locked file (`Setup`).
- Children of the killed binary (`powershell.exe` goes on after the kill).
- Both installers on one machine at the same time. That they write the same two files, one without a
  backup, is listed as a hazard; `Setup` starts from files of the other.
- `Gauge`, `Count` and `Distribution` of the client, which nothing calls.
- Build, CI and configuration files, which have no state in the running system.

## 7. What could follow

1. Bounded file locks and timeouts of `Restart-Service` in `Setup`, with the liveness of a rerun.
2. An abstract specification of the forwarder report (who is up, as of some moment of the probe),
   implemented by `ForwarderProbe` for both kinds of socket.
