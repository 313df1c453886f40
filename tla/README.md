# gosmesh: models and proofs

gosmesh measures a network: every node of a mesh runs an echo server and opens
connections to every other node, a controller deploys the nodes, starts and
stops their tests over HTTP and collects their reports. This directory holds
TLA+ modules of its concurrent parts, TLC configurations that model-check them,
and proofs that TLAPS checks.

    tlc -workers 2 -config TestControlRun.cfg MCTestControl   # one run
    tlapm TestControlProofs.tla                               # one module's proofs

`PROJECT.json` lists the runs with their properties, the lines each definition
stands for, the hazards of the code and the theorems.

## 1. The system

| Part | Code | State | Operations |
|---|---|---|---|
| Tester life cycle | `pkg/testing/tester.go` | context, wait group, running flag, `testDone`, server, connections | `StartWithConfig`, `reconfigure`, `Start`, `runControlledTest`, `Stop`, `StopAndFinalize`, `Wait`, HTTP start/stop/status |
| Tester configuration | `testconfig.go`, `tester.go` 244-340 | `TestConfig` | defaults, merge of the JSON fields, automatic connections and buffers |
| Reports | `tester.go` 761-960, 1015-1382 | none of its own | periodic and final reports, posts to the controller |
| Echo server | `pkg/network/server.go` | socket, wait group, context | `Start`, `Run`, accept loop, handlers, UDP loop, `Stop` |
| TCP connection | `pkg/network/connection.go` | `c.conn`, reconnect counters | `startTCP`, sender, receiver, `reconnectTCP` |
| UDP connection | same | `c.udpConn` | `startUDP`, sender, receiver |
| Counters and statistics | same | four atomics, `c.stats` under `c.mu` | batched publication, `updateStats`, `GetStats` |
| Optimized connection | `connection_optimized.go` | stats ring, send channel | sender pool, `ProcessStatsRing` |
| Worker pool | `pkg/workers/workers.go` | job channel, results | `ProcessConcurrentlyWithIndexes`, `AsError` |
| Mesh controller | `pkg/mesh/controller.go`, `helpers.go` | targets, reports per node, HTTP server, signal channel | `Run`: `Deploy`, `Start`, `Wait`, `stopAllTests`, `cleanup`; `Uninstall` |
| Node deployment | `controller.go` 338-458, 780-953, `ssh.go` | the remote host | health check, kill, remove, upload, unit file, start |
| Mesh statistics | `pkg/mesh/stats.go` | the last report of each node | reports in, aggregation, staleness, sorting, display |
| io_uring and performance helpers | `pkg/system`, `pkg/performance` | rings, pools | not used by the commands |
| Commands | `internal/commands` | flags | `run`, `server`, `mesh`, `uninstall` |

How they interact:

- A command owns a **tester**. `run` starts one test and waits for `testDone`
  or a signal; `server` lets HTTP requests start and stop tests. Each accepted
  start makes a new context and spawns `runControlledTest`, which starts the
  **echo server**, the **connections** and the reporters, all counted in one
  wait group, and waits for it. The duration timer, the HTTP handlers and the
  signal handler call `Stop` from goroutines of their own.
- A **connection** runs a sender and a receiver goroutine that share `c.conn`
  without a lock, and publishes its **counters** to whoever calls `GetStats`:
  its own sender, its ticker, the reporters, the HTTP handlers.
- The **controller** runs each phase over all nodes through the **worker
  pool**, runs shell commands on each **host** over SSH and talks HTTP to the
  agent on it, which is a `gosmesh server`; the agents post their reports to it.
- The connections of one node send to the **echo servers** of the others, over
  a network that loses and duplicates, and count what comes back.

What is hard, and what must hold:

| Part | Hard because | Must hold |
|---|---|---|
| Tester | fields of the tester are re-made by each start while goroutines of the last test still read them; three kinds of callers stop it | the running flag has a live runner; `testDone` means the test is over; the process ends by itself after its duration, but for the API server, and always after a signal |
| TCP connection | two goroutines close, clear and re-make `c.conn` at once | one socket at a time, no socket lost beyond what the deferred close misses, retries until the cancellation, `Start` returns |
| Counters | local batches, flushes on errors and on cancellation, unsynchronised loads | no byte lost or counted twice, consistent snapshots |
| Worker pool | workers race for jobs, callbacks fail, the context ends | one result per object, success is real, it returns |
| Packet mode and echoes | counters loaded one after the other while packets and echoes are under way; refusals of a peer that is restarted; an echo that shares the next read's buffer | the loss is reported no further below its documented range than the races explain, counts do not go back, the receiver stays, echoes keep their order |
| Optimized sender | a lock-free ring with several producers; a feeder that can block after its workers are gone | the ring is a queue for one worker, nothing is counted twice for more, the sender ends |
| Controller and hosts | partial failures, answers lost after the work was done, signals between phases, timers on both sides, hosts found in any state | no test without a deployment, each command finds what the ones before it left, stops and uninstallations that report success have succeeded, the command ends |
| Mesh statistics | reports that are stale, partial or not measured, in any order of a Go map | averages that divide by what was counted and lie between the extremes, extremes that are somebody's, lists that hold the right entries |

## 2. The modules

### TestControl (`tester.go`, `server.go` life cycle, `cmd_run.go`, `cmd_server.go`)

A test is known by the context that `reconfigure` makes for it: `epoch` is the
field `nt.ctx`, so a goroutine that reads the field late binds to a later test,
as in the code. Test `e` has a runner (`runControlledTest`), one goroutine per
kind (`server`, `conn`, `reporter`) and, when it has a duration, a timer.
`StartWithConfig` is split where other goroutines can come in, with `controlMu`
held across the parts: wait for the previous runner's flag, close the old
server, wait for its handlers, reconfigure. `Stop` is split the same way:
cancel, clear the flag, check the server, stop it, wait for its handlers, clear
it, finalize. A panic (nil server, second close of `testDone`) ends the process
and is a value of `process`. The accept loop takes a connection (`Accept`) and
adds its handler to the server's wait group (`Handle`) in two steps, between
which a `Stop` may find nothing to wait for.

`apiServer` is the HTTP server of the tester. `ApiPorts` says whether a port is
configured: in `gosmesh server` the command starts it, in `gosmesh run
-api-server-port` the first `Start` does (`ApiServerStarts`), and its goroutine
is in the same wait group as the test's. It ends when its port is taken or when
`StopHTTPServer` is called, which `gosmesh run` never does (`ApiServerEnds`).
Without it there are no requests.

Bounds: one or two accepted starts (`MaxTests`), one concurrent request beside
main, at most one connection goroutine and one handler per server. Two tests
are what reuse, stale contexts and stale timers take; the proofs hold for any
number of tests and callers. `run_command` has one test, both with and without
an API port; that a request could start a second test in `gosmesh run` is left
to the proofs, which admit it.

### ConnectionCounters (`connection.go`)

The loops of `tcpSenderThroughput`, `udpSenderThroughput` and
`udpReceiverThroughput` have one shape: check the context, transfer, accumulate
locally, publish when a batch is full, on an error and at the end. `loop`
chooses which of the three it is; where they differ (first write of a batch,
what an error does, how a packet is counted) the helpers `FirstWrite`, `MayEnd`
and `Packets` say so. A publication is two atomic additions, and an
`updateStats` two atomic loads and a locked store, each a step of its own; the
loop, the ticker and callers of `GetStats` interleave. Loads of the counters
of the other direction, which the loop never changes, are left out, as are
throughput and loss, which are computed from the loaded values. `transferred`
is a history variable: the bytes that writes or reads without an error
returned. What a failed write may have sent is not counted by the code and not
by the model.

Bounds: transfers of 1 and 3 bytes, packets of 2, batches of 3, 7 bytes in
all, two updaters beside the loop. The TCP batch is then published first after
one write and again after three, and sizes above and below a packet occur.

### TcpConnection (`connection.go`)

`startTCP` and the two goroutines, step by step at every read or write of
`c.conn`: the nil check, the use, the close, the clearing and the assignment
are separate actions, because nothing makes them one. Sockets are numbered as
they are dialled. A method called on a nil `c.conn` ends the process
(`panicked`) or, when the interface was half written, fails and makes the
goroutine reconnect: the two outcomes of the race. A peer may go away at any
moment. In throughput mode the receiver only waits for the context.

Bound: four successful dials, that is three reconnections, shared by both
goroutines: enough for two that overlap and one that follows.

### WorkerPool and ParallelMap (`workers.go`)

`ParallelMap` is the promise: every object is pending, then running, then
settled, or is settled with the context's error if the cancellation comes
first; the call returns when all are settled. `WorkerPool` is the code: a
channel filled and closed by the caller, workers that receive an index, check
the context, call and store. The channel hands indexes out in the order in
which they were sent, so two numbers, `sent` and `taken`, stand for its
content. Errors are compared by identity, as Go's map keys are.

The assumption `PoolAssumption` asks for a worker whenever there is an object:
every caller passes `min(len(targets), 32)`.

Bounds: four objects, two workers, four errors (one more than `GetTopErrors`
returns), one of them the context's.

### PacketEcho (`connection.go` packet mode, `server.go` echoes)

One connection and its peer. For datagrams: `startUDP`, whose dial is retried;
`udpSenderPacket`, where the write and the counting are two steps; the
receiver, whose read times out, fails on a refusal, or takes an echo that it
counts before it calls `updateStats`; `updateStatsFull`, whose two loads are
two steps under `c.mu`, by the receiver and by other updaters; the network,
which loses and duplicates; and the peer's server, which stops (its port then
refuses) and starts again. For a stream: the handler, which reads as much as
has arrived into its buffer and starts a goroutine that writes the echo *from
that buffer*. `echoes` holds, for each echo still to be written and each place
of it, the set of packets whose bytes that place may hold when the write copies
it; the write takes one of each. Packets are told apart by their number, and a
stream is read in whole packets.

`overlapped` remembers whether the handler ever read while an echo was still to
be written. If it did, an echo may carry a later packet twice and an earlier
one never, which TLC finds at once without that condition; the connection would
count them like any other.

Bounds: three packets, one duplicate, one restart of the peer, one updater
beside the receiver, packets of which two fit in the 2048 bytes that are
echoed. A loss of -2 needs two echoes ahead of their counting, and three
packets show that -3 does not happen. The proofs hold for any number of each.

### OptimizedSender and SampleQueue (`connection_optimized.go`)

`SampleQueue` is the promise of the ring: a bounded queue. `OptimizedSender`
takes `Push` and `Pop` apart at each atomic load, slot access and addition, and
runs them with `OptimizedTCPSender`'s feeder and workers and with
`ProcessStatsRing`. The difference `head - tail` is unsigned in the code, which
`Full` says. `NewOptimizedConnection` leaves `socketFD` at -1 ("will be set after
connection establishment", line 74, which nothing does), so that
`sendZeroCopy` always fails, and a worker uses the regular write.

With one worker the ring implements the queue, although the consumer runs at
the same time. With two it does not, and `RingIsQueue` is about one worker: two
of them may write one slot and both add to the head, so that one sample is lost
and an old one is counted instead. What remains true is `NeverOvercounts`, in
samples. The counter counts samples, and since every sample of this sender is
the same whole buffer, it counts bytes as well; a sample of zero, which only a
slot never written can give, adds nothing.

Bounds: a ring of two, two workers, three writes: the ring is full with two
samples and wraps with the third.

### MeshNode, MeshStats and MeshController (`controller.go`, `ssh.go`, `stats.go`)

`MeshNode` is one host as a record: which process runs from the remote path,
whether an agent from elsewhere holds the port, the binary, the unit file,
whether systemd has loaded it, and whether a test runs. `Deployment` and
`Cleanup` list the commands in the code's order; `Effects` says what each does,
`Needs` what it needs to succeed, and `Outcomes` that any command may fail with
its work undone or done, since an SSH session can die after the work. `stop`
and `kill` may leave the process; `kill -9` does not. The kill scripts find a
process by its executable's path. They run before the directory is removed, so
that the path they read is not yet marked as deleted. A start request that
times out may have taken effect; one that takes effect later than the
controller's timeout is not modelled.

`MeshController` runs the phases. Each is an instance of `ParallelMap`, that is
the pool by its promise, with the callback of the phase: for the deployment the
health check and fifteen commands one at a time, for start and stop one
request. `PhaseTimesOut` is the phase's context; only `Uninstall` hands it to
the commands. A signal is kept in the channel of one until `Run` or `Wait`
reads it; `Start` and `Uninstall` do not. Meanwhile a service may die (the unit
says `Restart=no`) and a test may end by its own timer. When the command ends,
the callbacks of an interrupted deployment end with the process: the host stays
as it was between two commands, which is one of the states hosts are found in.

A command that has no context may hang for good, on a host that answers to the
connection and never finishes the command: `HasContext` tells which have one.

`MeshStats` is the aggregation as operators on integers: reports, where -1 is
not measured; the fold of `GetStats` in a given order of the map (`AddServer`),
and what it returns when no report is fresh (`NoStats`); what each average
divides by what (`Average`); the exchange sort with its two loops (`Sorted`,
`Pass`); what `displayStats` shows. `AggregatesAddUp` says which of these
numbers are what: counts, totals, averages and extremes are of the active
servers that measured the metric; the average of the reconnections to targets is
the total by the active *servers*, although it is displayed "per target"; and
`TotalReconnects` is never assigned. Its
assumption, `ReportAssumption`, is that hosts measure their throughput and count
their reconnections, so that only loss, jitter and RTT can be -1. The invariants `StatsAddUp` and
`DisplayIsRanked` compare them with reference definitions for every input of
the bounds, in the states in which the controller displays them; the theorems
of `MeshStatsProofs` have no such bounds.

Bounds: two hosts, six states in which a host is found, one service that dies;
three posts by three IPs of four reports, with zero, sentinel, unmeasured and
tied values; lists of up to four entries.

## 3. The runs

| Run | Question | Answer |
|---|---|---|
| `run_command` | Does `gosmesh run` end, and does `testDone` mean the test is over? | `testDone` does (`RunnerOutlivesWork`, `DoneMeansOver`). Without an API port the command ends after its duration; with one it may stay, all of its test ended, waiting for the API server (`RunEnds`). A signal ends it in both cases (`SignalEndsRun`) |
| `server_command` | With two tests, HTTP requests and a signal, is the tester's state sound? | `FlagHasRunner`, `NoSilentEnd`, and the two panics only where they need a stop (`NilServerNeedsStop`) or a second test (`SingleUseClosesOnce`) |
| `report_before_done` | Is the final report out when `testDone` closes, as `tester.go:169` says? | no |
| `timer_of_earlier_test` | Does a test's timer end that test only? | no |
| `tester_reuse` | Can a tester complete two tests, as `tester.go:224` says? | no: it closes `testDone` twice |
| `counters` | Are bytes counted, and snapshots consistent? | `NothingLost`, `DatagramsExact`, `AtMostTwice`, `PacketsHaveBytes` |
| `sent_is_transmitted` | Is `BytesSent` what was transmitted, as `connection.go:83` says? | no: the first write of each TCP batch counts twice |
| `tcp_connection` | What do reconnections that race leave behind, and does `Start` return? | `OneSocket`, `RetriesUntilCancelled`, `ClosedIsReplaced`, `LeaksPaidByReconnects`, `StartReturns` |
| `worker_pool` | Does the pool keep its promise? | `SuccessIsReal`, `TopErrorsAreFirst`, and `MapSpec`: it implements `ParallelMap` with its liveness |
| `packet_echo` | How far off are the packet-mode statistics over a bad network and a peer that restarts, and do echoes keep their order? | the loss may be negative, by 2 and the duplicates at most (`NegativeLossIsBounded`); `StatsAdvance`, `ReceiverEndsForCause`, `EchoesInOrder` as long as no read overlaps an echo, `StartReturns` |
| `optimized_sender` | Is the ring a queue, is every write counted, does the sender end? | with one worker `RingIsQueue`, and every write is counted whose sample the ring took (`AcceptedWritesCounted`; a full ring refuses the rest, which are never counted); `NeverOvercounts` with any number, `SenderEnds` unless its feeder is stranded |
| `mesh_command` | Whatever fails, do `gosmesh mesh` and `gosmesh uninstall` do what they report, and end? And what are the statistics that are displayed? | `StartNeedsAllDeployed`, `CommandsFindTheirInputs`, `StopReachesAll`, `UninstallLeavesNothing`, `CommandEnds`, `StatsAddUp`, `DisplayIsRanked` |

The cfgs disable the deadlock check: every system here stops, at the end of
the test, of the connection or of the call. The liveness properties say where.

`RunEnds` has one exception, `OnlyApiServerLeft`: the test of `gosmesh run
-api-server-port` has been stopped by its timer and reported, all its goroutines
have returned, and `runControlledTest` still waits for the API server, which is
in the same wait group. TLC reaches it, and without the exception the property
fails; a signal is then the only end. `CommandEnds` has one as well: `Hanging`, a
deployment whose SSH or SCP command without a context never returns, on a host
that stays reachable, with no signal to interrupt it.

`StartReturns` names its exceptions: a packet-mode connection may call a nil
connection, and its receiver may read without a deadline, when it set the
deadline on the socket that the sender was just replacing. Both happen in the
model, in packet mode only; without the exceptions the property fails.

`SenderEnds` has one as well: after its `select` took the default case the
feeder sends on the channel without looking at the context. If the workers have
returned and the channel is full, the sender never returns (`Stranded`).

What the mesh properties leave open is what the code leaves open. A start that
fails on one host ends the command without a stop, and the tests that did start
run on until their own duration is over. A second signal is not read. An agent
that was not installed by the controller keeps its port, and the health check
after the deployment that would show it does not exist. Deployment and start
that fail on some hosts are logged as "continuing with successful nodes" (489)
and are then an error that ends the run.

**Fairness.** `TestControl`: every goroutine that can take a step takes it, and
the timer of a test fires, and an accepted connection gets its handler; nothing
is assumed of the signal, the requests, the peers or the end of the API server. In `run` mode main does start its test. `TcpConnection`: dials,
writes to a peer that reads or goes away, and reads that have a deadline come
back; a `select` that is offered the done context again and again takes it
(strong fairness of `Exit`), which Go's random choice among ready cases
justifies. `WorkerPool`: goroutines run, and its callbacks are
assumed to return, which is a condition on the caller: the pool waits for a
callback that does not. `PacketEcho`: the dial loop and both goroutines
run, a read comes back by its deadline, `c.mu` is handed to the receiver in the
end (Go's mutex does not starve a waiter), and a `select` as above; nothing is
assumed of the network or the peer. `OptimizedSender`: the feeder and the
consumer run, writes return, a `select` as above. `MeshController`: `Run` and
`Wait` go on, the duration is finite, HTTP requests come back by the timeout of
their client, and so does an SSH command that is given a context (the
uninstallation's, and the clean-up within a deployment: `HasContext`). Of the
other commands nothing is assumed: `Exec` and `SCP` start a process without a
context or a deadline, the options they pass bound the connection only, and the
deployment's own five minutes do not reach them. Nothing is assumed either of
phases' timeouts, signals or hosts.

## 4. The proofs

Each `*Proofs` module extends the module it is about. The proofs hold for all
values of the constants under the named assumptions (`ConstantsOK`,
`MaxDialsAssumption`, `PoolAssumption`, `MeshAssumption`, `EchoAssumption`,
`SenderAssumption`, `ReportAssumption` and that of `ConnectionCounters`), which
TLC evaluates in the runs. Every safety property that a run checks is a theorem.

**TestControlProofs.** `TypeOK` alone is not inductive: that `epoch` stays in
range rests on a caller in `StartWithConfig` excluding the others
(`StartExclusive`), so the two are proved together (`TypeAndLock`). `LifeInv`
adds that each accepted start has one runner, that goroutines are spawned only
by a `Start` that returned, and that no goroutine watches an earlier test's
context; from it follow `RunningFlagIsLive`, `DoneAfterWork` and
`EndNeedsStop`. `OneTestClosesOnce` needs that a closed `testDone` has a runner
that is done.

`StartsKeepServer` rests on `StopInv`: without a cancellation the flag excludes
two live runners (`FlagOfLive`), so that only the latest one writes
`nt.networkServer`, and the server is there at each step that uses it
(`ServerInPlace`); with one there is nothing to prove. `DoneIsOver` needs first
that nothing refers to a test that has not begun (`OfStarted`): a server, a
socket and a goroutine belong to a test up to `epoch`. Then, while there is one
test, an exited server has closed its socket after a cancellation, and the
runner finishes only when the server has exited, with no handler left and no
connection on the way to one, or when its start has failed (`OneTest`).

**ConnectionCountersProofs.** `CountersInv` records why the loop publishes
(`ReasonFits`), that the local sums are reset together (`LocalsFit`), how far
bytes are ahead of packets during a publication (`PacketsBehind`), what the
TCP sender still has to count again (`Doubled`), and what an updater between
its loads has seen (`LoadsFit`). The theorems are `NoByteLost`,
`DatagramsCountedOnce`, `TcpCountBounded` and `SnapshotsOrdered`.

**TcpConnectionProofs.** `ConnInv` relates the number of sockets to the number
of reconnections (`Numbered`), says that a socket dialled and not yet assigned
is open and nobody's (`FreshSocket`), and that in throughput mode the sender is
the only user of `c.conn` (`SenderOwnsConn`). From it follow
`ThroughputHoldsOneSocket`, `LoopsRetryUntilCancelled`,
`ClosedSocketIsReplaced` and, through the cardinality of `open`,
`LeaksBounded`.

**WorkerPoolProofs.** `PoolInv` says that each index is in one place
(`EachIndexOnce`) and that a worker ends only when the closed channel is
drained (`DoneMeansDrained`). `SuccessMeansAllCalled` follows, and
`PoolImplementsMap` proves that every step of the pool is a step of
`ParallelMap` or a stutter. `TopErrorsAreRight` is about a loop over the
results: after any number of them, what `GetTopErrors` has kept is `FirstOf`
them, the distinct errors in the order of their first occurrence, three at most.

**PacketEchoProofs.** `EchoInv` says that `c.mu` has one holder (`OneUpdater`);
that every packet counted as received or under way was written or duplicated
(`Accounted`); and that since the holder of `c.mu` loaded the packets sent, at
most one echo more was counted, besides the one whose receiver is waiting for
`c.mu` (`Loaded`). `LossesAreBounded` follows from the last two,
`ReportsAdvance` from what the holder has loaded being at least what is
reported, and `ReceiverStays` from refusals being remembered (`Refusals`). Of a
stream, `OrderInv` says that, as long as no read overlapped an echo, at most one
echo is to be written, and what came back, every packet that the echo's places
may hold, and what is still to be read follow each other in increasing order.
`StreamInOrder` follows, for any number of packets.

**OptimizedSenderProofs.** `SenderInv` counts: every write is in the head,
refused, or with a worker inside `Push`, by the cardinality of the set of those
workers (`Placed`); the tail never passes the head (`Behind`); what was drained
moved the tail (`Drained`). `CountIsBounded` follows.

For one worker, `RingInv` says where the worker and the consumer can be between
their steps: only the worker moves the head, so that the head it loaded is still
the head, and the tail it loaded, which may be old, only makes the ring look
fuller than it is; the consumer's sample is the one in the slot at the tail,
which the worker does not write while the ring is not full. `OneWorkerRing` is
then that each step of the sender is a step of the queue or a stutter (the slot
is written before the addition that puts it, so that the sequence between tail
and head changes with the additions only), and `OneWorkerImplementsQueue` that
it implements `SampleQueue`. Slots are indexed modulo the size, for any size:
what is needed of `%` is that distinct numbers less than `Size` apart have
distinct slots.

**MeshStatsProofs.** The loops of `stats.go` as loops: a fold is a function of
the number of iterations done (`Iterate`, `FoldRuns`), and what holds after each
iteration is a set of numbers that contains 0 and, with each number, the next
(`InductionUpTo`, from the well-foundedness of `<` by way of `LeastNatural`).
That needs no theorem with an operator for its parameter. `GetStatsAddsUp`: after
one or more servers, the count and the total of each metric are of the servers
that measured it, the lowest and the highest bound them and are somebody's, or
the starting values that nothing was below or above; a target's reconnections
are the servers' sum (`TargetsAddUp`), their total is that of all reports
(`TargetTotalIsSum`), and `TotalReconnects` is still 0.
`KeptIsLast`: after any number of posts, the last report of each IP is kept.
`SortRanks`: the inner loop leaves the first of the rest in place, so that after
`i` passes the first `i` entries come before all others; swaps only rearrange.
`ListRanks`: the first entries of a sorted list are the ones asked for.
`AggregatesHold` and `ListsHold` apply these to the inputs of the runs.

**MeshControllerProofs.** `MeshInv` says what a host looks like between two
commands of its callback: after the forced kill nothing runs from the remote
path until the start, and each command finds what the earlier ones made
(`DeployStep`, `UninstallStep`); what is true of a host whose callback has
settled with success, in each phase (`Done`); that a phase that returned has
settled every host (`AllSettled`); and that a command that has ended began no
new phase (`EndsOnce`). `TestsNeedAgents`, `CommandsInOrder`,
`StoppedMeansStopped` and `UninstalledMeansGone` follow, for any number of
hosts in any initial state. `PhasesArePools` is the composition: every step,
whoever takes it, is a step of the phase's `ParallelMap`, leaves the pool alone,
or begins a phase with a new pool, and does that only from outside a phase or
after the phase returned; after its return a phase's results stay. With
`PoolImplementsMap`, what is proved of the controller is so of the code's pool.
`ShownStatsAddUp` and `ListsShownRanked` take `MeshStatsProofs` to the states in
which the controller displays; what is shown there is what `AggregatesAddUp`
says, the average of section 5 included.

Only model-checked: liveness (`RunEnds`, `SignalEndsRun`, `StartReturns`,
`AcceptedWritesCounted`, `SenderEnds`, `CommandEnds`, and the progress part of
`MapSpec`, with its fairness), which is out of the prover's reach.

## 5. Where the program and its documents disagree

Four disagreements have a run of their own, in which TLC violates what the
document says (section 3 and `findings` in `PROJECT.json`): the final report
and `testDone`, the timer of an earlier test, the reuse of a tester, and
`BytesSent`. The models show these as well, as what a property has to allow:

- **`gosmesh run -api-server-port` does not end after its duration.** The flag
  is "Test duration" (`cmd_run.go:26`), the tester logs "Test will stop
  automatically" (`tester.go:750`), and `API_RESULTS.md:390` has "Test runs for
  configured duration" before `tester.Wait()`. But `Start` starts the API server
  (`tester.go:678-682`), whose goroutine is in `nt.wg` (426), and nothing ends
  it, so that `Wait` never returns (`OnlyApiServerLeft` in `RunEnds`).
- **The loss of packet mode may be negative**, although `PacketsLost` is "the
  number of packets that didn't receive responses" (`connection.go:80`),
  `LossRate` a percentage "0-100" (87), and `API.md:79` says "Percentage of
  packets not echoed back". An echo may be counted before its packet, and in any
  case between the two loads of `updateStatsFull`; a duplicated echo is counted
  twice. `PacketEcho` reaches a `PacketsLost` of -1 without any duplicate when
  an update stores 0 packets sent and 1 received; `NegativeLossIsBounded` says
  how far it goes.
- **SSH operations do not time out.** `MESH_SDK.md:289` says that they do, "after
  5 minutes for deployment". `Deploy` makes such a context
  (`controller.go:476`), which its callback ignores (481-483); `Exec` and `SCP`
  take none (`ssh.go:28`, 126). Hence `Hanging` in `CommandEnds`.
- **The average "per target" is one per server.** `displayStats` prints
  `AvgTargetReconnects` as "per target" (`stats.go:733`), and `GetStats` divides
  by the active servers (569): `Average` and `AggregatesAddUp`.
- **`TotalReconnects` is never assigned** (`stats.go:29`), and `MESH_SDK.md:247`
  tells users to look for reconnections by it. `AggregatesAddUp` says that it is
  0, whatever was reported.
- **"All connections stable"** is printed when no *target* reconnections were
  reported (`stats.go:747-751`), whatever the sources reported just above.
- The list of the targets "reconnected to most" (`stats.go:728`) is asked for in
  ascending order, which shows those with the fewest.
- `-dont-use-systemd` sets `DeploySystemDService` (`cmd_mesh.go:28`), so that
  giving it turns the deployment on, which is the default.

## 6. Not modelled, and the plan

Left out, with the reason:

- **Tester configuration** (defaults, merge, automatic connections): one pass
  of assignments without state or concurrency.
- **Tester reports**: formatting and I/O. One thing was met in passing: the
  reconnections of several connections to one target are assigned, not summed
  (`tester.go:877`).
- **io_uring, system calls, performance helpers**: no command reaches them.
- **OptimizedUDPSender**: its `sendmmsg` on descriptor -1 always fails, so that
  it loops without sending; the module would show nothing else.
- The text of reports and of the unit file, socket options, flags.
- RTT, jitter and rates, which are arithmetic on what the models count.

Next: the completion loop of io_uring when a command uses it; a refinement of
the packet-mode counters to what the network did, as an abstract specification
of what a report may claim.
