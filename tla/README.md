# A TLA+ model of fortio-operator

The operator runs HTTP checks and load tests in Kubernetes. A user creates a
custom resource, the operator starts a Job that runs `fortio`, reads the log of
its pod, and writes the verdict back. This directory holds TLA+ modules for the
operator's controllers, TLC runs on small instances of them, and TLAPS proofs
for instances of any size. Paths below are relative to the repository.

## 1. The system

| component | state it keeps | operations |
|---|---|---|
| CurlTest controller, `pkg/controller/curltest` | none across calls of Reconcile; the Job, its pod, the status of the CurlTest | launch a Job or adopt one of the same name, poll it, read the log, write Success or Failure |
| LoadTest controller, `pkg/controller/loadtest` | as above, the ConfigMap `fortio-data-dir`, the file `/tmp/metrics` | as above; a finished load is a Success; then file the result |
| TestRun controller, `pkg/controller/testrun` | none across calls; child CurlTests and LoadTests | order the tests, create one, wait for its result, go on or stop, write Finished |
| CronTest controller, `pkg/controller/crontest` | the scheduler, a map from names to entry ids (both in memory) | add an entry, remember its id, write isScheduled, remove the entry on deletion |
| Server controller, `pkg/controller/server` | none across calls; a ReplicaSet and a Service per Server | create both or find them by name, wait for a Service just created, set its type |
| manager process, `cmd/manager/main.go` | the leader lock (a ConfigMap its pod owns), the readiness file | become leader, report ready, start the controllers and a web server for `/tmp` |
| API types, registry, generated code, manifests | - | no behaviour of their own |

**How they interact.** The controllers never call each other. Everything goes
through the API server: a TestRun creates children that the two test
controllers decide; a CronTest's entries create tests or runs; LoadTests share
one ConfigMap. Each controller has one work queue and one worker
(`MaxConcurrentReconciles` is 1), reads through the informer cache of the
manager, and writes to the API server directly. Its Reconcile may stay inside a
polling loop for minutes. All controllers live in one process, so a panic in one
restarts all of them, and there should be one such process at a time: that is
what the leader lock is for.

**What is hard.**
- Reads are stale: Reconcile acts on cached copies of the resource, the Job, the
  pods, the ConfigMap and the children. Its own writes come back late.
- Writes are refused when they were computed from an old revision, and several
  errors are only logged.
- The process may die at any step and starts over with nothing but the API
  server.
- Wait loops: a wait that cannot end stops the controller's only worker.
- A log may end anywhere, also inside a number, and the reader of a LoadTest's log
  indexes past its end.
- Jobs and pods are found by name: what is found may be of an earlier spec, of an
  earlier Job, or of an earlier test of that name.
- An update of the operator starts a second one beside the first.
- Deduplication by the queue: a change that arrives during a long Reconcile must
  not get lost.

**What makes each component correct.**
- CurlTest and LoadTest: one Job per test; a result comes from a Job of this very
  test and agrees with what its spec looks for; a result is final; no test is
  forgotten; every test is decided.
- LoadTest also: nothing filed is lost; what is filed was measured; what is
  finished is filed; no number is taken from another line than its own.
- TestRun: no test of a request is dropped; the order given is followed; tests
  do not overlap; a stop is obeyed; Finished means over; every run finishes.
- CronTest: a schedule is dropped only with its own CronTest; each CronTest is
  scheduled, also after a restart; a deleted one leaves no entry.
- Server: what it asks for exists and is its own whenever nothing is left to do.
- The process: one operator works at a time, and in the end one does.

## 2. The modules

| module | models |
|---|---|
| `Runtime` | the API server's copies of one kind of resource, the informer, the queue, the worker's hold on a key, the user, restarts |
| `TestResult` | what a user may rely on of a test: the abstract specification of both test controllers |
| `TestJob` (extends `Runtime`) | what the two test controllers share: the Job, its pod, both caches, Reconcile up to the status write |
| `CurlTest` (extends `TestJob`) | the verdict drawn from a log |
| `LoadLog` | what is read out of the log of a load, as functions on sequences of words |
| `LoadLines` (extends `LoadLog`) | the lines of one log, cut off anywhere, and what is taken from them, as a behaviour |
| `LoadTest` (extends `TestJob`, `LoadLog`) | reading, reporting and filing a measurement |
| `TestOrder` | the order of a TestRun as a function from requests to plans |
| `TestPlan` (extends `TestOrder`) | one request and the plan made of it, as a behaviour |
| `TestRun` (extends `Runtime`, `TestOrder`) | Reconcile over the children of a run |
| `Operator` (extends `TestRun`, instantiates `CurlTest`) | both controllers in one process, over the same CurlTests |
| `CronTest` (extends `Runtime`) | Reconcile, scheduler, map, entries' functions |
| `Server` (extends `Runtime`) | Reconcile, the ReplicaSet and the Service, their caches, the garbage collector |
| `Leader` | the start of the process, the lock, the pods around it |
| `MC...` | constants for TLC; `MCPure` puts `TestPlan` and `LoadLines` side by side |
| `...Proofs` | theorems and proofs; those of `TestOrder`, `TestPlan` and `TestRun` are in `OperatorProofs`, ahead of those of `Operator`, which rest on them; those of `LoadLog` and `LoadLines` in `LoadTestProofs` |

### Runtime

`revisions[k]` is the log of all revisions of resource `k`; the index stands for
its resourceVersion, and the revision that created it gives the `uid`. A
deleted resource has a last revision that is not `live`. `seen[k]` is the
position of the informer in that log, so the cache lags and never skips. The
informer updates the cache first (`InformerReceives`) and hands the change to the
handler later (`HandlerEnqueues`), as `HandleDeltas` does: in between Reconcile
may see a revision whose notification is still to come. `queue` is the dirty set
of the work queue, `active` the key the worker holds; a key may be in both.

`WriteStatus` is `Status().Update` and the fallback `Update` that follows an
error. It is refused unless the copy it was computed from is the latest
revision. The CRDs make status a subresource, so the fallback cannot write a
status; it succeeds or fails without effect, and Reconcile goes on either way.

Everything that may go wrong is a *fault*: a run names the faults it allows
(`Faults`) and how many may happen (`MaxFaults`), each at most once. The variable
`faults` is the set of those that did; a property that only holds in the absence of
some says so with `Without({...})`.

| fault | meaning |
|---|---|
| `edit`, `delete`, `recreate` | the user changes a resource that exists, or brings a deleted one back |
| `lag` | a resync announces a resource while a newer revision is on its way |
| `statusfails` | a status write fails by itself |
| `crash` | the process exits and is restarted |
| `panics` | in `TestRun`: a panic elsewhere in the process, as often as it likes |
| `createfails`, `updatefails` | Create or Update fails, with or without effect |
| `logsfail` | the log of an existing pod cannot be read |
| `podloss`, `jobdelete`, `childdelete` | a finished pod, a Job (its pod goes later), a child test disappears |
| `latecondition` | the count of succeeded pods is published before Complete |
| `configedit`, `configfails`, `filefails` | the ConfigMap is edited by hand; its update fails by itself; the metrics file cannot be made, and is left as it was, or not be filled, and is left empty or half written |
| `rsdelete`, `svcdelete`, `svcedit` | somebody deletes the ReplicaSet or the Service of a Server, or edits the type |
| in `Leader`: `update`, `delete`, `forced`, `apifails` | the Deployment is updated; a pod is deleted, or its record by force; a request of `leader.Become` fails |

Without any fault the caches still lag, writes still conflict, an empty pod
list still makes the process panic and restart, and so does a log that cannot be
read: these are not faults.

### TestResult, TestJob, CurlTest, LoadTest

One action per path through Reconcile. `BeginSkips`, `BeginFindsJob`,
`BeginCreatesJob`, `BeginFails` end at the polling loop or at a return; the
`Poll...` actions are one turn of the loop each, with one read of the cached
Job; `updateStatus` is the write. A turn that finds the Job still running changes
nothing and is a stuttering step. `worker` holds the local variables: where
Reconcile is, the revision `snap` of its copy, the number `sec` that drives the
timeout, the verdict. Each step that can be interleaved with a change outside (a
read from the cache, a write) is an action of its own.

A Job carries the `owner` (the uid of the CurlTest it was launched for), the `spec`
its command was made from, and its own `id`. `pods[k]` is the set of ids of the Jobs
whose pod exists: a Job that is deleted leaves its pod behind until `PodCollected`,
and a List by the name of the Job (`podSeen[k]`, from the cache) may show both this pod and
that of the Job made after it. `Listed` says which pods may be the first item, and
`Printed` what a pod printed: the log of a Job that succeeded, and anything if
it did not. For a CurlTest a log is the set of specs whose expected string occurs
in it; for a LoadTest it is the sequence of its words. The text of command lines is
abstracted.

In `LoadTest`, `ReadsLogs` is the way past `writeConditionsFromLogs` and
`ReadingPanics` the way out of it when the log ends too early (`ReadPanics` of
`LoadLog`); `updateConfigMap` and `SlicingPanics` are the same two for the JSON
and its filing, and `writeResultToFile` ends Reconcile. Both panics restart the
process, before the status write or after it. An entry of the ConfigMap is named after
its test and the second it was written in (`Seconds`): each second is a number of
its own, or that of an earlier entry of the same test, which is then overwritten.

`TestResult` has one variable, how each test stands, and three actions. `TestJob`
instantiates it (`Outside`) with what the API server says of each test: absent,
without a result, or with one. `OneResult` is the abstract specification under
this mapping, a property of both controllers: `CurlDisturbed` checks it of one, and
it is proved of both.

### LoadLog and LoadLines

`WordsRead(log, i)` is how far the code reads past word `i`, `ReadPanics` that some
word is too close to the end. `writeConditionsFromLogs` gives each field of
`LoadTestCondition` the words it is set to; a later line wins.
`getJSONfromLog` cuts from the first opening to the last closing brace;
`SlicePanics` says that these are in the wrong order. `QpsWords` are the words the code
takes a rate from; a word is a rate or something else, and which is the constant's
value.

In `LoadLines` a log is the first `cut` words of a list of `Line`s and perhaps `rest`,
what is left of the next one (`Halves` says what may be left of a word); `Reads` is what
Reconcile takes from it. A line is one that fortio prints (`Target`, `Code`, `Total`,
`Rate`, JSON) or any other text; it says what it sets (`sets`, `to`), which is what the
properties compare the result with.

### TestOrder and TestRun

`Plan(request)` places the curl tests, then the load tests, each at its order
number or the next free one, and sorts by place. Order numbers are unbounded
integers: the overflow of `i++` behind the largest `int` is left out. In `TestRun` a
child is named after run, place and kind, as in the code; the two branches for curl and load
differ in nothing else and are one. `LaunchFinds`, `LaunchCreates` and
`LaunchFails` are the Get and Create of a child, `WaitEnds` the end of the wait
loop, `updateStatus` the write of Finished. Children are decided from outside.

### Operator

Here nothing is assumed of the children: `CurlTest` is instantiated with the
tests a run may create as its keys, and its API server (`tests`) and cache
(`childSeen`) are the ones `TestRun` sees through `Views`. `RunWorks` is a step of
the run's worker and what it creates, `TestWorks` one of the tests' worker, `Dies`
a crash or panic of the process, which both lose their queues and workers in.
`RunSeesTests` says that the composition implements `TestRun` alone, that is,
that what `TestRun` takes for granted of its children is what their controller does.

### CronTest

Entries hold the spec of the copy they were made from. `Fires` runs an entry's
function. The controller also watches the CurlTests an entry creates, and their
events put the CronTest on the queue while its own cache entry may be old
(`CurlTestChanges`). The scheduler library (`besser/cron`) is not vendored; it
is modelled by what the code expects of it: ids count from 1, `AddFunc` of an
unparsable schedule returns 0 and an error, which is ignored, and removing 0
removes nothing.

### Server

`replicaSets[k]` and `services[k]` are logs of revisions with a lagging cache each.
The `Begin...` actions are Reconcile up to the ReplicaSet, the rest is the Service:
found and retyped (`SetsType`, `SetTypeFails`), or created (`CreatesSvc`,
`CreateSvcFails`) and waited for (`WaitEnds`). What is found by name is not asked for
its owner, as in the code; `Collected` is the garbage collector, which takes what
belongs to a Server that is gone. `ChildReceived` is the watch on owned objects: it
announces the Server of that name.

### Leader

`process[p]` is where main of pod `p` is: reading its own pod (`owner`), looking for a
lock from before a restart (`look`), trying to create it (`create`), past
`leader.Become` (`elected`), and with the readiness file set and the controllers
running (`work`). `BecomeFails` is every error of `leader.Become`: main drops it and
goes on. Around it the Deployment keeps one pod per wanted template and, in an
update, gives up the old template when a pod of the new one is ready; a pod ends
(`Terminates`) before its record goes (`Removed`) and its lock is collected
(`LockCollected`), unless the record is deleted by force.

## 3. The runs

All passing runs are exhaustive for their bounds; they take from a few seconds to
about three minutes with two workers.

| run | instance | checks |
|---|---|---|
| `CurlTwoTests` | 2 tests, 1 of 6 faults, fairness | `TypeOK`, `NoLostTest`, `OneJob`, `EveryTestDecided` |
| `CurlDisturbed` | 1 test, 2 specs, 2 of 10 faults | `ResultEarned`, `OneResult` |
| `LoadTwoTests` | 2 tests, 3 kinds of log, 1 of 10 faults | `TypeOK`, `NoLostTest`, `OneJob`, `FiledIsMeasured`, `SuccessIsRead`, `AloneIsFiled`, `EntriesKept` |
| `PureParts` | requests of up to 2+2 tests, orders 0..3 or not a number; logs of up to 3 of 11 lines, cut between words or inside one | `NothingDropped`, `DistinctOrdersObeyed`, `NumbersInPlace`, `WholeLogIsRead`, `JsonIsTaken` |
| `RunTwoRuns` | 2 runs of 2 tests, 1 of 5 faults, fairness | `TypeOK`, `OneAtATime`, `StopIsObeyed`, `OverUnlessRefused`, `EveryRunFinishes` |
| `OperatorRun` | 1 run of 2 CurlTests and their Jobs, crashes and panics and a deletion, fairness | `LoadIsSerial`, `FinishedIsQuiet`, `RunSeesTests`, `EveryRunFinishes` |
| `CronTwoTests` | 2 CronTests, proper and unparsable, 1 of 4 faults, fairness | `TypeOK`, `ScheduleKept`, `EveryCronTestIsScheduled` |
| `ServerDisturbed` | 1 Server, 2 types, 3 of 9 faults, fairness | `TypeOK`, `SettledIsServed`, `EveryServerIsServed` |
| `LeaderFourPods` | 4 pods, 4 of 5 faults, fairness | `TypeOK`, `OneOperator`, `UpdateSparesLeader`, `SomebodyWorks` |

What they show: two tests that share a worker are neither forgotten nor launched
twice and both are decided (`CurlTwoTests`); a result stays, comes from a Job of this
very test, not of one before it, and agrees with what the spec beside it looks for
(`CurlDisturbed`); two loads, whose worker has more to do after a result and may panic
over it, are neither forgotten nor launched twice, the shared
ConfigMap loses nothing, holds only what was measured, and gets the result of a test
that is alone, and no Success is reported of a log that panics (`LoadTwoTests`); a
plan has every test of its request, and of a log that ends anywhere each number is
taken from the last line that has it, whole unless the log ends inside it
(`PureParts`); the tests of a run do not overlap, a stop is obeyed, and
a run ends, having done its plan, unless a child is refused or something deleted
(`RunTwoRuns`); all that also with the real tests below it (`OperatorRun`); a
CronTest never loses its schedule to another, and gets it again after a restart
(`CronTwoTests`); a Server gets what it asks for by what the watches announce alone
(`ServerDisturbed`); one operator works at a time, and one does in the end
(`LeaderFourPods`).

Three runs check something a comment or the README says of the program, and find
it violated:

| run | statement | what happens |
|---|---|---|
| `CurlJobDeleted` | a missing Job is given up after five minutes | `case 25` should be `case 30`: the timeout is unreachable and the worker waits for ever |
| `LoadFiled` | the result of a finished test is in the ConfigMap | the second of two LoadTests is refused, and the error only logged |
| `CronDeleted` | the saved id removes the job with its instance | the CronTest is scheduled once more from a copy without the first status write, which is late, or refused because the CronTest was just deleted; the second entry replaces the id of the first, which then stays |

**Which faults a property excludes, and why.** The code does not keep every property
under every fault, and each property names the ones it excludes. These limits
were found with the same modules:
- `NoLostTest` excludes `statusfails` and `latecondition`: after either only the
  resync brings the test back, which `EveryTestDecided` does cover.
- `OneJob` excludes `jobdelete`: the Job deleted by hand is made again.
- `EveryTestDecided` excludes `delete`, `jobdelete` and `podloss`: a missing Job is
  waited for without end (`CurlJobDeleted`), and a finished Job whose pod is gone
  makes the process panic again after every restart.
- `ResultEarned` and `SuccessIsRead` assume `JobsToldApart`, which excludes two
  faults. After `recreate` the Job is adopted by name (`curltest_controller.go:139`),
  and one left by a deleted test decides its successor. After `jobdelete` the Job is
  made again under the same name while the pod of the first may still be there: the
  List by that name shows both, and the log is that of whichever comes first
  (`curltest_controller.go:212`).
- `ResultEarned` allows what an edit does: the Job of the old spec is adopted at the same
  line, and its log is judged by the string of the new spec. The result is then
  beside a spec whose URL and payload nobody tried. Without an edit
  the Job ran the spec beside the result; with one, a spec the same test had
  asked for (`Asked`).
- `LoadTwoTests` leaves `jobdelete` out: `OneJob`, `SuccessIsRead` and `AloneIsFiled`
  exclude it, and the other four are proved with it.
- `EntriesKept` is about names: an entry may be overwritten by another of the same
  test within a second (`loadtest_controller.go:225`), when a test is reconciled again before its
  own status write came back, or was made anew. That such a test is filed
  twice is what the code does.
- `AloneIsFiled` excludes `crash`, `configedit`, `configfails` and a log
  with its braces in the wrong order, since nothing files a test that is already decided,
  and `recreate` and `jobdelete`, after which the log read may be another than that of
  the test's Job.
  It is about the only test there is (`OnlyTest`); with two it fails without a fault
  (`LoadFiled`).
- `LoadTest` has no liveness property: a log that cannot be read makes the process
  panic again after every restart (`loadtest_controller.go:307`).
- `NumbersInPlace` says "panics or ...": a panic is what the code does with a log
  that was cut where it looks for a word. Where the log was cut inside a number, `TornLines`,
  what is left is taken for the number (`loadtest_controller.go:307`, 320, 326);
  that this is the only word taken short, and that it is never taken for the number of
  another line, is what the property says. `JsonIsTaken` excludes a brace outside the JSON.
- `EveryCronTestIsScheduled` accepts an entry of an earlier schedule: an edit does not
  replace it.
- `DistinctOrdersObeyed` is about distinct orders: a test whose order is taken is
  moved to the next free one, so that tests with the orders 10, 11 and 10 run as
  10, 11, 10 (`testrun_controller.go:127`).
- `OneAtATime` excludes `edit`, `childdelete` and `recreate`: a worker that starts the
  plan over makes a missing child again beside a later one, or walks another plan.
- `StopIsObeyed` excludes the same: the plan is walked again from a stale copy, a
  deleted child is made again, and a run made anew passes over the tests that its
  predecessor left, which are then collected and may be made again by a later pass.
- `LoadIsSerial` and `FinishedIsQuiet` exclude the same (`Untouched`), and
  `jobdelete`: a decided test that a resync brings back before its result is in the cache
  would be launched again, beside the next one, if its Job had been deleted by hand.
  `Operator` leaves the resync out, so that there `jobdelete` alone is harmless (TLC finds
  no violation without this exclusion), but neither property should rest on that.
- `OverUnlessRefused` excludes `recreate`, since the tests a run made anew passed over
  may be those of its predecessor. `OverUnlessRefused` and `FinishedIsQuiet` exclude
  `createfails`: `break` after a failed Create leaves the whole plan
  (`testrun_controller.go:179`), and the run is Finished.
- `EveryRunFinishes` excludes `delete` and `childdelete`: the wait for a child has no
  timeout.
- `EveryServerIsServed` allows `Stuck`: a Service that is removed before the wait
  loop has seen it is waited for without end (`server_controller.go:154`).
- `OneOperator` and `UpdateSparesLeader` exclude `apifails`, since `main.go:57` drops
  the error of `leader.Become` and works without the lock, against what the
  comment above the call says ("Become the leader before proceeding"); and
  `forced`, after which the process outlives its lock.

`UpdateSparesLeader` holds because the new pod is ready only once it is the leader: a
rolling update therefore waits until somebody deletes the old pod. `SomebodyWorks`
covers both that state and the way out of it.

**Bounds.** Keys: two, since the worker holds one key while others wait, and
properties relate at most two; one in `CurlDisturbed` and `ServerDisturbed`, which
are about several faults at once (Servers share nothing but the worker, and
`SettledServersAreServed` is proved for any number). Specs: two in `CurlDisturbed`
and `ServerDisturbed`, so that an edit matters. `MaxFaults`: one to four, so that
every allowed fault, or so many of them together, meets every interleaving.
`MaxJobRevisions`, `MaxChildRevisions` and `MaxRevisions` only make the garbage
collector rest (in `OperatorRun` it takes no Job at all, which the proofs cover); the other steps are bounded by the code itself (a test is decided
once, a Job ends once). In `RunTwoRuns` the collector takes children that are still
running and leaves decided ones of a deleted run. A run has two tests that ask for
the same place, the first of which stops the run when it fails. `MaxUid` in
`OperatorRun` only bounds the set a test's owner is from. `MaxEntries` keeps the
tests of a CronTest quiet once it has more entries than that, so that `MaxId`, the
entries in one life of the process, is never the reason why an entry is missing.
`MaxPods` is one pod to begin with and one for each fault that adds or costs one
(`update`, `delete`, `forced`), so that a missing pod is never why nobody works.
Orders 0..3 with up to four tests give every pattern of collisions and gaps a plan
can have up to renumbering of two tests of each kind. Three lines in a log are one
that sets a field, one that sets it again and one between or behind; `MCHalves` has, for each place
where the parser looks, a half that means something else than its word, or nothing. Runs with
`CHECK_DEADLOCK FALSE` really stop: a deleted resource, a Server that is served, an
operator at work, or a plan that was computed, leaves nothing to do. Keys are
symmetric in `LoadTwoTests`, which checks no liveness.

**Fairness.** Watches deliver and handlers enqueue (weak fairness): informers
reconnect and relist by themselves. The resync recurs (weak). The queue is first
in, first out, so a queued key is taken again and again unless the worker is
stuck: strong fairness of `Begin(k)` per key. The worker's own steps are not
suspended (weak). Jobs end: a curl is bounded in time and a load has a duration,
which is fairness of `Cluster(k)`; faults are excluded from it. Children of a
run get their result for the same reason, and in `Operator` through their own
controller. Nothing is assumed of users, faults or the CronTest's scheduler, and
CronTests, Servers and `OperatorRun` do not need the resync. In `Server`, `ChildReceived` is
strongly fair: it covers two watches, each of which delivers. In `Leader` a
candidate retries every few seconds and finds a moment when no lock exists
(strong fairness of `CreatesLock`); the kubelet, the ReplicaSets and the garbage
collector work (weak). That an update rolls over is not assumed.

## 4. The proofs

`tlapm` checks every step of the proof modules. The assumptions are the
named ones on the constants: keys differ from `NoKey`, `Blank` is a status,
what a run asks of a test differs from `NoSpec`,
`MaxFaults` and the other bounds are numbers, logs are sets of specs or sequences of
words, Success and Failure are statuses other than `Blank`, Finished is one, what a
TestRun asks for is a request (two finite lists of tests), the words of a log that mean
something mean one thing (`WordsAssumption`: no number, and nothing in the text between fortio's lines, is a
percentile, a rate, `Code` or `warmup)`; of other text that has such a word, as the
called server may print at debug level, nothing is claimed), and no half of a word is a
brace, or has `qps=` where the word has not (`HalvesAssumption`). There is no bound on tests,
specs, requests, revisions, pods or faults, nor on lines and their words. `RuntimeProofs` has the lemmas
about logs of revisions and the runtime's own steps that six of the others rest on.

| theorem | states |
|---|---|
| `TypeCorrect` of `CurlTestProofs`, `LoadTestProofs`, `OperatorProofs`, `CronTestProofs`, `ServerProofs`, `LeaderProofs` | `Spec => []TypeOK` |
| `IsATest` of `CurlTestProofs`, `LoadTestProofs` | `Spec => OneResult`, the refinement of `TestResult` |
| `NoTestIsLost` of `CurlTestProofs`, `LoadTestProofs` | `Spec => []NoLostTest` |
| `OneJobPerTest` of `CurlTestProofs`, `LoadTestProofs` | `Spec => []OneJob` |
| `CurlTestProofs!ResultsAreEarned` | `Spec => []ResultEarned` |
| `LoadTestProofs!EntriesAreKept` | `Spec => EntriesKept` |
| `LoadTestProofs!OnlyMeasuredIsFiled` | `Spec => []FiledIsMeasured` |
| `LoadTestProofs!SuccessesAreRead` | `Spec => []SuccessIsRead` |
| `LoadTestProofs!FiledIfAlone` | `Spec => []AloneIsFiled` |
| `LoadTestProofs!NumbersAreOfLines` | `ReadSpec => []NumbersInPlace` |
| `LoadTestProofs!WholeLogsAreRead` | `ReadSpec => []WholeLogIsRead` |
| `LoadTestProofs!JsonIsWhole` | `ReadSpec => []JsonIsTaken` |
| `OperatorProofs!NothingIsDropped` | `PlanSpec => []NothingDropped` |
| `OperatorProofs!OrdersAreObeyed` | `PlanSpec => []DistinctOrdersObeyed` |
| `OperatorProofs!TestsAreSerial` | `Spec => []OneAtATime` |
| `OperatorProofs!FailureStops` | `Spec => []StopIsObeyed` |
| `OperatorProofs!FinishedIsOver` | `Spec => []OverUnlessRefused` |
| `CronTestProofs!SchedulesAreKept` | `Spec => ScheduleKept` |
| `ServerProofs!SettledServersAreServed` | `Spec => []SettledIsServed` |
| `OperatorProofs!TestsAreAsTaken` | `OperatorSpec => RunSeesTests`, the refinement of `TestRun` |
| `OperatorProofs!RunsStayLawful` | `OperatorSpec => []` of `TestRun`'s four invariants |
| `OperatorProofs!LoadComesInTurn` | `OperatorSpec => []LoadIsSerial` |
| `OperatorProofs!FinishedRunsAreQuiet` | `OperatorSpec => []FinishedIsQuiet` |
| `LeaderProofs!OneLeads` | `Spec => []OneOperator` |
| `LeaderProofs!UpdatesSpareTheLeader` | `Spec => UpdateSparesLeader` |

*The test controllers.* The inductive invariant `TestInv` has three parts.
`TestTypeOK` is not enough by itself to show that a result is final: `updateStatus`
writes a copy read at revision `snap`, and one must know that this copy was
undecided. `SnapshotUndecided` says so for every state from taking the key to the
write; it survives steps of others because revisions are only appended.
`VerdictMade` says that what is written is not blank. Each step of the shared part
keeps `TestInv` (lemmas `...Keeps` of `TestJobProofs`), and each controller's
`NextKeeps` puts them together. A result is then final, and the status write a step
`Decides` of `TestResult`, because only a write from the latest revision is stored,
and that one is undecided.
`NoTestIsLost` needs two facts that hold until a status write fails by itself or
Complete is late: `TimelyCompletion`, a Job that succeeded is complete, and
`NoneForgotten`. So no path of Reconcile returns without a result, an error or a
newer revision on its way. `OneJobPerTest` needs `Numbered`, that an incarnation or
a Job is numbered by its first revision, and `LaunchStands`: a Job launched for the
test that exists is still there, so that a second Create is refused.
`OnlyMeasuredIsFiled` follows a verdict from the Job it was drawn from to the status,
the ConfigMap and the metrics (`MeasuredInv`).

`ResultsAreEarned` and `SuccessesAreRead` have to relate things read at different
times: the Job in the cache, the first pod of the list, and the copy of the test.
`JobsKept` of `TestJobProofs` does so. A test and its Jobs are of one incarnation
(`OneIncarnation`, `JobsOwned`, which is why `recreate` is excluded). Every pod is of
a Job that was launched (`AllLaunched`), and as no Job is deleted by hand, the first one
launched stays as long as the test does and keeps what it ended with (`JobStays`).
`ReadEnded` concludes that every pod in the list is that of the test's one Job, which
ended; `Backed` and `Earned` (in `LoadTestProofs`, `ReadInv`) carry it to the status.
What that Job ran was asked for because a Job is made from a copy of the test
(`SpecsAsked`), and all its copies have the same spec as long as nobody edits it or makes it anew
(`Unedited` of `RuntimeProofs`).
`FiledIfAlone` shows that a Success without an entry (`Missed`) is still in the hands
of the worker that will file it, or was dropped over a log with its braces out of order
(`PassedOver`), which nobody has in the case the property speaks of. The update of the
worker is not refused, because nobody else writes the ConfigMap: only its own entry
can have given it a second revision (`Filing`).

*Logs.* `TextUpTo` joins the words of the first lines, as a recursive function
(`JoiningExists`, as for plans below). Every word of the text is in one place of one line
(`LineAt`, `WordAt`), and a cut text is the beginning of it, perhaps with half a word
more (`Begins`). `LineMarks` says
which words of a line set something: each at one place of one kind of line, with the rest
of the line behind it for the reader to look at. A cut log agrees with the text but for its
last word, which may be half of one. So whoever reads without a panic reads lines that
are there to their last word, or to half of it (`SetByLine`); such a line always sets what
it stands for, that last word apart (`LineInLogSets`); and later lines lie further behind,
whence `LastLineWins`. `WholeOrTorn` says that these lines are the whole ones and
the torn one. That no whole text panics (`WholeTextIsRead`) is the same fact about places;
that no slice does (`SliceIsRight`) is that a closing brace, which is never a half of a
word, has the first word of its own line before it.

*Plans.* `Placed` is a recursive function over the tests of a request. The library's
theorem on recursive definitions takes an operator as a parameter, which is out of the
prover's reach, so `RecursionExists` builds the function itself, and induction over
numbers is `NatInduces` of `RuntimeProofs`: a set with 0 that is closed under successor
has all numbers, since the order of numbers is well-founded. By the same means a finite set of slots can be put in order, in one way
(`SlotsInOrder`), and a free slot is found (`SlotIsFree`). What follows of plans is in
`PlanComplete` and `PlanObeys`.

*TestRun.* `RunInv` has the types and, as long as nobody edits, recreates or deletes
under a run, four facts: a run keeps its request (`SameRun`); its tests stay, and
stay decided (`TestsStay`); no test exists before all those the plan has before it
have passed, that is, were decided and did not stop the run (`InOrder`); and the worker
has left only such tests behind (`WorkerInOrder`). Both `TestsAreSerial` and
`FailureStops` follow.
`FinishedIsOver` is about what was stored, and holds under edits and deletions too,
which take `RunInv`'s four facts away. Its invariant `Reported` says that the worker
has got, at some time, a result of every test it left behind, from a test of the run it
works on. The hard part is `LaunchFails`: a Create that is refused since the test is
there, but not yet in the cache, would end the run early. `Awaited` excludes it: a test
that is not in the cache yet is the one the worker waits for, and a restart empties
what the caches lag behind.

*Operator.* `TestsAreAsTaken` maps every step of the two controllers to one of `TestRun`
or to none (`StepsSeen`). `SeenInv` is what it needs beside `RunInv`: the children are
what `Views` shows of the tests, and the tests' worker holds a copy without a result
(`TestHeld`), so that a result it stores is the first of its test, and of a test that
exists: what `TestRun` calls a child that is decided. Everything proved of `TestRun` alone then
holds here (`RunsStayLawful`).
The Jobs are below what `TestRun` sees. `LoadInv` ties them to the tests: a Job was
launched for a test that existed (`Launched`), and a result is stored, or in the
worker's hands, only after a Job of that name has ended (`ResultsCome`,
`WorkerWaits`). As long as the run is untouched, a test and its Jobs stay while the run
exists, each Job owned by its test, and a Job that ended is not followed by another
(`JobsStay`). So a running Job is that of a test without a result
(`RunningUndecided`), of which a run has one at a time.
`FinishedRunsAreQuiet` adds that the results a run has got are of tests that existed
(`ResultsLived`) and that the run did not begin as Finished (`StatusesKnown`). A running
Job is of a test without a result, so the test that stopped the run would come
before it in the plan, and would have stopped it there.

*CronTest.* `IdsOwned`: ids are given in order, and what the map remembers for a
CronTest is never the id of another one's entry.

*Server.* `SeenTo`: a cache never moves without an announcement, so a Server that is
not announced is in the worker's hands, from a copy that is the cached one, or was
served as far as the caches show (`CacheServed`). With every cache up to date, and
nothing left for the garbage collector, that is being served.

*Leader.* `LockInv`: whoever is past the election holds the lock, and its pod's
record still exists. It is kept by the order in which pods are taken down.

*Only model-checked*: the liveness properties, which are out of the prover's reach.
Every invariant and action property of a passing run is proved.

## 5. What is not modelled

- Contents of `/tmp/metrics` and its web server: plain I/O. Which test the file
  speaks of is modelled.
- Command lines of Jobs, pod templates, labels: data no property speaks of.
- Rate limits and durations: a sleep is any finite delay.
- Errors of a cached Get other than "not found", which the informer's cache does not
  give, and of building objects in memory (owner references, JSON of a spec).
- Loss of the manager's connections: an informer relists, which is lag.
- LoadTests below a run in `Operator`: to TestRun they differ from CurlTests in their
  kind only; `OneResult` is proved of both.
- What the kubelet and the API server do beyond the steps named in `Leader`.
- Registry, types, generated deep copies, manifests: no behaviour.
