# OpenShell compute drivers: verification project

TLA+ models of the EC2 and KubeVirt compute drivers, TLC configurations that
check them on small instances, and TLAPS proofs for every size of instance.

## The system

A gateway talks gRPC to a driver process. The driver turns sandboxes into
virtual machines, remembers them in memory, enforces a limit on their number
and on their age, and tells subscribers about every change. Nothing is
persisted: the provider (Kubernetes or AWS) is the only durable state, and a
reconciler compares it with the registry all the time.

| component | state | operations | what makes it correct |
| --- | --- | --- | --- |
| registry (`pkg/safeguards`) | map of records, lease counter | Reserve, Add, UpdateIf, Rollback, DeleteIf, All, Expired; one mutex | capacity, one lease per occupation, an instance is never lost |
| watch fan-out (`pkg/safeguards`, `WatchSandboxes`) | channels with a buffer of 64 | Subscribe, Broadcast, RemoveWatcher, the stream handler | no lost event without a disconnect, no channel closed twice, subscribers converge |
| KubeVirt handlers (`drivers/kubevirt/driver.go`) | calls in flight | Create, Get, List, Stop, Delete | no VM without a record, a deletion is not undone, late calls do not touch newer sandboxes |
| KubeVirt reconciler (`drivers/kubevirt/watcher.go`) | one poll at a time | recover, update, remove duplicates, confirm absence, expire | a slot is freed only after three absences in a row, expired and duplicate VMs go |
| Kubernetes adapter (`drivers/kubevirt/kubeapi.go`) | VM, Secret, DataVolume | Launch, List, Stop, Terminate with retries | a retry resolves its own request and no other |
| EC2 handlers and reconciler (`drivers/ec2`) | as above, without leases | as above | as above |
| server (`pkg/server`) | semaphore, goroutines, the socket | Run, listen, the interceptors, shutdown | serves after the first reconciliation, returns every slot, stops in bounded time, exits as it was told |
| commands (`cmd`, `config.go`, `pkg/bootstrap`) | none | loadConfig, Validate, LoadTransportConfig | only a valid configuration starts, never plaintext unasked |
| sizing (`pkg/quantity`, `instancetype.go`) | none | parse, SelectInstanceType | the smallest type that holds the request |
| templates (`userdata.go`, `cloudinit.go`, `RenderSecurityBlock`) | none | render | |

Handlers run concurrently with each other and with the reconciler. They share
the registry and the provider. A registry operation is atomic; between two of
them, and around every provider call, anything can happen. That is where the
hard behaviour is: what a call read is stale when it writes, a provider call
may fail with or without its effect, a sandbox ID is reused while an older call
is still on its way, and the process may die between any two steps.
`PROJECT.json` lists these hazards with the line where each one bites.

## Modules

| module | models |
| --- | --- |
| `Safeguards` | the registry's critical sections as operators on a record map |
| `LeaseRegistry` | abstract specification: what the registry promises a driver |
| `KubeVirtDriver` | handlers, reconciler, cluster, clock and crashes of the KubeVirt driver |
| `KubeVirtProofs` | theorems about the registry of `KubeVirtDriver` |
| `KubeVirtVMProofs` | theorems about its VMs: what is tracked, and what ages |
| `WatchStream` | the event fan-out and the `WatchSandboxes` handler of both drivers |
| `WatchProofs` | theorems about `WatchStream` |
| `EC2Driver` | handlers, reconciler, AWS, clock and crashes of the EC2 driver |
| `EC2Proofs` | theorems about `EC2Driver` |
| `VMProvider` | abstract specification: what the KubeVirt driver may rely on when it launches and terminates |
| `KubeAPI` | the Kubernetes adapter: Launch and Terminate over Secret, VM and DataVolume; implements `VMProvider` |
| `KubeAPIProofs` | theorems about `KubeAPI` |
| `Server` | main, `server.Run`, its goroutines, the handlers, the socket, crashes and restarts |
| `ServerProofs` | theorems about `Server` |
| `Startup` | from flags and environment to a configuration, as operators |
| `Sizing` | from a request to an instance type, as operators |
| `SizingProofs` | theorems about `Sizing` |
| `MCKubeVirt`, `MCEC2`, `MCKubeAPI` | instances for TLC (`WatchStream` and `Server` need no definitions) |

### KubeVirtDriver

`records` and `nextLease` are the fields of `Registry`; an absent key is the
zero record, which the code returns too. `vms` is the cluster. `create`, `rpc`
and `poll` hold the local variables and the program counter of the calls and of
the reconciler. One action is one critical section of the registry or one
provider call, so the interleavings are those of the code:

* `CreateSandbox`: `CreateReserve`, `CreateLaunch` (or `CreateLaunchRefused`),
  `CreateLaunchFails`, `CreateCommit`, `CreateCompensate`, `CreateRollback`,
  `CreateBroadcast`. The VM is visible before `Launch` returns; or the create
  is not answered (`CreateUnanswered`), and the API server applies it at any
  time (`ApplyLate`): while `Launch` tries again, after it gave up, or after
  the process died. `late` holds these creates; a crash does not clear it. An
  existing VM is taken over only if it belongs to the same request: the request
  digest covers the rendered bootstrap data, which carries the expiry time in
  seconds, so `LaunchResult` requires the creation times to agree; one unit of
  the clock is at least that second.
* `DeleteSandbox`: `DeleteScan`, `DeleteMark` and `DeletePass` are
  `markLaunchingDeletion`, which copies the reservations and revalidates each
  one; then resolve, call, update and broadcast.
* `GetSandbox` and `StopSandbox`: `RpcStart` and the same steps. A request
  names one sandbox by ID or every sandbox that has a name (`Targets`).
* `poll`: one action per statement that touches the registry or the provider,
  from `PollList` to `PollDone`. `bySandbox` is a Go map and `All` iterates over
  one, so the order of sandboxes is free. The branch for terminal states is not
  an action: `normalizeVM` never reports `Deleted`.
* the environment: `VMChanges`, `VMGone`, `ApplyLate`, `Tick`, `Restart`.

`provider.Stop` only asks for the run strategy Halted: `RpcCall` leaves the VM
as it is, and `VMChanges` stops it later, or on its own. `Terminate` marks the
VM as going, and a call that fails may have had its effect.

Abstractions. `Failed` stands for `Succeeded` too and `Starting` for every
state before `Running`; the code treats them alike. Creation time 0 is a time
that cannot be trusted, be it absent or in the future. `MissingPolls` is only
compared with 0 and the threshold and saturates there. Text, conditions,
timestamps of transitions and logging are left out. `ListSandboxes` and the
validation calls change nothing. A poll that fails before the server listens
ends the process; its successor starts from an empty registry.

`tombstoned`, `absentRun` and `excused` are history variables; nothing but
properties reads them. `excused` holds the VMs that a call left behind when it
reported a failure, those that `ApplyLate` made, and the VM of a record that
`PollForget` dropped while it existed: a sandbox that the reconciler bound,
that vanished for three polls and is then launched by its late create keeps its
count of missing polls. A VM leaves the set when it is launched or tracked
again, or gone.

### EC2Driver

The same registry operators, the same step size, another driver: it compares
neither leases nor instances, so every update and deletion goes by sandbox ID
(`CommitAllowed`, `RpcUpdate`, `PollDrop`, `PollUpdate`, `PollMissing`,
`PollForget`, `PollExpireUpdate`). `resolve` ignores the error of `Add`.
`DeleteSandbox` does not look at launches in flight. `StopSandbox`,
`DeleteSandbox` and the reconciler broadcast what `Update` returned even when
there was no record; such a blank event names no sandbox and leaves
`published` alone.

AWS is external and modelled from how the driver uses it. An instance ID is
never used again; a terminated instance stays listed until it is `gone`. A
launch carries a client token, the hash of the sandbox ID and its token: if an
instance has it, `RunInstances` returns that one or refuses (the created-at tag
makes the parameters differ), otherwise it makes a new one. With `ListsLag`, a
new instance is missing from lists until `Appears`. `TerminateInstances` takes
all its IDs or none. Every call may fail with or without its effect.

### WatchStream

A sandbox is a version number, 0 when it is not tracked. A writer changes the
registry in one critical section and broadcasts what it wrote in another. A
channel is a sequence with a bound; closing keeps what is buffered, as in Go.
`panicked` records a second close or a send on a closed channel. The reconciler
and the handlers are several writers, so events can be broadcast in another
order than the changes were made. `overtaken` is a history variable: the
sandboxes whose last event in a client's channel was out of date when it was
broadcast, which is what that order costs.

### KubeAPI

One sandbox, since names are deterministic and two sandboxes never share an
object. A step is one API request. A call is a program counter, the object it
is creating (`kind`), the attempt (`tries`) and what the two loops remember.
`Create` and `Get` stand for both `createOrVerify` functions, which differ only
in the object. A create is applied, refused, finds the object, or is not
answered: then it may have been applied, or be applied later (`late`). The
error decides what follows: a transient one is resolved with `Get` and retried
up to `Attempts` times, an uncertain one is returned as it is, any other ends
the launch and drops the Secret this call made. `OwnSecret` finds the Secret by
name; if it fails, the launch goes on as a `Terminate`.

The request digest is the time of the call: the cloud-init text it covers has
the expiry time in it, in seconds. The driver keeps two launches of one sandbox
apart by its reservation (`LaunchStart`), and terminates only what it has seen.
Provisioning, the garbage collector and foreground deletion are external.
Requests that have neither an effect nor a decision of their own, such as a
throttled deletion that is tried again, are stutters. `faulty` and `disturbed`
are history variables. A fault is an answer that was lost, a deletion that
failed, or a crash; throttling is none, and neither is a refusal. A launch is
disturbed by a launch, a deletion or the late Secret of another request beside
it, and by a deletion that fails after it; not by what was over when it began.
A termination is disturbed by a launch beside it or later, and by a late create
of an object it has deleted (`Upset`); not by one that is still pending when it
begins. `List` and `Stop` are single requests with retries and are steps of
`KubeVirtDriver`. `VMProvider` is where the two modules meet: its `Make`,
`Answer`, `Delete` and `Remove` are what `CreateLaunch`, `Terminate` and
`VMGone` of that module do to one VM.

### Server

`pc` goes through main and Run: `config`, `initialize`, `listen`, `remove`,
`bind`, `select`, `drain`, `forced`, `returned`; a process may be `dead` from
any point on, and a supervisor starts it again. `serve`, `watcher` and
`graceful` are the goroutines and what they leave in their channels; several
outcomes of the select may be ready at once, and any of them is taken. gRPC is
external: it accepts until it is told to stop, `GracefulStop` closes the
listener, waits for `Serve` and then for every handler, `Stop` cancels the
handlers; while it drains, a stream may still be opened.

`path` is what is at the socket's path, across processes: nothing, a file, or a
socket, which is this process's, one that nobody listens on, or another
process's. `listen` takes three steps: `Inspect` is Lstat, whose
result is `found`, `Remove` unlinks, `Listen` binds; between them, and at any
later time, `Replace` puts a file or another's socket at the path. Any socket is
removed to make room. The cleanup and the closing of the listener unlink the
path by name, whatever is there by then.

The configuration comes from `Startup`: `Lines` is what an operator can give,
each setting by flag, by variable, by both or not at all, empty, unreadable, in
and out of its range, and the three transport settings in every combination.
Settings that the code treats alike are one setting there, and one rule looks
all of them up; that each of the nineteen lookups of the code follows it is not
checked. The maximum age, a duration as the poll interval is, differs from it
only in its upper bound and is left out. `DiskBits` is 32 in the code and may
be so in the proofs; the run uses fewer bits so that the wrapped number fits
TLC's integers. A provider that cannot be built, `--help` and `--version` end
the command as a rejected configuration does.

`Sizing` takes a quantity apart into a fraction and a unit and rounds memory up
to MiB. Its numbers are exact, those of the code are float64: the two can differ
for an amount within rounding of a size of the catalog, and for none of the
quantities listed. Its inputs are every combination of request and limit out of
readable, unreadable, missing and too large quantities, fractions of Pi among
them, and amounts on both sides of every size of a catalog. The multipliers of
P, E and Ei are there, but larger than the numbers of TLC, so no input has them.

## Runs

| run | instance | shows |
| --- | --- | --- |
| `kubevirt_reuse` | one sandbox, two creates, one delete, two reservations, deletions behind the driver's back | an ID that is reused while older calls are on their way: `LeasesUnique`, `MissingPollsAreConsecutive`, `NoUntrackedVM`, `ReleasedOnlyAfterAbsence`, `CommitsToOwnReservation` |
| `kubevirt_names` | two sandboxes with one name and one slot, two creates, requests that find and delete, undated leftovers of an earlier life, one create on its way without an answer, one crash, between two polls | `ImplementsLeaseRegistry`, `NoUntrackedVM` across the crash, `EveryRecordAges` |
| `kubevirt_liveness` | two VMs of one sandbox, healthy or failed, one create, one delete, the clock, every failure of a provider call | `ExpiredIsReleased`, `LeftoversAreFound`, `DuplicatesAreRemoved` (fair), `TypeOK` |
| `kubevirt_tombstone` | as `kubevirt_reuse` | violated: a poll undoes an acknowledged deletion |
| `ec2_reuse` | one sandbox, two instance IDs, two creates, one delete, lists that lag | `MissingPollsAreConsecutive`, `ReleasedOnlyWhenObserved`, `ImplementsLeaseRegistry`, `TypeOK` |
| `ec2_names` | two sandboxes with one name and one slot, two creates, all requests, leftovers, one crash, between two polls | `StartsReconciled` across the crash |
| `ec2_liveness` | two instances of one sandbox, young, beyond the maximum age or terminated, one create, one delete, lists that lag, every failure of an AWS call | `ExpiredIsReleased`, `LeftoversAreFound`, `DuplicatesAreRemoved` (fair) |
| `ec2_expired` | a terminated leftover and a create | violated: an expired sandbox is dropped before its termination is seen |
| `watch_fanout` | two writers, two subscribers, two sandboxes, buffers of two, three changes | `NoPanic`, `NothingSilentlyDropped`, `ViewConverges`, `TypeOK`, `SlowClientReconnects` (fair) |
| `kubeapi_launch` | two launches, one termination, two attempts each, one late create at a time, crashes | `LaunchedIsComplete`, `FailureLeavesNoSecret`, `TerminateLeavesNothing`, `ImplementsProvider`, `TypeOK` |
| `kubeapi_retry` | the same | violated: a retry is refused because of what an earlier attempt left |
| `server` | three calls for two slots, one watch stream, two starts, files and sockets of others at the path, every line of `Startup`, every request of `Sizing` | `SlotsMatchHandlers`, `RejectedOnlyWhenFull`, `NoHandlerOutlivesRun`, `CleanOnlyWhenAsked`, `ForeignFileKept`, `AlwaysStops` (fair), `PlaintextOnlyWhenAsked`, `SizedToFit`, `TypeOK` |

Bounds. `MaxReserve` limits the leases of creates: two are enough for every
race between a call and its successor under the same ID. `MaxNow` lets the
clock of `kubevirt_liveness` pass the maximum age of what the driver found at
its start; in `ec2_liveness` some of it is expired from the beginning and the
clock stands still. `MaxRestarts` is one crash at any point. `MaxLate` is one
VM create on its way in `kubevirt_names`, where the crash is, and none in the
other runs of that module: what a late VM does there, a leftover or one that a
failed call left behind does too. The view `WhatIsRead` of `kubevirt_reuse` and
`kubevirt_names` hides the last event and the acknowledged deletions, which no
action and no property of these runs reads. `Watching = FALSE` keeps
`kubevirt_names` and `ec2_names` to the first poll of a process and what
happens between it and the next; there the system may stop, so they do not
check for deadlock. `MaxRequest` stops the other requests of the EC2 runs: a
request and a poll can track and drop an instance in turn for as long as a
terminated one of the same ID is listed, each time with a new lease.
`Instances` bounds the number of launches there. Polls repeat without a bound.
The buffer of the fan-out is 2 instead of 64: one event below, at and beyond
the limit all occur. The fan-out run stops after `MaxChanges` changes, so it
does not check for deadlock either. `Attempts` is 2 instead of 5: one attempt
that is followed by another and one that is the last. `MaxNow` gives the two
launches of `KubeAPI` the same second or two different ones, and its `MaxLate`
lets one unanswered create wait. Calls of `KubeAPI` are made once, and a
process of `Server` is started `MaxStarts` times, so these runs end too. Three
calls for two slots are one more than fit.

Fairness. The watcher goroutine polls for ever, handlers run to their end, and
finalizers finish; AWS does what it accepted and lists what it launched (weak
fairness). A provider call that is repeated in every
poll succeeds in the end (strong fairness of that outcome); without it no
reconciler can promise anything. Clients, operators, guests and the clock are
not fair. A stream handler keeps running (weak fairness), but subscribers need
not subscribe again. In `Server`, Run and its timer go on, `GracefulStop` and
the `Serve` it has closed do, and a handler returns for certain only after
`Stop` has cancelled it; clients, signals and handlers before that are not fair.

What the violations mean. They are disagreements between the code and its own
tests, comments or README, quoted in `PROJECT.json`. `kubevirt_tombstone`: a
poll that lists the VM of a launch in flight writes `Starting` over
`delete-requested`, and the commit no longer sees the mark. `ec2_expired`:
while a terminated instance is listed, a new sandbox with the same ID is taken
for its duplicate, terminated and forgotten at once, because the EC2 driver goes
by sandbox ID. `LeftoversAreFound` shows what survives: no instance is lost for
good. `kubeapi_retry`: names are deterministic, but the digest is not: it
changes with the second. A Secret without a VM is never listed, so nobody
terminates it, and every retry for that sandbox ends in a conflict with it.

Four more disagreements have no run of their own; `hazards` has them with
their lines. Events of two writers overtake each other, and a subscriber keeps
the older state until the next event about the sandbox: `ViewConverges` has to
except such sandboxes (`overtaken`). A rollback is
not published. An EC2 launch whose record was dropped commits into the
reservation of a newer sandbox, because the lease it was given is thrown away.
And where the EC2 reconciler counts an instance without a creation time as
expired, a request that finds one the latest list missed records it undated:
such a record never expires, so `EveryRecordAges` is a property of
`KubeVirtDriver` only.

## Proofs

Seven modules hold the theorems. Every conjunct of their invariants was checked
with TLC on the instances above, or smaller ones of the same kind, before it
was proved. Conditions beyond the assumptions of the modules are written as
hypotheses of the theorem that needs them, and explained here.

### The registry of the KubeVirt driver

`KubeVirtProofs` proves for all sets of sandboxes, calls and VMs and for all
limits, under the assumptions the modules name:

* `Invariance`: `Spec => []IInv`, the inductive invariant;
* `TypeCorrect`, `LeasesAreUnique`: `TypeOK` and `LeasesUnique`;
* `CommitsAreOwn`: `CommitsToOwnReservation`;
* `ImplementsRegistry`: the driver implements `LeaseRegistry`;
* `CountsAreConsecutive`, `ReleaseNeedsAbsence`: `MissingPollsAreConsecutive`
  and `ReleasedOnlyAfterAbsence`, when a sandbox has one VM.

The argument. Every step does one of six things to the registry
(`RegistryEffect`): nothing, a reservation, a record found at the provider, an
edit that keeps the lease and never takes an instance away, a removal, or
emptying it. Uniqueness of leases and the refinement follow from that
classification alone. A commit compares leases, so that it meets its own
reservation follows from their uniqueness. To establish it one has to know that
a snapshot the poll acts on is of a committed record and that the sandbox it
works on was listed (`PollOnTrack`), that no call is in flight before the
server listens (`NobodyCallsEarly`), that a call in flight holds a lease
(`CreatesHoldLeases`), that a request only updates what it resolved
(`RequestsAreResolved`) and that an absent record is the zero record
(`AbsentIsZero`); otherwise an update by ID could bring back an absent entry.
`IInv` is their conjunction with `TypeOK` and `LeasesUnique`.

For the counts the invariant is `CountsAreSound`: in each phase of a poll it
says how far `missingPolls` of a record, and of the copy the poll holds, may be
from `absentRun`. `OneVMPerSandbox` is needed because a commit binds a record
to the name of its own VM; with a second VM the reconciler may have bound and
counted the other one, and the count then belongs to a VM the record no longer
names.

### The VMs of the KubeVirt driver

`KubeVirtVMProofs` builds on `IInv` and `CountsAreSound`, for any number of
sandboxes, calls, VMs and crashes:

* `NoVMIsLost`: `NoUntrackedVM`, when a sandbox has one VM
  (`OneVMPerSandbox`) and Kubernetes does not take a deletion back
  (`NobodyRevives`);
* `NoRecordEscapesTheLimit`: `EveryRecordAges`, with no such condition.

The argument. That a sandbox is tracked is not inductive: a record without an
instance may be rolled back at any time. `Kept` is stronger: every VM that is
alive has its sandbox on record *with an instance*, or the create that launched
it is in flight, or it is excused. A VM that is made late is excused, since no
step of the driver goes with it; a create that is on its way makes no VM
before. `OneVMPerSandbox` is needed because `PollForget` excuses one VM. Before
the server listens, `StartingUp` follows the first poll: it starts from an
empty registry and puts every VM of its list on record (`Covered`), every
record has been seen by it, so nothing is missing and nothing is forgotten. VMs
that come up later are launched by calls, and there are none yet.

For the creation times: a launch gives its VM the time of the call, also one
that is made late (`late` holds that time), so only VMs of earlier lives are
undated. The first poll puts those on record with a time
of its own, and while such a VM exists its sandbox keeps that record
(`UndatedAreHeld`), since no poll misses it and no call has to find it by
listing (`NoneMissesUndated`). So what calls write into records has a creation
time (`CallsAreDated`).

### The EC2 driver

`EC2Proofs`, for any number of sandboxes, calls and instances:

* `EC2Invariance`, `EC2TypeOK`: the inductive invariant and `TypeOK`;
* `EC2ImplementsRegistry`: the driver implements `LeaseRegistry`;
* `EC2CountsAreConsecutive`, `EC2ReleaseNeedsObservation`:
  `MissingPollsAreConsecutive` and `ReleasedOnlyWhenObserved`;
* `EC2StartsReconciled`: `StartsReconciled`, when lists are complete
  (`ListsAreComplete`) and an instance does not come back from its termination
  (`NobodyRevives`).

The refinement holds although the driver writes by sandbox ID and never
compares a lease: an update edits what it finds and keeps its lease, and where
there is no record `Update` does nothing. What such a write can do is to bind a
reservation to an instance of the same sandbox that its owner did not launch,
which the abstract registry allows; this is the disagreement about leases
above. The counts need no condition here, unlike those of the KubeVirt driver,
because they are raised, reset and compared by sandbox alone. `StartsReconciled`
excepts lists that lag in its comment, and `ListsAreComplete` is that
exception: an instance the first list does not show cannot be tracked.

### The fan-out

`WatchProofs`, for any number of writers, subscribers, sandboxes and changes
and any size of the buffer:

* `StreamInvariance`, `WatchTypeOK`;
* `NeverPanics`: `NoPanic`; `DropsNothingSilently`: `NothingSilentlyDropped`;
* `ViewsConverge`: `ViewConverges`.

`NoPanic` rests on `ChannelsAreHeld`: a channel is registered or closed and
never both. `NothingSilentlyDropped` compares sequences, so it needs that a
prefix stays one when both sides lose their head or the longer one grows.
`ViewsConverge` needs to know who still has news for a subscriber: a writer has
one event to send at most (`PendingIsSingle`), a stream
that reads its channel has sent its snapshot (`SnapshotIsSent`), and unless an
event about a sandbox is to be broadcast or the last one was out of date, its
last event in a channel is current, or else the snapshot or what the client
knows (`EveryoneIsInformed`).

### The Kubernetes adapter

`KubeAPIProofs`, for any number of launches, terminations, attempts, late
creates and crashes:

* `KubeInvariance`, `KubeAPITypeOK`;
* `LaunchedStaysComplete`, `FailedLaunchCleansUp`, `TerminateRemovesAll`:
  `LaunchedIsComplete`, `FailureLeavesNoSecret`, `TerminateLeavesNothing`;
* `AdapterImplementsProvider`: the adapter implements `VMProvider`.

The argument. `KubeInv` says what a call has, by its place in the code, and
that whatever the server may still apply was asked for by a launch
(`LateIsAsked`); the refinement follows from it step by step, one abstract step
for the request that creates, answers, deletes or removes the VM and a stutter
for the rest. Each guarantee has an invariant of its own. An undisturbed launch
is alone, its Secret stays until it fails, and what it returned no later launch
takes for its own (`UndisturbedIsAlone`). Without faults, a Secret with neither
an owner nor a VM is always some call's business (`SecretIsSeenTo`). And behind
an undisturbed termination nothing is made, so what it has deleted stays away
(`TerminationIsLast`).

### The server

`ServerProofs` proves for all sets of calls and streams, every limit, and every
number of starts:

* `ServerTypeOK`: `TypeOK`;
* `SlotsAlwaysMatch`, `RejectsOnlyWhenFull`: the semaphore holds one token per
  unary handler that runs, and a call is refused only when all are held;
* `HandlersEndFirst`: Run returns after the last handler;
* `CleanExitWasAsked`: Run returns nil only after its context ended;
* `ForeignFileIsKept`: a start that finds a file at its path leaves it there;
* `PlaintextIsAskedFor`: `PlaintextOnlyWhenAsked`, for every line an operator
  can give.

The argument. `SlotsMatchHandlers` compares a number with the cardinality of a
set: the set is finite because the calls are, `Counted` gives the types, and an
admission adds one element and a return removes one. `NoHandlerOutlivesRun`
needs to know that a finished graceful stop has found no handler running and
that none is admitted after it (`Quiescent`). `CleanOnlyWhenAsked` needs that a
nil `runErr` during the drain was earned, by a context that has ended
(`ErrorIsEarned`). `ServerInv` is their conjunction. `ForeignFileKept` needs
that a start which found a file, and has a path, gets no further than `Inspect`
(`PathInv`). `PlaintextIsAskedFor` is proved of `Load`, with `TypeInv` for the
line in use.

### The choice of an instance type

`SizingProofs` goes beyond the finite check of the run:

* `SelectionFits`: what the search of `SelectInstanceType` returns holds both
  requests and both limits, and it refuses only what it must, for every catalog
  and any four amounts;
* `SelectionIsSmallest`: no type of the driver's catalog that holds the amounts
  has a smaller footprint, for every amount;
* `AlwaysSizedToFit`: `SizedToFit`, which follows from these, with
  `RequestIsFitted` for the requests of the run.

They speak of amounts and not of texts, because the amounts of the model are
exact and the code's are rounded.

The argument. The search stops at a least element, first by vCPUs and then by
memory; it exists because both are natural numbers. A type with a smaller
footprint has more vCPUs, hence a third more at least in the EC2 catalog and
twice as many in the KubeVirt catalog, and so less memory. But the chosen type
of *n* vCPUs was chosen because the family below it has too little memory at
*n*, and what is left between the two is not enough for a third of *n* more
vCPUs. Two spellings agree because rounding up is the only whole number
between a fraction and one more (`RoundUpIsCeiling`), so it does not depend on
how the fraction is written.

### Only model-checked

The liveness properties (`ExpiredIsReleased`, `LeftoversAreFound`,
`DuplicatesAreRemoved`, `SlowClientReconnects`, `AlwaysStops`), because proofs
about fairness need `ENABLED`, which the prover does not handle. Every other
property of a passing run is stated by a theorem.

## Not modelled, and the plan

1. Proofs: the counts and the VMs of the KubeVirt driver with several VMs of
   one sandbox, which has to speak of the VM a record is bound to; the
   safety half of the liveness properties, such as that an expired sandbox is
   dropped only once its VM is gone.
2. Two processes at once, the old one stopping while the new one starts: the
   registry of each, and the socket that the old one's cleanup removes.

Left out for good: rendering of user data, cloud-init and the security block,
which is text (that it verifies the certificate again, and fails once it has
expired, is a `CreateLaunchRefused` of the drivers); the labels, tags and the
layout of the objects that are requested; pages of a list, which are one
answer; parsing of X.509; generated code and test support.
