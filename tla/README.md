# A verification of incus-compose

incus-compose deploys compose files to an Incus server.  Beside the command
line tool the repository has two daemons it deploys with a project:
`ic-healthd`, which tests instances and restarts them, and `ic-dns`, which
serves their names.  This directory models the parts in which something can go
wrong that a test would hardly reach: what runs concurrently, what is retried,
what is read at one time and used at another, what a crash leaves behind.

`PROJECT.json` lists the components, the runs, the mutants that show each
property can be broken, the source lines of each definition, the findings, the
hazards and the theorems.  This file says how to read them.

## The system

| component | state it keeps | operations | hard because |
|---|---|---|---|
| healthd checker (`cmd/ic-healthd/checker`) | a map of instances: state, action, due time, context and deadline of the action in flight, failures, restart delay, last reported status | fold a lifecycle event, take a result, walk the map (watchdog, submit) | one loop against pool workers, status writers, a server and a compose client that all act on one instance |
| event source (`ievent/source`) | session, warm and drain commands | connect, reconnect, route events | a command raised in one session and applied in the next |
| debounce (`ievent/debounce`) | a window per key | hold, replace, let go | timers against drain |
| enricher (`ievent/enricher`) | read queue, retries, fleet archive, sweeps | read for an event, retry, sweep | reads overtaken by events |
| ic-dns (`cmd/ic-dns/dns`) | the fleet, trees of names, views and addresses, serials, the cold store | fold, publish, answer, write, transfer | trees that are patched and never rebuilt; a crash between publishing and storing |
| stack and pool (`client/stack.go`, `client/pool.go`) | resources, options; per batch a task channel and an error channel | add, filter, run an action | workers, fail-fast, tasks that outlive a run |
| resources (`client/resource_*.go`) | the last read of each resource | Ensure, Start, Stop, Pause, Delete, Backup, Restore | partial failure, waits for another instance's verdict, a cache and networks that projects share |
| volume lock (`client/resource_storage_volume_lock.go`) | a file in a volume | Lock, heartbeat, Unlock | processes on different machines, staleness instead of a lease |
| connection layer (`client/global_client.go`, `client.go`) | hooks, caches, the global project and its locks | connect, clone, lock, upgrade | shared between all commands on a host |
| commands (`cmd/incus-compose`) | none of their own | up, down, stop, start, restart, pull, backup ... | several runs, each of which may fail half way, beside other commands |
| project (`project`) | the compose model | order services, translate, place, hash | depends on what the cluster looks like now |
| iclient | connections, operations | call, wait for an operation | a lost or late completion |

How they meet: a command builds `client` resources from the `project`, puts
them into a `Stack` and runs one action after another.  Each resource calls the
Incus server through `iclient`.  The server emits lifecycle events; in each
daemon a chain (source, in ic-dns debounce, enricher, plugin) brings them,
together with a read of the instance, to the checker or to ic-dns.  The command
and ic-healthd communicate only through keys of the instance's configuration:
`user.healthcheck.*` (what to do), `user.healthcheck.stopped` (the marker of a
stop somebody asked for, written by the command, read by the daemon) and
`user.healthcheck.status` (the verdict, written by the daemon, waited for by
the command).  Commands meet each other only on the server: in the global
project (sidecars, image cache, locks), on shared networks, and in the backup
project.

What makes each part correct:

- checker: an action's slot is never orphaned; what is up is probed for ever
  and what crashed comes back; a crash loop backs off; only a policy restarts;
  the verdict on the server converges to the truth.
- chain: a read that is owed is never lost or made twice; the end of a round
  says the fleet was read whole; what is told of ends up right, whatever events
  were lost.
- ic-dns: what is served is what a rebuild would serve; nobody is told an
  address it cannot reach; while a zone is published its serial moves with the
  records; an orderly stop stores what was published.
- stack and commands: nothing is made before what it needs or deleted under
  what uses it; waiting tasks never starve the pool; success means success; a
  dependent is started after its dependency is healthy; volumes keep what they
  hold.
- rolling updates and placement: an update stays within its parallelism; an up
  that succeeds leaves what the file says; replicas are where they may be.
- locks and backups: a lock has one holder; a run whose manifest is whole can be
  restored, and what was taken with the services down is of one cut; a restore is
  whole or has failed.
- images: no platform's image is filed under another's alias in the cache, which
  keeps still under its lock.
- shared networks and sidecars: what one project set up survives the others'
  commands; a project is watched by one daemon; every command ends.

## The modules

| module | models | composes |
|---|---|---|
| `HealthInstance` | `instance`, `instanceConfig` and every way the checker rewrites one | |
| `HealthChecker` | the checker's loop, its workers, the server and the compose client | `HealthInstance` |
| `HealthStatus` | `reportStatus`, the write goroutines and the events by which writes come back | `HealthInstance` |
| `Enricher` | what the enricher's loop owns, and what each of its calls makes of it | |
| `EventChain` | the server, the source's sessions, the enricher's loop, read pool and sweeper, and what ic-dns has been told | `Enricher` |
| `DnsState` | what ic-dns's fold owns, and how it is patched | |
| `DnsAnswer` | queries and transfers from one snapshot | `DnsState` |
| `Dns` | the plugin's goroutine, its window, the cold store's writer, stop, crash and restart | `DnsAnswer` |
| `DnsSecondary` | what a secondary of a zone may hold while the zone comes and goes | `Dns` |
| `Stack` | `Stack.Run` and `WorkerPool.Run`, one step of one goroutine at a time | |
| `Deploy` | up, down, down --volumes, recreate, rebuild and restart; the tasks of instances, networks and volumes; ic-healthd as far as they meet it | `Stack` |
| `Placement` | where the replicas of a service go | |
| `Rollout` | successive ups: scaling, stale instances, rolling updates | `Placement` |
| `Mutex` | what a lock promises | |
| `VolumeLock` | the lock on a file in a volume, one step per SFTP call | refines `Mutex` |
| `Backup` | backup create, restore, delete and verify | `VolumeLock` |
| `Images` | one image ensured, built, refreshed and deleted by several commands | |
| `Networks` | the configuration of shared networks, their ACLs and peers | |
| `Sidecars` | up and down as far as they touch what projects share | `Networks` |
| `HealthCheckerProofs`, `EventChainProofs`, `DnsProofs`, `DeployProofs`, `BackupProofs`, `ImagesProofs`, `SidecarsProofs`, `RolloutProofs` | the proofs | their subjects |
| `MC*` | instances for TLC | |

### HealthInstance and HealthChecker

An instance is the record of `instance.go`, without its timestamps: `due`,
`over` and `startOver` say whether the due time, the deadline of the action and
the end of the start period have passed, and the clock sets them in actions of
its own (`DuePasses`, `DeadlinePasses`, `StartPeriodPasses`).  The restart
delay is kept as a number, in units of the default delay, because the backoff
is a property; failures are counted up to `MaxFailures`, above every `retries`
in use.  A raw configuration is one value per key that decides something;
`ParseFails` has every error of `parseInstanceConfig`.

The loop is sequential: `Fold*` (one per event), `Receive` (a result) and
`Timer` end an iteration, which walks the map instance by instance (`Visit`:
the watchdog, then a submission, which a full pool refuses).  While a walk is
unfinished (`todo # {}`) nothing else moves, because it makes no call.  A
worker takes one step per call to Incus (`Call`), is identified by its action
context like in the code, and hands over a result which the loop drops unless
the instance still holds that context.  The world: crashes, configuration
updates, creation and deletion, the two-step Stop, Start, Pause and Unpause of
the compose client (the marker, then the power), and faults of calls.

### HealthStatus

The same instance record, with what the handlers report: a write is a goroutine
(`Writers`) that lands or fails at any later time; each landing makes an
`updated` event, and one read serves every event that waits for one, as in the
enricher.  `status` is what the daemon remembers, `label` the key on the
server.  A restart is one step here, so the races inside one are
`HealthChecker`'s subject and not seen in this module.

### Enricher and EventChain

The enricher's state is one record (`Loop`): the line of events (`q`), the reads
out by key (`calls`) and where each of them is (held back for the first round in
`cold`, for its project in `pending`, refused by the pool in `waiting`, with a
`worker`, or among the `results`), the fleet as last read (`held`, `net`,
`proj`), the archive of what was last said (`arch`) and the keys that are due
another read (`due`).  `Accept`, `SettleRead`, `Send`, `Cancel`, `Flush`, `Done`
and the rest are functions of that record, named for the methods they stand for.

`EventChain` has one action per case of the loop's select (`Take*`), one per
call a pool worker makes (the instance and its state are two reads, with the
polling for an address between), one per step of the sweeper, and one per
operation of the source.  A sweeper is at a step where it asks the server or at
one where it says what it found.  A session that opens cancels the run and
starts another; `stray` is what the cancelled one still gets in, because Go's
`select` between a send and a cancelled context picks either.  The commands the
enricher raises (`raised`) go round to the source, which applies them also
between sessions and sends the round's end down the chain.

The server changes with an event (`Start`, `Restart`, `Update`, `Delete`,
`Profile`, `Subnet`) and without one (`Lease`).  An event that finds the stream
down or the inbox full does not get through.  `view` is what the plugin behind
was last told of each instance and `healthy` whether it has been told of a whole
round since the last break: ic-dns as far as it depends on the chain.

One project, one network, no filter on instances; debounce, the store, renames
and the drain at shutdown are left out.  The first session has just been taken
in at the start, and the store held nothing.

### DnsState, DnsAnswer and Dns

`DnsState` is the record the fold goroutine owns: the fleet it holds, how many
instances claim each view of each network (`over`), the tree of names with the
records of each view, the zones with their serials and counts, and the address
index.  A name is the sequence of its labels from the root, a
view the set of networks it spans.  `Apply` is `state.apply`: `TakeOut` what an
instance put in, `PutIn` what it is now; `Backfill`, `Forget`, `Render`, `Enter`
and `Leave` are the patches around it.  `DnsAnswer` is `ServeDNS`: the longest
zone, the querier's view by its address, what that view holds, and the zone
transfer with its serial check.

`Dns` is the plugin: `Tell`, `Disconnected` and `SweepEnd` put into the inbox
what the enricher hands over (a full inbox drops), `Fold` takes one and arms the
window, `WindowFires` writes what is pending, in any order, steps the serials
and publishes (`WriteOut`, which a drain ends with as well); `Take` and `WriteFile` are the writer of the cold store, with its
one-place slot.  A stop drains the inbox and waits for the writer, an abort does
not, a crash loses everything but the file, and `Restart` loads it.

`DnsSecondary` adds what has been sent of each zone since the chain is warm
(`sent`), to follow a zone which empties and comes back.

### Stack and Deploy

A run of a stack is a record; the operators of `Stack` say what receiving a
task, ending it, cancelling, opening and closing a batch make of it.  What is in
a run is a set: the order in which a batch is handed out is that in which the
stack's lists name its members first (`Before`), which is what a stable sort
leaves of it.  `Deploy`
is the state machine: a command is a sequence of phases (`Plan`), each a run
with its direction, its fail-fast and what the command does about an error
(`abort`, `join` it to the result, `ignore` it).  Earlier runs stay in `runs`,
because with fail-fast a run returns while its tasks go on.  A new client
(`newClient`, `Clone`) has read nothing.  `known` is `IsEnsured`; `exists`,
`running`, `marker`, `label` and `filled` are the server; `queued` is
ic-healthd's queued restart.  A volume is created in one step and filled from
its image in the next; a prefetch that fails takes its volume back.  Errors that
a command has asked to be ignored are successes here.  One replica per service;
`depends_on` with `service_healthy` only; profiles are resources of an earlier
batch, like the network, and left out.  Time is left out: a wait may time out at
any moment.  A start goes by whether the server has the instance running, where
the code asks what the client read last (`resource_instance.go:893`, 1891 for a
stop): nothing that is checked turns on the difference.

What a command has lost sight of is recorded for the properties: `lost` has the
services a read of which failed, which without create is taken for "not there",
and `late` those whose healthy verdict has outlived their stop, as ic-healthd may
be late to withdraw it.

### Placement and Rollout

`Placement` has the operators of `placement.go`: which members satisfy the
constraints, in which order the preferences deal them, and which target each
replica gets.  `Rollout` is a sequence of ups of one project with an edited file,
another `--scale` and members that go and come.  A command computes its plan
(`Resources`: names, targets, what each waits for, and which left-over replicas
are marked for deletion), ensures it, replaces the instances of an older
revision batch by batch, and starts what there is.  The phases are those of
`up.go`, the tasks of a phase go in any order, and those a failed phase left
running (`late`) end whenever they do.  `shaken` remembers that the cluster
changed under a service.  Health is taken to follow from running.

### Mutex, VolumeLock and Backup

`VolumeLock` has a step per SFTP call: the exclusive create, the stamp, the look
at another's stamp, the removal of a stale file, the heartbeat, and the two
calls of `Unlock`.  A file is who stamped it and whether the stale time has
passed.  `Mutex` is the lock users think of: taken when free, given up by its
holder or by its death.  `Abstract` is the refinement mapping: the holder is the
live process that has created and stamped the file.  The read and the removal of
`Unlock` do not fail here (`resource_storage_volume_lock.go:199-209`): what a
failure leaves is a file that ages, like that of a killed holder.

`Backup` runs create, create --live, restore and delete as processes over two
volumes and the metadata lock.  The content of a volume is the number of the
transaction the services have written to it; `OneCut` says the volumes agree.
A copy is a step of its own under the volume's lock and a snapshot another.  The
manifest is made empty under its own name (`OpenManifest`) and then copied into
(`CopyManifest`), and a failure or a kill in between leaves it `torn`; a restore
or a delete that meets one such file can read none (`ManifestsRead`).  A restore
picks a run, refuses when services run, and copies each volume back.

### Images

A command (ensure, up with a build, a forced or no-cache build, pull with a
policy, an image used without the cache, down with images) is a process with
the program counter of `Image.Ensure`: get the alias, then the image; on a miss
take the lock of the platform's alias in the cache, check again, pull from the
source, verify the architecture, write the OCI config, release, and copy to the
project (hop B), where another command may have been first.  An earlier run may
have left its copies, in a project also another platform's.  An image is its
fingerprint.  Two platforms may share one OCI label (`Fold`: arm/v6 and arm/v7).
The lock is the abstract one.

### Networks and Sidecars

`Networks` computes: the ACL names, a network's configuration after a patch, an
attach, a detach or a change of DNS records, peers on both sides.  `Sidecars`
has the steps.  A command is a list of requests; `Program` gives the list of
`up`, `down` and a daemon command, and steps such as `Lookup` and `HookEnsure`
put further ones in front, the way calls do.  What the code does when a step
fails is part of the step.  Every update of a configuration is a read and a
conditional write, tried again as often as the code does (`MaxTries`).  The
global project may be missing, current, or from before OVN, in which case an
`up` deletes and recreates it under its lock.

## The runs

| run | instance | shows |
|---|---|---|
| `checker_safety` | one instance, two workers, five configurations, one outside operation of any kind | `TypeOK`, `OwnedSlots`, `BackoffKept` |
| `checker_live` | one instance with a policy, two workers, one crash | `KeepsChecking`, `ComesBack` |
| `health_status` | two writers, a watched instance with or without a policy, one outside operation | `VerdictConverges`, `StopConverges` |
| `chain` | one instance, two pool workers, an inbox of two, one change of any kind | `ReadsAccounted`, `WholeBeforeReady`, `ProjectFirst` |
| `chain_break` | one instance, one worker, an inbox of one, one update, one broken stream or failed call | `ServesWhatIsThere`, `BecomesReady` |
| `dns` | two instances, two networks, two zones, eight kinds of event, an inbox of one, four events told, one restart | `Rebuilt`, `OnlyReachable`, `StoredLast`, `WindowArmed`, `SerialMoves` |
| `deploy` | three services in a chain on one network, all with a restart policy, the first with a volume, the second's verdict late, two workers, six commands, one fault | `NeverWaitsBehind`, `InOrder`, `TrueSuccess`, `DependenciesAwaited`, `DataKept`, `Completes` |
| `rollout` | two services, two ups, up to three replicas, one member that goes or comes, one fault, two workers; one server and a cluster of three | `Available`, `Settled`, `Placed`, `WaitsNamed` |
| `backup` | two processes, two volumes, every pair of commands that meet, one failure or crash | `Restorable`, `CutKept`, `RestoredWhole`, `IsMutex`, `Finishes` |
| `images` | two processes, one project or two, three platforms of which two share a label, every source, one failed call or crash | `RightArch`, `HopAStable`, `Configured`, `Ends` |
| `sidecars` | two commands in two projects, hosts with and without OVN, one fault | `Kept`, `Served`, `OneDaemon`, `Ends` |
| `sidecars_legacy` | two ups that both find a global project from before OVN, nothing fails | violation of `Ends` |

What each property says is above its definition.  `IsMutex` is a refinement: the
volume lock as `Backup` uses it implements `Mutex`.  The `TypeOK` of
`HealthChecker` is a property of a run and a theorem; those of the other modules
document the types and their invariants are what the runs spend their time on.
`PolicyOnly` is proved and is in no run.

**Why the bounds are enough.**  The checker treats instances independently but
for the pool and the order of a walk, so one instance with two workers has
every race between an action, its watchdog and its successor: two contexts in
flight are what a stale result takes.  `MaxOps` bounds what the world does on
its own, not what the daemon does about it: restarts, probes and events go on
without a bound, the line of events being capped at `MaxLine` where the world
adds to it.  In `checker_safety` the delay has two values, enough for a
doubling, the cap and a reset.  A failure can happen at every call (`fault`).

In `chain` the reads of the instance, its network and its project compete for
two workers, so that reads are refused, held back, joined and withdrawn, and
rounds follow each other without end, each of them reading everything again;
`MaxChanges` and `MaxTroubles` bound only the server and the network.  `MaxLine`
lets a new round begin when the line is short, which the sweep interval sees to.
`DueCap` is where `due` stops counting, not where it stops growing: a key taken
from a full count may be due still.

In `dns` two networks are what it takes for a view to appear, to be shared and
to go, two zones for one to be emptied under the other, and an alias that both
instances claim makes the ambiguous case.  Four events are two changes of each
instance, and a window may hold any of them together.

In `deploy` two workers are the smallest pool in which tasks overlap and the
largest that a chain of three can fill with waiting starts; one service waits
for two others.  Every service has a restart policy, and any of them that does
not run may have a restart queued in ic-healthd when the command begins, as after
a stop a moment ago.  The late verdict is the second service's, which waits for
one and is waited for by one.  Any call, wait or read fails, once in a command;
with two failures a prefetch whose volume cannot be taken back breaks `DataKept`
(below).

In `rollout` three replicas in batches of one and two make a batch that is not
full; the second up meets what the first left, whole or half done; an edited
file, another scale and a changed cluster come between.

In `backup` the services write up to `MaxContent` transactions, so that two
runs and the volumes between them can all differ.  `MaxLate` is 0: a live
holder's heartbeat comes before its file is stale, since it comes every third of the
stale time.  Two processes are one waiter behind one holder; what a second waiter
does to the lock is below.  In `images` a source has at most `MaxRev` revisions, so
that what a cache holds can be out of date.  In `sidecars` `MaxTries` bounds the
attempts at a conditional write, above the number of other writers, so that giving
up is seen only where the code gives up.

**Deadlock** is checked in `chain`, `chain_break`, `deploy`, `images` and
`sidecars`, where only commands that have ended stop (and say so).  The others
do not check it: once the operations are spent, a fleet with nothing to watch, a
DNS server nobody changes and commands that have all ended fall silent, which is
no error; where something must happen it is a liveness property.

**Fairness.**  Goroutines run on and calls return or are watched.
`HealthChecker!Fairness` asks this of each worker, of each instance's events,
of the clock and of the compose client's second step.  The conditions are
strong because a walk disables everything for no time, and because Go's
`select` picks at random among what is ready.  A probe the watchdog has an eye
on may hang for ever (`Hanging` is exempt).  A full pool refuses a submission,
but not every time.  `HealthStatus!LiveSpec` says a probe ends or is given up;
`AnsweringSpec` adds that a test does not hang every time, without which no
verdict is owed.  `Deploy!LiveSpec` needs only that while some step of the
command or a verdict of ic-healthd is possible, one is taken.
`EventChain!Fairness` says that every case of the loop's select that stays ready
is served (weak fairness, with the enabling condition written out), that reads
end (they have a timeout), that the sweeper's interval passes, and that the
source reconnects.  `Backup` is fair to each process (a command's calls return,
a waiter polls) and to the passage of time that makes a dead holder's file
stale; `Images` and `Sidecars` are fair to each command.  `Dns` and `Rollout`
have safety properties only.  Timeouts, faults, crashes and the outside world
are never assumed.

## What the runs found

The run `sidecars_legacy` expects a violation of something the repository says of
itself: when two `up` find a global project from before OVN, the second is handed
the global lock after the first's upgrade, returns early with it, and then waits
for it in its own next lock call. Its own heartbeat keeps the lock from going
stale, so it waits for ever and every other command that needs the lock waits
behind it (`sidecar.go:264`, `global_client.go:1445`).

### Counterexamples to run by hand

These configurations are beside the runs, each with one property that states what
the repository says and that TLC finds violated within seconds
(`tlc -config MCDeploy_policy.cfg MCDeploy`).  The properties of the runs are stated
around them, and say so.

- `MCDeploy_policy.cfg`, `DependenciesFirst`: a start clears the marker before it
  waits for its dependencies (`resource_instance.go:936`, 1384). ic-healthd, which
  has a restart queued since the stop and reads the marker only when it is due,
  may start the dependent first, against `healthd.md:904-906`.
- `MCDeploy_late.cfg`, `DependenciesFirst`: the wait reads the status key as it
  stands (1292). A verdict that ic-healthd has not withdrawn yet counts for the
  next life of the instance, so a `restart` may start the dependent before the
  dependency, against the same lines.
- `MCDeploy_rebuild.cfg`, `RecreateReplaces`: a read that fails passes for "not
  there" (572), so `up --build` exits 0 with the old instance in place, against
  `up.go:303-305`.
- `MCBackup_torn.cfg`, `ListsRuns`: a manifest is made in place and then filled
  (`backup.go:170`); a create killed in between leaves one that does not decode,
  and no run can be listed, restored or deleted after that (`backup.go:140-145` of
  the command, against its line 97).
- `MCVolumeLock.cfg`, `OneWins`: the stamp of a lock is read in one call and the
  file removed in another (`resource_storage_volume_lock.go:88`), so the slower of
  two waiters may remove the lock the faster has just made, against line 86.
- `MCDnsSecondary.cfg`, `SerialNamesRecords`: a zone that empties and comes back
  begins at serial 1 again, in one life of the plugin (`patch.go:118-135`); a
  secondary that holds it under that serial is told it is current, against
  `dns.go:283`.

### Also met

These are cases the code has, met while modelling.  Where a property would meet
one of them, the instance or the property's statement says that it leaves it
out, and the hazard in `PROJECT.json` has a note.

ic-healthd (`cmd/ic-healthd/checker/instance.go`):
- the stop event of the daemon's own restart makes the instance idle (444), and
  a second restart is submitted while the first is between its stop and start;
- a restart that has read the marker parks the instance although it has been
  started meanwhile (948); it then runs unwatched;
- the loop may wait for a place in a results channel that only it empties (404);
- an instance found stopped is parked (361), so a crash while the daemon was
  down is not repaired;
- the watchdog does not end an elapsed start period (674), so a test that hangs
  every time keeps its instance `starting`;
- the timer ignores the deadlines of actions in flight (752);
- `rand.N` panics for an interval below four nanoseconds (927).

The chain and ic-dns:
- a read in flight when its instance is deleted puts it back, and the "not
  found" of the next read drops it from the state without an event
  (`enricher.go:759-764`): the name is served for ever;
- a listing is compared with the fleet as held when it arrives
  (`enricher_sweep.go:63`);
- a command raised in a session that has ended is applied between sessions
  (`source.go:253`);
- a key that is due another read is entered once more (`retries.go:81`);
- after a restart every zone without a name at the first publication loses the
  serial that was loaded, too (`patch.go:118`);
- of two projects' services of one name on a shared bridge, each replaces the
  other's records.

Deploying:
- `--dependency-timeout` runs inside `--timeout` (933);
- a volume half filled when its command is killed, or when the deletion after a
  failed prefetch fails too, is taken for whole by the next ensure
  (`resource_storage_volume.go:338`); the deletion itself may take a volume
  another process has adopted meanwhile;
- an update none of whose batches gets past its teardown under
  `failure_action: continue` panics (`up.go:743`);
- a second up after a paused update, a gap after a half failed scale down, a
  `container_name` with a scale or added later, and a cluster that changed under
  `max_replicas_per_node` or global mode each leave less than the file says;
- a spread preference is uneven when its groups are (`placement.go:334`);
- in `project/instance.go`, `connectAddr` is carried from one port to the next,
  the second file of a volume of secrets is dropped with a `pre_start` hook, and
  the index of an eth device follows a map's order.

Locks, backups and images:
- a heartbeat writes without a look at whose file it is
  (`resource_storage_volume_lock.go:175`);
- a create that is not live and fails leaves the services stopped; the start at
  its end may start services under a restore, or ones that had been stopped;
- a delete that is killed leaves a manifest without restore points; a volume
  found on the server is backed up but not in the manifest;
- `pull` may take the cache's copy although it is out of date (`pull.go:150`,
  against `resource_image.go:29`); `PullNever` may contact a registry for the
  config;
- the label of a stored OCI image does not tell one 32-bit arm from the other, so
  an ensure for armv6 is content with armv7's copy in its project
  (`resource_image.go:718-721`, which says so);
- a process killed between the pull and `verifyArch` leaves an image of the wrong
  architecture in the cache; a rejected image is deleted by fingerprint, which
  another platform's alias may name; an OCI image used directly cannot change
  its platform; a no-cache build does not look at the image it ends with.

Sidecars:
- `detachACLs` deletes default actions the user has set; a down after
  `up --no-dns` fails on a host without the resolver's network;
- a sidecar replaced between its lookup and its ensure is created without its
  nic (`healthd_up.go:270`);
- the second of two upgraders may delete the project the first has recreated
  (`sidecar.go:287`).

## What is proved

The theorems hold for any sets of instances, resources, workers, volumes or
processes and any bounds.  They assume the named ASSUMEs of the modules, which
the runs evaluate, and what the tables say.  A `TypeOK` a theorem needs is part of
its invariant.

| theorem | states | assumes |
|---|---|---|
| `TypeCorrect`, `SlotsOwned` | `TypeOK`, `OwnedSlots` | |
| `BacksOff`, `RestartsByPolicy` | `BackoffKept`, `PolicyOnly` | |
| `ReadsKept` | `ReadsAccounted` | |
| `ProjectKnownFirst` | `ProjectFirst` | |
| `WholeRounds` | `WholeBeforeReady` | |
| `StopStoresLast`, `NothingWaits` | `StoredLast`, `WindowArmed` | |
| `StartsInLine` | `NeverWaitsBehind` | |
| `OrderKept` | `InOrder` | |
| `SuccessIsTrue` | `TrueSuccess` | |
| `VolumesStay` | half of `DataKept`: only `down --volumes` takes a filled volume | |
| `DataStays` | `DataKept` | the server does not fail twice |
| `StartsWait` | `DependenciesAwaited` | |
| `LocksExclude` | the volume lock implements `Mutex` | heartbeats in time; nobody killed, or two processes |
| `LocksAreMutex` | `IsMutex` | the same |
| `ListedIsRestorable` | `Restorable` | |
| `ListedIsOneCut`, `RestoresWhole` | `CutKept`, `RestoredWhole` | as `LocksExclude` |
| `CacheKeepsPlatforms`, `CacheKeepsStill`, `ConfigsKept` | `RightArch`, `HopAStable`, `Configured` | |
| `NeverTwice` | `OneDaemon` | |
| `SidecarsServe` | `Served` | the hosts need no upgrade: no old global project, no sidecar on an older image |
| `UpdatesKeepServing`, `UpsSettle` | `Available`, `Settled` | |
| `WaitsAreNamed` | `WaitsNamed` | no global service has a replica count |

What a theorem assumes beyond its module is a condition on constants (`DataStays`:
the faults of a command; the locks: `MaxLate`, `MaxCrashes` and the number of
processes; `WaitsAreNamed`: the files), or on the hosts a run starts from
(`SidecarsServe`).  Beyond it the property fails in the code, as the lists above
say.  The runs `deploy` and `backup` are within these conditions.
`rollout` has no global service with a replica count.  `sidecars` goes further than
`SidecarsServe`: it has hosts that need an upgrade, one up at a time.

**The checker** (`HealthCheckerProofs`).  The inductive
invariant is `IInv == TypeOK /\ OwnedSlots`.  Neither half is enough without the
other's company: a step keeps `OwnedSlots` because the context an instance holds
is that of one worker (`TypeOK` makes it one), and a worker is reused only when
free.  The argument goes by what a step may do: fold lemmas (an event never
takes an instance into an action and leaves the context alone), result lemmas
(whatever an action reports, the instance leaves the action and lets go of the
context; a stale result changes nothing), the walk (the watchdog releases and
cancels together; a submission takes a free worker) and the steps of the world,
which touch neither.  The action properties follow from the same invariant and
one lemma per way of rewriting a record: only a check result and the end of a
start period put the restart delay back, and only a policy makes a restart due.

**The event chain** (`EventChainProofs`).  The loop's operators are folds over the
line, the lists of reads and the names of a listing.  The library's induction takes
an operator, so each fold is brought back to the function it is the last value of
(`FoldTable`) and an induction to the least number that would break it (`UpTo`): a
fold lemma says that what each step leads from `J[m - 1]` to `J[m]` ends in `J[n]`.
What one call of the loop makes of its record is then a lemma per operator.

- `IInv == Typed /\ Sound(e, {}, {}) /\ First`.  `Sound(s, R, X)` says where the reads
  are: one that is out has one place, but those of `R`, which are between two; who
  waits in the line has one out, but those of `X`, whose answer is being taken; an
  instance's read is held back, and by the first round alone, until the round is
  warm.  An operator takes a read out of its place into `R` and puts it back, so the
  two sets are what makes `Send`, `Cancel`, `Flush` and `Done` lemmas of their own.
- `First` has what the project sets asked for before a run goes on, and what is held
  or in the line with it once a round is warm.
- `Rounds` is about who stays: whoever is in `stayed` was told of, or is in front of
  every round's end there is, in the line (`Whole`), in the inbox (`BoxWhole`), in the
  commands that are raised and in what a run has still to say (`RunWhole`).  What is
  hard is the archive, which lets an event that says nothing new go by: what is filed
  was told or leaves the line before whoever could be passed over for it
  (`FiledTold`), for any number of events that wait for one read.

**ic-dns** (`DnsProofs`).  `DnsInv` relates what was published to what is on its
way to the disk: the newest serials are in the slot, else being written, else in
the file unless a write failed (`Handed`), and what has arrived is written or the
window is armed.  It is independent of what the trees hold.

**Deploying** (`DeployProofs`).  `IInv` has layers, each inductive together with
those before it:

- `Base`: types; the pool (`PoolInv`: what is queued, in a worker's hands, failed
  or gone of each run adds up to its batch; only the last run can be in the middle
  of anything but a lookup that failed fast); and what each task in hand may count on.
- `Torn`: what a lookup, a stop or a delete has behind it is known, stopped or
  gone, or has an error to show for it, but for the services in `lost`, which the
  command takes for absent.
- `Brought`: what a start has passed is up, is new after a recreate, anew after a
  restart (the last two but for those in `lost`), and else there is an error that
  ends up in the result.  `TrueSuccess` is part of it, and has no condition on the
  faults: where a read is lost, `RecreateReplaces` fails (`MCDeploy_rebuild.cfg`) and
  what still holds is that everything else is new and everything runs.
- `Grounded`: a volume is whole or in the hands of the task that fills it, and
  whole under every instance.
- `Verdicts`: a healthy verdict is one of a running instance, and what a waiting
  start has ticked off has one, but for those in `late`.  `DependenciesAwaited`
  follows, for any policies and any late services, of the starts a command makes;
  those ic-healthd makes wait for nobody (`MCDeploy_policy.cfg`), and a command's
  start may take a late verdict for one on the next life (`MCDeploy_late.cfg`).

`StartsInLine` needs of the sort that it is stable and of the project that its
order is a topological one: a start that waits has everything it waits for in an
earlier place, so that some worker has it or has had it (`Before` is acyclic over a
batch).  The `Plan`s are evaluated phase by phase in lemmas of their own.

**The lock** (`BackupProofs`).  In `LockInv` a live owner is alone and its
record is fresh, a waiter that reaps has the stale record before it, and a record
goes stale only behind a process that died.  The step is shown from
`InTime` (no live holder's heartbeat is late) and `OneReaper` (of the waiters one
at a time has found a record stale), and both follow from a condition on the
constants, `Unraced`: no heartbeat is late, and nobody is killed or there are at
most two processes (`OneFinds`; two waiters and the dead holder they wait for would
be three).  The code has nothing in its place: the stamp is read in one call and
the file removed in another, so with three processes and a crash the lock is not a
mutex (`MCVolumeLock.cfg`).  `LocksExclude` is the refinement:
every step of the protocol is a step of `Mutex` or changes nothing of the holder.

**Backups** (`BackupProofs`).  There are three invariants, by how much of the locks
each needs.

- `PInv` needs none, for it is about a command's own run: what a create lists it
  has snapshots for, and a run that a delete has begun on is excepted (`doomed`).
  Timestamps are distinct, so no other create touches them.  `ListedIsRestorable` follows, under
  any crashes, faults, late heartbeats and reapers.  It says that what is listed
  can be verified, not that a listing can be had: a torn manifest takes it from
  everyone (`MCBackup_torn.cfg`).
- `IInv`: the snapshots of a listed run are of one cut.  A live create that has not
  listed its run yet, and a delete at work on one, keep what they stand on because
  of the locks alone (`LockInv`, under `Unraced`).
- `RInv`: a restore between its choice and its end keeps what it has chosen, and
  puts back volumes of one cut.

**Images** (`ImagesProofs`).  `IInv` has what is each process's own (`Own`) and
what is in the cache (`Sorting`).  A process is on its command's path and has its
platform's lock just while inside (`Path`, `Locking`); what it asks a registry for
has its platform (`Asked`), and what the holder of an OCI image's lock has read is
still there (`Steady`).  A cache alias names an image of its platform, or a process
with the lock is yet to look at it, or has died or failed to delete it.  `Steady` and `Sorting` need each other: a
refresh deletes by fingerprint, so it empties every alias that names the image,
and reaches another platform's only if two aliases name one image, which the
sorting of OCI images excludes.  Of the twenty steps that leave the locks alone it
is shown once what they make of the process (`Goes`) and of the cache (`Effect`).
`ConfigsKept` adds `CInv`: while no call has failed, a cache alias without its
config has a holder that is yet to store it, and so has the copy of a project
that a command has to itself.

**Sidecars** (`SidecarsProofs`).  That a command marks its project after it tore
the project's own sidecar down is only the order of its list, and a check between
the two may put an upgrade in front.  `IInv` therefore looks ahead (`AheadOK`):
in whatever a command has left to do, a mark for a daemon the project has a
sidecar of its own for comes after that sidecar's teardown.  The lists are
`TornFirst` when they start (`ProgramInLine`); what a step puts in front holds no
mark (`Quiet`); a first step done takes a teardown off the list only together with
the sidecar, since a teardown that fails ends its command; and what another
command of the project tears down only helps.  A mark that is first in its list
then has nothing to wait for.

`SidecarsServe` is about the end of every list, and looks ahead too.  Its `SInv`
adds to `IInv` that the hosts stay current (`HostsOK`), so no step starts an
upgrade and nobody deletes a sidecar another command needs, and that what is there
is on the image asked for and on the network (`InstOK`).  Of each list `FineOK` says
that it makes a sidecar without a nic only when that sidecar is there, that is
never, and that what it remembers of one sidecar is not put to use for the other
(`Tidy`), that an up ends at its first
failure (`Firm`), and that until a sidecar it wants serves, its lookup or its start
is still to come (`Pending`).  An up that ends well has an empty list, so nothing is
pending.  With upgrades this fails: the second of two upgraders deletes what the
first has set up, after the first has ended well.

**Rollouts** (`RolloutProofs`).  The placement and the batches are computed, so
their lemmas come first: what a service wants follows from the file, the cluster
and the command's own list of members (`Placements`, `WantedNames`); the plan has
that, each replica once, and behind it what is left over (`Planning`); the stale
replicas are cut into batches, each of one service and no larger than its
parallelism, and none is left out (`Batches`).  `Inv` then says where a command is:

- `DownInv`: of the replicas a pausing update found running, the ones down are in
  the batch at hand, and on their way back as far as the phase has come.  A batch
  that fails ends the update there, so no two batches' add up.
- `SettleInv`: while no batch was skipped, each replica wanted is held, and current
  or in a batch to come; those of the batch at hand are as far as its phase
  (`Midway`); and what is left over is deleted with the ensure (`Ensuring`).  The
  final start then leaves nothing to do.
- `Flow` keeps who is late to updates that have skipped a batch: a start or create
  that outlives its phase takes nothing down, but it may start what is not current,
  which is why `Settled` excepts them.

A step inside a phase changes one replica (`Within`); one lemma says what it leaves
alone, another what has to stand for the rest; a step to another phase (`Onward`)
changes none.  `RolloutAssumption` bounds the replicas asked for and the members by
`MaxIndex`, so that no count is cut off, and has what is deployed named as the file
names it: adding a `container_name` to a deployed service leaves its instances
behind under their old names, where nobody looks.

### Only model-checked

- Liveness, which is out of this prover's reach: `KeepsChecking`, `ComesBack`,
  `VerdictConverges`, `StopConverges`, `ServesWhatIsThere`, `BecomesReady`,
  `Completes`, `Finishes` and the two `Ends`.
- `Rebuilt`, `OnlyReachable` and `SerialMoves`: the trees are patched by folds over
  names and views, four deep.
- `Placed`: how `Deal` spreads the members is a recursion over the preferences,
  and what it computes for every list is an induction over data.
- `Kept`, which does not hold for any commands: the second of two upgraders
  deletes what the first has set up (above).  What the hosts must be for it is in
  the plan.
- `Served` on hosts that do need an upgrade: the run has them one at a time.

## Not modelled

Metrics, logging and progress output; jitter and the length of durations;
debounce and the drain of the chain at shutdown; the enricher's store, several
projects or networks in the enricher, renames there; the DNS wire format, TTLs
and NOTIFY; the two daemons' wiring; profiles, devices, file pushes and hooks;
builders, manifests and image configs as data; the translation of a compose file
into keys and devices; `run`, `pause` and the commands that only read; `iclient`
(a call that fails or whose end is not seen is a fault at each call of the other
modules); build-time tools.  The components in `PROJECT.json` give the reason
for each.

## Plan

1. Proofs: `Rebuilt` and `OnlyReachable` with the event chain's fold lemmas; `Kept`
   for any commands on hosts whose global project is current.
2. Models: debounce and the drain at shutdown; the enricher's store and several
   projects; the wait for an operation in `iclient`; `run` and `pause`; the
   rules of `network_acl.go`.
3. The enricher shown to implement the single read per event that
   `HealthChecker` and `HealthStatus` take it for.
