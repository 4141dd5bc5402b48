# Kinnector Warden: verification project

Warden (`wardend`) is a daemon that protects one server.  It consumes a stream of
kernel events from the telemetry core, watches the web roots for file changes, tails
the SSH log, and acts on the host: it kills processes, moves files to quarantine, adds
firewall rules and reports alerts to a local log, to webhooks and to a fleet console.
It is one process in which tokio tasks share concurrent maps, without a lock that
spans a whole operation, and nearly everything it knows of the host is late by the
time it acts.  That is what these modules are about.

## Inventory

| component | state | operations | interacts with | what is hard | what makes it correct | module |
|---|---|---|---|---|---|---|
| process table and termination (`heuristics.rs`) | `process_map`, `process_seen`, `listening_pids` | event handlers, clean-up task, `evict_stale_processes`, `terminate_threat_child` | telemetry socket, kernel, console switches | late events, recycled pids, lost events, three tasks on two maps | the tree is the true one, nothing escapes it, kills reach what was judged, nodes go away | `ProcessTracker` |
| containment of files (`allowlist.rs`, `fim.rs`, `quarantine.rs`, `upload_scan.rs`, `storage_discovery.rs`, file events of `heuristics.rs`) | `ALLOWED_INODES`, the directory, the quarantine directory and its sidecars | register, quarantine, restore, scan | inotify, telemetry, API | check by path then act by path, two watchers of one file, verdicts that come late, writes that fail unnoticed | unregistered files go, quarantined files can be restored | `Containment` |
| alert pipeline (`notifications.rs`, `audit.rs`, log streamer of `cloud.rs`) | `RECENT_ALERTS`, `audit.log`, `LOGS_BUFFER`, `DISPATCH_DEDUP` | `dispatch_alert`, `queue_log_entry`, streamer | every other component, cloud, webhooks | interleaved dispatch, lost answers, restart | audited before reported, nothing dropped before the cloud has it, suppression has a reason | `AlertPipeline`, `AtLeastOnce` |
| SSH blocking (`ssh_monitor.rs`, SSHAuth of `heuristics.rs`) | position in the log, `ssh_attempts`, iptables rules, sleeping tasks | tail, count, block, unblock | sshd's log, iptables, console, warden-cli | rotation, several rules for one address, timers that delete by address | every excess failure blocks, blocks last and end | `SshFirewall` |
| TLS forensic buffer (`tls_buffer.rs`) | `TLS_BUFFERS`, two byte limits | `add_record`, `flush_on_alert` | proxy, alerts, cloud | accounting under separate locks, a flush 30 s late | evidence is lost to the limits only, and from the old end | `TlsBuffer`, then `ForensicUploads` |
| containers and watchers (`discovery.rs`, watch commands of `fim.rs`) | `ACTIVE_CONTAINER_MOUNTS`, a channel per watcher | discovery at start, start and die events, watch and unwatch | Docker socket, watchers, allowlist, start-up | events lost between connections or before the watchers run, failed queries and watches, full channels | mounts are watched and allowed while their container runs, and not after | `WebRoots` |
| allowlist seeding, commit watcher (`allowlist.rs`) | `ALLOWED_INODES`, last HEAD | seed, `reseed_from_git`, recursive registration | git, inotify | commits while the watch is set up, several commits in one event, git that fails, the watcher that is faster | what is committed and on disk is allowed after an automated commit | `WebRoots` |
| storage discovery (`storage_discovery.rs`) | registry of storage paths, disabled roots | discover, register | host files | parsing | - | its effect only |
| console commands, inventory, forensic uploader (`cloud.rs`) | command stream, forensic files, uploads under way | commands, `send_inventory_sync`, `send_forensic_payload`, the retry | scanner, TLS buffer, all others | retries and double uploads, a kill between file and upload, a full disk, answers out of order | marked as uploaded only if it is, uploaded in the end, an inventory that was true | `CloudServices`, `ForensicUploads` |
| vulnerability scanner (`scanner.rs`) | alerts it raises | `run_scan`, `get_installed_packages` | lock files, advisory database, API, console, timer | ten formats, state between lines, names of ecosystems | every vulnerable package it can read is reported, and nothing else | `Scanner`, `LockFiles` |
| local API (`api.rs`) | none of its own | HTTP over a Unix socket | all others | bodies in a second packet | - | its requests are actions of `WebRoots`, `Containment`, `CloudServices` |
| start-up (`main.rs`) | - | the order in which tasks start | all others | tasks that run before what they need | - | `WebRoots`, `ProcessTracker` |
| SSH hardening, tty logger, FFI, warden-cli | - | - | - | parsing, I/O | - | not modelled |

`PROJECT.json` lists the hazards of each part at the line where it bites, with the
properties that cover it or the reason why none does.

## The modules and the code

### ProcessTracker

*State.* `process_map`, `process_seen`, `listening_pids` and `disabled_pids` are the
maps of the code.  `handler`, `cleanups` and `evictor` are the positions of the three
kinds of task.  `os`, `stream` and `connected` are the host and the telemetry core.
Each life of a pid has a number (`inc`); the fields `inc`, `web` and `root` of `os` and
`inc` of a node say what is really true and are never read by a modelled handler.  That
includes processes that run when the daemon starts: `Ancestry` gives them any true past,
also below an installation or a web server, of which `main.rs` seeds only web processes.
`unseen` marks those, and their descendants, whose past the engine never learns of.
`sigkill` is what the last step killed, and why.

*Actions.* One per event type of `handle_raw_event` that touches the table.
`ProcessCreate` is two steps (`HandleProcessCreate` reads the parent and refreshes
`process_seen`, `InsertAndJudge` inserts the node and applies the rules), since the
clean-up tasks and the evictor run in between; the clean-up task and the evictor are
cut at every access to a shared map.  `Terminate` is `kill(2)` by pid: it hits whoever has the
pid.  `Age` is 30 minutes passing.  `Activities` selects the rules that kill the acting
process: executable mappings, duplicated sockets, ptrace, opening of secrets.  Alert-only
rules do not change this state and are left out.

### Containment

*State.* A file system with one directory (`dir`: path to inode), a quarantine
directory (`qdir`, with the origin that the sidecar records, and `sidecar`), the
allowlist, the watcher's pending paths (`notify`) and the telemetry queue (`observed`).
A path is a name and the number of `.quarantined` suffixes.  Inodes are handed out
again when free.

*Actions.* The watcher (`FimEvent`), the telemetry loop (`FileOpen`, `FileWrite`,
`FileRename`) and each upload's scan (`Scan`, `Deregister`) decide; the calls they make
to `quarantine_file` are three further steps, `Move`, `Record` (the placeholder) and
`WriteSidecar`, and `restore_file` is three, because each touches the file system by path.
Both writes of `quarantine_file` may fail, which the code does not notice; `unrecorded`, a ghost,
are the files that have no sidecar for that reason.  `World` is the application, other
programs and the operator; `AllowlistAdd` and `AllowlistRemove` are the API's requests, of which no
event tells the watcher.  At the start a file may be there that git does not track, and is
then not allowed.  All processes that the telemetry reports are web processes,
and quarantine is on the same file system.

### AlertPipeline and AtLeastOnce

*State.* The four structures of the inventory, the streamer's request (`batch`), what
the cloud has (`server`), and the position of every alert (`pc`).  *Actions.* The steps of
`dispatch_alert` in the raising task, the steps of the task it spawns, the streamer's
`TakeBatch`, `Arrive`, `Retain` and `Drain`, a `Restart` that forgets all memory, and a
clock.  `writeln!` on an unbuffered file is two writes, `WriteLine` and `WriteNewline`.  Either
may fail, and `notifications.rs` queues the entry all the same; `unwritten`, a ghost, are the
alerts whose line is missing.
`AtLeastOnce` is what the streamer promises: entries are forgotten, oldest first, only
when the cloud has them, or by a restart.  `AlertPipeline` implements it with `pending` as the log
buffer and `delivered` as what the cloud has.

### SshFirewall

*State.* The log file, the file the monitor has open when it was renamed, the position,
the ages of the recent failures, the blocking tasks that have not added their rule yet
(`starting`), those that sleep (`timers`) and the number of DROP rules.  *Actions.* The
monitor's loop (`ReadLine`, `ReadEnd`, `CheckRotation`), the SSHAuth handler that
`ReadLine` calls, the two halves of `trigger_firewall_block`'s task (`AddRule`,
`DeleteRule`), and the console's and warden-cli's commands.  `ordered` and `unblocked` are
ghosts.

### TlsBuffer

*State.* The buffers of `TLS_BUFFERS`, the position of each connection in `add_record`
with what it has read so far (`adding`), the pids that are switched off, the task of each
alert.  `appended`, a ghost, is all that was ever appended.  *Actions.* `add_record` takes one
lock at a time, and so do its steps: `Receive`, `SumNext` and `FindNext` for each buffer in
the order of the map, `EvictLargest`, `AppendRecord`, which makes room in the process's own
buffer under the same lock.  `Alert` starts the task of `flush_on_alert`, `Collect` is its
waking up, perhaps late.

### WebRoots

*State.* `phase` is how far `main.rs` is.  `docker_events`, `git_events` and `fim_events`
are what is on its way to the daemon, `link` the connection of the event listener.
`mounts`, `commands`, `watched`, `allowed` and `git` are `ACTIVE_CONTAINER_MOUNTS`, the
channels of `FIM_WATCHERS`, what each watcher watches, `ALLOWED_INODES` and the git watcher's
task.  The ghosts name what the daemon cannot know: `blind` are the containers of which it
missed something (an event while disconnected, a failed query, a command dropped by a full
channel or before the watchers ran), until it sees another start; `unwatched` the directories on
which a watch failed, `dead` the web roots whose watcher could not be made; `unindexed` the files
tracked when git last failed the commit watcher; `touched` and `withdrawn` what an operator, or a commit in
a volume, had a hand in.  `trusted` are the web roots of which start-up allowed the tracked files
only, and `automated` what automated commits brought.

*Actions.* The six steps of start-up in the order of `main.rs`; the listener (`ReadEvent`,
`HandleStart`, `HandleStartUnknown` for a query without an answer, `HandleDie`,
`Disconnect`, `Reconnect`); the watchers' commands and the FIM event of a deployed file; the
git watcher in four steps, since HEAD, the commit and the index are read one after the
other while commits go on; the API's and the console's requests.  A web root is seeded from its
git index where there is one and git answers, otherwise with every file (`SeedAllowlist`), volumes included.
Docker's answer, watches, watchers and every git command may fail (`Fault`, bounded by
`MaxFaults`), each with what the code then does, which is mostly to go on.  A file is written, then committed, and
may be quarantined in between; commits in a container's volume are modelled by what they
allow (`VolumeCommit`).  Directories do not overlap, and a quarantined file is simply gone:
`Containment` has the rest.

### Scanner and LockFiles

`LockFiles` has both sides of each of ten formats (npm's two versions and pnpm's two make
twelve): `Written`, what the package manager writes for a list of packages, which is
external, and `Parsed`, what the scanner reads.  Readers that carry a name or a section from
line to line have an operator for one line (`PoetryLine`, `YarnLine`, `CargoLine`, `GemLine`);
`Read` is the loop over the lines, a recursive function of how many have been read.  A package may
come from a URL, which npm 1, pip freeze, Pipenv and pnpm write where the version is expected,
or not at all, and may have peers, which pnpm writes into its keys: `Written` does
what they do, and the readers make of it what `scanner.rs` makes of it.
`Scanner` finds the file, matches what was read with the advisories and raises alerts;
`run_scan` waits for nothing, so a scan is one step.  `ever`, a ghost, is what was ever
installed.

### ForensicUploads and CloudServices

*State.* For each alert with evidence, the step of its task (`flush`), its file's name
(`label`: nothing, `forensic_*`, `uploaded_*`) and contents, what the cloud has; the uploader
with what is left of its listing.  `torn`, a ghost, are files read, or left by a crash,
between `File::create` and the write, or cut short by a full disk.  *Actions.* The file is
created, written and sent by the task of the alert, which sends whether or not the file could be
created, and whether all of it, part or nothing could be written; the uploader lists, reads and sends; a request may be lost before or
after the cloud has stored it.  `CloudServices` adds the console's command stream, the
inventory syncs and a `Restart`, and composes them with `Scanner`.

## Runs

| run | asks | instance |
|---|---|---|
| `tracker_settled` | Is the tree true, does nobody escape, do kills hit their target? `TypeOK`, `InstallContextRooted`, `ViewIsTrue`, `NobodyEscapes`, `KillsOnlyJudged`, `CleanupHitsOnlyLeftovers` | 3 pids, one recycled, two that may run (and listen) before the daemon; installations, web servers (before the daemon, too), untrusted and protected shells and the rules that kill the acting process; no loss, no ageing, prompt reuse off |
| `tracker_lossy` | Liveness with lost events: `StaleNodesGo`, `LeftoversTerminated` | 2 pids, each given out once, that install and listen; one that the console switches off and on; ageing, a losing connection |
| `tracker_listener_pid` | violation: `WebVerdictsOnlyUnderWeb` | 2 pids, one recycled |
| `containment_project` | A committed file against everyone: `TypeOK`, `Restorable` | 1 file, there or not, committed and seeded or untracked, and its placeholder; 3 inodes; reads, writes, renames, deletion, `fim/register` and restore; 1.0 M states |
| `containment_uploads` | Liveness of containment: `UnregisteredGoes`, `ElfUploadGoes` | 1 script upload, 2 inodes, allowlist requests, no restore; 0.22 M states |
| `containment_cascade` | violation: `PlaceholdersStay` | two levels of placeholder |
| `pipeline` | `TypeOK`, `AuditedFirst`, `KeepsPromise`, `SuppressedForAReason`, `QueuedArrives` | 2 alerts of one key, a ring of 1, 1 restart |
| `ssh_firewall` | `TypeOK`, `BlockLasts`, `BruteForceIsBlocked`, `BlocksEnd` | 1 address, limit 1, up to 4 failures in a window |
| `tls_buffer` | `TypeOK`, `NothingLostBelowLimits`, `NoHoles` | 2 pids, 2 connections, 3 records of 1 or 2 bytes, limits of 2 and 3 |
| `web_roots` | `TypeOK`, `RunningIsWatched`, `StoppedIsForgotten`, `AutomatedIsIndexed` | 2 containers, one with a volume of its own that is a repository with a tracked and an untracked file, one with the host's web root, and a configuration directory of both; in the web root a tracked and an untracked file, and one to be deployed; 2 changes, 1 fault, channels of 3; 2.4 M states |
| `web_roots_deployed` | violation: `DeployedIsAllowed` | 1 container that mounts the web root, 2 files to be deployed, 2 changes, no fault |
| `cloud_services` | `TypeOK`, `NoPhantoms`, `DevOnlyWarns`, `VulnerableIsReported`, `InventoryWasTrue`, `UploadedIsInCloud`, `EvidenceArrives` | every format with 67 lists of one or two packages, 3 hidden lock files, 3 hosts with a console, 1 alert, 1 restart |

The three violations are disagreements between the code and its own comments:

- a listener's pid stays in `listening_pids` when it exits, so the next owner of the
  pid counts as a web server and its shell child is killed;
- the placeholder that `quarantine_file` leaves in the web root is an unregistered file,
  which the watcher quarantines, with a placeholder of its own, and so on;
- "newly deployed files are immediately allowed" (`allowlist.rs`), but the FIM watcher quarantines
  a new file on its event, before the git watcher judges the commit, and the index is only
  read for what is on disk.

What else the models have that a reader of the comments might not expect, without a run of
its own:

- An installation that runs when the daemon starts is not seeded (`main.rs` takes web processes
  only): what it starts afterwards is in no install context, and an installer among that counts as
  an installation of its own (`ProcessTracker`).
- `evict_stale_processes` removes a pid from `process_map` and then from `process_seen`, in
  the opposite order to `ProcessCreate`: between the two it can drop the entry of the pid's next
  owner and keep its node, which no eviction ever finds again (`ProcessTracker`).
- What a leftover of an installation starts after the clean-up has collected is
  tracked as part of the ended installation and terminated by nobody (`ProcessTracker`, three pids).
- `restore_file` moves the file into the watched web root and registers it afterwards: the watcher
  may judge it in between, and quarantine it again after the restore has been reported as
  successful (`Containment`).
- The watcher may quarantine an upload before `enqueue_upload_scan` registers it (`Containment`).
- A forensic file that the uploader reads before it is written, or that a full disk cut short, is
  marked as uploaded like any other and never sent again, whether or not the direct upload
  succeeded (`ForensicUploads`).
- Two tasks can put their audit entries on one line (`AlertPipeline`).
- The files of a human commit are allowed by the next automated one, while an automated commit
  that is followed by a human one before HEAD is read is not indexed until another; a container that
  mounts the web root makes every file in it allowed, and takes the watch away when it dies
  (`WebRoots`, which exempts shared mounts).

### Why these bounds

The interesting cases are races between a few actors over one object.  Two processes
give parent and child, and an owner of a recycled pid; three add a bystander.  A pid is
recycled once, which is enough for every use of a stale pid.  One file is enough because
paths do not interact except with their placeholder; three inodes let a file be
quarantined, replaced and restored while its inode is handed out again.  Two alerts of
one key race for a ring of one place, for one dedup entry and for one batch; a third
would add orders, not kinds of state.  One address is enough because addresses share
nothing but the log.  Two connections are enough for each to decide on a total that the
other makes out of date, and three records for a drop from either end.  Two changes
are enough for a container that starts and dies, or two commits that come as one event.  One fault
is enough because nothing tries a failed call again; with two, the container properties and the
commit property hold as well, each in an instance of its own (1.4 M and 1.2 M states).  Two packages
are enough for what one line leaves behind for the next; the versions include one that semver
does not parse.  Limits of the code (6 failures, 100 recent alerts, depth 2) are
constants, set to the smallest value at which they bite.

Bounds in guards, each at its constant: `MaxStream`, `Recycled`, `MaxShadow`,
`MaxObserved`, `Inodes`, `MaxTime`, `MaxRecords`, `MaxRestarts`, `MaxLines`, `MaxFailures`, `MaxChanges`, `MaxFaults`,
`StreamLimit`, one unblock while
tasks sleep, one scan of a path at a time, one requested inventory at a time.  Deadlock checking is off: bounded runs end
when their bounds are used up.

### Assumptions that a property needs, and what properties exempt

The first are constants, so that what fails without them can be seen by changing a cfg.

- `PromptReuse = FALSE` in `tracker_settled` and `tracker_lossy`: the host gives a pid out again only when no
  event in flight and no task of the daemon refers to it.  With `TRUE` and room for two events,
  `KillsOnlyJudged` fails: the clean-up task kills the new owner.
- `Recycled = {}` in `tracker_lossy`: with a recycled pid, `StaleNodesGo` fails as the evictor may
  drop the `process_seen` entry of a pid's next owner.
- `Ageing = FALSE` in `tracker_settled`: with `TRUE`, an evicted parent hides an
  installation from a child that is still in the stream, and `ViewIsTrue` fails.  So does
  `CleanupHitsOnlyLeftovers`, when the child is an installer of its own whose clean-up then
  reaches processes of the first installation.
- `OtherFiles = TRUE` in the containment runs: an empty allowlist allows everything, so with a single
  file and `FALSE`, `UnregisteredGoes` fails.
- `QuietRotation = TRUE` in `ssh_firewall`: nothing is appended to the old log between
  the last read and its rotation.  With `FALSE`, those lines are lost and
  `BruteForceIsBlocked` fails.  `LogFailure` also assumes that a new log does not outgrow
  the old position before the next poll.

The others are exemptions: behaviour the models have, and the property does not speak of, as
the code does nothing about it.

- `unseen` in `ProcessTracker`: `ViewIsTrue` and `CleanupHitsOnlyLeftovers` leave out what
  descends from an installation, or by way of another image from a web process, that ran before
  the daemon.
- `LeftoversTerminated` is about what is in the table when the clean-up collects, which it does
  once.  What a leftover starts between that and its own death enters the table as a process
  of the ended installation and survives.  `tracker_lossy` has too few pids for that; with three, and
  without ageing and listeners, the property holds as well (79 000 states).
- `unrecorded` in `Containment`: a file whose sidecar could not be written cannot be restored.
  No property says that a restored file stays, or that what was quarantined is what was judged.
- `UnregisteredGoes` is about files that the watcher is notified of while they are not allowed.
  No watcher looks around at the start or after `allowlist/remove`: an untracked file that is
  there, or one taken off the list, stays until something touches it.
- `unwritten` in `AlertPipeline`: an entry whose line could not be written reaches the cloud all the same.
- `Own` in `WebRoots`: the two container properties speak of mounts that no other container
  has, outside the web root, that neither an operator nor a commit in them touched, and of containers
  of which the daemon missed nothing (`blind`).  Requests begin when the watchers run.  A directory on which a
  watch failed is not claimed to be watched (`unwatched`, `dead`): nothing tries again.  What is to
  be allowed of a web root is `Expected`: the tracked files if it was a repository at start-up,
  else every file.
- `unindexed` in `WebRoots`: what was tracked when git failed the commit watcher stays out of the
  allowlist until it is indexed again, as the commit counts as judged.  And
  `AutomatedIsIndexed` is about files that are on disk; `DeployedIsAllowed` is not, and is violated.
- `Legible` and `Misread` in `Scanner`: what the readers cannot read of files that package managers
  write.  npm's nested packages, and in pnpm's files scoped names and names with peers, are read
  under another name or version; of packages that come from a URL, npm 1, pip freeze, Pipenv and pnpm
  give no version, or the URL in its place.  `VulnerableIsReported` is about the
  others, and `InventoryWasTrue` allows exactly these, and the constraints of gems, to be wrong.
- `torn` in `ForensicUploads`, as above: `UploadedIsInCloud` and `EvidenceArrives` do not speak of a file
  that was read before it was written, or cut short, and would be violated if they did.

### Fairness

Weak fairness stands for the tokio runtime: a task that can go on does.  In
`ProcessTracker` it is on the telemetry loop, on each step of the evictor, on each
clean-up task and on time (`Age`); nothing is assumed of processes, operator or
connection.  In `Containment` it is on each task; the watcher has strong fairness per
path because its channel is a queue, which comes to every notification although new
ones arrive.  In `AlertPipeline` the streamer retries every minute (weak) and does not
fail to reach the cloud for ever (strong on `Arrive`).  In `SshFirewall` it is weak on the
monitor and the blocking tasks; time has strong fairness, since a tick waits until the
log is polled.  In `CloudServices` the alerts' tasks and the uploader go on (weak), and of a
file's retries, which are endless, one arrives (strong on `RetryArrives`); nothing is assumed of
the direct upload, the console or restarts, which are bounded.  `WebRoots` needs none.

## Proofs

| theorem | module | states |
|---|---|---|
| `TypeCorrect` | `ProcessTrackerProofs` | `Spec => []TypeOK` |
| `InstallContextIsRooted` | `ProcessTrackerProofs` | `Spec => []InstallContextRooted` |
| `KillsReachTheJudged` | `ProcessTrackerProofs` | `Undisturbed /\ Spec => []KillsOnlyJudged` |
| `NobodyEscapesTheTable` | `ProcessTrackerProofs` | `Undisturbed /\ Spec => []NobodyEscapes` |
| `CleanupSparesTheRest` | `ProcessTrackerProofs` | `Undisturbed /\ ~Ageing /\ Spec => []CleanupHitsOnlyLeftovers` |
| `TheViewIsTrue` | `ProcessTrackerProofs` | `Undisturbed /\ ~Ageing /\ WithoutListeners /\ Spec => []ViewIsTrue` |
| `TypeCorrect` | `AlertPipelineProofs` | `Spec => []TypeOK` |
| `StreamerKeepsPromise` | `AlertPipelineProofs` | `Spec => KeepsPromise`: refinement of `AtLeastOnce` |
| `AuditComesFirst` | `AlertPipelineProofs` | `Spec => []AuditedFirst` |
| `SuppressionHasAReason` | `AlertPipelineProofs` | `Spec => SuppressedForAReason` |
| `TypeCorrect` | `ContainmentProofs` | `Spec => []TypeOK` |
| `QuarantinedIsRestorable` | `ContainmentProofs` | `Spec => []Restorable` |
| `TypeCorrect` | `SshFirewallProofs` | `Spec => []TypeOK` |
| `BlocksLast` | `SshFirewallProofs` | `Spec => []BlockLasts` |
| `TypeCorrect` | `TlsBufferProofs` | `Spec => []TypeOK` |
| `EvidenceHasNoHoles` | `TlsBufferProofs` | `Spec => NoHoles` |
| `BelowLimitsNothingIsLost` | `TlsBufferProofs` | `Spec => []NothingLostBelowLimits` |
| `TypeCorrect` | `WebRootsProofs` | `Spec => []TypeOK` |
| `AutomatedAreIndexed` | `WebRootsProofs` | `Spec => []AutomatedIsIndexed` |
| `RunningContainersAreWatched` | `WebRootsProofs` | `Spec => []RunningIsWatched` |
| `StoppedContainersAreForgotten` | `WebRootsProofs` | `Spec => []StoppedIsForgotten` |
| `TypeCorrect` | `CloudServicesProofs` | `Spec => []TypeOK` |
| `UploadedIsStored` | `CloudServicesProofs` | `Spec => []UploadedIsInCloud` |
| `FilesAreReadFaithfully` | `CloudServicesProofs` | what the readers return, for every format and list of packages |
| `AlertsAreTrue` | `CloudServicesProofs` | `Spec => []NoPhantoms` |
| `DevelopmentOnlyWarns` | `CloudServicesProofs` | `Spec => []DevOnlyWarns` |
| `TheVulnerableAreReported` | `CloudServicesProofs` | `Spec => []VulnerableIsReported` |
| `TheInventoryWasTrue` | `CloudServicesProofs` | `Spec => []InventoryWasTrue` |

With these, every safety property that a passing run checks is proved for every value of the
constants: every set of pids, images, alerts, files, containers and packages, every length of
the queues and all limits, any number of failing calls.  What they rest on are the named assumptions
of the modules, and the hypotheses in the table; the exemptions above are part of the properties:

- `Undisturbed` is `~Lossy /\ ~PromptReuse /\ Switchable = {}`: no event is lost, a pid comes
  back only when the daemon is done with it, the console switches nobody off.  `~Ageing` is that
  no process gets 30 minutes old.  `WithoutListeners` is that nobody calls `listen` after
  having started, and that pids in use when the daemon starts are not given out again, because
  `listening_pids` is never pruned.  `tracker_settled` is an instance of all of them, and none
  is there for the proof only: changed in that instance one at a time, TLC finds each of the four properties
  violated without each of the hypotheses its theorem has (`KillsOnlyJudged` with `PromptReuse` and
  `MaxStream = 2`, `CleanupHitsOnlyLeftovers` with `Ageing` among processes that start
  after the daemon).
- Sets that the code goes through are finite: the processes and connections of `TlsBuffer`, whose
  `MapOrder` lists each process once, and the directories of `WebRoots`.  `None` and the like are no
  element of what they stand beside.
- `VersionsAssumption` of `Scanner`: a gem's dependency constraint is not a version, and neither is a
  URL or the end of a pnpm key with peers; no advisory is for any of these.

*Recursion.* A recursive function on `0..n` is a `CHOOSE`, and says nothing until a function
with its equation has been shown to exist, by induction.  `Induction` states induction with
sets in place of predicates (`NatInduction` of the library takes an operator, which the provers
cannot instantiate): a set of numbers that has 0 and with `n` its successor has them all.  From
it come the existence of iterated functions (`Iterates`), their invariants, and the
sum over a finite set, which the community modules define by recursion along `CHOOSE`.  The
bytes of a buffer, the recent failures of an address, the commands queued in a channel and the loop over the lines of a lock file
are such functions.

*Process table, what nodes inherit.* `InstallContextRooted` speaks of nodes, but a node is inserted from what
was read of its parent one step earlier, when the parent may since have been removed.
The inductive invariant therefore adds `ContextRooted`, which says the same of the
handler's `ctx`.  `ContextOfRooted` and `ChildOfRooted` carry the property from a node to
the context and from the context to the new node.

*Process table, the books.* That a kill by pid reaches whom the node is about depends on what is
on its way.  `BooksInv` keeps the books of every pid: events in the stream name the current life of
their pid (`StreamCurrent`), of which a stop is the last (`StopsLast`); so do nodes and what the
handler holds (`MapCurrent`); a node of a process that has ended
has its stop in the stream, or a clean-up task that will remove it (`WillLeave`); a running process that started after the daemon
has a node, or its creation is in the stream or in the handler's hands (`Known`); the root of a clean-up has ended
(`RootsEnded`).  The lemmas `Books...` show these for one change of the table each, and the
handlers are compositions of such changes.

*Process table, the view.* `ViewIsTrue` compares nodes with the host.  `View` adds to the books that a child's
creation comes before its parent's stop (`ParentsFirst`), which is the reason why the parent's
node is still there when the child is judged, that everybody of an installation is known as long as its root
is (`FamilyKnown`), and that what is in the stream, in the handler's hands and among the victims of a
clean-up is as true as what is in the table (`RootTrue`, `WebTrue`).

*Streamer.* `Drain` removes as many entries as the batch had, from a buffer that grew
meanwhile.  That these are the entries that were sent is `BatchIsPrefix`: while a request
is under way its batch is a prefix of the buffer, and once it has arrived the cloud has
all of it.  With it every step is a step of `AtLeastOnce` or a stutter.

*Audit.* `AuditedFirst` needs `WrittenFirst`: an alert beyond the step that writes its
line is in the audit log.

*Suppression.* An entry of `DISPATCH_DEDUP` is read in one step and acted on in another.  `EntriesHaveOwners`
says whose it is: some alert with that key has passed the insertion, with that stamp.
`InsertedAreStamped` says that whoever is about to insert was let through.

*Containment.* `Restorable` needs `BusyWorkers`: only a call that has moved a file and not yet
come to its sidecar knows which, so no other step of any task takes its witness away, and
whether the placeholder is written does not matter.  `BusyRestore` is the same for the path
that a `restore_file` under way holds.

*Firewall.* That a sleeping task leaves its address a rule is not inductive: a task that
wakes up deletes *a* rule, not its own.  `RulesMatch` counts: an address has no more
rules than tasks that sleep plus the one the console ordered, and exactly that many
unless an operator deleted one while tasks slept.  An order is forgotten with the last
rule, which is why `Matches` also says that an ordered address has one.

*Evidence.* `IInv` of `TlsBuffer` says that a buffer is the end of what was appended to it
(`EndOf`) and within its capacity.  `NothingLostBelowLimits` is about the total, which
`add_record` sums up under one lock after another while others append.  `SumsInv` bounds what a
connection has counted so far by what had ever been appended to the buffers it has been through: a
sum may be out of date but never too high.  So no connection looks for a buffer to drop from
while everything ever received fits (`SearchInv`).

*Commits.* `AutomatedIsIndexed` speaks of an idle git watcher.  `GitInv` says what holds on the
way there: the allowlist is seeded before the watcher starts (`SeededFirst`), HEAD only
moves forward (`HeadMovesOn`), a HEAD that the watcher does not know has an event under way
(`NoCommitIsMissed`, which is why the watch comes before the first HEAD), and a known automated
HEAD is indexed (`HeadIsIndexed`): what is tracked and on disk is allowed, withdrawn or among what was
tracked when git failed (`Covered`), which `GitStepCovers` shows for each step of the watcher.

*Containers.* `RunningIsWatched` and `StoppedIsForgotten` speak of a daemon that is through with its
events.  `MountInv` says what holds before: what main.rs has started at each step (`Orderly`); the
last event about a container in the stream says whether it runs (`News`); and the last order
about a directory in each watcher's channel, or what it watches when there is none, is the one that `mounts` asks for
(`MountsDone`), unless a watch on it failed.

*Uploads.* A file gets its last name in the task of the alert or in the uploader, each after
an answer.  `Honest` says what each has reason to believe: the cloud has the evidence whole when either
has been answered, and what the uploader read is whole unless the file was torn, that is caught before the write or
cut short.

*Lock files.* `FilesAreReadFaithfully` is two facts about each format: everything read stands for a
package of the file or is one of the known misreadings (`Misread`), and every `Legible` package is read with its own version.
Where a format writes URLs, what a package leaves in the inventory is at most one
entry, its own or a misreading (`OneDep`, `UrlsFaithful`); pnpm's keys are gone through by name and peers (`PnpmReads`).
For the formats that are read line after line it goes from package to package: from
`FirstDeps(k - 1)` and no name, the lines of the `k`-th package lead to `FirstDeps(k)` and no
name (`BlockInduction`), which is what a name kept too long, or a constraint
taken for a version, would break.

*Scans and inventories.* `ScanInv` says of each alert that *one* package that was ever installed accounts for its name,
its version, its vulnerability and its severity, which `NoPhantoms` and `DevOnlyWarns` say
separately, and of each inventory, under way or in the cloud, that it was true.  That suffices because
`ever` only grows and a lock file keeps its format.

Only model-checked: the liveness properties (`StaleNodesGo`, `LeftoversTerminated`,
`UnregisteredGoes`, `ElfUploadGoes`, `QueuedArrives`, `BruteForceIsBlocked`, `BlocksEnd`,
`EvidenceArrives`), which are out of this prover's reach: they need `ENABLED` of the
fair actions.

## Not modelled

Text and formats (alert payloads, log lines, configuration); detection rules that only
alert; certificates and proxying; the parsing of host configuration; the
HTTP layer of the API; remote quarantine and restore
commands, which call the same functions as the local ones; audit mode beyond the
tracker's `Audit`.  In `Containment`, a quarantine directory on another file system, where
the rename of a file becomes a copy.  In `TlsBuffer`, the new
owner of a pid.  `global_capacity_mb` is not
stated as a property because it does not hold: with two connections that both see room,
or records of different lengths, the buffers together exceed it.  In `Containment`, the
exceptions for `wp-config.php`, compiled servers and disabled roots.  In `SshFirewall`, a restart of the daemon (rules stay, timers
are gone) and iptables commands that fail.

In `WebRoots`, `ACTIVE_CONTAINERS`, which only names containers in alerts; overlapping
directories; `HEAD` itself as a watched file, whose watch git's renaming ends; the steps of the
commit watchers of volumes, of which there is only what their commits allow.  In `LockFiles`,
what the readers do with files that no package manager writes, above all a `requirements.txt` written by
hand, whose bounds (`>=`, `~=`, `!=` and so on) `scanner.rs` takes for installed versions; local
checkouts (`pip -e`, npm's `file:`); pnpm's
version 9, yarn 2 and poetry 1.0's dependency tables, none of which they read as intended.  In
`Scanner`, the caret that semver reads into a bare version in an advisory.

Not modelled at all: the storage registry and how it is filled (its effect is in
`Containment`; the discovery is parsing of the host's files); the rule download, which swaps
the configuration behind one lock; `send_alert_immediate`, which changes no state;
`ssh_hardening.rs` and `tty_logger.rs`, which read and write files without a protocol;
`warden-cli`, a client of the API, but for its firewall commands, which `SshFirewall` has; the
layout of telemetry records.
