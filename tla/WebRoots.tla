------------------------------ MODULE WebRoots ------------------------------
(***************************************************************************)
(* Which directories the daemon watches and which files it allows there:   *)
(* the start-up of main.rs, the Docker event listener of discovery.rs, the *)
(* watcher commands of fim.rs, the git commit watcher of allowlist.rs and  *)
(* the operator's requests (api.rs, cloud.rs).  They share the allowlist   *)
(* and the watchers, and none waits for another.                           *)
(*                                                                         *)
(* A directory is a model value; its files stay in it, and a file is its   *)
(* inode (Containment has inode reuse and the quarantine in detail).       *)
(***************************************************************************)
EXTENDS Integers, Sequences, FiniteSets, SequencesExt

CONSTANTS
    Containers,
    Dirs,            \* web roots, container volumes, configuration directories
    Root,            \* the web root of the configuration: a git repository
    WebMounts,       \* [Containers -> SUBSET Dirs], destination html, www, public
    ConfMounts,      \* [Containers -> SUBSET Dirs], destination conf, etc, settings
    Files,
    DirOf,           \* [Files -> Dirs]
    Deployed,        \* files of Root that are not there at first
    Tracked,         \* files that git tracks at first, in Root and in volumes
    None,
    QueueCap,        \* 64: commands that a watcher's channel holds (fim.rs)
    MaxChanges,      \* bound: starts, deaths, commits and requests in all
    MaxFaults        \* bound: system calls and git commands that fail

ASSUME WebRootsAssumption ==
    /\ Root \in Dirs
    /\ WebMounts \in [Containers -> SUBSET Dirs]
    /\ ConfMounts \in [Containers -> SUBSET Dirs]
    /\ DirOf \in [Files -> Dirs]
    /\ Deployed \subseteq {f \in Files : DirOf[f] = Root}
    /\ Tracked \subseteq Files \ Deployed
    /\ IsFiniteSet(Dirs)
    /\ {QueueCap, MaxChanges, MaxFaults} \subseteq Nat

VARIABLES
    \* the host
    running,         \* containers that run
    present,         \* files on disk
    written,         \* files that were ever written
    head,            \* HEAD of Root: [n: its number, auto: classify_commit(info)]
    tracked,         \* git ls-files --cached, in Root and in volumes
    \* what is on its way to the daemon
    docker_events,   \* the open stream of /events
    link,            \* "off", "up", "down": the listener's connection
    git_events,      \* inotify events of .git/refs/heads
    fim_events,      \* inotify events of Root's files
    \* the daemon
    phase,           \* how far main.rs is
    web_roots, config_dirs,
    listing,         \* the containers in Docker's last answer
    mounts,          \* ACTIVE_CONTAINER_MOUNTS
    listener,        \* the event that the listener handles
    commands,        \* FIM_WATCHERS: a channel for each watcher that was started
    watched,         \* by watcher: the directories it watches
    allowed,         \* ALLOWED_INODES
    git,             \* the git commit watcher's task
    \* ghosts
    blind,           \* containers of which the daemon missed something, until it
                     \* gets to know of another start
    touched,         \* directories that a request, or a commit in a volume, was about
    withdrawn,       \* files deregistered by an operator or with a container
    trusted,         \* web roots of which start-up allowed the tracked files only
    unwatched,       \* directories on which a watch failed
    dead,            \* web roots whose watcher could not be made
    unindexed,       \* files tracked when git did not answer the commit watcher
    automated,       \* files that automated commits brought
    changes,         \* how often the host or the operator changed something
    faults           \* how often a call failed

host    == << running, present, written, head, tracked >>
inbound == << docker_events, link, git_events, fim_events >>
startup == << phase, web_roots, config_dirs, listing >>
failed  == << unwatched, dead, faults >>
ghosts  == << blind, touched, withdrawn, trusted, failed, unindexed, automated, changes >>
vars    == << host, inbound, startup, mounts, listener, commands, watched,
              allowed, git, ghosts >>

Commits  == [n : -1..MaxChanges, auto : BOOLEAN]
DockerEvents == [act : {"start", "die"}, c : Containers]
Commands == [kind : {"watch", "unwatch"}, dir : Dirs]

\* None stands for no watcher, no mounts and no event.
ASSUME NoneAssumption ==
    None \notin Seq(Commands) \cup DockerEvents /\ \A ds \in SUBSET Dirs : ds # None

FilesIn(d) == {f \in present : DirOf[f] = d}
Idle       == [event |-> None]
Phases     == {"discover", "register", "listen", "seed", "git", "watch", "ready"}
NoCommit   == [n |-> -1, auto |-> FALSE]

\* A call fails, or does not.
Fault(fails) ==
    /\ fails => faults < MaxFaults
    /\ faults' = IF fails THEN faults + 1 ELSE faults

-----------------------------------------------------------------------------
(* The allowlist and the watchers, as the daemon's tasks call them. *)

\* walk_seed for register_path_recursive, nothing as long as seed_inode_allowlist
\* has not set ALLOWED_INODES.
Seeded == phase \in {"git", "watch", "ready"}
Registering(dirs)   == IF Seeded THEN UNION {FilesIn(d) : d \in dirs} ELSE {}
Deregistering(dirs) == IF Seeded THEN UNION {FilesIn(d) : d \in dirs} ELSE {}

\* (Variant: only the configuration directories are remembered.)
Mounts_ConfOnly(c) == ConfMounts[c]

\* What register_container_mounts gets for a container.
Mounts(c) == WebMounts[c] \cup ConfMounts[c]

\* add_fim_watch_path and remove_fim_watch_path for each directory of a
\* sequence: a command to every watcher that runs, unless its channel is full.
Command(kind, d) == [kind |-> kind, dir |-> d]
Queued(w, kind, dirs) == commands[w] \o [i \in DOMAIN dirs |-> Command(kind, dirs[i])]

\* (Variant: a full channel takes the command all the same.)
Broadcast_Unbounded(kind, dirs) ==
    [w \in Dirs |-> IF commands[w] = None THEN None ELSE Queued(w, kind, dirs)]

Broadcast(kind, dirs) ==
    [w \in Dirs |-> IF commands[w] = None THEN None
                    ELSE LET q == Queued(w, kind, dirs)
                         IN  SubSeq(q, 1, IF Len(q) <= QueueCap THEN Len(q) ELSE QueueCap)]

Delivered(dirs) ==
    /\ \E w \in Dirs : commands[w] # None
    /\ \A w \in Dirs : commands[w] # None => Len(commands[w]) + Len(dirs) <= QueueCap

\* git_index_into: every tracked file of a directory that is on disk.
GitIndex(d) == tracked \cap FilesIn(d)

-----------------------------------------------------------------------------
(* Start-up (main.rs) *)

Init ==
    /\ running \in SUBSET Containers
    /\ present = Files \ Deployed /\ written = present /\ tracked = Tracked
    /\ head = [n |-> 0, auto |-> FALSE]
    /\ docker_events = << >> /\ link = "off" /\ git_events = 0 /\ fim_events = {}
    /\ phase = "discover" /\ web_roots = {Root} /\ config_dirs = {} /\ listing = {}
    /\ mounts = [c \in Containers |-> None] /\ listener = Idle
    /\ commands = [w \in Dirs |-> None] /\ watched = [w \in Dirs |-> {}]
    /\ allowed = {} /\ git = [pc |-> "off", last |-> NoCommit, current |-> NoCommit, first |-> NoCommit]
    /\ blind = {} /\ touched = {} /\ withdrawn = {} /\ trusted = {} /\ unwatched = {}
    /\ dead = {} /\ unindexed = {} /\ automated = {} /\ changes = 0 /\ faults = 0

\* discover_docker_containers: the answer of GET /containers/json, or none.
Discover ==
    /\ phase = "discover"
    /\ phase' = "register"
    /\ \E answered \in BOOLEAN :
          /\ Fault(~answered)
          /\ listing' = IF answered THEN running ELSE {}
          /\ blind' = IF answered THEN blind ELSE running
    /\ UNCHANGED << host, inbound, web_roots, config_dirs, mounts, listener, commands,
                    watched, allowed, git, touched, withdrawn, trusted, unwatched, dead,
                    unindexed, automated, changes >>

\* (Variant: the web roots of the containers are not added.)
RegisterListed_MountsOnly ==
    /\ phase = "register"
    /\ phase' = "listen"
    /\ config_dirs' = config_dirs \cup UNION {ConfMounts[c] : c \in listing}
    /\ mounts' = [c \in Containers |-> IF c \in listing THEN Mounts(c) ELSE mounts[c]]
    /\ UNCHANGED << host, inbound, web_roots, listing, listener, commands, watched, allowed,
                    git, ghosts >>

\* Each listed container's mounts become web roots and configuration directories.
RegisterListed ==
    /\ phase = "register"
    /\ phase' = "listen"
    /\ web_roots' = web_roots \cup UNION {WebMounts[c] : c \in listing}
    /\ config_dirs' = config_dirs \cup UNION {ConfMounts[c] : c \in listing}
    /\ mounts' = [c \in Containers |-> IF c \in listing THEN Mounts(c) ELSE mounts[c]]
    /\ UNCHANGED << host, inbound, listing, listener, commands, watched, allowed, git,
                    ghosts >>

\* start_docker_event_listener: the task makes its first connection on its own.
StartListener ==
    /\ phase = "listen"
    /\ phase' = "seed" /\ link' = "down"
    /\ UNCHANGED << host, docker_events, git_events, fim_events, web_roots, config_dirs,
                    listing, mounts, listener, commands, watched, allowed, git, ghosts >>

\* seed_inode_allowlist: for each web root what git_index_into finds, and every file
\* where it finds nothing or git fails.
SeedAllowlist ==
    /\ phase = "seed"
    /\ phase' = "git"
    /\ \E failing \in SUBSET web_roots :
          /\ Fault(failing # {})
          /\ trusted' = {d \in web_roots \ failing : GitIndex(d) # {}}
          /\ allowed' = {f \in present : /\ DirOf[f] \in web_roots
                                         /\ (DirOf[f] \in trusted' => f \in tracked)}
    /\ UNCHANGED << host, inbound, web_roots, config_dirs, listing, mounts, listener,
                    commands, watched, git, blind, touched, withdrawn, unwatched, dead,
                    unindexed, automated, changes >>

\* start_git_commit_watcher spawns a task for the repository.
StartGitWatcher ==
    /\ phase = "git"
    /\ phase' = "watch" /\ git' = [git EXCEPT !.pc = "spawned"]
    /\ UNCHANGED << host, inbound, web_roots, config_dirs, listing, mounts, listener,
                    commands, watched, allowed, ghosts >>

\* The last watcher that main.rs starts.
LastOf(w) == \A v \in web_roots \ {w} : commands[v] # None \/ v \in dead

\* start_fim_watcher for a web root: its channel, its web root, the directories; a
\* watch that fails is not tried again.
StartFimWatcher(w) ==
    /\ phase = "watch" /\ w \in web_roots \ dead /\ commands[w] = None
    /\ commands' = [commands EXCEPT ![w] = << >>]
    /\ \E failing \in SUBSET ({w} \cup config_dirs) :
          /\ Fault(failing # {})
          /\ watched' = [watched EXCEPT ![w] = ({w} \cup config_dirs) \ failing]
          /\ unwatched' = unwatched \cup failing
    /\ phase' = IF LastOf(w) THEN "ready" ELSE phase
    /\ UNCHANGED << host, inbound, web_roots, config_dirs, listing, mounts, listener,
                    allowed, git, blind, touched, withdrawn, trusted, dead, unindexed,
                    automated, changes >>

\* The watcher cannot be made: its task ends, and its channel takes no commands.
FimWatcherFails(w) ==
    /\ phase = "watch" /\ w \in web_roots \ dead /\ commands[w] = None
    /\ Fault(TRUE)
    /\ dead' = dead \cup {w} /\ unwatched' = unwatched \cup {w} \cup config_dirs
    /\ phase' = IF LastOf(w) THEN "ready" ELSE phase
    /\ UNCHANGED << host, inbound, web_roots, config_dirs, listing, mounts, listener,
                    commands, watched, allowed, git, blind, touched, withdrawn, trusted,
                    unindexed, automated, changes >>
-----------------------------------------------------------------------------
(* Containers *)

\* Docker starts a container, or one dies; whoever is connected is told.
ContainerChanges(c) ==
    /\ changes < MaxChanges /\ changes' = changes + 1
    /\ running' = IF c \in running THEN running \ {c} ELSE running \cup {c}
    /\ LET act == IF c \in running THEN "die" ELSE "start"
       IN docker_events' = IF link = "up" THEN Append(docker_events, [act |-> act, c |-> c])
                           ELSE docker_events
    /\ blind' = IF link = "up" \/ phase = "discover" THEN blind ELSE blind \cup {c}
    /\ UNCHANGED << present, written, head, tracked, link, git_events, fim_events, startup,
                    mounts, listener, commands, watched, allowed, git, touched, withdrawn,
                    trusted, failed, unindexed, automated >>

\* The connection ends: what was not read is gone.
Disconnect ==
    /\ link = "up"
    /\ link' = "down" /\ docker_events' = << >>
    /\ blind' = blind \cup {e.c : e \in ToSet(docker_events)}
    /\ UNCHANGED << host, git_events, fim_events, startup, mounts, listener, commands,
                    watched, allowed, git, touched, withdrawn, trusted, failed, unindexed,
                    automated, changes >>

\* A new connection after 5 seconds: GET /events tells of what happens from now.
Reconnect ==
    /\ link = "down" /\ listener = Idle
    /\ link' = "up"
    /\ UNCHANGED << host, docker_events, git_events, fim_events, startup, mounts, listener,
                    commands, watched, allowed, git, ghosts >>

\* The listener reads the next event and, for a start, asks for the container.
ReadEvent ==
    /\ docker_events # << >> /\ listener = Idle
    /\ listener' = [event |-> Head(docker_events)]
    /\ docker_events' = Tail(docker_events)
    /\ blind' = IF Head(docker_events).act = "start" THEN blind \ {Head(docker_events).c}
                ELSE blind
    /\ UNCHANGED << host, link, git_events, fim_events, startup, mounts, commands, watched,
                    allowed, git, touched, withdrawn, trusted, failed, unindexed, automated,
                    changes >>

\* trigger_container_reconfig for "start".
HandleStart ==
    /\ listener # Idle /\ listener.event.act = "start"
    /\ LET c == listener.event.c
           dirs == SetToSeq(WebMounts[c]) \o SetToSeq(ConfMounts[c])
       IN /\ commands' = Broadcast("watch", dirs)
          /\ allowed' = allowed \cup Registering(WebMounts[c])
          /\ mounts' = [mounts EXCEPT ![c] = Mounts(c)]
          /\ withdrawn' = withdrawn \ Registering(WebMounts[c])
          /\ trusted' = IF Seeded THEN trusted \ WebMounts[c] ELSE trusted
          /\ unwatched' = unwatched \ Mounts(c)
          /\ blind' = IF phase = "ready" /\ Delivered(dirs) THEN blind ELSE blind \cup {c}
    /\ listener' = Idle
    /\ UNCHANGED << host, inbound, startup, watched, git, touched, dead, unindexed,
                    automated, changes, faults >>

\* query_single_container answers None, as the container is gone or Docker did not
\* answer: nothing is registered.
HandleStartUnknown ==
    /\ listener # Idle /\ listener.event.act = "start"
    /\ listener' = Idle
    /\ blind' = blind \cup {listener.event.c}
    /\ UNCHANGED << host, inbound, startup, mounts, commands, watched, allowed, git,
                    touched, withdrawn, trusted, failed, unindexed, automated, changes >>

\* trigger_container_reconfig for "die" and "stop".
HandleDie ==
    /\ listener # Idle /\ listener.event.act = "die"
    /\ LET c == listener.event.c
           known == IF mounts[c] = None THEN {} ELSE mounts[c]
           dirs == SetToSeq(known)
       IN /\ mounts' = [mounts EXCEPT ![c] = None]
          /\ commands' = Broadcast("unwatch", dirs)
          /\ allowed' = allowed \ Deregistering(known)
          /\ withdrawn' = withdrawn \cup Deregistering(known)
          /\ blind' = IF known = {} \/ (phase = "ready" /\ Delivered(dirs))
                      THEN blind ELSE blind \cup {c}
    /\ listener' = Idle
    /\ UNCHANGED << host, inbound, startup, watched, git, touched, trusted, failed,
                    unindexed, automated, changes >>

\* A FIM watcher comes to its next command; its watch may fail, as the path is not
\* there or the system has no watch left.
FimCommand(w) ==
    /\ commands[w] # None /\ commands[w] # << >>
    /\ LET cmd == Head(commands[w])
       IN  \/ /\ cmd.kind = "watch"
              /\ watched' = [watched EXCEPT ![w] = @ \cup {cmd.dir}]
              /\ UNCHANGED << unwatched, faults >>
           \/ /\ cmd.kind = "watch"
              /\ Fault(TRUE)
              /\ unwatched' = unwatched \cup {cmd.dir}
              /\ UNCHANGED watched
           \/ /\ cmd.kind = "unwatch"
              /\ watched' = [watched EXCEPT ![w] = @ \ {cmd.dir}]
              /\ UNCHANGED << unwatched, faults >>
    /\ commands' = [commands EXCEPT ![w] = Tail(@)]
    /\ UNCHANGED << host, inbound, startup, mounts, listener, allowed, git, blind, touched,
                    withdrawn, trusted, dead, unindexed, automated, changes >>
-----------------------------------------------------------------------------
(* Git *)

\* A file is written to Root's tree, once: written anew it has another inode.
WriteFile(f) ==
    /\ f \in Deployed \ written
    /\ present' = present \cup {f} /\ written' = written \cup {f}
    /\ fim_events' = IF Root \in watched[Root] THEN fim_events \cup {f} ELSE fim_events
    /\ UNCHANGED << running, head, tracked, docker_events, link, git_events, startup, mounts,
                    listener, commands, watched, allowed, git, ghosts >>

\* A commit adds a file that was written before, whether or not it is still there;
\* HEAD moves last.
Commit(f, auto) ==
    /\ changes < MaxChanges /\ f \in written \ tracked /\ DirOf[f] = Root
    /\ changes' = changes + 1
    /\ tracked' = tracked \cup {f}
    /\ head' = [n |-> head.n + 1, auto |-> auto]
    /\ automated' = IF auto THEN automated \cup {f} ELSE automated
    /\ git_events' = IF git.pc \in {"off", "spawned"} THEN git_events ELSE git_events + 1
    /\ UNCHANGED << running, present, written, docker_events, link, fim_events, startup,
                    mounts, listener, commands, watched, allowed, git, blind, touched,
                    withdrawn, trusted, failed, unindexed >>

\* A step of the watcher: git may fail it, and what it indexes is allowed.
GitStep(task, events, fails, inodes) ==
    /\ git' = task /\ git_events' = events
    /\ Fault(fails)
    /\ allowed' = allowed \cup inodes /\ withdrawn' = withdrawn \ inodes
    /\ unindexed' = (IF fails THEN tracked ELSE unindexed) \ inodes
    /\ UNCHANGED << host, docker_events, link, fim_events, startup, mounts, listener,
                    commands, watched, blind, touched, trusted, unwatched, dead, automated,
                    changes >>

\* The watch on .git/refs/heads, and only then the first HEAD.  Without a watch the
\* task ends, or waits for events that do not come.
GitWatch ==
    /\ git.pc = "spawned"
    /\ \E fails \in BOOLEAN :
          GitStep([git EXCEPT !.pc = IF fails THEN "off" ELSE "start"], git_events, fails, {})

GitFirstHead ==
    /\ git.pc = "start"
    /\ \E fails \in BOOLEAN :
          LET hash == IF fails THEN NoCommit ELSE head
          IN  GitStep([git EXCEPT !.pc = "idle", !.last = hash, !.first = hash], git_events,
                      fails, {})

\* An event: HEAD is read, and nothing else happens when it is the one known or git
\* does not tell.
GitReadHead ==
    /\ git.pc = "idle" /\ git_events > 0
    /\ \E fails \in BOOLEAN :
          GitStep(IF fails \/ head = git.last THEN git
                  ELSE [git EXCEPT !.pc = "judge", !.current = head], git_events - 1, fails, {})

\* (Variant: HEAD is read once more for the last commit known.)
GitJudge_Reread ==
    /\ git.pc = "judge"
    /\ GitStep([git EXCEPT !.pc = "idle", !.last = head, !.current = NoCommit],
               git_events, FALSE, IF git.current.auto THEN GitIndex(Root) ELSE {})

\* The commit is judged by its own message and author; if it is automated, the
\* index is read again, as it is by then.  It is the last one known even if git
\* showed nothing of it, or no index.
GitJudge ==
    /\ git.pc = "judge"
    /\ \E fails \in BOOLEAN :
          GitStep([git EXCEPT !.pc = "idle", !.last = git.current, !.current = NoCommit],
                  git_events, fails,
                  IF git.current.auto /\ ~fails THEN GitIndex(Root) ELSE {})

\* The same in a volume that is a repository: its files are allowed by a commit.
VolumeCommit(d) ==
    /\ phase \in {"watch", "ready"} /\ d \in web_roots \ {Root} /\ GitIndex(d) # {}
    /\ changes < MaxChanges /\ changes' = changes + 1
    /\ allowed' = allowed \cup GitIndex(d) /\ withdrawn' = withdrawn \ GitIndex(d)
    /\ touched' = touched \cup {d}
    /\ UNCHANGED << host, inbound, startup, mounts, listener, commands, watched, git, blind,
                    trusted, failed, unindexed, automated >>

\* process_fim_event for a file of Root: quarantined unless it is allowed.
FimEvent(f) ==
    /\ f \in fim_events
    /\ fim_events' = fim_events \ {f}
    /\ present' = IF f \in allowed THEN present ELSE present \ {f}
    /\ UNCHANGED << running, written, head, tracked, docker_events, link, git_events,
                    startup, mounts, listener, commands, watched, allowed, git, ghosts >>
-----------------------------------------------------------------------------
(* The operator: the API's POST requests and the console's commands. *)

Request(dirs) ==
    /\ phase = "ready" /\ changes < MaxChanges
    /\ changes' = changes + 1 /\ touched' = touched \cup dirs
    /\ UNCHANGED << host, inbound, startup, mounts, listener, watched, git, blind, trusted,
                    unwatched, dead, unindexed, automated >>

\* fim/add and fim/remove, fim_add and fim_remove
RequestWatch(d, kind) ==
    /\ Request({d})
    /\ commands' = Broadcast(kind, << d >>)
    /\ UNCHANGED << allowed, withdrawn, faults >>

\* allowlist/add and allowlist/remove, allowlist_add and allowlist_remove
RequestAllow(d) ==
    /\ Request({d})
    /\ allowed' = allowed \cup Registering({d})
    /\ withdrawn' = withdrawn \ Registering({d})
    /\ UNCHANGED << commands, faults >>

RequestDisallow(d) ==
    /\ Request({d})
    /\ allowed' = allowed \ Deregistering({d})
    /\ withdrawn' = withdrawn \cup Deregistering({d})
    /\ UNCHANGED << commands, faults >>

\* fim/register with git: the operator approves what is committed in each web root
\* whose git answers.
Approve ==
    /\ Request(web_roots)
    /\ \E failing \in SUBSET web_roots :
          LET inodes == UNION {GitIndex(d) : d \in web_roots \ failing}
          IN  /\ Fault(failing # {})
              /\ allowed' = allowed \cup inodes /\ withdrawn' = withdrawn \ inodes
    /\ UNCHANGED commands

Startup ==
    \/ Discover \/ RegisterListed \/ StartListener \/ SeedAllowlist \/ StartGitWatcher
    \/ \E w \in Dirs : StartFimWatcher(w) \/ FimWatcherFails(w)
Listener == ReadEvent \/ HandleStart \/ HandleStartUnknown \/ HandleDie
GitWatcher == GitWatch \/ GitFirstHead \/ GitReadHead \/ GitJudge
Host ==
    \/ \E c \in Containers : ContainerChanges(c)
    \/ \E f \in Files : WriteFile(f) \/ (\E auto \in BOOLEAN : Commit(f, auto))
Operator ==
    \/ \E d \in Dirs : \/ \E kind \in {"watch", "unwatch"} : RequestWatch(d, kind)
                       \/ RequestAllow(d) \/ RequestDisallow(d)
    \/ Approve

Next ==
    \/ Startup \/ Listener \/ GitWatcher \/ Host \/ Operator
    \/ Disconnect \/ Reconnect
    \/ \E w \in Dirs : FimCommand(w) \/ VolumeCommit(w)
    \/ \E f \in Files : FimEvent(f)

Spec == Init /\ [][Next]_vars
-----------------------------------------------------------------------------
(* Properties *)

\* Every variable keeps its shape, and no channel holds more than its capacity.
TypeOK ==
    /\ running \subseteq Containers
    /\ tracked \cup present \subseteq written /\ written \subseteq Files
    /\ head \in Commits
    /\ docker_events \in Seq(DockerEvents) /\ link \in {"off", "up", "down"}
    /\ git_events \in 0..MaxChanges /\ fim_events \subseteq Deployed
    /\ phase \in Phases /\ listing \subseteq Containers
    /\ web_roots \subseteq Dirs /\ config_dirs \subseteq Dirs
    /\ mounts \in [Containers -> (SUBSET Dirs) \cup {None}]
    /\ listener = Idle \/ listener \in [event : DockerEvents]
    /\ DOMAIN commands = Dirs
    /\ \A w \in Dirs : commands[w] # None =>
          commands[w] \in Seq(Commands) /\ Len(commands[w]) <= QueueCap
    /\ watched \in [Dirs -> SUBSET Dirs]
    /\ allowed \subseteq Files
    /\ git \in [pc : {"off", "spawned", "start", "idle", "judge"},
               last : Commits, current : Commits, first : Commits]

\* The daemon has come to the end of everything it was told.
Settled ==
    /\ phase = "ready" /\ link = "up" /\ docker_events = << >> /\ listener = Idle
    /\ \A w \in Dirs : commands[w] \in {None, << >>}

\* A directory that no other container mounts, that is not the configured web root
\* and that no request of an operator and no commit in it has touched.
MountedBy(d) == {c \in Containers : d \in WebMounts[c] \cup ConfMounts[c]}
Own(c) == {d \in Dirs \ ({Root} \cup touched) : MountedBy(d) = {c}}

\* What is to be allowed of a web root: in a repository that was there at start-up the
\* tracked files, elsewhere every file.
Expected(d) == IF d \in trusted THEN GitIndex(d) ELSE FilesIn(d)

\* "Automatically detects container start/stop events in real-time and registers
\* their mounts" (start_docker_event_listener): once the daemon is through with
\* its events, the own mounts of a running container are watched, unless a watch
\* failed, and the expected files of its web roots allowed, whenever it was started.
RunningIsWatched ==
    Settled => \A c \in running \ blind : \A d \in Own(c) :
        /\ d \in unwatched \/ \E w \in Dirs : d \in watched[w]
        /\ d \in WebMounts[c] => Expected(d) \subseteq allowed

\* "Dynamically removing FIM watch and allowlist for stopped container mount": nothing
\* of a stopped container is watched or allowed any more.
StoppedIsForgotten ==
    Settled => \A c \in Containers \ (running \cup blind) : \A d \in Own(c) :
        /\ mounts[c] = None
        /\ \A w \in Dirs : d \notin watched[w]
        /\ FilesIn(d) \cap allowed = {}

\* The last commit that the git watcher judged, with no event left, is automated.
AutomatedLast ==
    git.pc = "idle" /\ git_events = 0 /\ git.last # git.first /\ git.last.auto

\* Then every committed file that is still on disk is allowed, however many commits
\* came at once, unless git failed the watcher since.  ("Automatically re-indexes the
\* new tree", allowlist.rs.)
AutomatedIsIndexed ==
    AutomatedLast => GitIndex(Root) \ (withdrawn \cup unindexed) \subseteq allowed

\* "so newly deployed files are immediately allowed" (allowlist.rs): what automated
\* commits brought is on disk and allowed.
DeployedIsAllowed ==
    AutomatedLast => automated \ (withdrawn \cup unindexed) \subseteq present \cap allowed
=============================================================================
