--------------------------- MODULE ProcessTracker ---------------------------
(***************************************************************************)
(* The process table of the heuristics engine (src/heuristics.rs) and the  *)
(* decisions to SIGKILL that are taken from it.                            *)
(*                                                                         *)
(* Three daemon tasks share process_map and process_seen without a lock    *)
(* that spans a whole operation: the telemetry loop (handle_raw_event, one *)
(* event at a time), the install clean-up tasks it spawns, each two        *)
(* seconds late, and the TTL evictor.  Everything they know of the host    *)
(* arrives late, through a stream of kernel events, and everything they do *)
(* to it is addressed by pid, which the host may have given to another     *)
(* process in the meantime.                                                *)
(*                                                                         *)
(* os, stream and connected are the host and the telemetry core, which are *)
(* not part of the daemon.  The fields inc, web and root of os are what is *)
(* really true of a process, and unseen says that part of it was over      *)
(* before the daemon could know; the daemon never reads them.              *)
(***************************************************************************)
EXTENDS Naturals, Sequences, FiniteSets

CONSTANTS
    Pids,            \* the process identifiers the host recycles
    None,            \* no process, no image, no node, no install root
    Images,          \* executables
    WebImages,       \* is_web_process(exe)
    InstallImages,   \* executables named like a package manager
    ContainedImages, \* executables inside a storage or temporary directory
    ShellImages,     \* executables listed in /etc/shells
    UntrustedImages, \* outside the system paths, and inode not allowed
    ProtectedImages, \* is_protected_binary(exe)
    Activities,      \* what processes do besides starting and stopping
    Preexisting,     \* pids that may be in use when the daemon starts
    Switchable,      \* pids the fleet manager may stop or start monitoring
    Audit,           \* WARDEN_AUDIT: report, never kill
    Lossy,           \* the telemetry connection may break
    PromptReuse,     \* the host may recycle a pid the daemon still works on
    Ageing,          \* processes may outlive the 30 minutes of the TTL
    Recycled,        \* bound: pids given out twice, the others once
    MaxStream        \* bound: events waiting when a process acts

ASSUME PidsAssumption == None \notin Pids /\ Preexisting \subseteq Pids
                         /\ Switchable \subseteq Pids
                         /\ Recycled \subseteq Pids
ASSUME ImagesAssumption ==
    /\ None \notin Images
    /\ UNION {WebImages, InstallImages, ContainedImages, ShellImages,
              UntrustedImages, ProtectedImages} \subseteq Images
ASSUME FlagsAssumption == {Audit, Lossy, PromptReuse, Ageing} \subseteq BOOLEAN
ASSUME BoundsAssumption == MaxStream \in Nat
ASSUME ActivitiesAssumption ==
    Activities \subseteq {"Listen", "MapExec", "DupSocket", "Ptrace", "Secret"}

VARIABLES
    os, stream, connected,                                \* host and core
    process_map, process_seen, listening_pids,            \* engine tables
    disabled_pids,                                        \* allowlist.rs
    handler,                              \* the telemetry loop's position
    cleanups, evictor,                                    \* other tasks
    sigkill                      \* the kill(2) the last step made, if any

host    == <<os, stream, connected>>
tables  == <<process_map, process_seen>>
tasks   == <<handler, cleanups, evictor>>
vars    == <<host, tables, listening_pids, disabled_pids, tasks, sigkill>>

-----------------------------------------------------------------------------
(* Shapes *)

PidOrNone == Pids \cup {None}
Lives     == Nat
RootIds   == (Pids \X Lives) \cup {None}

\* web: it, or an ancestor, has a web image or has called listen.  root: the
\* outermost installation it descends from, by the installer's pid and life.
\* unseen: it ran below an installation or a web process when the daemon
\* started, and nothing of that can be read off its image, or it descends from
\* such a process.
Process == [inc : Lives, alive : BOOLEAN, img : Images \cup {None},
            web : BOOLEAN, root : RootIds, unseen : BOOLEAN]

\* What the engine keeps of a process.  depth is compared with 0 and 2 only,
\* so it saturates at 2; inc is the life the node was created for, a ghost.
ProcessNode == [is_web_server : BOOLEAN, is_install_context : BOOLEAN,
                is_top_level_install : BOOLEAN, install_root_pid : PidOrNone,
                depth : 0..2, inc : Lives]

\* hdr is header.pid: the pid that the monitoring switch is looked up with.
CreateEvents == [type : {"ProcessCreate"}, hdr : PidOrNone, pid : Pids,
                 ppid : PidOrNone, img : Images, inc : Lives]
StopEvents   == [type : {"ProcessStop"}, hdr : Pids, pid : Pids, inc : Lives]
ActEvents    == [type : Activities, hdr : Pids, pid : Pids]
Events       == CreateEvents \cup StopEvents \cup ActEvents

\* What handle_raw_event has read of the parent when it inserts the child.
Context == [web : BOOLEAN, install : BOOLEAN, root : PidOrNone, depth : 0..2]

Cleanup == [root : Pids, inc : Lives, pc : {"sleep", "kill", "forget"},
            victims : SUBSET Pids]

Reasons == {"ExecutionFromStorageDir", "ShellSpawnAttempt", "ExploitInjection",
            "BinaryPoisoned", "MapExec", "DupSocket", "Ptrace", "Secret",
            "PersistentProcess"}
Kill == [pid : Pids, hit : Lives, judged : Lives, reasons : SUBSET Reasons]
NoKill == None

\* None is what Option::None is in the code: the absence of any of these.
ASSUME NoneAssumption ==
    /\ None \notin ProcessNode /\ None \notin [ev : CreateEvents, ctx : Context]
    /\ None \notin Pids \X Lives /\ None \notin Kill

LastLife(p) == IF p \in Recycled THEN 2 ELSE 1

Idle == None
Tracked(p) == process_map[p] # None

-----------------------------------------------------------------------------
(* The host and the telemetry core *)

\* Events are lost while no connection is open.
Sent(es) == IF connected THEN stream \o es ELSE stream

\* A pid no task of the daemon and no event in flight refers to.
Settled(p) ==
    /\ \A i \in DOMAIN stream : stream[i].pid # p
    /\ handler # Idle => handler.ev.pid # p
    /\ \A t \in cleanups : p # t.root /\ p \notin t.victims
    /\ p \notin evictor.todo /\ evictor.victim # p

\* Process p, or one outside the model when p = None, starts child c.
Spawn(p, c, img) ==
    /\ p # None => os[p].alive
    /\ ~os[c].alive /\ os[c].inc < LastLife(c) /\ Len(stream) < MaxStream
    /\ PromptReuse \/ Settled(c)
    /\ LET life == os[c].inc + 1
           root == IF p # None /\ os[p].root # None THEN os[p].root
                   ELSE IF img \in InstallImages THEN <<c, life>> ELSE None
       IN /\ os' = [os EXCEPT ![c] =
                [inc |-> life, alive |-> TRUE, img |-> img,
                 web |-> img \in WebImages \/ (p # None /\ os[p].web),
                 root |-> root, unseen |-> p # None /\ os[p].unseen]]
          /\ \E hdr \in {p, c} :
                stream' = Sent(<<[type |-> "ProcessCreate", hdr |-> hdr,
                                  pid |-> c, ppid |-> p, img |-> img,
                                  inc |-> life]>>)
    /\ sigkill' = NoKill
    /\ UNCHANGED <<connected, tables, listening_pids, disabled_pids, tasks>>

StopEvent(p) == [type |-> "ProcessStop", hdr |-> p, pid |-> p, inc |-> os[p].inc]

Exit(p) ==
    /\ os[p].alive /\ Len(stream) < MaxStream
    /\ os' = [os EXCEPT ![p].alive = FALSE]
    /\ stream' = Sent(<<StopEvent(p)>>)
    /\ sigkill' = NoKill
    /\ UNCHANGED <<connected, tables, listening_pids, disabled_pids, tasks>>

\* A running process calls listen, maps anonymous executable memory,
\* duplicates a socket on a standard stream, attaches to another process, or
\* opens a runtime socket or a credential.
Act(p, a) ==
    /\ os[p].alive /\ Len(stream) < MaxStream
    /\ os' = [os EXCEPT ![p].web = @ \/ a = "Listen"]
    /\ stream' = Sent(<<[type |-> a, hdr |-> p, pid |-> p]>>)
    /\ sigkill' = NoKill
    /\ UNCHANGED <<connected, tables, listening_pids, disabled_pids, tasks>>

\* The connection breaks, and what was in flight may be lost with it; the
\* telemetry loop reconnects later.
Disconnect ==
    /\ Lossy /\ connected
    /\ connected' = FALSE
    /\ \E n \in 0..Len(stream) : stream' = SubSeq(stream, 1, n)
    /\ sigkill' = NoKill
    /\ UNCHANGED <<os, tables, listening_pids, disabled_pids, tasks>>

Reconnect ==
    /\ ~connected /\ stream = << >>
    /\ connected' = TRUE
    /\ sigkill' = NoKill
    /\ UNCHANGED <<os, stream, tables, listening_pids, disabled_pids, tasks>>

-----------------------------------------------------------------------------
(* Effects the daemon's tasks have on the host and on the tables *)

\* terminate_threat_child: kill(p, SIGKILL), whatever process has the pid now.
\* The kernel reports the death behind the events still waiting.
Terminate(p, judged, reasons, waiting) ==
    /\ sigkill' = [pid |-> p, hit |-> IF os[p].alive THEN os[p].inc ELSE 0,
                   judged |-> judged, reasons |-> reasons]
    /\ IF os[p].alive /\ ~Audit
       THEN /\ os' = [os EXCEPT ![p].alive = FALSE]
            /\ stream' = IF connected THEN Append(waiting, StopEvent(p))
                         ELSE waiting
       ELSE /\ os' = os
            /\ stream' = waiting

Spare(waiting) == sigkill' = NoKill /\ os' = os /\ stream' = waiting

-----------------------------------------------------------------------------
(* The telemetry loop: handle_raw_event *)

\* The loop takes the next event; events of switched-off pids go no further.
Incoming(type) ==
    /\ handler = Idle /\ stream # << >>
    /\ Head(stream).type = type
    /\ Head(stream).hdr \notin disabled_pids

DropEvent ==
    /\ handler = Idle /\ stream # << >>
    /\ Head(stream).hdr \in disabled_pids
    /\ Spare(Tail(stream))
    /\ UNCHANGED <<connected, tables, listening_pids, disabled_pids, tasks>>

\* What the engine knows of the parent: its node, or /proc/<ppid>/exe.
ParentContext(p) ==
    IF p # None /\ Tracked(p)
    THEN LET parent == process_map[p]
         IN [web     |-> parent.is_web_server \/ p \in listening_pids,
             install |-> parent.is_install_context,
             root    |-> parent.install_root_pid,
             depth   |-> IF parent.depth = 2 THEN 2 ELSE parent.depth + 1]
    ELSE [web     |-> /\ p # None /\ os[p].alive
                      /\ os[p].img \in WebImages \/ p \in listening_pids,
          install |-> FALSE, root |-> None, depth |-> 0]

HandleProcessCreate ==
    /\ Incoming("ProcessCreate")
    /\ LET ev == Head(stream)
       IN /\ handler' = [ev |-> ev, ctx |-> ParentContext(ev.ppid)]
          /\ process_seen' = [process_seen EXCEPT ![ev.pid] = "fresh"]
    /\ Spare(Tail(stream))
    /\ UNCHANGED <<connected, process_map, listening_pids, disabled_pids,
                   cleanups, evictor>>

\* (Variants: a nested installation becomes a root; a root is not passed on; a
\* child is counted one level too deep.)
ChildNode_NestedRoot(ev, ctx) ==
    LET install == ev.img \in InstallImages
        top     == install /\ ~ctx.install
    IN [is_web_server |-> \/ ev.img \in WebImages \/ ctx.web
                          \/ ev.pid \in listening_pids,
        is_install_context   |-> install \/ ctx.install,
        is_top_level_install |-> top,
        install_root_pid     |-> IF install THEN ev.pid ELSE ctx.root,
        depth |-> ctx.depth, inc |-> ev.inc]

ChildNode_RootNotInherited(ev, ctx) ==
    LET install == ev.img \in InstallImages
        top     == install /\ ~ctx.install
    IN [is_web_server |-> \/ ev.img \in WebImages \/ ctx.web
                          \/ ev.pid \in listening_pids,
        is_install_context   |-> install \/ ctx.install,
        is_top_level_install |-> top,
        install_root_pid     |-> IF top THEN ev.pid ELSE None,
        depth |-> ctx.depth, inc |-> ev.inc]

ChildNode_DepthOffByOne(ev, ctx) ==
    LET install == ev.img \in InstallImages
        top     == install /\ ~ctx.install
    IN [is_web_server |-> \/ ev.img \in WebImages \/ ctx.web
                          \/ ev.pid \in listening_pids,
        is_install_context   |-> install \/ ctx.install,
        is_top_level_install |-> top,
        install_root_pid     |-> IF top THEN ev.pid ELSE ctx.root,
        depth |-> ctx.depth + 1, inc |-> ev.inc]

ChildNode(ev, ctx) ==
    LET install == ev.img \in InstallImages
        top     == install /\ ~ctx.install
    IN [is_web_server |-> \/ ev.img \in WebImages \/ ctx.web
                          \/ ev.pid \in listening_pids,
        is_install_context   |-> install \/ ctx.install,
        is_top_level_install |-> top,
        install_root_pid     |-> IF top THEN ev.pid ELSE ctx.root,
        depth |-> ctx.depth, inc |-> ev.inc]

\* Why a child of a web process with this image is killed, if it is.
Verdicts(img) ==
    IF img \in ContainedImages THEN {"ExecutionFromStorageDir"}
    ELSE {r \in {"ShellSpawnAttempt", "ExploitInjection", "BinaryPoisoned"} :
             \/ r = "ShellSpawnAttempt" /\ img \in ShellImages
             \/ r = "ExploitInjection" /\ img \in UntrustedImages
             \/ r = "BinaryPoisoned" /\ img \in ProtectedImages}

\* (Variant: only processes under suspicion are entered.)
InsertAndJudge_OnlySuspects ==
    /\ handler # Idle
    /\ LET ev       == handler.ev
           verdicts == IF handler.ctx.web THEN Verdicts(ev.img) ELSE {}
       IN /\ process_map' =
                IF handler.ctx.web \/ handler.ctx.install
                THEN [process_map EXCEPT ![ev.pid] = ChildNode(ev, handler.ctx)]
                ELSE process_map
          /\ IF verdicts # {} THEN Terminate(ev.pid, ev.inc, verdicts, stream)
             ELSE Spare(stream)
    /\ handler' = Idle
    /\ UNCHANGED <<connected, process_seen, listening_pids, disabled_pids,
                   cleanups, evictor>>

InsertAndJudge ==
    /\ handler # Idle
    /\ LET ev       == handler.ev
           verdicts == IF handler.ctx.web THEN Verdicts(ev.img) ELSE {}
       IN /\ process_map' =
                [process_map EXCEPT ![ev.pid] = ChildNode(ev, handler.ctx)]
          /\ IF verdicts # {} THEN Terminate(ev.pid, ev.inc, verdicts, stream)
             ELSE Spare(stream)
    /\ handler' = Idle
    /\ UNCHANGED <<connected, process_seen, listening_pids, disabled_pids,
                   cleanups, evictor>>

\* (Variant: the node stays when its process ends.)
HandleProcessStop_NodeStays ==
    /\ Incoming("ProcessStop")
    /\ LET ev  == Head(stream)
           top == Tracked(ev.pid) /\ process_map[ev.pid].is_top_level_install
       IN IF top
          THEN /\ cleanups' = cleanups \cup
                    {[root |-> ev.pid, inc |-> ev.inc, pc |-> "sleep",
                      victims |-> {}]}
               /\ UNCHANGED tables
          ELSE /\ process_map' = process_map
               /\ process_seen' = [process_seen EXCEPT ![ev.pid] = "none"]
               /\ UNCHANGED cleanups
    /\ Spare(Tail(stream))
    /\ UNCHANGED <<connected, listening_pids, disabled_pids, handler, evictor>>

\* The end of a top-level installation only schedules the clean-up; any other
\* process leaves both tables at once.
HandleProcessStop ==
    /\ Incoming("ProcessStop")
    /\ LET ev  == Head(stream)
           top == Tracked(ev.pid) /\ process_map[ev.pid].is_top_level_install
       IN IF top
          THEN /\ cleanups' = cleanups \cup
                    {[root |-> ev.pid, inc |-> ev.inc, pc |-> "sleep",
                      victims |-> {}]}
               /\ UNCHANGED tables
          ELSE /\ process_map' = [process_map EXCEPT ![ev.pid] = None]
               /\ process_seen' = [process_seen EXCEPT ![ev.pid] = "none"]
               /\ UNCHANGED cleanups
    /\ Spare(Tail(stream))
    /\ UNCHANGED <<connected, listening_pids, disabled_pids, handler, evictor>>

HandleListen ==
    /\ Incoming("Listen")
    /\ LET p == Head(stream).pid
       IN /\ listening_pids' = listening_pids \cup {p}
          /\ process_map' = IF Tracked(p)
                            THEN [process_map EXCEPT ![p].is_web_server = TRUE]
                            ELSE process_map
    /\ Spare(Tail(stream))
    /\ UNCHANGED <<connected, process_seen, disabled_pids, tasks>>

\* The rules that terminate the acting process itself, by its node.
Condemned(p, a) ==
    CASE a = "MapExec"   -> /\ Tracked(p) /\ process_map[p].is_web_server
                            /\ process_map[p].depth > 0
      [] a = "DupSocket" -> /\ Tracked(p)
                            /\ \/ process_map[p].is_web_server
                               \/ process_map[p].is_install_context
      [] a = "Ptrace"    -> IF Tracked(p) THEN process_map[p].is_web_server
                            ELSE p \in listening_pids
      [] a = "Secret"    -> Tracked(p) /\ process_map[p].is_install_context

HandleActivity(a) ==
    /\ Incoming(a)
    /\ LET p == Head(stream).pid
           judged == IF Tracked(p) THEN process_map[p].inc ELSE 0
       IN IF Condemned(p, a) THEN Terminate(p, judged, {a}, Tail(stream))
          ELSE Spare(Tail(stream))
    /\ UNCHANGED <<connected, tables, listening_pids, disabled_pids, tasks>>

-----------------------------------------------------------------------------
(* The task spawned two seconds before its first step, per ended top-level   *)
(* installation                                                              *)

Move(t, u) == cleanups' = (cleanups \ {t}) \cup {u}

\* (Variant: the processes of every installation are collected.)
CleanupCollect_AnyRoot(t) ==
    /\ t.pc = "sleep"
    /\ Move(t, [t EXCEPT !.pc = "kill", !.victims =
            {p \in Pids \ {t.root} :
                Tracked(p) /\ process_map[p].is_install_context}])
    /\ Spare(stream)
    /\ UNCHANGED <<connected, tables, listening_pids, disabled_pids, handler,
                   evictor>>

CleanupCollect(t) ==
    /\ t.pc = "sleep"
    /\ Move(t, [t EXCEPT !.pc = "kill", !.victims =
            {p \in Pids \ {t.root} :
                Tracked(p) /\ process_map[p].install_root_pid = t.root}])
    /\ Spare(stream)
    /\ UNCHANGED <<connected, tables, listening_pids, disabled_pids, handler,
                   evictor>>

CleanupKill(t, p) ==
    /\ t.pc = "kill" /\ p \in t.victims
    /\ Move(t, [t EXCEPT !.victims = @ \ {p}])
    /\ IF Tracked(p)
       THEN Terminate(p, process_map[p].inc, {"PersistentProcess"}, stream)
       ELSE Spare(stream)
    /\ UNCHANGED <<connected, tables, listening_pids, disabled_pids, handler,
                   evictor>>

\* (Variant: the root is removed before its processes are terminated.)
CleanupUntrack_BeforeKills(t) ==
    /\ t.pc = "kill"
    /\ process_map' = [process_map EXCEPT ![t.root] = None]
    /\ Move(t, [t EXCEPT !.pc = "forget"])
    /\ Spare(stream)
    /\ UNCHANGED <<connected, process_seen, listening_pids, disabled_pids,
                   handler, evictor>>

CleanupUntrack(t) ==
    /\ t.pc = "kill" /\ t.victims = {}
    /\ process_map' = [process_map EXCEPT ![t.root] = None]
    /\ Move(t, [t EXCEPT !.pc = "forget"])
    /\ Spare(stream)
    /\ UNCHANGED <<connected, process_seen, listening_pids, disabled_pids,
                   handler, evictor>>

CleanupForget(t) ==
    /\ t.pc = "forget"
    /\ process_seen' = [process_seen EXCEPT ![t.root] = "none"]
    /\ cleanups' = cleanups \ {t}
    /\ Spare(stream)
    /\ UNCHANGED <<connected, process_map, listening_pids, disabled_pids,
                   handler, evictor>>

-----------------------------------------------------------------------------
(* The evictor: evict_stale_processes, every five minutes *)

\* Thirty minutes pass after the last time p was seen.  They do not pass between
\* two statements of the handler that has just seen it.
Age(p) ==
    /\ Ageing /\ process_seen[p] = "fresh"
    /\ handler # Idle => handler.ev.pid # p
    /\ process_seen' = [process_seen EXCEPT ![p] = "stale"]
    /\ Spare(stream)
    /\ UNCHANGED <<connected, process_map, listening_pids, disabled_pids, tasks>>

EvictCollect ==
    /\ evictor.todo = {} /\ evictor.victim = None
    /\ evictor' = [evictor EXCEPT !.todo =
                      {p \in Pids : process_seen[p] = "stale"}]
    /\ evictor'.todo # {}
    /\ Spare(stream)
    /\ UNCHANGED <<connected, tables, listening_pids, disabled_pids, handler,
                   cleanups>>

\* (Variant: the test of /proc/<pid> is inverted.)
EvictCheck_Inverted(p) ==
    /\ p \in evictor.todo /\ evictor.victim = None
    /\ evictor' = [todo   |-> evictor.todo \ {p}, pc |-> "untrack",
                   victim |-> IF os[p].alive THEN p ELSE None]
    /\ Spare(stream)
    /\ UNCHANGED <<connected, tables, listening_pids, disabled_pids, handler,
                   cleanups>>

\* /proc/<pid> decides.
EvictCheck(p) ==
    /\ p \in evictor.todo /\ evictor.victim = None
    /\ evictor' = [todo   |-> evictor.todo \ {p}, pc |-> "untrack",
                   victim |-> IF os[p].alive THEN None ELSE p]
    /\ Spare(stream)
    /\ UNCHANGED <<connected, tables, listening_pids, disabled_pids, handler,
                   cleanups>>

EvictUntrack ==
    /\ evictor.victim # None /\ evictor.pc = "untrack"
    /\ process_map' = [process_map EXCEPT ![evictor.victim] = None]
    /\ evictor' = [evictor EXCEPT !.pc = "forget"]
    /\ Spare(stream)
    /\ UNCHANGED <<connected, process_seen, listening_pids, disabled_pids,
                   handler, cleanups>>

EvictForget ==
    /\ evictor.victim # None /\ evictor.pc = "forget"
    /\ process_seen' = [process_seen EXCEPT ![evictor.victim] = "none"]
    /\ evictor' = [evictor EXCEPT !.victim = None, !.pc = "untrack"]
    /\ Spare(stream)
    /\ UNCHANGED <<connected, process_map, listening_pids, disabled_pids,
                   handler, cleanups>>

-----------------------------------------------------------------------------
(* cloud.rs: disable_monitoring and enable_monitoring *)

DisableMonitoring(p) ==
    /\ p \notin disabled_pids
    /\ disabled_pids' = disabled_pids \cup {p}
    /\ Spare(stream)
    /\ UNCHANGED <<connected, tables, listening_pids, tasks>>

EnableMonitoring(p) ==
    /\ p \in disabled_pids
    /\ disabled_pids' = disabled_pids \ {p}
    /\ Spare(stream)
    /\ UNCHANGED <<connected, tables, listening_pids, tasks>>

-----------------------------------------------------------------------------

\* main.rs seeds process_map, and not process_seen, with the web processes
\* that already run; HeuristicsEngine::new seeds listening_pids.
Preseeded(p) == os[p].img \in WebImages \/ p \in listening_pids

\* What the processes that run when the daemon starts may descend from.  An
\* installation that still runs is named by its first life, and one that is
\* over by a life before those of the model.
Ancestry(used, img, root) ==
    \A p \in used :
        /\ img[p] \in InstallImages => root[p] # None
        /\ root[p] # None =>
              LET q == root[p][1]
              IN root[p][2] = 1 => /\ img[q] \in InstallImages
                                   /\ root[q] = root[p]

\* The processes that run when the daemon starts; some of them listen, and all
\* of them have ancestors.
Running(used, img, listening, underWeb, root) ==
    /\ Ancestry(used, img, root)
    /\ os = [p \in Pids |->
             IF p \in used
             THEN [inc |-> 1, alive |-> TRUE, img |-> img[p], root |-> root[p],
                   web |-> img[p] \in WebImages \/ p \in listening \cup underWeb,
                   unseen |-> \/ root[p] # None
                              \/ /\ p \in underWeb \ listening
                                 /\ img[p] \notin WebImages]
             ELSE [inc |-> 0, alive |-> FALSE, img |-> None, root |-> None,
                   web |-> FALSE, unseen |-> FALSE]]
    /\ listening_pids = listening

Init ==
    /\ \E used \in SUBSET Preexisting : \E img \in [used -> Images],
              listening \in SUBSET used, underWeb \in SUBSET used,
              root \in [used -> (used \X {0, 1}) \cup {None}] :
          Running(used, img, listening, underWeb, root)
    /\ process_map = [p \in Pids |->
          IF os[p].alive /\ Preseeded(p)
          THEN [is_web_server |-> TRUE, is_install_context |-> FALSE,
                is_top_level_install |-> FALSE, install_root_pid |-> None,
                depth |-> 0, inc |-> os[p].inc]
          ELSE None]
    /\ process_seen = [p \in Pids |-> "none"]
    /\ stream = << >> /\ connected = TRUE
    /\ disabled_pids = {}
    /\ handler = Idle /\ cleanups = {}
    /\ evictor = [todo |-> {}, victim |-> None, pc |-> "untrack"]
    /\ sigkill = NoKill

Host ==
    \/ \E p \in PidOrNone, c \in Pids, img \in Images : Spawn(p, c, img)
    \/ \E p \in Pids : Exit(p)
    \/ \E p \in Pids, a \in Activities : Act(p, a)
    \/ Disconnect \/ Reconnect

TelemetryLoop ==
    \/ DropEvent
    \/ HandleProcessCreate \/ InsertAndJudge
    \/ HandleProcessStop
    \/ HandleListen
    \/ \E a \in Activities \ {"Listen"} : HandleActivity(a)

\* A step of a clean-up task of installation r.
CleanupStep(r) ==
    \E t \in cleanups : /\ t.root = r
                        /\ \/ CleanupCollect(t)
                           \/ \E p \in Pids : CleanupKill(t, p)
                           \/ CleanupUntrack(t)
                           \/ CleanupForget(t)

EvictTask == \/ EvictCollect
             \/ \E p \in Pids : EvictCheck(p)
             \/ EvictUntrack \/ EvictForget

Operator == \E p \in Switchable : DisableMonitoring(p) \/ EnableMonitoring(p)

Next == \/ Host \/ TelemetryLoop \/ (\E r \in Pids : CleanupStep(r)) \/ EvictTask \/ Operator
        \/ \E p \in Pids : Age(p)

Spec == Init /\ [][Next]_vars

\* The tokio runtime runs every ready task, and time passes: each task of the
\* daemon makes its next step, and an entry that nobody refreshes gets old.
\* Nothing is assumed of the processes, the operator or the connection.
Fairness ==
    /\ WF_vars(TelemetryLoop)
    /\ WF_vars(EvictCollect) /\ WF_vars(\E p \in Pids : EvictCheck(p))
    /\ WF_vars(EvictUntrack \/ EvictForget)
    /\ \A p \in Pids : WF_vars(Age(p)) /\ WF_vars(CleanupStep(p))

FairSpec == Spec /\ Fairness

-----------------------------------------------------------------------------
(* Properties *)

\* The value of every variable has the shape the code gives it.
TypeOK ==
    /\ os \in [Pids -> Process]
    /\ stream \in Seq(Events)
    /\ connected \in BOOLEAN
    /\ process_map \in [Pids -> ProcessNode \cup {None}]
    /\ process_seen \in [Pids -> {"none", "fresh", "stale"}]
    /\ listening_pids \subseteq Pids
    /\ disabled_pids \subseteq Pids
    /\ handler \in [ev : CreateEvents, ctx : Context] \cup {Idle}
    /\ cleanups \subseteq Cleanup
    /\ evictor \in [todo : SUBSET Pids, victim : PidOrNone,
                    pc : {"untrack", "forget"}]
    /\ sigkill \in Kill \cup {NoKill}

\* A process is in install context exactly when the engine knows which
\* installation it belongs to, and a top-level installation belongs to itself:
\* otherwise the clean-up of an installation (ProcessStop) would overlook its
\* processes.
InstallContextRooted ==
    \A p \in Pids : Tracked(p) =>
        LET node == process_map[p]
        IN /\ node.is_install_context <=> node.install_root_pid # None
           /\ node.is_top_level_install => node.install_root_pid = p

\* "Kill only the child pid representing the threat" (terminate_threat_child):
\* the process that a SIGKILL reaches is the one the node was created for, not
\* a later one with the same pid.
KillsOnlyJudged ==
    sigkill # NoKill /\ sigkill.judged # 0 => sigkill.hit \in {0, sigkill.judged}

\* A process terminated for having outlived an installation does descend from
\* an installation, and one that is over.  Exempt is what descends from an
\* installation that ran before the daemon: main.rs seeds no install context
\* (main.rs:280-292), so an installer started by that installation counts as one
\* of its own, and what it leaves behind is killed while the outer one runs.
CleanupHitsOnlyLeftovers ==
    /\ sigkill # NoKill /\ "PersistentProcess" \in sigkill.reasons
    /\ sigkill.hit # 0 /\ ~os[sigkill.pid].unseen
    => LET root == os[sigkill.pid].root
       IN root # None /\ ~(os[root[1]].alive /\ os[root[1]].inc = root[2])

\* The rules of HandleProcessCreate that kill are about children of web
\* processes ("S-A: Web process spawned a shell interpreter"): what they kill
\* descends from a process with a web image or one that has called listen.
WebVerdictsOnlyUnderWeb ==
    /\ sigkill # NoKill /\ sigkill.hit # 0
    /\ sigkill.reasons \cap {"ExecutionFromStorageDir", "ShellSpawnAttempt",
                             "ExploitInjection", "BinaryPoisoned"} # {}
    => os[sigkill.pid].web

\* As long as no event is lost, no pid recycled under the daemon's hands and no
\* process old enough to be evicted, the engine's view is the truth: a node
\* names the installation its process descends from, and is a web node exactly
\* if the process or an ancestor is a web process.  What descends from an
\* installation, or from a web process by way of another image, that ran before
\* the daemon is exempt: the engine never learns of it (main.rs:280-292,
\* heuristics.rs:110-118).
ViewIsTrue ==
    \A p \in Pids :
        Tracked(p) /\ process_map[p].inc = os[p].inc /\ ~os[p].unseen =>
        /\ process_map[p].install_root_pid =
              IF os[p].root = None THEN None ELSE os[p].root[1]
        /\ process_map[p].is_web_server = os[p].web

\* Whenever the loop has caught up with the stream, no running process has
\* escaped it: each one started since then has the node of its current life.
NobodyEscapes ==
    connected /\ stream = << >> /\ handler = Idle =>
        \A p \in Pids : os[p].alive /\ (p \in Preexisting => os[p].inc > 1)
            => Tracked(p) /\ process_map[p].inc = os[p].inc

\* A node does not outlive its process for ever, even when the ProcessStop
\* event is lost (ProcessStop, evict_stale_processes).
Stale(p, i) == /\ Tracked(p) /\ process_map[p].inc = i
               /\ ~(os[p].alive /\ os[p].inc = i)
StaleNodesGo ==
    \A p \in Pids : \A i \in 1..LastLife(p) : Stale(p, i) ~> ~Stale(p, i)

\* Once a top-level installation has ended, every process of it that is in the
\* table when the clean-up collects its victims is terminated, or ends by itself.
\* The clean-up collects once (heuristics.rs:270-275): what a victim starts
\* between that and its own death enters the table as a process of the ended
\* installation, and nothing terminates it.
Leftover(p, i) ==
    /\ os[p].alive /\ os[p].inc = i /\ Tracked(p) /\ process_map[p].inc = i
    /\ \E t \in cleanups : /\ t.pc = "sleep" /\ t.root # p
                           /\ process_map[p].install_root_pid = t.root
LeftoversTerminated ==
    \A p \in Pids : \A i \in 1..LastLife(p) :
        Leftover(p, i) ~> ~(os[p].alive /\ os[p].inc = i)
=============================================================================
