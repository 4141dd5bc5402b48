----------------------------- MODULE Containment -----------------------------
(***************************************************************************)
(* Files of a web root under the inode allowlist (src/allowlist.rs) and    *)
(* the tasks that quarantine them: the file-integrity watcher (src/fim.rs),*)
(* the telemetry loop (FileOpen, FileWrite, FileRename of                  *)
(* src/heuristics.rs) and the scans of uploaded files                      *)
(* (src/storage_discovery.rs, src/upload_scan.rs); quarantine_file and     *)
(* restore_file (src/quarantine.rs).                                       *)
(*                                                                         *)
(* All of them look a path up, decide, and then act on the path again; the *)
(* application, the other tasks and the operator act on it in between, and *)
(* a restored or quarantined file is itself an event for the watcher.      *)
(*                                                                         *)
(* A path is a file name and the number of ".quarantined" suffixes it      *)
(* carries.  The daemon and the web root are on one file system, where     *)
(* rename works, and every process that is observed is a web process.      *)
(***************************************************************************)
EXTENDS Naturals, Sequences, FiniteSets

CONSTANTS
    Files,      \* names in the web root
    Uploads,    \* those in a storage directory of the application
    Scripts,    \* those with a script extension
    Committed,  \* those in the git index, if git answers when the daemon starts
    OtherFiles, \* whether the allowlist has files that are not in Files as well
    Inodes,     \* bound: the inodes of the file system; it hands them out again
    MaxShadow,  \* bound: suffixes followed; longer shadows are not observed
    MaxObserved,\* bound: telemetry events in flight
    Ops,        \* what the web processes do that the telemetry reports, and
                \* whether files are deleted and the operator steps in
    Fim, Loop,  \* the watcher and the telemetry loop
    None        \* no inode, no path

ASSUME NamesAssumption ==
    UNION {Uploads, Scripts, Committed} \subseteq Files
ASSUME BoundsAssumption ==
    OtherFiles \in BOOLEAN /\ MaxShadow \in Nat /\ MaxObserved \in Nat
Observed == {"open", "write", "rename", "tmp_rename"}
ASSUME OpsAssumption ==
    Ops \subseteq Observed \cup {"delete", "register", "allowlist", "restore"}

Paths == Files \X (0..MaxShadow)
Shadow(p) == <<p[1], p[2] + 1>>

ASSUME WorkersAssumption ==
    None \notin Inodes \cup Paths /\ Fim # Loop /\ {Fim, Loop} \cap Paths = {}

InStorage(p) == p[1] \in Uploads
IsScript(p)  == p[1] \in Scripts /\ p[2] = 0

\* The path of an upload stands for the task that scans it.
ScanPaths == Uploads \X {0}
Workers == {Fim, Loop} \cup ScanPaths

VARIABLES
    dir,          \* the directory: the inode at each path
    elf,          \* the inodes that hold an ELF image
    qdir,         \* where each inode in the quarantine directory came from
    sidecar,      \* the inodes in it that have a sidecar file next to them
    allowed,      \* ALLOWED_INODES
    notify,       \* paths with a create or modify event for the watcher
    observed,     \* what web processes did, queued for the telemetry loop
    worker,       \* what each task is doing
    restore,      \* the restore_file call under way
    unrecorded    \* inodes in it whose sidecar could not be written (a ghost)

disk == <<dir, elf, qdir, sidecar, unrecorded>>
vars == <<disk, allowed, notify, observed, worker, restore>>

IdleWorker == [pc |-> "idle", path |-> None, moved |-> None]
At(pc, p)  == [pc |-> pc, path |-> p, moved |-> None]
NoRestore  == [pc |-> "idle", path |-> None]

Free == {i \in Inodes : qdir[i] = None /\ \A p \in Paths : dir[p] # i}

\* is_inode_allowed: an empty allowlist allows everything, a path that cannot be
\* looked up is not allowed.
IsAllowed(p) == \/ allowed = {} /\ ~OtherFiles
                \/ dir[p] # None /\ dir[p] \in allowed
\* Variant: a file that cannot be looked up counts as some inode.
With_StatFails(p) == allowed \cup {dir[p]}
\* register_inode
With(p) == allowed \cup ({dir[p]} \ {None})

-----------------------------------------------------------------------------
(* The application and the operator *)

Observe(op, p) ==
    IF op \in Ops
    THEN /\ Len(observed) < MaxObserved
         /\ observed' = Append(observed, [op |-> op, path |-> p])
    ELSE UNCHANGED observed

\* Something writes a new file at p, or moves one over what is there: a web
\* process the telemetry observes, or somebody else (op = "none").
Put(p, isElf, op) ==
    /\ p[2] = 0
    /\ op = "write" => dir[p] = None
    /\ isElf => p \in ScanPaths
    /\ \E i \in Free :
          /\ dir' = [dir EXCEPT ![p] = i]
          /\ elf' = (elf \ {i, dir[p]}) \cup (IF isElf THEN {i} ELSE {})
    /\ notify' = notify \cup {p}
    /\ Observe(op, p)
    /\ UNCHANGED <<qdir, sidecar, unrecorded, allowed, worker, restore>>

\* A web process reads a file, or writes one in place.
Use(p, op) ==
    /\ dir[p] # None /\ p[2] = 0
    /\ notify' = IF op = "write" THEN notify \cup {p} ELSE notify
    /\ Observe(op, p)
    /\ UNCHANGED <<disk, allowed, worker, restore>>

Delete(p) ==
    /\ "delete" \in Ops /\ p[2] = 0 /\ dir[p] # None
    /\ dir' = [dir EXCEPT ![p] = None]
    /\ elf' = elf \ {dir[p]}
    /\ UNCHANGED <<qdir, sidecar, unrecorded, allowed, notify, observed, worker, restore>>

\* POST /api/v1/fim/register
Register(p) ==
    /\ "register" \in Ops /\ p[2] = 0
    /\ allowed' = With(p)
    /\ UNCHANGED <<disk, notify, observed, worker, restore>>

\* POST /api/v1/allowlist/add and remove: every file below a directory, here the
\* storage directories or the whole web root.  No event tells the watcher.
Below(S) == {dir[p] : p \in {q \in Paths : q[1] \in S}} \ {None}
AllowlistAdd(S) ==
    /\ "allowlist" \in Ops
    /\ allowed' = allowed \cup Below(S)
    /\ UNCHANGED <<disk, notify, observed, worker, restore>>
AllowlistRemove(S) ==
    /\ "allowlist" \in Ops
    /\ allowed' = allowed \ Below(S)
    /\ UNCHANGED <<disk, notify, observed, worker, restore>>

-----------------------------------------------------------------------------
(* The watcher: process_fim_event *)

\* Variant: the storage directories are left to the upload scans.
FimEvent_NotUploads(p) ==
    /\ worker[Fim] = IdleWorker /\ p \in notify
    /\ notify' = notify \ {p}
    /\ worker' = IF dir[p] # None /\ ~IsAllowed(p) /\ ~InStorage(p)
                 THEN [worker EXCEPT ![Fim] = At("move", p)] ELSE worker
    /\ UNCHANGED <<disk, allowed, observed, restore>>

FimEvent(p) ==
    /\ worker[Fim] = IdleWorker /\ p \in notify
    /\ notify' = notify \ {p}
    /\ worker' = IF dir[p] # None /\ ~IsAllowed(p)
                 THEN [worker EXCEPT ![Fim] = At("move", p)] ELSE worker
    /\ UNCHANGED <<disk, allowed, observed, restore>>

-----------------------------------------------------------------------------
(* The telemetry loop: handle_raw_event, file events of web processes *)

Take(op, p) ==
    /\ worker[Loop] = IdleWorker
    /\ observed # << >> /\ Head(observed) = [op |-> op, path |-> p]
    /\ observed' = Tail(observed)
    /\ UNCHANGED <<disk, notify, restore>>

Quarantine(p) == worker' = [worker EXCEPT ![Loop] = At("move", p)]

\* enqueue_upload_scan: register the inode now, scan the file later.  Bound: one
\* scan of a path at a time; the telemetry of the next waits for it.
EnqueueUploadScan(p) ==
    /\ worker[p] = IdleWorker
    /\ allowed' = With(p)
    /\ worker' = [worker EXCEPT ![p] = At("scan", p)]

FileOpen(p) ==
    /\ Take("open", p)
    /\ IF InStorage(p)
       THEN IF IsScript(p) THEN Quarantine(p) /\ UNCHANGED allowed
            ELSE allowed' = With(p) /\ UNCHANGED worker
       ELSE /\ IF IsAllowed(p) THEN UNCHANGED worker ELSE Quarantine(p)
            /\ UNCHANGED allowed

FileWrite(p) ==
    /\ Take("write", p)
    /\ IF InStorage(p) THEN EnqueueUploadScan(p)
       ELSE /\ IF IsAllowed(p) THEN UNCHANGED worker ELSE Quarantine(p)
            /\ UNCHANGED allowed

\* A file that comes from a temporary directory is let through.
FileRename(p, op) ==
    /\ Take(op, p)
    /\ IF InStorage(p) THEN EnqueueUploadScan(p)
       ELSE /\ IF op = "tmp_rename" THEN UNCHANGED worker ELSE Quarantine(p)
            /\ UNCHANGED allowed

-----------------------------------------------------------------------------
(* The task of an upload: scan_uploaded_file, then what its verdict asks for *)

Scan(p) ==
    /\ worker[p].pc = "scan"
    /\ worker' = [worker EXCEPT ![p] =
                     IF dir[p] \in elf
                     THEN At("deregister", p) ELSE IdleWorker]
    /\ UNCHANGED <<disk, allowed, notify, observed, restore>>

\* Variant: the file is taken off the allowlist and left to the watcher.
Deregister_Only(p) ==
    /\ worker[p].pc = "deregister"
    /\ allowed' = allowed \ {dir[p]}
    /\ worker' = [worker EXCEPT ![p] = IdleWorker]
    /\ UNCHANGED <<disk, notify, observed, restore>>

Deregister(p) ==
    /\ worker[p].pc = "deregister"
    /\ allowed' = allowed \ {dir[p]}
    /\ worker' = [worker EXCEPT ![p] = At("move", p)]
    /\ UNCHANGED <<disk, notify, observed, restore>>

-----------------------------------------------------------------------------
(* quarantine_file, as each of the tasks calls it *)

\* The move fails when the path is gone; everything else is done all the same.
Move(w) ==
    /\ worker[w].pc = "move"
    /\ LET p == worker[w].path
           i == dir[p]
       IN /\ worker' = [worker EXCEPT ![w].pc = "record", ![w].moved = i]
          /\ IF i # None
             THEN /\ dir' = [dir EXCEPT ![p] = None]
                  /\ qdir' = [qdir EXCEPT ![i] = p]
             ELSE UNCHANGED <<dir, qdir>>
    /\ UNCHANGED <<elf, sidecar, unrecorded, allowed, notify, observed, restore>>

\* The placeholder is created, or written over whatever has its name; a write that
\* fails is not noticed.
WriteShadow(p) ==
    \/ /\ Shadow(p) \in Paths
       /\ \E i \in IF dir[Shadow(p)] = None THEN Free ELSE {dir[Shadow(p)]} :
             /\ dir' = [dir EXCEPT ![Shadow(p)] = i]
             /\ elf' = elf \ {i}
       /\ notify' = notify \cup {Shadow(p)}
    \/ UNCHANGED <<dir, elf, notify>>

\* Variant: the call returns when the placeholder cannot be written.
Record_StopsWithoutShadow(w) ==
    /\ worker[w].pc = "record"
    /\ WriteShadow(worker[w].path)
    /\ worker' = IF notify' = notify THEN [worker EXCEPT ![w] = IdleWorker]
                 ELSE [worker EXCEPT ![w].pc = "sidecar"]
    /\ UNCHANGED <<qdir, sidecar, unrecorded, allowed, observed, restore>>

Record(w) ==
    /\ worker[w].pc = "record"
    /\ WriteShadow(worker[w].path)
    /\ worker' = [worker EXCEPT ![w].pc = "sidecar"]
    /\ UNCHANGED <<qdir, sidecar, unrecorded, allowed, observed, restore>>

\* The sidecar next to the quarantined file; nobody notices either if it cannot be
\* written.  No file is called .json: its sidecar would be the quarantined file itself.
WriteSidecar(w) ==
    /\ worker[w].pc = "sidecar"
    /\ LET moved == {worker[w].moved} \ {None}
       IN \/ sidecar' = sidecar \cup moved /\ UNCHANGED unrecorded
          \/ unrecorded' = unrecorded \cup moved /\ UNCHANGED sidecar
    /\ worker' = [worker EXCEPT ![w] = IdleWorker]
    /\ UNCHANGED <<dir, elf, qdir, notify, allowed, observed, restore>>

-----------------------------------------------------------------------------
(* restore_file, for a file the quarantine list shows with its origin *)

\* The rename replaces what has taken the file's place.  The sidecar, which
\* nothing reads any more, goes with it.
RestoreRename(i) ==
    /\ "restore" \in Ops /\ restore = NoRestore /\ qdir[i] # None /\ i \in sidecar
    /\ LET p == qdir[i]
       IN /\ dir' = [dir EXCEPT ![p] = i]
          /\ elf' = elf \ {dir[p]}
          /\ notify' = notify \cup {p}
          /\ restore' = [pc |-> "unshadow", path |-> p]
    /\ qdir' = [qdir EXCEPT ![i] = None]
    /\ sidecar' = sidecar \ {i}
    /\ UNCHANGED <<unrecorded, allowed, observed, worker>>

RestoreUnshadow ==
    /\ restore.pc = "unshadow"
    /\ LET s == Shadow(restore.path)
       IN IF s \in Paths
          THEN dir' = [dir EXCEPT ![s] = None]
          ELSE UNCHANGED dir
    /\ restore' = [restore EXCEPT !.pc = "register"]
    /\ UNCHANGED <<elf, qdir, sidecar, unrecorded, allowed, notify, observed, worker>>

RestoreRegister ==
    /\ restore.pc = "register"
    /\ allowed' = With(restore.path)
    /\ restore' = NoRestore
    /\ UNCHANGED <<disk, notify, observed, worker>>

-----------------------------------------------------------------------------

\* Any file may be there already.  seed_inode_allowlist has indexed those in the git
\* index or, where git does not answer, all of them.
Init ==
    /\ \E at \in [Files -> Inodes \cup {None}], git \in BOOLEAN :
          /\ \A f, g \in Files : f # g /\ at[f] # None => at[f] # at[g]
          /\ dir = [p \in Paths |-> IF p[2] = 0 THEN at[p[1]] ELSE None]
          /\ allowed = {at[f] : f \in IF git THEN Committed ELSE Files} \ {None}
    /\ elf \in SUBSET ({dir[p] : p \in ScanPaths} \ {None})
    /\ qdir = [i \in Inodes |-> None] /\ sidecar = {} /\ unrecorded = {}
    /\ notify = {} /\ observed = << >>
    /\ worker = [w \in Workers |-> IdleWorker]
    /\ restore = NoRestore

World == \E p \in Paths :
    \/ \E op \in {"write", "rename", "tmp_rename", "none"}, isElf \in BOOLEAN :
          Put(p, isElf, op)
    \/ \E op \in {"open", "write"} : Use(p, op)
    \/ Delete(p) \/ Register(p)

AllowlistCall == \E S \in {Files, Uploads} : AllowlistAdd(S) \/ AllowlistRemove(S)

TelemetryEvent ==
    \E p \in Paths : \/ FileOpen(p) \/ FileWrite(p)
                     \/ \E op \in {"rename", "tmp_rename"} : FileRename(p, op)

Work(w) == Move(w) \/ Record(w) \/ WriteSidecar(w)
Upload(p) == Scan(p) \/ Deregister(p)
Restore == (\E i \in Inodes : RestoreRename(i)) \/ RestoreUnshadow \/ RestoreRegister

Next == \/ World \/ AllowlistCall \/ TelemetryEvent \/ Restore
        \/ \E p \in Paths : FimEvent(p)
        \/ \E p \in ScanPaths : Upload(p)
        \/ \E w \in Workers : Work(w)

Spec == Init /\ [][Next]_vars

\* Every task the runtime holds goes on, and the watcher, whose channel is a
\* queue, comes to every path it was notified of.
Fairness == /\ \A w \in Workers : WF_vars(Work(w))
            /\ \A p \in ScanPaths : WF_vars(Upload(p))
            /\ \A p \in Paths : SF_vars(FimEvent(p))
            /\ WF_vars(TelemetryEvent)
            /\ WF_vars(RestoreUnshadow \/ RestoreRegister)
FairSpec == Spec /\ Fairness

-----------------------------------------------------------------------------
(* Properties *)

\* Type invariant: directories name inodes of the file system, and no task holds
\* a path or an inode outside them; the telemetry never names a placeholder.
TypeOK ==
    /\ dir \in [Paths -> Inodes \cup {None}]
    /\ elf \subseteq Inodes
    /\ qdir \in [Inodes -> Paths \cup {None}]
    /\ sidecar \subseteq Inodes /\ unrecorded \subseteq Inodes /\ allowed \subseteq Inodes
    /\ notify \subseteq Paths
    /\ observed \in Seq([op : Observed, path : Files \X {0}])
    /\ Len(observed) <= MaxObserved
    /\ worker \in [Workers -> [pc : {"idle", "scan", "deregister", "move",
                                     "record", "sidecar"},
                               path : Paths \cup {None},
                               moved : Inodes \cup {None}]]
    /\ restore \in [pc : {"idle", "unshadow", "register"}, path : Paths \cup {None}]

\* Once quarantine_file is done with a file, list_quarantined shows where it
\* came from, so that it can be restored, however many tasks quarantine files of
\* one path at once and whether or not the placeholder could be written; unless the
\* sidecar itself could not be.
Restorable ==
    \A i \in Inodes : qdir[i] # None =>
        \/ i \in sidecar \cup unrecorded
        \/ \E w \in Workers : worker[w].moved = i /\ worker[w].path = qdir[i]

\* "In either case, a .quarantined shadow placeholder is created at the original
\* path" (quarantine_file): the placeholder of a quarantined file is not itself
\* taken for an unregistered file.
PlaceholdersStay == \A i \in Inodes : qdir[i] # None => qdir[i][2] = 0

\* A file that is not allowed when the watcher has been notified of it does not stay
\* in the web root: it is moved away, or deleted, or registered.  (Untracked files that
\* were there at the start, and files that allowlist/remove takes off the list, stay
\* until the next event names them.)
UnregisteredGoes ==
    \A p \in Paths, i \in Inodes :
        p \in notify /\ dir[p] = i /\ ~IsAllowed(p) ~> dir[p] # i \/ IsAllowed(p)

\* An ELF image that is waiting to be scanned does not stay either, although it
\* is registered in the meantime.
ElfUploadGoes ==
    \A p \in ScanPaths, i \in Inodes :
        worker[p].pc = "scan" /\ dir[p] = i /\ i \in elf ~> dir[p] # i
=============================================================================
