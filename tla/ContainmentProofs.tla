-------------------------- MODULE ContainmentProofs --------------------------
(***************************************************************************)
(* What is quarantined can be restored (Restorable of Containment), for    *)
(* every set of files, inodes and operations, whichever records of         *)
(* quarantine_file fail, and however long a placeholder's name.            *)
(***************************************************************************)
EXTENDS Containment, TLAPS, SequenceTheorems

\* A task that does something has a path, and only a call of quarantine_file that
\* has moved a file knows which.
BusyWorkers ==
    \A w \in Workers : /\ worker[w].pc # "idle" => worker[w].path \in Paths
                       /\ worker[w].pc \notin {"record", "sidecar"} => worker[w].moved = None

Event      == [op : Observed, path : Files \X {0}]
WorkerRec  == [pc : {"idle", "scan", "deregister", "move", "record", "sidecar"},
               path : Paths \cup {None}, moved : Inodes \cup {None}]
RestoreRec == [pc : {"idle", "unshadow", "register"}, path : Paths \cup {None}]

BusyRestore == restore.pc # "idle" => restore.path \in Paths

Shapes == TypeOK /\ BusyWorkers /\ BusyRestore
IInv   == Shapes /\ Restorable

-----------------------------------------------------------------------------
(* Shapes *)

LEMMA PathFacts ==
    /\ ScanPaths \subseteq Paths /\ ScanPaths \subseteq Workers
    /\ Fim \in Workers /\ Loop \in Workers
    /\ None \notin Inodes /\ None \notin Paths
BY NamesAssumption, BoundsAssumption, WorkersAssumption DEF ScanPaths, Paths, Workers

LEMMA NamedPath == \A p \in Paths : p[2] = 0 => p \in Files \X {0}
BY DEF Paths

LEMMA InitInvariant == Init => IInv
<1> SUFFICES ASSUME Init PROVE IInv
  OBVIOUS
<1>1. PICK at \in [Files -> Inodes \cup {None}], git \in BOOLEAN :
         /\ dir = [p \in Paths |-> IF p[2] = 0 THEN at[p[1]] ELSE None]
         /\ allowed = {at[f] : f \in IF git THEN Committed ELSE Files} \ {None}
  BY DEF Init
<1>2. /\ dir \in [Paths -> Inodes \cup {None}] /\ allowed \subseteq Inodes
      /\ elf \subseteq Inodes
  <2>1. dir \in [Paths -> Inodes \cup {None}]
    BY <1>1 DEF Paths
  <2>2. allowed \subseteq Inodes
    BY <1>1, NamesAssumption
  <2>3. elf \subseteq Inodes
    BY <2>1, PathFacts DEF Init
  <2> QED
    BY <2>1, <2>2, <2>3
<1>3. Shapes
  <2>1. worker \in [Workers -> WorkerRec] /\ BusyWorkers
    BY PathFacts DEF Init, BusyWorkers, IdleWorker, WorkerRec
  <2>2. restore \in RestoreRec /\ BusyRestore
    BY DEF Init, BusyRestore, NoRestore, RestoreRec
  <2>3. observed \in Seq(Event) /\ Len(observed) <= MaxObserved
    BY BoundsAssumption, EmptySeq DEF Init
  <2>4. qdir \in [Inodes -> Paths \cup {None}]
    BY DEF Init
  <2> QED
    BY <1>2, <2>1, <2>2, <2>3, <2>4 DEF Init, Shapes, TypeOK, Event, WorkerRec, RestoreRec
<1> QED
  BY <1>3 DEF Init, IInv, Restorable

\* What Observe leaves in the queue.
LEMMA ObservedType ==
    ASSUME TypeOK, NEW op \in Observed \cup {"none"}, NEW p \in Files \X {0}, Observe(op, p)
    PROVE  observed' \in Seq(Event) /\ Len(observed') <= MaxObserved
<1>1. CASE op \in Ops
  <2> DEFINE e == [op |-> op, path |-> p]
  <2>1. Len(observed) < MaxObserved /\ observed' = Append(observed, e)
    BY <1>1 DEF Observe
  <2>2. e \in Event
    <3>1. op \in Observed
      BY <1>1, OpsAssumption DEF Observed
    <3> QED
      BY <3>1 DEF Event
  <2>3. observed \in Seq(Event)
    BY DEF TypeOK, Event
  <2> HIDE DEF e
  <2>4. observed' \in Seq(Event) /\ Len(observed') = Len(observed) + 1 /\ Len(observed) \in Nat
    BY <2>1, <2>2, <2>3, AppendProperties, LenProperties
  <2> QED
    BY <2>1, <2>4, BoundsAssumption
<1> QED
  BY <1>1 DEF Observe, TypeOK, Event

\* The events of processes that are not taken off the queue stay what they were.
LEMMA TakenType ==
    ASSUME TypeOK, observed # << >>
    PROVE  Tail(observed) \in Seq(Event) /\ Len(Tail(observed)) <= MaxObserved
<1>1. observed \in Seq(Event) /\ Len(observed) <= MaxObserved
  BY DEF TypeOK, Event
<1>2. Tail(observed) \in Seq(Event) /\ Len(Tail(observed)) = Len(observed) - 1
  BY <1>1, HeadTailProperties
<1>3. Len(observed) \in Nat
  BY <1>1, LenProperties
<1> QED
  BY <1>1, <1>2, <1>3, BoundsAssumption

LEMMA WithType ==
    ASSUME TypeOK, NEW p \in Paths
    PROVE  With(p) \subseteq Inodes
BY DEF With, TypeOK

\* One task goes to another state.
LEMMA WorkerStep ==
    ASSUME Shapes, NEW w \in Workers, NEW r \in WorkerRec,
           r.pc # "idle" => r.path \in Paths, r.pc \notin {"record", "sidecar"} => r.moved = None,
           worker' = [worker EXCEPT ![w] = r]
    PROVE  worker' \in [Workers -> WorkerRec] /\ BusyWorkers'
BY DEF Shapes, TypeOK, BusyWorkers, WorkerRec

LEMMA WorkerStates ==
    /\ IdleWorker \in WorkerRec /\ IdleWorker.pc = "idle" /\ IdleWorker.moved = None
    /\ \A p \in Paths, pc \in {"scan", "deregister", "move"} :
          /\ At(pc, p) \in WorkerRec /\ At(pc, p).pc = pc
          /\ At(pc, p).path = p /\ At(pc, p).moved = None
BY DEF IdleWorker, At, WorkerRec

LEMMA WorkerGoes ==
    ASSUME Shapes, NEW w \in Workers,
           \/ worker' = [worker EXCEPT ![w] = IdleWorker]
           \/ \E p \in Paths, pc \in {"scan", "deregister", "move"} :
                 worker' = [worker EXCEPT ![w] = At(pc, p)]
           \/ UNCHANGED worker
    PROVE  worker' \in [Workers -> WorkerRec] /\ BusyWorkers'
<1>1. CASE UNCHANGED worker
  BY <1>1 DEF Shapes, TypeOK, BusyWorkers, WorkerRec
<1>2. CASE worker' = [worker EXCEPT ![w] = IdleWorker]
  <2> HIDE DEF IdleWorker
  <2> QED
    BY <1>2, WorkerStates, WorkerStep
<1>3. ASSUME NEW p \in Paths, NEW pc \in {"scan", "deregister", "move"},
             worker' = [worker EXCEPT ![w] = At(pc, p)]
      PROVE  worker' \in [Workers -> WorkerRec] /\ BusyWorkers'
  <2> DEFINE r == At(pc, p)
  <2>1. r \in WorkerRec /\ r.path \in Paths /\ r.moved = None
    BY WorkerStates
  <2>2. worker' = [worker EXCEPT ![w] = r]
    BY <1>3
  <2> HIDE DEF r
  <2> QED
    BY <2>1, <2>2, WorkerStep
<1> QED
  BY <1>1, <1>2, <1>3

\* Shapes, one part for each kind of state.
FilesShape   == /\ dir \in [Paths -> Inodes \cup {None}] /\ qdir \in [Inodes -> Paths \cup {None}]
                /\ elf \subseteq Inodes /\ sidecar \subseteq Inodes
                /\ unrecorded \subseteq Inodes
                /\ allowed \subseteq Inodes
                /\ notify \subseteq Paths
QueueShape   == observed \in Seq(Event) /\ Len(observed) <= MaxObserved
WorkerShape  == worker \in [Workers -> WorkerRec] /\ BusyWorkers
RestoreShape == restore \in RestoreRec /\ BusyRestore

LEMMA ShapesParts == Shapes <=> FilesShape /\ QueueShape /\ WorkerShape /\ RestoreShape
BY DEF Shapes, TypeOK, FilesShape, QueueShape, WorkerShape, RestoreShape, Event, WorkerRec, RestoreRec

LEMMA WorldShapes == ASSUME Shapes, World PROVE Shapes'
<1> USE ShapesParts
<1>1. FilesShape /\ QueueShape /\ WorkerShape /\ RestoreShape /\ TypeOK
  BY DEF Shapes
<1>2. ASSUME NEW p \in Paths, NEW op \in {"write", "rename", "tmp_rename", "none"},
             NEW isElf \in BOOLEAN, Put(p, isElf, op)
      PROVE  Shapes'
  <2>1. FilesShape'
    BY <1>1, <1>2 DEF Put, FilesShape, Free
  <2>2. QueueShape'
    BY <1>1, <1>2, ObservedType, NamedPath DEF Put, QueueShape, Observed
  <2>3. WorkerShape' /\ RestoreShape'
    BY <1>1, <1>2 DEF Put, WorkerShape, RestoreShape, BusyWorkers, BusyRestore
  <2> QED
    BY <2>1, <2>2, <2>3, ShapesParts, PTL
<1>3. ASSUME NEW p \in Paths, NEW op \in {"open", "write"}, Use(p, op)
      PROVE  Shapes'
  <2>1. FilesShape'
    BY <1>1, <1>3 DEF Use, FilesShape, disk
  <2>2. QueueShape'
    BY <1>1, <1>3, ObservedType, NamedPath DEF Use, QueueShape, Observed
  <2>3. WorkerShape' /\ RestoreShape'
    BY <1>1, <1>3 DEF Use, WorkerShape, RestoreShape, BusyWorkers, BusyRestore
  <2> QED
    BY <2>1, <2>2, <2>3, ShapesParts, PTL
<1>4. ASSUME NEW p \in Paths, Delete(p) \/ Register(p)
      PROVE  Shapes'
  <2>1. FilesShape'
    BY <1>1, <1>4, WithType DEF Delete, Register, FilesShape, disk
  <2>2. QueueShape' /\ WorkerShape' /\ RestoreShape'
    BY <1>1, <1>4
       DEF Delete, Register, QueueShape, WorkerShape, RestoreShape, BusyWorkers, BusyRestore
  <2> QED
    BY <2>1, <2>2, ShapesParts, PTL
<1> QED
  BY <1>2, <1>3, <1>4 DEF World

LEMMA AllowlistShapes == ASSUME Shapes, AllowlistCall PROVE Shapes'
<1>1. FilesShape /\ QueueShape /\ WorkerShape /\ RestoreShape
  BY ShapesParts
<1>2. ASSUME NEW S, S \in {Files, Uploads} PROVE Below(S) \subseteq Inodes
  BY <1>1 DEF Below, FilesShape
<1>3. /\ allowed' \subseteq Inodes
      /\ UNCHANGED <<disk, notify, observed, worker, restore>>
  BY <1>1, <1>2 DEF AllowlistCall, AllowlistAdd, AllowlistRemove, FilesShape
<1>4. FilesShape' /\ QueueShape' /\ WorkerShape' /\ RestoreShape'
  BY <1>1, <1>3
     DEF FilesShape, QueueShape, WorkerShape, RestoreShape, BusyWorkers, BusyRestore, disk
<1> QED
  BY <1>4, ShapesParts, PTL

LEMMA TelemetryShapes == ASSUME Shapes, TelemetryEvent PROVE Shapes'
<1>1. FilesShape /\ QueueShape /\ WorkerShape /\ RestoreShape /\ TypeOK
  BY ShapesParts DEF Shapes
<1>2. PICK p \in Paths : FileOpen(p) \/ FileWrite(p)
                         \/ \E op \in {"rename", "tmp_rename"} : FileRename(p, op)
  BY DEF TelemetryEvent
<1>3. /\ observed # << >> /\ observed' = Tail(observed)
      /\ UNCHANGED <<disk, notify, restore>>
  BY <1>2 DEF FileOpen, FileWrite, FileRename, Take
<1>4. allowed' = allowed \/ allowed' = With(p)
  BY <1>2 DEF FileOpen, FileWrite, FileRename, EnqueueUploadScan
<1>5. \/ UNCHANGED worker
      \/ worker' = [worker EXCEPT ![Loop] = At("move", p)]
      \/ p \in ScanPaths /\ worker' = [worker EXCEPT ![p] = At("scan", p)]
  <2>1. Head(observed) \in Event
    BY <1>1, <1>3, HeadTailProperties DEF QueueShape
  <2>2. p[2] = 0
    BY <1>2, <2>1 DEF FileOpen, FileWrite, FileRename, Take, Event
  <2>3. InStorage(p) => p \in ScanPaths
    BY <2>2 DEF InStorage, ScanPaths, Paths
  <2> QED
    BY <1>2, <2>3 DEF FileOpen, FileWrite, FileRename, EnqueueUploadScan, Quarantine
<1>6. FilesShape'
  BY <1>1, <1>3, <1>4, WithType DEF FilesShape, disk
<1>7. QueueShape'
  BY <1>1, <1>3, TakenType DEF QueueShape
<1>8. RestoreShape'
  BY <1>1, <1>3 DEF RestoreShape, BusyRestore
<1>9. WorkerShape'
  BY <1>5, WorkerGoes, PathFacts DEF WorkerShape
<1> QED
  BY <1>6, <1>7, <1>8, <1>9, ShapesParts, PTL

LEMMA TaskShapes ==
    ASSUME Shapes,
           \/ \E p \in Paths : FimEvent(p)
           \/ \E p \in ScanPaths : Upload(p)
    PROVE  Shapes'
<1>1. FilesShape /\ QueueShape /\ WorkerShape /\ RestoreShape /\ TypeOK
  BY ShapesParts DEF Shapes
<1>2. ASSUME NEW p \in Paths, FimEvent(p)
      PROVE  Shapes'
  <2>1. UNCHANGED worker \/ worker' = [worker EXCEPT ![Fim] = At("move", p)]
    BY <1>2 DEF FimEvent
  <2>2. WorkerShape'
    BY <2>1, WorkerGoes, PathFacts DEF WorkerShape
  <2>3. FilesShape' /\ QueueShape' /\ RestoreShape'
    BY <1>1, <1>2 DEF FimEvent, FilesShape, QueueShape, RestoreShape, BusyRestore, disk
  <2> QED
    BY <2>2, <2>3, ShapesParts, PTL
<1>3. ASSUME NEW p \in ScanPaths, Upload(p)
      PROVE  Shapes'
  <2>1. \/ worker' = [worker EXCEPT ![p] = IdleWorker]
        \/ worker' = [worker EXCEPT ![p] = At("deregister", p)]
        \/ worker' = [worker EXCEPT ![p] = At("move", p)]
    <3>1. CASE Scan(p)
      BY <3>1 DEF Scan
    <3>2. CASE Deregister(p)
      BY <3>2 DEF Deregister
    <3> QED
      BY <1>3, <3>1, <3>2 DEF Upload
  <2>2. WorkerShape'
    BY <2>1, WorkerGoes, PathFacts DEF WorkerShape
  <2>3. FilesShape' /\ QueueShape' /\ RestoreShape'
    BY <1>1, <1>3
       DEF Upload, Scan, Deregister, FilesShape, QueueShape, RestoreShape, BusyRestore, disk
  <2> QED
    BY <2>2, <2>3, ShapesParts, PTL
<1> QED
  BY <1>2, <1>3

\* quarantine_file acts on a path of the web root.
LEMMA BusyPath ==
    ASSUME Shapes, NEW w \in Workers, worker[w].pc # "idle"
    PROVE  worker[w].path \in Paths
BY DEF Shapes, BusyWorkers

LEMMA ShadowIsWritten ==
    ASSUME Shapes, NEW p \in Paths, WriteShadow(p)
    PROVE  \/ UNCHANGED <<dir, elf, notify>>
           \/ \E s \in Paths, i \in Inodes :
                 /\ i = dir[s] \/ (dir[s] = None /\ i \in Free)
                 /\ dir' = [dir EXCEPT ![s] = i]
                 /\ elf' = elf \ {i}
                 /\ notify' = notify \cup {s}
<1>1. CASE UNCHANGED <<dir, elf, notify>>
  BY <1>1
<1>2. CASE ~UNCHANGED <<dir, elf, notify>>
  <2> DEFINE s == Shadow(p)
  <2>1. PICK i \in IF dir[s] = None THEN Free ELSE {dir[s]} :
           dir' = [dir EXCEPT ![s] = i] /\ elf' = elf \ {i}
    BY <1>2 DEF WriteShadow
  <2>2. s \in Paths /\ notify' = notify \cup {s}
    BY <1>2 DEF WriteShadow
  <2>3. dir[s] \in Inodes \cup {None}
    BY <2>2 DEF Shapes, TypeOK
  <2>4. i \in Inodes /\ (i = dir[s] \/ (dir[s] = None /\ i \in Free))
    BY <2>1, <2>3 DEF Free
  <2> HIDE DEF s
  <2> QED
    BY <2>1, <2>2, <2>4
<1> QED
  BY <1>1, <1>2

LEMMA WorkShapes == ASSUME Shapes, NEW w \in Workers, Work(w) PROVE Shapes'
<1>1. FilesShape /\ QueueShape /\ WorkerShape /\ RestoreShape /\ TypeOK
  BY ShapesParts DEF Shapes
<1>2. CASE Move(w)
  <2>1. worker[w].path \in Paths
    BY <1>2, BusyPath DEF Move
  <2>2. FilesShape'
    BY <1>1, <1>2, <2>1 DEF Move, FilesShape
  <2>3. WorkerShape'
    <3> DEFINE r == [worker[w] EXCEPT !.pc = "record", !.moved = dir[worker[w].path]]
    <3>1. worker[w] \in WorkerRec /\ dir[worker[w].path] \in Inodes \cup {None}
      BY <1>1, <2>1 DEF WorkerShape, FilesShape
    <3>2. r \in WorkerRec /\ r.pc = "record" /\ r.path \in Paths
      BY <2>1, <3>1 DEF WorkerRec
    <3>3. worker' = [worker EXCEPT ![w] = r]
      BY <1>1, <1>2, <3>1 DEF Move, WorkerShape, WorkerRec
    <3> HIDE DEF r
    <3> QED
      BY <3>2, <3>3, WorkerStep DEF WorkerShape
  <2>4. QueueShape' /\ RestoreShape'
    BY <1>1, <1>2 DEF Move, QueueShape, RestoreShape, BusyRestore
  <2> QED
    BY <2>2, <2>3, <2>4, ShapesParts, PTL
<1>3. CASE Record(w)
  <2>1. worker[w].path \in Paths /\ worker[w].moved \in Inodes \cup {None}
    BY <1>1, <1>3, BusyPath DEF Record, WorkerShape, WorkerRec
  <2>2. dir' \in [Paths -> Inodes \cup {None}] /\ elf' \subseteq Inodes /\ notify' \subseteq Paths
    BY <1>1, <1>3, <2>1, ShadowIsWritten DEF Record, FilesShape
  <2>3. FilesShape'
    BY <1>1, <1>3, <2>2 DEF Record, FilesShape
  <2>4. WorkerShape'
    <3> DEFINE r == [worker[w] EXCEPT !.pc = "sidecar"]
    <3>1. worker[w] \in WorkerRec
      BY <1>1 DEF WorkerShape
    <3>2. r \in WorkerRec /\ r.pc = "sidecar" /\ r.path \in Paths
      BY <2>1, <3>1 DEF WorkerRec
    <3>3. worker' = [worker EXCEPT ![w] = r]
      BY <1>1, <1>3, <3>1 DEF Record, WorkerShape, WorkerRec
    <3> HIDE DEF r
    <3> QED
      BY <3>2, <3>3, WorkerStep DEF WorkerShape
  <2>5. QueueShape' /\ RestoreShape'
    BY <1>1, <1>3 DEF Record, QueueShape, RestoreShape, BusyRestore
  <2> QED
    BY <2>3, <2>4, <2>5, ShapesParts, PTL
<1>4. CASE WriteSidecar(w)
  <2>1. worker[w].moved \in Inodes \cup {None}
    BY <1>1 DEF WorkerShape, WorkerRec
  <2>2. FilesShape'
    BY <1>1, <1>4, <2>1 DEF WriteSidecar, FilesShape
  <2>3. WorkerShape'
    BY <1>4, WorkerGoes DEF WriteSidecar, WorkerShape
  <2>4. QueueShape' /\ RestoreShape'
    BY <1>1, <1>4 DEF WriteSidecar, QueueShape, RestoreShape, BusyRestore
  <2> QED
    BY <2>2, <2>3, <2>4, ShapesParts, PTL
<1> QED
  BY <1>2, <1>3, <1>4 DEF Work

LEMMA RestoreShapes == ASSUME Shapes, Restore PROVE Shapes'
<1>1. FilesShape /\ QueueShape /\ WorkerShape /\ RestoreShape /\ TypeOK
  BY ShapesParts DEF Shapes
<1>2. QueueShape' /\ WorkerShape'
  BY <1>1
     DEF Restore, RestoreRename, RestoreUnshadow, RestoreRegister, QueueShape, WorkerShape, BusyWorkers, disk
<1>3. ASSUME NEW i \in Inodes, RestoreRename(i)
      PROVE  FilesShape' /\ RestoreShape'
  <2>1. qdir[i] \in Paths
    BY <1>1, <1>3 DEF RestoreRename, FilesShape
  <2> QED
    BY <1>1, <1>3, <2>1
       DEF RestoreRename, FilesShape, RestoreShape, RestoreRec, BusyRestore
<1>4. ASSUME RestoreUnshadow PROVE FilesShape' /\ RestoreShape'
  <2>1. FilesShape'
    BY <1>1, <1>4 DEF RestoreUnshadow, FilesShape
  <2>2. RestoreShape'
    BY <1>1, <1>4 DEF RestoreUnshadow, RestoreShape, RestoreRec, BusyRestore
  <2> QED
    BY <2>1, <2>2
<1>5. ASSUME RestoreRegister PROVE FilesShape' /\ RestoreShape'
  <2>1. restore.path \in Paths
    BY <1>1, <1>5 DEF RestoreRegister, RestoreShape, BusyRestore
  <2>2. FilesShape'
    BY <1>1, <1>5, <2>1, WithType DEF RestoreRegister, FilesShape, disk
  <2>3. RestoreShape'
    BY <1>5 DEF RestoreRegister, RestoreShape, RestoreRec, NoRestore, BusyRestore
  <2> QED
    BY <2>2, <2>3
<1>6. FilesShape' /\ RestoreShape'
  BY <1>3, <1>4, <1>5 DEF Restore
<1> QED
  BY <1>2, <1>6, ShapesParts, PTL

LEMMA ShapesStep == Shapes /\ [Next]_vars => Shapes'
<1> SUFFICES ASSUME Shapes, [Next]_vars PROVE Shapes'
  OBVIOUS
<1>1. CASE UNCHANGED vars
  BY <1>1 DEF vars, disk, Shapes, TypeOK, BusyWorkers, BusyRestore
<1>2. CASE Next
  BY <1>2, WorldShapes, AllowlistShapes, TelemetryShapes, TaskShapes, WorkShapes, RestoreShapes DEF Next
<1> QED
  BY <1>1, <1>2

\* TypeOK, for every set of files, inodes and operations: directories and tasks name
\* nothing outside the web root and its file system.
THEOREM TypeCorrect == Spec => []TypeOK
<1>1. Init => Shapes
  BY InitInvariant DEF IInv
<1>2. Shapes => TypeOK
  BY DEF Shapes
<1> QED
  BY <1>1, <1>2, ShapesStep, PTL DEF Spec

-----------------------------------------------------------------------------
(* Restorable *)

\* A task that has not moved a file yet is the witness of none.
LEMMA WitnessesStay ==
    ASSUME Shapes, Restorable, UNCHANGED <<qdir, sidecar, unrecorded>>,
           \A w \in Workers : \/ worker'[w] = worker[w]
                              \/ worker[w].pc \notin {"record", "sidecar"}
    PROVE  Restorable'
BY PathFacts DEF Shapes, BusyWorkers, Restorable

LEMMA RestorableStep ==
    ASSUME Shapes, Restorable, [Next]_vars
    PROVE  Restorable'
<1>1. /\ worker \in [Workers -> WorkerRec] /\ qdir \in [Inodes -> Paths \cup {None}]
      /\ dir \in [Paths -> Inodes \cup {None}]
  BY ShapesParts DEF WorkerShape, FilesShape
<1>2. CASE UNCHANGED vars \/ World \/ AllowlistCall
  <2>1. UNCHANGED <<qdir, sidecar, unrecorded, worker>>
    BY <1>2 DEF vars, disk, World, Put, Use, Delete, Register, AllowlistCall, AllowlistAdd,
                AllowlistRemove
  <2> QED
    BY <2>1, WitnessesStay
<1>3. CASE TelemetryEvent
  <2>1. PICK p \in Paths : FileOpen(p) \/ FileWrite(p)
                           \/ \E op \in {"rename", "tmp_rename"} : FileRename(p, op)
    BY <1>3 DEF TelemetryEvent
  <2>2. UNCHANGED <<qdir, sidecar, unrecorded>> /\ worker[Loop] = IdleWorker
    BY <2>1 DEF FileOpen, FileWrite, FileRename, Take, disk
  <2>3. \/ UNCHANGED worker \/ worker' = [worker EXCEPT ![Loop] = At("move", p)]
        \/ worker[p] = IdleWorker /\ worker' = [worker EXCEPT ![p] = At("scan", p)]
    BY <2>1 DEF FileOpen, FileWrite, FileRename, EnqueueUploadScan, Quarantine
  <2>4. \A w \in Workers : worker'[w] = worker[w] \/ worker[w].pc \notin {"record", "sidecar"}
    BY <1>1, <2>2, <2>3 DEF IdleWorker
  <2> QED
    BY <2>2, <2>4, WitnessesStay
<1>4. CASE \E p \in Paths : FimEvent(p)
  <2>1. /\ UNCHANGED <<qdir, sidecar, unrecorded>>
        /\ \A w \in Workers : worker'[w] = worker[w] \/ worker[w].pc \notin {"record", "sidecar"}
    BY <1>1, <1>4 DEF FimEvent, IdleWorker, disk
  <2> QED
    BY <2>1, WitnessesStay
<1>5. CASE \E p \in ScanPaths : Upload(p)
  <2>1. /\ UNCHANGED <<qdir, sidecar, unrecorded>>
        /\ \A w \in Workers : worker'[w] = worker[w] \/ worker[w].pc \notin {"record", "sidecar"}
    BY <1>1, <1>5 DEF Upload, Scan, Deregister, disk
  <2> QED
    BY <2>1, WitnessesStay
<1>6. ASSUME NEW w \in Workers, Move(w) PROVE Restorable'
  <2> DEFINE p == worker[w].path
             i == dir[p]
  <2>1. p \in Paths
    BY <1>6, BusyPath DEF Move
  <2>2. /\ worker'[w].path = p /\ worker'[w].moved = i
        /\ \A v \in Workers \ {w} : worker'[v] = worker[v]
    BY <1>1, <1>6 DEF Move, WorkerRec
  <2>3. worker[w].moved = None
    BY <1>6 DEF Move, Shapes, BusyWorkers
  <2>4. sidecar' = sidecar /\ unrecorded' = unrecorded
        /\ (IF i # None THEN qdir' = [qdir EXCEPT ![i] = p] ELSE qdir' = qdir)
    BY <1>6 DEF Move
  <2> HIDE DEF p, i
  <2>5. ASSUME NEW j \in Inodes, qdir'[j] # None, j # i \/ i = None
        PROVE  qdir'[j] = qdir[j]
    BY <1>1, <2>4, <2>5
  <2>6. ASSUME NEW j \in Inodes, qdir'[j] # None
        PROVE  \/ j \in sidecar' \cup unrecorded'
               \/ \E v \in Workers : worker'[v].moved = j /\ worker'[v].path = qdir'[j]
    <3>1. CASE j = i /\ i # None
      BY <1>1, <2>2, <2>4, <3>1
    <3>2. CASE j # i \/ i = None
      <4>1. qdir'[j] = qdir[j]
        BY <2>5, <2>6, <3>2
      <4> QED
        BY <2>2, <2>3, <2>4, <2>6, <4>1, PathFacts DEF Restorable
    <3> QED
      BY <3>1, <3>2
  <2> QED
    BY <2>6 DEF Restorable
<1>7. ASSUME NEW w \in Workers, Record(w) PROVE Restorable'
  <2>1. /\ UNCHANGED <<qdir, sidecar, unrecorded>>
        /\ \A v \in Workers : /\ worker'[v].moved = worker[v].moved
                              /\ worker'[v].path = worker[v].path
    BY <1>1, <1>7 DEF Record, WorkerRec
  <2> QED
    BY <2>1 DEF Restorable
<1>8. ASSUME NEW w \in Workers, WriteSidecar(w) PROVE Restorable'
  <2>1. /\ \A v \in Workers \ {w} : worker'[v] = worker[v]
        /\ qdir' = qdir
        /\ sidecar' \cup unrecorded' = sidecar \cup unrecorded \cup ({worker[w].moved} \ {None})
    BY <1>1, <1>8 DEF WriteSidecar
  <2> QED
    BY <2>1, PathFacts DEF Restorable
<1>9. CASE Restore
  <2>1. CASE RestoreUnshadow \/ RestoreRegister
    BY <2>1, WitnessesStay DEF RestoreUnshadow, RestoreRegister, disk
  <2>2. ASSUME NEW i \in Inodes, RestoreRename(i) PROVE Restorable'
    BY <1>1, <2>2 DEF RestoreRename, Restorable
  <2> QED
    BY <1>9, <2>1, <2>2 DEF Restore
<1> QED
  BY <1>2, <1>3, <1>4, <1>5, <1>6, <1>7, <1>8, <1>9 DEF Next, Work

\* Restorable: what quarantine_file has finished with can be restored, however many
\* tasks quarantine files of however many paths at once, and whether or not their
\* placeholders could be written; unless the sidecar itself could not be.
THEOREM QuarantinedIsRestorable == Spec => []Restorable
<1>1. Init => Shapes /\ Restorable
  BY InitInvariant DEF IInv
<1>2. Shapes /\ Restorable /\ [Next]_vars => (Shapes /\ Restorable)'
  BY ShapesStep, RestorableStep
<1> QED
  BY <1>1, <1>2, PTL DEF Spec

=============================================================================
