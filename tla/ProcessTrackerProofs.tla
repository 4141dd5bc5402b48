------------------------ MODULE ProcessTrackerProofs ------------------------
(* What holds of ProcessTracker for every set of pids, images and bounds. *)
EXTENDS ProcessTracker, TLAPS, SequenceTheorems

\* What the handler has read of the parent is of the same kind as a node.
ContextRooted ==
    handler # Idle => (handler.ctx.install <=> handler.ctx.root # None)

\* InstallContextRooted is inductive only together with what the handler holds
\* between reading the parent and inserting the child.
IInv == TypeOK /\ InstallContextRooted /\ ContextRooted

-----------------------------------------------------------------------------

LEMMA InitType == Init => TypeOK
<1> SUFFICES ASSUME Init PROVE TypeOK
  OBVIOUS
<1>1. PICK used \in SUBSET Preexisting : \E img \in [used -> Images],
              listening \in SUBSET used, underWeb \in SUBSET used,
              root \in [used -> (used \X {0, 1}) \cup {None}] :
          Running(used, img, listening, underWeb, root)
  BY DEF Init
<1>2. PICK img \in [used -> Images], listening \in SUBSET used,
           underWeb \in SUBSET used, root \in [used -> (used \X {0, 1}) \cup {None}] :
          Running(used, img, listening, underWeb, root)
  BY <1>1
<1>3. used \subseteq Pids
  BY PidsAssumption
<1>4. \A p \in used : root[p] \in RootIds
  BY <1>3 DEF RootIds, Lives
<1>5. None \in RootIds
  BY DEF RootIds
<1>a. os \in [Pids -> Process]
  <2> SUFFICES ASSUME NEW p \in Pids PROVE os[p] \in Process
    BY <1>2 DEF Running
  <2>1. CASE p \in used
    <3>1. os[p] = [inc |-> 1, alive |-> TRUE, img |-> img[p], root |-> root[p],
                   web |-> img[p] \in WebImages \/ p \in listening \cup underWeb,
                   unseen |-> \/ root[p] # None
                              \/ /\ p \in underWeb \ listening
                                 /\ img[p] \notin WebImages]
      BY <1>2, <2>1 DEF Running
    <3> QED
      BY <1>4, <2>1, <3>1 DEF Process, Lives
  <2>2. CASE p \notin used
    <3>1. os[p] = [inc |-> 0, alive |-> FALSE, img |-> None, root |-> None,
                   web |-> FALSE, unseen |-> FALSE]
      BY <1>2, <2>2 DEF Running
    <3> QED
      BY <1>5, <3>1 DEF Process, Lives
  <2> QED
    BY <2>1, <2>2
<1>b. listening_pids \subseteq Pids
  BY <1>2, <1>3 DEF Running
<1>c. process_map \in [Pids -> ProcessNode \cup {None}]
  BY <1>a DEF Init, ProcessNode, PidOrNone, Process, Lives
<1> QED
  BY <1>a, <1>b, <1>c DEF Init, TypeOK, Idle, NoKill, PidOrNone

\* What Terminate and Spare do to the host keeps its type.
LEMMA EffectType ==
  ASSUME TypeOK, NEW waiting \in Seq(Events),
         \/ Spare(waiting)
         \/ \E p \in Pids, judged \in Lives, reasons \in SUBSET Reasons :
               Terminate(p, judged, reasons, waiting)
  PROVE  /\ os' \in [Pids -> Process]
         /\ stream' \in Seq(Events)
         /\ sigkill' \in Kill \cup {NoKill}
<1>1. CASE Spare(waiting)
  BY <1>1 DEF Spare, TypeOK
<1>2. ASSUME NEW p \in Pids, NEW judged \in Lives, NEW reasons \in SUBSET Reasons,
             Terminate(p, judged, reasons, waiting)
      PROVE  /\ os' \in [Pids -> Process]
             /\ stream' \in Seq(Events)
             /\ sigkill' \in Kill \cup {NoKill}
  <2>1. os[p] \in Process /\ os \in [Pids -> Process]
    BY DEF TypeOK
  <2>2. StopEvent(p) \in Events
    BY <2>1 DEF StopEvent, Events, StopEvents, Process
  <2>3. sigkill' \in Kill
    BY <1>2, <2>1 DEF Terminate, Kill, Process, Lives
  <2>4. os' \in [Pids -> Process]
    <3>1. [os[p] EXCEPT !.alive = FALSE] \in Process
      BY <2>1 DEF Process
    <3>2. os' = os \/ os' = [os EXCEPT ![p] = [os[p] EXCEPT !.alive = FALSE]]
      BY <1>2 DEF Terminate
    <3>3. QED
      BY <2>1, <3>1, <3>2
  <2>5. stream' \in Seq(Events)
    <3>1. Append(waiting, StopEvent(p)) \in Seq(Events)
      BY <2>2, AppendProperties
    <3>2. QED
      BY <1>2, <3>1 DEF Terminate
  <2>6. QED
    BY <2>3, <2>4, <2>5
<1>3. QED
  BY <1>1, <1>2

\* Taking the first event off the stream leaves events.
LEMMA StreamType ==
  ASSUME TypeOK, stream # << >>
  PROVE  Head(stream) \in Events /\ Tail(stream) \in Seq(Events)
<1>1. stream \in Seq(Events)
  BY DEF TypeOK
<1>2. QED
  BY <1>1, HeadTailProperties

\* An event of a given type has the fields of that type.
LEMMA EventShape ==
  ASSUME NEW e \in Events
  PROVE  /\ e.pid \in Pids
         /\ e.type = "ProcessCreate" => e \in CreateEvents
         /\ e.type = "ProcessStop" => e \in StopEvents
<1>1. CASE e \in CreateEvents
  BY <1>1 DEF CreateEvents
<1>2. CASE e \in StopEvents
  BY <1>2 DEF StopEvents
<1>3. CASE e \in ActEvents
  BY <1>3, ActivitiesAssumption DEF ActEvents
<1>4. QED
  BY <1>1, <1>2, <1>3 DEF Events

LEMMA SentType ==
  ASSUME TypeOK, NEW e \in Events
  PROVE  Sent(<<e>>) \in Seq(Events)
BY ConcatProperties DEF Sent, TypeOK

LEMMA HostType == TypeOK /\ Host => TypeOK'
<1> SUFFICES ASSUME TypeOK, Host PROVE TypeOK'
  OBVIOUS
<1>t. os \in [Pids -> Process] /\ stream \in Seq(Events)
  BY DEF TypeOK
<1>1. ASSUME NEW p \in PidOrNone, NEW c \in Pids, NEW img \in Images,
             Spawn(p, c, img)
      PROVE  TypeOK'
  <2>1. os' \in [Pids -> Process]
    <3>1. \A r \in RootIds, w, u \in BOOLEAN :
             [inc |-> os[c].inc + 1, alive |-> TRUE, img |-> img, web |-> w,
              root |-> r, unseen |-> u] \in Process
      BY <1>t DEF Process, Lives
    <3>2. (IF p # None /\ os[p].root # None THEN os[p].root
           ELSE IF img \in InstallImages THEN <<c, os[c].inc + 1>> ELSE None)
             \in RootIds
      BY <1>t DEF PidOrNone, Process, RootIds, Lives
    <3>3. (img \in WebImages \/ (p # None /\ os[p].web)) \in BOOLEAN
      OBVIOUS
    <3>4. (p # None /\ os[p].unseen) \in BOOLEAN
      OBVIOUS
    <3>5. QED
      BY <1>1, <1>t, <3>1, <3>2, <3>3, <3>4 DEF Spawn
  <2>2. stream' \in Seq(Events)
    <3>1. PICK hdr \in {p, c} :
             stream' = Sent(<<[type |-> "ProcessCreate", hdr |-> hdr,
                               pid |-> c, ppid |-> p, img |-> img,
                               inc |-> os[c].inc + 1]>>)
      BY <1>1 DEF Spawn
    <3>2. os[c].inc + 1 \in Lives /\ hdr \in PidOrNone
      BY <1>t DEF Process, Lives, PidOrNone
    <3>3. [type |-> "ProcessCreate", hdr |-> hdr, pid |-> c, ppid |-> p,
           img |-> img, inc |-> os[c].inc + 1] \in Events
      BY <3>2 DEF Events, CreateEvents
    <3>4. QED
      BY <3>1, <3>3, SentType
  <2>3. QED
    BY <1>1, <2>1, <2>2 DEF Spawn, TypeOK, tables, tasks
<1>2. ASSUME NEW p \in Pids, Exit(p)
      PROVE  TypeOK'
  <2>1. StopEvent(p) \in Events
    BY <1>t DEF StopEvent, Events, StopEvents, Process
  <2>2. [os[p] EXCEPT !.alive = FALSE] \in Process
    BY <1>t DEF Process
  <2>3. os' = [os EXCEPT ![p] = [os[p] EXCEPT !.alive = FALSE]]
    BY <1>2 DEF Exit
  <2>4. os' \in [Pids -> Process] /\ stream' \in Seq(Events)
    BY <1>2, <1>t, <2>1, <2>2, <2>3, SentType DEF Exit
  <2>5. QED
    BY <1>2, <2>4 DEF Exit, TypeOK, tables, tasks
<1>3. ASSUME NEW p \in Pids, NEW a \in Activities, Act(p, a)
      PROVE  TypeOK'
  <2>1. [type |-> a, hdr |-> p, pid |-> p] \in Events
    BY DEF Events, ActEvents
  <2>2. [os[p] EXCEPT !.web = @ \/ a = "Listen"] \in Process
    BY <1>t DEF Process
  <2>3. os' = [os EXCEPT ![p] = [os[p] EXCEPT !.web = @ \/ a = "Listen"]]
    BY <1>3 DEF Act
  <2>4. os' \in [Pids -> Process] /\ stream' \in Seq(Events)
    BY <1>3, <1>t, <2>1, <2>2, <2>3, SentType DEF Act
  <2>5. QED
    BY <1>3, <2>4 DEF Act, TypeOK, tables, tasks
<1>4. CASE Disconnect
  <2>1. PICK n \in 0..Len(stream) : stream' = SubSeq(stream, 1, n)
    BY <1>4 DEF Disconnect
  <2>2. stream' \in Seq(Events)
    BY <1>t, <2>1, SubSeqProperties
  <2>3. QED
    BY <1>4, <2>2 DEF Disconnect, TypeOK, tables, tasks
<1>5. CASE Reconnect
  BY <1>5 DEF Reconnect, TypeOK, tables, tasks
<1>6. QED
  BY <1>1, <1>2, <1>3, <1>4, <1>5 DEF Host

-----------------------------------------------------------------------------

LEMMA ContextType ==
  ASSUME TypeOK, NEW p \in PidOrNone
  PROVE  ParentContext(p) \in Context
<1>1. CASE p # None /\ Tracked(p)
  <2>1. p \in Pids /\ process_map[p] \in ProcessNode
    BY <1>1 DEF PidOrNone, Tracked, TypeOK
  <2>2. process_map[p].depth \in 0..2
    BY <2>1 DEF ProcessNode
  <2>3. (IF process_map[p].depth = 2 THEN 2 ELSE process_map[p].depth + 1) \in 0..2
    BY <2>2
  <2>4. QED
    BY <1>1, <2>1, <2>3 DEF ParentContext, Context, ProcessNode
<1>2. CASE ~(p # None /\ Tracked(p))
  BY <1>2 DEF ParentContext, Context, PidOrNone
<1>3. QED
  BY <1>1, <1>2

LEMMA ChildNodeType ==
  ASSUME NEW ev \in CreateEvents, NEW ctx \in Context
  PROVE  ChildNode(ev, ctx) \in ProcessNode
BY DEF ChildNode, CreateEvents, Context, ProcessNode, PidOrNone

LEMMA LoopType == TypeOK /\ TelemetryLoop => TypeOK'
<1> SUFFICES ASSUME TypeOK, TelemetryLoop PROVE TypeOK'
  OBVIOUS
<1>t. /\ stream \in Seq(Events)
      /\ process_map \in [Pids -> ProcessNode \cup {None}]
      /\ process_seen \in [Pids -> {"none", "fresh", "stale"}]
      /\ handler \in [ev : CreateEvents, ctx : Context] \cup {Idle}
  BY DEF TypeOK
<1>1. CASE DropEvent
  <2>1. Tail(stream) \in Seq(Events)
    BY <1>1, StreamType DEF DropEvent
  <2>2. QED
    BY <1>1, <2>1, EffectType DEF DropEvent, TypeOK, tables, tasks
<1>2. CASE HandleProcessCreate
  <2>1. Head(stream) \in CreateEvents /\ Tail(stream) \in Seq(Events)
    BY <1>2, StreamType, EventShape DEF HandleProcessCreate, Incoming
  <2>2. Head(stream).pid \in Pids /\ ParentContext(Head(stream).ppid) \in Context
    BY <2>1, ContextType DEF CreateEvents
  <2>3. handler' \in [ev : CreateEvents, ctx : Context]
    BY <1>2, <2>1, <2>2 DEF HandleProcessCreate
  <2>4. process_seen' \in [Pids -> {"none", "fresh", "stale"}]
    BY <1>2, <1>t, <2>2 DEF HandleProcessCreate
  <2>5. QED
    BY <1>2, <2>1, <2>3, <2>4, EffectType DEF HandleProcessCreate, TypeOK
<1>3. CASE InsertAndJudge
  <2>1. handler.ev \in CreateEvents /\ handler.ctx \in Context
    BY <1>3, <1>t DEF InsertAndJudge, Idle
  <2>2. handler.ev.pid \in Pids /\ handler.ev.inc \in Lives
    BY <2>1 DEF CreateEvents
  <2>3. process_map' \in [Pids -> ProcessNode \cup {None}]
    BY <1>3, <1>t, <2>1, <2>2, ChildNodeType DEF InsertAndJudge
  <2>4. Verdicts(handler.ev.img) \in SUBSET Reasons
    BY DEF Verdicts, Reasons
  <2>5. \/ Spare(stream)
        \/ Terminate(handler.ev.pid, handler.ev.inc, Verdicts(handler.ev.img),
                     stream)
    BY <1>3 DEF InsertAndJudge
  <2>6. /\ os' \in [Pids -> Process] /\ stream' \in Seq(Events)
        /\ sigkill' \in Kill \cup {NoKill}
    BY <1>t, <2>2, <2>4, <2>5, EffectType
  <2>7. QED
    BY <1>3, <2>3, <2>6 DEF InsertAndJudge, TypeOK
<1>4. CASE HandleProcessStop
  <2>1. Head(stream) \in StopEvents /\ Tail(stream) \in Seq(Events)
    BY <1>4, StreamType, EventShape DEF HandleProcessStop, Incoming
  <2>2. Head(stream).pid \in Pids /\ Head(stream).inc \in Lives
    BY <2>1 DEF StopEvents
  <2>3. [root |-> Head(stream).pid, inc |-> Head(stream).inc, pc |-> "sleep",
         victims |-> {}] \in Cleanup
    BY <2>2 DEF Cleanup
  <2>4. /\ process_map' \in [Pids -> ProcessNode \cup {None}]
        /\ process_seen' \in [Pids -> {"none", "fresh", "stale"}]
        /\ cleanups' \subseteq Cleanup
    <3> DEFINE p == Head(stream).pid
    <3>1. CASE Tracked(p) /\ process_map[p].is_top_level_install
      <4>1. /\ cleanups' = cleanups \cup
                 {[root |-> p, inc |-> Head(stream).inc, pc |-> "sleep",
                   victims |-> {}]}
            /\ UNCHANGED <<process_map, process_seen>>
        BY <1>4, <3>1 DEF HandleProcessStop, tables
      <4>2. QED
        BY <1>t, <2>3, <4>1 DEF TypeOK
    <3>2. CASE ~(Tracked(p) /\ process_map[p].is_top_level_install)
      <4>1. /\ process_map' = [process_map EXCEPT ![p] = None]
            /\ process_seen' = [process_seen EXCEPT ![p] = "none"]
            /\ UNCHANGED cleanups
        BY <1>4, <3>2 DEF HandleProcessStop
      <4>2. QED
        BY <1>t, <2>2, <4>1 DEF TypeOK
    <3>3. QED
      BY <3>1, <3>2
  <2>5. QED
    BY <1>4, <2>1, <2>4, EffectType DEF HandleProcessStop, TypeOK
<1>5. CASE HandleListen
  <2>1. Head(stream).pid \in Pids /\ Tail(stream) \in Seq(Events)
    BY <1>5, StreamType, EventShape DEF HandleListen, Incoming
  <2>2. process_map' \in [Pids -> ProcessNode \cup {None}]
    <3> DEFINE p == Head(stream).pid
    <3>1. CASE Tracked(p)
      <4>1. [process_map[p] EXCEPT !.is_web_server = TRUE] \in ProcessNode
        BY <1>t, <2>1, <3>1 DEF Tracked, ProcessNode
      <4>2. process_map' =
              [process_map EXCEPT ![p] =
                 [process_map[p] EXCEPT !.is_web_server = TRUE]]
        BY <1>5, <3>1 DEF HandleListen
      <4>3. QED
        BY <1>t, <4>1, <4>2
    <3>2. CASE ~Tracked(p)
      BY <1>5, <1>t, <3>2 DEF HandleListen
    <3>3. QED
      BY <3>1, <3>2
  <2>3. listening_pids' \subseteq Pids
    BY <1>5, <2>1 DEF HandleListen, TypeOK
  <2>4. /\ os' \in [Pids -> Process] /\ stream' \in Seq(Events)
        /\ sigkill' \in Kill \cup {NoKill}
    BY <1>5, <2>1, EffectType DEF HandleListen
  <2>5. QED
    BY <1>5, <2>2, <2>3, <2>4 DEF HandleListen, TypeOK, tasks
<1>6. ASSUME NEW a \in Activities \ {"Listen"}, HandleActivity(a)
      PROVE  TypeOK'
  <2>1. Head(stream).pid \in Pids /\ Tail(stream) \in Seq(Events)
    BY <1>6, StreamType, EventShape DEF HandleActivity, Incoming
  <2>2. (IF Tracked(Head(stream).pid) THEN process_map[Head(stream).pid].inc
         ELSE 0) \in Lives
    BY <1>t, <2>1 DEF Tracked, ProcessNode, Lives
  <2>3. {a} \in SUBSET Reasons
    BY ActivitiesAssumption DEF Reasons
  <2>4. /\ os' \in [Pids -> Process] /\ stream' \in Seq(Events)
        /\ sigkill' \in Kill \cup {NoKill}
    BY <1>6, <2>1, <2>2, <2>3, EffectType DEF HandleActivity
  <2>5. QED
    BY <1>6, <2>4 DEF HandleActivity, TypeOK, tables, tasks
<1>7. QED
  BY <1>1, <1>2, <1>3, <1>4, <1>5, <1>6 DEF TelemetryLoop

LEMMA CleanupType ==
  ASSUME TypeOK, NEW r \in Pids, CleanupStep(r)
  PROVE  TypeOK'
<1>t. /\ stream \in Seq(Events) /\ cleanups \subseteq Cleanup
      /\ process_map \in [Pids -> ProcessNode \cup {None}]
      /\ process_seen \in [Pids -> {"none", "fresh", "stale"}]
  BY DEF TypeOK
<1>0. PICK t \in cleanups : \/ CleanupCollect(t)
                           \/ \E p \in Pids : CleanupKill(t, p)
                           \/ CleanupUntrack(t)
                           \/ CleanupForget(t)
  BY DEF CleanupStep
<1>c. t \in Cleanup
  BY <1>t
<1>1. CASE CleanupCollect(t)
  <2> DEFINE vs == {p \in Pids \ {t.root} :
                      Tracked(p) /\ process_map[p].install_root_pid = t.root}
  <2>1. [t EXCEPT !.pc = "kill", !.victims = vs] \in Cleanup
    BY <1>c DEF Cleanup
  <2>2. cleanups' \subseteq Cleanup
    BY <1>1, <1>t, <2>1 DEF CleanupCollect, Move
  <2>3. QED
    BY <1>1, <1>t, <2>2, EffectType DEF CleanupCollect, TypeOK, tables
<1>2. ASSUME NEW p \in Pids, CleanupKill(t, p)
      PROVE  TypeOK'
  <2>1. [t EXCEPT !.victims = @ \ {p}] \in Cleanup
    BY <1>c DEF Cleanup
  <2>2. cleanups' \subseteq Cleanup
    BY <1>2, <1>t, <2>1 DEF CleanupKill, Move
  <2>3. Tracked(p) => process_map[p].inc \in Lives
    BY <1>t DEF Tracked, ProcessNode
  <2>4. /\ os' \in [Pids -> Process] /\ stream' \in Seq(Events)
        /\ sigkill' \in Kill \cup {NoKill}
    BY <1>2, <1>t, <2>3, EffectType DEF CleanupKill, Reasons
  <2>5. QED
    BY <1>2, <2>2, <2>4 DEF CleanupKill, TypeOK, tables
<1>3. CASE CleanupUntrack(t)
  <2>1. [t EXCEPT !.pc = "forget"] \in Cleanup
    BY <1>c DEF Cleanup
  <2>2. cleanups' \subseteq Cleanup
    BY <1>3, <1>t, <2>1 DEF CleanupUntrack, Move
  <2>3. process_map' \in [Pids -> ProcessNode \cup {None}]
    BY <1>3, <1>t DEF CleanupUntrack
  <2>4. QED
    BY <1>3, <1>t, <2>2, <2>3, EffectType DEF CleanupUntrack, TypeOK
<1>4. CASE CleanupForget(t)
  <2>1. process_seen' \in [Pids -> {"none", "fresh", "stale"}]
    BY <1>4, <1>t DEF CleanupForget
  <2>2. QED
    BY <1>4, <1>t, <2>1, EffectType DEF CleanupForget, TypeOK
<1>5. QED
  BY <1>0, <1>1, <1>2, <1>3, <1>4

LEMMA EvictType == TypeOK /\ EvictTask => TypeOK'
<1> SUFFICES ASSUME TypeOK, EvictTask PROVE TypeOK'
  OBVIOUS
<1>t. /\ stream \in Seq(Events)
      /\ evictor \in [todo : SUBSET Pids, victim : PidOrNone,
                      pc : {"untrack", "forget"}]
      /\ process_map \in [Pids -> ProcessNode \cup {None}]
      /\ process_seen \in [Pids -> {"none", "fresh", "stale"}]
  BY DEF TypeOK
<1>1. CASE EvictCollect
  <2>1. evictor' \in [todo : SUBSET Pids, victim : PidOrNone,
                      pc : {"untrack", "forget"}]
    BY <1>1, <1>t DEF EvictCollect
  <2>2. QED
    BY <1>1, <1>t, <2>1, EffectType DEF EvictCollect, TypeOK, tables
<1>2. ASSUME NEW p \in Pids, EvictCheck(p)
      PROVE  TypeOK'
  <2>1. evictor' \in [todo : SUBSET Pids, victim : PidOrNone,
                      pc : {"untrack", "forget"}]
    BY <1>2, <1>t DEF EvictCheck, PidOrNone
  <2>2. QED
    BY <1>2, <1>t, <2>1, EffectType DEF EvictCheck, TypeOK, tables
<1>3. CASE EvictUntrack
  <2>1. /\ evictor' \in [todo : SUBSET Pids, victim : PidOrNone,
                         pc : {"untrack", "forget"}]
        /\ process_map' \in [Pids -> ProcessNode \cup {None}]
    BY <1>3, <1>t DEF EvictUntrack
  <2>2. QED
    BY <1>3, <1>t, <2>1, EffectType DEF EvictUntrack, TypeOK
<1>4. CASE EvictForget
  <2>1. /\ evictor' \in [todo : SUBSET Pids, victim : PidOrNone,
                         pc : {"untrack", "forget"}]
        /\ process_seen' \in [Pids -> {"none", "fresh", "stale"}]
    BY <1>4, <1>t DEF EvictForget, PidOrNone
  <2>2. QED
    BY <1>4, <1>t, <2>1, EffectType DEF EvictForget, TypeOK
<1>5. QED
  BY <1>1, <1>2, <1>3, <1>4 DEF EvictTask

\* Every step keeps the type invariant.
LEMMA NextType == TypeOK /\ [Next]_vars => TypeOK'
<1> SUFFICES ASSUME TypeOK, [Next]_vars PROVE TypeOK'
  OBVIOUS
<1>t. stream \in Seq(Events)
  BY DEF TypeOK
<1>1. ASSUME NEW p \in Switchable, DisableMonitoring(p) \/ EnableMonitoring(p)
      PROVE  TypeOK'
  <2>1. disabled_pids' \subseteq Pids
    BY <1>1, PidsAssumption DEF DisableMonitoring, EnableMonitoring, TypeOK
  <2>2. QED
    BY <1>1, <1>t, <2>1, EffectType
       DEF DisableMonitoring, EnableMonitoring, TypeOK, tables, tasks
<1>2. ASSUME NEW p \in Pids, Age(p)
      PROVE  TypeOK'
  <2>1. process_seen' \in [Pids -> {"none", "fresh", "stale"}]
    BY <1>2 DEF Age, TypeOK
  <2>2. QED
    BY <1>2, <1>t, <2>1, EffectType DEF Age, TypeOK, tasks
<1>3. CASE UNCHANGED vars
  BY <1>3 DEF vars, host, tables, tasks, TypeOK
<1>4. QED
  BY <1>1, <1>2, <1>3, HostType, LoopType, CleanupType, EvictType
     DEF Next, Operator

\* Type correctness: every variable keeps the shape the code gives it.
THEOREM TypeCorrect == Spec => []TypeOK
<1>1. QED
  BY InitType, NextType, PTL DEF Spec

-----------------------------------------------------------------------------

\* A parent's context is rooted when its node is.
LEMMA ContextOfRooted ==
  ASSUME TypeOK, InstallContextRooted, NEW p \in PidOrNone
  PROVE  ParentContext(p).install <=> ParentContext(p).root # None
<1>1. CASE p # None /\ Tracked(p)
  <2>1. p \in Pids
    BY <1>1 DEF PidOrNone
  <2>2. /\ ParentContext(p).install = process_map[p].is_install_context
        /\ ParentContext(p).root = process_map[p].install_root_pid
    BY <1>1 DEF ParentContext
  <2>3. process_map[p].is_install_context <=>
            process_map[p].install_root_pid # None
    BY <1>1, <2>1 DEF InstallContextRooted
  <2>4. QED
    BY <2>2, <2>3
<1>2. CASE ~(p # None /\ Tracked(p))
  BY <1>2 DEF ParentContext
<1>3. QED
  BY <1>1, <1>2

\* A child of a rooted context is rooted.
LEMMA ChildOfRooted ==
  ASSUME NEW ev \in CreateEvents, NEW ctx \in Context,
         ctx.install <=> ctx.root # None
  PROVE  LET node == ChildNode(ev, ctx)
         IN /\ node.is_install_context <=> node.install_root_pid # None
            /\ node.is_top_level_install => node.install_root_pid = ev.pid
<1>1. ev.pid # None
  BY PidsAssumption DEF CreateEvents
<1>2. QED
  BY <1>1 DEF ChildNode

\* The two parts that concern the engine are kept by every step.
LEMMA NextRooted == IInv /\ [Next]_vars => InstallContextRooted' /\ ContextRooted'
<1> SUFFICES ASSUME IInv, [Next]_vars
             PROVE  InstallContextRooted' /\ ContextRooted'
  OBVIOUS
<1>t. /\ TypeOK /\ InstallContextRooted /\ ContextRooted
      /\ process_map \in [Pids -> ProcessNode \cup {None}]
      /\ handler \in [ev : CreateEvents, ctx : Context] \cup {Idle}
  BY DEF IInv, TypeOK
<1>u. CASE UNCHANGED <<process_map, handler>>
  BY <1>u, <1>t DEF InstallContextRooted, ContextRooted, Tracked
\* Removing a node cannot unroot another.
<1>r. ASSUME NEW p \in Pids, process_map' = [process_map EXCEPT ![p] = None],
             UNCHANGED handler
      PROVE  InstallContextRooted' /\ ContextRooted'
  BY <1>r, <1>t DEF InstallContextRooted, ContextRooted, Tracked
<1>1. CASE HandleProcessCreate
  <2>1. Head(stream) \in CreateEvents
    BY <1>1, <1>t, StreamType, EventShape DEF HandleProcessCreate, Incoming
  <2>2. ParentContext(Head(stream).ppid).install <=>
            ParentContext(Head(stream).ppid).root # None
    BY <2>1, <1>t, ContextOfRooted DEF CreateEvents
  <2>3. handler'.ctx = ParentContext(Head(stream).ppid)
    BY <1>1 DEF HandleProcessCreate
  <2>4. ContextRooted'
    BY <2>2, <2>3 DEF ContextRooted
  <2>5. InstallContextRooted'
    BY <1>1, <1>t DEF HandleProcessCreate, InstallContextRooted, Tracked
  <2>6. QED
    BY <2>4, <2>5
<1>2. CASE InsertAndJudge
  <2>1. handler.ev \in CreateEvents /\ handler.ctx \in Context
    BY <1>2, <1>t DEF InsertAndJudge, Idle
  <2> DEFINE node == ChildNode(handler.ev, handler.ctx)
             p    == handler.ev.pid
  <2>2. /\ node.is_install_context <=> node.install_root_pid # None
        /\ node.is_top_level_install => node.install_root_pid = p
    BY <1>2, <1>t, <2>1, ChildOfRooted DEF ContextRooted, InsertAndJudge
  <2>3. process_map' = [process_map EXCEPT ![p] = node] /\ handler' = Idle
    BY <1>2 DEF InsertAndJudge
  <2> HIDE DEF node
  <2>4. QED
    BY <1>t, <2>2, <2>3 DEF InstallContextRooted, ContextRooted, Tracked
<1>3. CASE HandleProcessStop
  <2>1. Head(stream) \in StopEvents
    BY <1>3, <1>t, StreamType, EventShape DEF HandleProcessStop, Incoming
  <2>2. Head(stream).pid \in Pids
    BY <2>1 DEF StopEvents
  <2>3. \/ UNCHANGED <<process_map, handler>>
        \/ /\ process_map' = [process_map EXCEPT ![Head(stream).pid] = None]
           /\ UNCHANGED handler
    BY <1>3 DEF HandleProcessStop, tables
  <2>4. QED
    BY <2>2, <2>3, <1>u, <1>r
<1>4. CASE HandleListen
  <2>1. Head(stream).pid \in Pids
    BY <1>4, <1>t, StreamType, EventShape DEF HandleListen, Incoming
  <2> DEFINE p == Head(stream).pid
  <2>2. CASE Tracked(p)
    <3> DEFINE node == [process_map[p] EXCEPT !.is_web_server = TRUE]
    <3>1. process_map' = [process_map EXCEPT ![p] = node] /\ UNCHANGED handler
      BY <1>4, <2>2 DEF HandleListen, tasks
    <3>2. process_map[p] \in ProcessNode
      BY <1>t, <2>1, <2>2 DEF Tracked
    <3>3. /\ node.is_install_context = process_map[p].is_install_context
          /\ node.install_root_pid = process_map[p].install_root_pid
          /\ node.is_top_level_install = process_map[p].is_top_level_install
      BY <3>2 DEF ProcessNode
    <3> HIDE DEF node
    <3>4. QED
      BY <1>t, <2>1, <2>2, <3>1, <3>3
         DEF InstallContextRooted, ContextRooted, Tracked
  <2>3. CASE ~Tracked(p)
    BY <1>4, <1>u, <2>3 DEF HandleListen, tasks
  <2>4. QED
    BY <2>2, <2>3
<1>5. ASSUME NEW t \in cleanups, CleanupUntrack(t)
      PROVE  InstallContextRooted' /\ ContextRooted'
  <2>1. t.root \in Pids
    BY <1>t DEF TypeOK, Cleanup
  <2>2. QED
    BY <1>5, <1>r, <2>1 DEF CleanupUntrack
<1>6. CASE EvictUntrack
  <2>1. evictor.victim \in Pids
    BY <1>6, <1>t DEF EvictUntrack, TypeOK, PidOrNone
  <2>2. QED
    BY <1>6, <1>r, <2>1 DEF EvictUntrack
\* No other step touches the engine's nodes or what the handler holds.
<1>7. CASE Host
  BY <1>7, <1>u DEF Host, Spawn, Exit, Act, Disconnect, Reconnect, tables, tasks
<1>8. ASSUME NEW r \in Pids, CleanupStep(r)
      PROVE  InstallContextRooted' /\ ContextRooted'
  BY <1>8, <1>5, <1>u
     DEF CleanupStep, CleanupCollect, CleanupKill, CleanupForget, tables
<1>9. CASE EvictTask
  BY <1>9, <1>6, <1>u DEF EvictTask, EvictCollect, EvictCheck, EvictForget, tables
<1>10. CASE DropEvent \/ \E a \in Activities \ {"Listen"} : HandleActivity(a)
  BY <1>10, <1>u DEF DropEvent, HandleActivity, tables, tasks
<1>11. CASE Operator \/ \E p \in Pids : Age(p)
  BY <1>11, <1>u
     DEF Operator, DisableMonitoring, EnableMonitoring, Age, tables, tasks
<1>12. CASE UNCHANGED vars
  BY <1>12, <1>u DEF vars, tables, tasks
<1>13. QED
  BY <1>1, <1>2, <1>3, <1>4, <1>7, <1>8, <1>9, <1>10, <1>11, <1>12
     DEF Next, TelemetryLoop

\* A process is in install context exactly when the engine knows its
\* installation: whatever is lost, reordered or recycled, no process of an
\* installation has a node the clean-up at its end would skip for want of a root.
THEOREM InstallContextIsRooted == Spec => []InstallContextRooted
<1>1. Init => IInv
  <2> SUFFICES ASSUME Init PROVE IInv
    OBVIOUS
  <2>1. TypeOK
    BY InitType
  <2>2. InstallContextRooted
    BY DEF Init, InstallContextRooted, Tracked
  <2>3. ContextRooted
    BY DEF Init, ContextRooted
  <2>4. QED
    BY <2>1, <2>2, <2>3 DEF IInv
<1>2. IInv /\ [Next]_vars => IInv'
  BY NextType, NextRooted DEF IInv
<1>3. IInv => InstallContextRooted
  BY DEF IInv
<1>4. QED
  BY <1>1, <1>2, <1>3, PTL DEF Spec

-----------------------------------------------------------------------------
(* The books: what the daemon holds of the lives of processes, in the       *)
(* stream, in process_map, in the handler and in the clean-up tasks.  The   *)
(* facts are stated of the values of these variables, so that a step of the *)
(* specification is put together from the changes that follow.              *)

Handling(h, p)  == h # Idle /\ h.ev.pid = p
Announced(s, p) == \E i \in 1..Len(s) : s[i].type = "ProcessCreate" /\ s[i].pid = p
Stopping(s, p)  == \E i \in 1..Len(s) : s[i].type = "ProcessStop" /\ s[i].pid = p
InBooks(s, m, h, p) == m[p] # None \/ Handling(h, p) \/ Announced(s, p)

\* The shapes of the host's processes, of a stream, a process_map, what the handler
\* holds and the clean-up tasks.
Shapes(o, s, m, h, cl) ==
    /\ o \in [Pids -> Process]
    /\ s \in Seq(Events)
    /\ m \in [Pids -> ProcessNode \cup {None}]
    /\ h \in [ev : CreateEvents, ctx : Context] \cup {Idle}
    /\ cl \subseteq Cleanup

\* What the daemon holds of a pid is about its latest life.
StreamCurrent(o, s) ==
    \A i \in 1..Len(s) : s[i].type \in {"ProcessCreate", "ProcessStop"} =>
        s[i].inc = o[s[i].pid].inc
MapCurrent(o, m, h) ==
    /\ h # Idle => h.ev.inc = o[h.ev.pid].inc
    /\ \A p \in Pids : m[p] # None => m[p].inc = o[p].inc

\* The stream says last of a process that it has ended, when it has.
StopsLast(o, s) ==
    \A i \in 1..Len(s) : s[i].type = "ProcessStop" =>
        /\ ~o[s[i].pid].alive
        /\ \A j \in 1..Len(s) : j > i /\ s[j].pid = s[i].pid =>
              s[j].type \notin {"ProcessCreate", "ProcessStop"}

\* A process that has ended and is in the books will leave them.
WillLeave(o, s, m, h, cl) ==
    \A p \in Pids : ~o[p].alive =>
        /\ Handling(h, p) \/ Announced(s, p) => Stopping(s, p)
        /\ m[p] # None => Stopping(s, p) \/ \E t \in cl : t.root = p /\ t.pc # "forget"

\* The root of an installation that is cleaned up has ended, and that was handled.
RootsEnded(o, s, cl) == \A t \in cl : ~o[t.root].alive /\ ~Stopping(s, t.root)

\* A process that was started after the daemon is in the books.
Known(o, s, m, h) ==
    \A p \in Pids : o[p].alive /\ (p \in Preexisting => o[p].inc > 1) => InBooks(s, m, h, p)

Books(o, s, m, h, cl) ==
    /\ Shapes(o, s, m, h, cl)
    /\ StreamCurrent(o, s) /\ MapCurrent(o, m, h) /\ StopsLast(o, s)
    /\ WillLeave(o, s, m, h, cl) /\ RootsEnded(o, s, cl) /\ Known(o, s, m, h)

-----------------------------------------------------------------------------
(* Streams *)

LEMMA TailFacts ==
  ASSUME NEW s \in Seq(Events), s # << >>
  PROVE  /\ Tail(s) \in Seq(Events) /\ Len(Tail(s)) = Len(s) - 1 /\ Len(s) \in Nat
         /\ 1 \in 1..Len(s) /\ s[1] = Head(s) /\ Head(s) \in Events
         /\ \A i \in 1..Len(Tail(s)) : i + 1 \in 1..Len(s) /\ Tail(s)[i] = s[i + 1]
         /\ \A i \in 1..Len(s) : i = 1 \/ (i - 1 \in 1..Len(Tail(s)) /\ Tail(s)[i - 1] = s[i])
  OBVIOUS

LEMMA AppendFacts ==
  ASSUME NEW s \in Seq(Events), NEW e \in Events
  PROVE  /\ Append(s, e) \in Seq(Events) /\ Len(Append(s, e)) = Len(s) + 1 /\ Len(s) \in Nat
         /\ \A i \in 1..Len(s) : i \in 1..Len(Append(s, e)) /\ Append(s, e)[i] = s[i]
         /\ Append(s, e)[Len(s) + 1] = e /\ Len(s) + 1 \in 1..Len(Append(s, e))
         /\ \A i \in 1..Len(Append(s, e)) : i \in 1..Len(s) \/ i = Len(s) + 1
  OBVIOUS

LEMMA EventTypes ==
  ASSUME NEW e \in Events
  PROVE  e.pid \in Pids
  BY EventShape

LEMMA TailSays ==
  ASSUME NEW s \in Seq(Events), s # << >>, NEW p
  PROVE  /\ Announced(s, p) <=> Announced(Tail(s), p)
                                \/ (Head(s).type = "ProcessCreate" /\ Head(s).pid = p)
         /\ Stopping(s, p) <=> Stopping(Tail(s), p)
                               \/ (Head(s).type = "ProcessStop" /\ Head(s).pid = p)
<1> DEFINE t == Tail(s)
<1>1. /\ Len(t) = Len(s) - 1 /\ Len(s) \in Nat
      /\ 1 \in 1..Len(s) /\ s[1] = Head(s)
      /\ \A i \in 1..Len(t) : i + 1 \in 1..Len(s) /\ t[i] = s[i + 1]
      /\ \A i \in 1..Len(s) : i = 1 \/ (i - 1 \in 1..Len(t) /\ t[i - 1] = s[i])
  BY TailFacts
<1> HIDE DEF t
<1>2. Announced(s, p) <=> Announced(t, p) \/ (Head(s).type = "ProcessCreate" /\ Head(s).pid = p)
  BY <1>1 DEF Announced
<1>3. Stopping(s, p) <=> Stopping(t, p) \/ (Head(s).type = "ProcessStop" /\ Head(s).pid = p)
  BY <1>1 DEF Stopping
<1> QED
  BY <1>2, <1>3 DEF t

LEMMA AppendSays ==
  ASSUME NEW s \in Seq(Events), NEW e \in Events, NEW p
  PROVE  /\ Announced(Append(s, e), p) <=> Announced(s, p)
                                           \/ (e.type = "ProcessCreate" /\ e.pid = p)
         /\ Stopping(Append(s, e), p) <=> Stopping(s, p)
                                          \/ (e.type = "ProcessStop" /\ e.pid = p)
<1> DEFINE t == Append(s, e)
<1>1. /\ Len(t) = Len(s) + 1 /\ Len(s) \in Nat
      /\ \A i \in 1..Len(s) : i \in 1..Len(t) /\ t[i] = s[i]
      /\ t[Len(s) + 1] = e /\ Len(s) + 1 \in 1..Len(t)
      /\ \A i \in 1..Len(t) : i \in 1..Len(s) \/ i = Len(s) + 1
  BY AppendFacts
<1> HIDE DEF t
<1>2. Announced(t, p) <=> Announced(s, p) \/ (e.type = "ProcessCreate" /\ e.pid = p)
  BY <1>1 DEF Announced
<1>3. Stopping(t, p) <=> Stopping(s, p) \/ (e.type = "ProcessStop" /\ e.pid = p)
  BY <1>1 DEF Stopping
<1> QED
  BY <1>2, <1>3 DEF t

\* Taking the first event off the stream keeps what the stream says of the rest.
LEMMA TailKeeps ==
  ASSUME NEW o, NEW s \in Seq(Events), s # << >>, StreamCurrent(o, s), StopsLast(o, s)
  PROVE  /\ StreamCurrent(o, Tail(s)) /\ StopsLast(o, Tail(s))
         /\ Head(s).type \in {"ProcessCreate", "ProcessStop"} =>
               Head(s).inc = o[Head(s).pid].inc
         /\ Head(s).type = "ProcessStop" =>
               /\ ~o[Head(s).pid].alive
               /\ ~Announced(Tail(s), Head(s).pid) /\ ~Stopping(Tail(s), Head(s).pid)
<1> DEFINE t == Tail(s)
<1>1. /\ Len(t) = Len(s) - 1 /\ Len(s) \in Nat
      /\ 1 \in 1..Len(s) /\ s[1] = Head(s)
      /\ \A i \in 1..Len(t) : i + 1 \in 1..Len(s) /\ t[i] = s[i + 1]
  BY TailFacts
<1> HIDE DEF t
<1>2. StreamCurrent(o, t)
  BY <1>1 DEF StreamCurrent
<1>3. StopsLast(o, t)
  <2> SUFFICES ASSUME NEW i \in 1..Len(t), t[i].type = "ProcessStop"
               PROVE  /\ ~o[t[i].pid].alive
                      /\ \A j \in 1..Len(t) : j > i /\ t[j].pid = t[i].pid =>
                            t[j].type \notin {"ProcessCreate", "ProcessStop"}
    BY DEF StopsLast
  <2>1. i + 1 \in 1..Len(s) /\ t[i] = s[i + 1]
    BY <1>1
  <2>2. \A j \in 1..Len(t) : j > i => j + 1 > i + 1 /\ j + 1 \in 1..Len(s) /\ t[j] = s[j + 1]
    BY <1>1
  <2> QED
    BY <2>1, <2>2 DEF StopsLast
<1>4. Head(s).type \in {"ProcessCreate", "ProcessStop"} => Head(s).inc = o[Head(s).pid].inc
  BY <1>1 DEF StreamCurrent
<1>5. Head(s).type = "ProcessStop" =>
         ~o[Head(s).pid].alive /\ ~Announced(t, Head(s).pid) /\ ~Stopping(t, Head(s).pid)
  <2> SUFFICES ASSUME Head(s).type = "ProcessStop"
               PROVE ~o[Head(s).pid].alive /\ ~Announced(t, Head(s).pid) /\ ~Stopping(t, Head(s).pid)
    OBVIOUS
  <2>1. ~o[s[1].pid].alive /\ \A j \in 1..Len(s) : j > 1 /\ s[j].pid = s[1].pid =>
                              s[j].type \notin {"ProcessCreate", "ProcessStop"}
    BY <1>1 DEF StopsLast
  <2>2. \A i \in 1..Len(t) : t[i].pid = Head(s).pid => t[i].type \notin {"ProcessCreate", "ProcessStop"}
    BY <1>1, <2>1
  <2> QED
    BY <1>1, <2>1, <2>2 DEF Announced, Stopping
<1> QED
  BY <1>2, <1>3, <1>4, <1>5 DEF t

\* An event is put behind the others: of a process that ends, or that has no event
\* that tells of its end.
LEMMA AppendKeeps ==
  ASSUME NEW o, NEW s \in Seq(Events), NEW e \in Events, StreamCurrent(o, s), StopsLast(o, s),
         e.type \in {"ProcessCreate", "ProcessStop"} =>
            e.inc = o[e.pid].inc /\ ~Stopping(s, e.pid),
         e.type = "ProcessStop" => ~o[e.pid].alive
  PROVE  StreamCurrent(o, Append(s, e)) /\ StopsLast(o, Append(s, e))
<1> DEFINE t == Append(s, e)
<1>1. /\ Len(t) = Len(s) + 1 /\ Len(s) \in Nat
      /\ \A i \in 1..Len(s) : i \in 1..Len(t) /\ t[i] = s[i]
      /\ t[Len(s) + 1] = e /\ Len(s) + 1 \in 1..Len(t)
      /\ \A i \in 1..Len(t) : i \in 1..Len(s) \/ i = Len(s) + 1
  BY AppendFacts
<1> HIDE DEF t
<1>2. StreamCurrent(o, t)
  BY <1>1 DEF StreamCurrent
<1>3. StopsLast(o, t)
  <2> SUFFICES ASSUME NEW i \in 1..Len(t), t[i].type = "ProcessStop"
               PROVE  /\ ~o[t[i].pid].alive
                      /\ \A j \in 1..Len(t) : j > i /\ t[j].pid = t[i].pid =>
                            t[j].type \notin {"ProcessCreate", "ProcessStop"}
    BY DEF StopsLast
  <2>1. CASE i = Len(s) + 1
    BY <1>1, <2>1
  <2>2. CASE i \in 1..Len(s)
    <3>1. t[i] = s[i] /\ s[i].type = "ProcessStop" /\ Stopping(s, s[i].pid)
      BY <1>1, <2>2 DEF Stopping
    <3>2. ASSUME NEW j \in 1..Len(t), j > i, t[j].pid = t[i].pid
          PROVE t[j].type \notin {"ProcessCreate", "ProcessStop"}
      <4>1. CASE j \in 1..Len(s)
        BY <1>1, <2>2, <3>1, <3>2, <4>1 DEF StopsLast
      <4>2. CASE j = Len(s) + 1
        BY <1>1, <3>1, <3>2, <4>2
      <4> QED
        BY <1>1, <4>1, <4>2
    <3>3. ~o[t[i].pid].alive
      BY <2>2, <3>1 DEF StopsLast
    <3> QED
      BY <3>2, <3>3
  <2> QED
    BY <1>1, <2>1, <2>2
<1> QED
  BY <1>2, <1>3 DEF t

-----------------------------------------------------------------------------
(* What a step does to the books *)

StopOf(o, p) == [type |-> "ProcessStop", hdr |-> p, pid |-> p, inc |-> o[p].inc]
Ended(o, p)  == [o EXCEPT ![p] = [o[p] EXCEPT !.alive = FALSE]]

LEMMA EndedFacts ==
  ASSUME NEW o \in [Pids -> Process], NEW p \in Pids
  PROVE  /\ Ended(o, p) \in [Pids -> Process] /\ ~Ended(o, p)[p].alive
         /\ \A q \in Pids : /\ Ended(o, p)[q].inc = o[q].inc
                            /\ Ended(o, p)[q].root = o[q].root
                            /\ Ended(o, p)[q].web = o[q].web
                            /\ Ended(o, p)[q].img = o[q].img
                            /\ Ended(o, p)[q].unseen = o[q].unseen
                            /\ Ended(o, p)[q].alive => o[q].alive
                            /\ q # p => Ended(o, p)[q] = o[q]
         /\ StopOf(o, p) \in Events
<1>1. o[p] \in Process
  OBVIOUS
<1>2. DEFINE r == [o[p] EXCEPT !.alive = FALSE]
<1>3. /\ r \in Process /\ r.inc = o[p].inc /\ r.root = o[p].root
      /\ r.web = o[p].web /\ r.img = o[p].img /\ ~r.alive /\ r.unseen = o[p].unseen
  BY <1>1 DEF Process
<1>4. StopOf(o, p) \in Events
  BY <1>1 DEF StopOf, Events, StopEvents, Process
<1> HIDE DEF r
<1>5. \A q \in Pids : [o EXCEPT ![p] = r][q] = IF q = p THEN r ELSE o[q]
  OBVIOUS
<1>6. [o EXCEPT ![p] = r] \in [Pids -> Process]
  BY <1>3
<1> QED
  BY <1>3, <1>4, <1>5, <1>6 DEF Ended, r

\* A process ends, by itself or by a signal, and the stream will tell.
LEMMA BooksEnd ==
  ASSUME NEW o, NEW s, NEW m, NEW h, NEW cl, Books(o, s, m, h, cl),
         NEW p \in Pids, o[p].alive
  PROVE  Books(Ended(o, p), Append(s, StopOf(o, p)), m, h, cl)
<1> DEFINE d == Ended(o, p)
           e == StopOf(o, p)
           t == Append(s, e)
<1>1. /\ o \in [Pids -> Process] /\ s \in Seq(Events) /\ cl \subseteq Cleanup
      /\ m \in [Pids -> ProcessNode \cup {None}]
      /\ h \in [ev : CreateEvents, ctx : Context] \cup {Idle}
  BY DEF Books, Shapes
<1>2. /\ d \in [Pids -> Process] /\ ~d[p].alive /\ e \in Events
      /\ \A q \in Pids : d[q].inc = o[q].inc /\ (d[q].alive => o[q].alive)
                         /\ (q # p => d[q] = o[q])
  BY <1>1, EndedFacts
<1>3. e.type = "ProcessStop" /\ e.pid = p /\ e.inc = o[p].inc
  BY DEF StopOf
<1>4. ~Stopping(s, p)
  BY DEF Books, StopsLast, Stopping
<1>5. StreamCurrent(d, s) /\ StopsLast(d, s)
  <2>1. \A i \in 1..Len(s) : s[i].pid \in Pids
    BY <1>1, EventTypes
  <2> QED
    BY <1>2, <2>1 DEF Books, StreamCurrent, StopsLast
<1> HIDE DEF d, e
<1>6. StreamCurrent(d, t) /\ StopsLast(d, t)
  BY <1>1, <1>2, <1>3, <1>4, <1>5, AppendKeeps
<1>7. t \in Seq(Events)
  BY <1>1, <1>2, AppendFacts
<1>8. \A q : /\ Announced(t, q) <=> Announced(s, q)
             /\ Stopping(t, q) <=> Stopping(s, q) \/ q = p
  BY <1>1, <1>2, <1>3, AppendSays
<1> HIDE DEF t
<1>9. Shapes(d, t, m, h, cl)
  BY <1>1, <1>2, <1>7 DEF Shapes
<1>10. MapCurrent(d, m, h)
  <2>1. h # Idle => h.ev.pid \in Pids
    BY <1>1 DEF CreateEvents
  <2> QED
    BY <1>2, <2>1 DEF Books, MapCurrent
<1>11. WillLeave(d, t, m, h, cl)
  BY <1>2, <1>8 DEF Books, WillLeave
<1>12. RootsEnded(d, t, cl)
  <2>1. \A c \in cl : c.root \in Pids
    BY <1>1 DEF Cleanup
  <2>2. \A c \in cl : ~o[c.root].alive /\ ~Stopping(s, c.root)
    BY DEF Books, RootsEnded
  <2>3. \A c \in cl : c.root # p
    BY <2>2
  <2> QED
    BY <1>2, <1>8, <2>1, <2>2, <2>3 DEF RootsEnded
<1>13. Known(d, t, m, h)
  BY <1>2, <1>8 DEF Books, Known, InBooks
<1> QED
  BY <1>6, <1>9, <1>10, <1>11, <1>12, <1>13 DEF Books, d, e, t

\* An event that is not of the life of a process is taken, or passed over.
LEMMA BooksTakeAct ==
  ASSUME NEW o, NEW s, NEW m, NEW h, NEW cl, Books(o, s, m, h, cl), s # << >>,
         Head(s).type \notin {"ProcessCreate", "ProcessStop"}
  PROVE  Books(o, Tail(s), m, h, cl)
<1>1. s \in Seq(Events)
  BY DEF Books, Shapes
<1>2. StreamCurrent(o, Tail(s)) /\ StopsLast(o, Tail(s)) /\ Tail(s) \in Seq(Events)
  BY <1>1, TailKeeps, TailFacts DEF Books
<1>3. \A p : (Announced(Tail(s), p) <=> Announced(s, p)) /\ (Stopping(Tail(s), p) <=> Stopping(s, p))
  BY <1>1, TailSays
<1> DEFINE t == Tail(s)
<1> HIDE DEF t
<1> QED
  BY <1>2, <1>3 DEF Books, Shapes, WillLeave, RootsEnded, Known, InBooks

\* The handler takes the start of a process.
LEMMA BooksTakeCreate ==
  ASSUME NEW o, NEW s, NEW m, NEW cl, Books(o, s, m, Idle, cl), s # << >>,
         Head(s).type = "ProcessCreate", NEW ctx \in Context
  PROVE  Books(o, Tail(s), m, [ev |-> Head(s), ctx |-> ctx], cl)
<1> DEFINE h == [ev |-> Head(s), ctx |-> ctx]
           t == Tail(s)
           c == Head(s).pid
<1>1. s \in Seq(Events)
  BY DEF Books, Shapes
<1>2. /\ StreamCurrent(o, t) /\ StopsLast(o, t) /\ t \in Seq(Events)
      /\ Head(s).inc = o[c].inc
  BY <1>1, TailKeeps, TailFacts DEF Books
<1>3. \A p : /\ Announced(s, p) <=> Announced(t, p) \/ c = p
             /\ Stopping(t, p) <=> Stopping(s, p)
  BY <1>1, TailSays
<1>4. Head(s) \in CreateEvents
  BY <1>1, TailFacts, EventShape
<1>5. h # Idle /\ h \in [ev : CreateEvents, ctx : Context] /\ h.ev = Head(s)
  <2>1. h \in [ev : CreateEvents, ctx : Context] /\ h.ev = Head(s)
    BY <1>4
  <2>2. h # Idle
    BY <2>1, NoneAssumption DEF Idle
  <2> QED
    BY <2>1, <2>2
<1>6. /\ \A p : ~Handling(Idle, p)
      /\ \A p : Handling(h, p) <=> p = c
  BY <1>5 DEF Handling
<1> HIDE DEF h, t
<1>7. Shapes(o, t, m, h, cl)
  BY <1>2, <1>5 DEF Books, Shapes
<1>8. MapCurrent(o, m, h)
  BY <1>2, <1>5 DEF Books, MapCurrent
<1>9. WillLeave(o, t, m, h, cl) /\ RootsEnded(o, t, cl)
  BY <1>3, <1>6 DEF Books, WillLeave, RootsEnded
<1>10. Known(o, t, m, h)
  BY <1>3, <1>6 DEF Books, Known, InBooks
<1> QED
  BY <1>2, <1>7, <1>8, <1>9, <1>10 DEF Books, h, t

\* The handler enters the node of the process it has been told of.
LEMMA BooksInsert ==
  ASSUME NEW o, NEW s, NEW m, NEW h, NEW cl, Books(o, s, m, h, cl),
         h # Idle, NEW node \in ProcessNode, node.inc = h.ev.inc
  PROVE  Books(o, s, [m EXCEPT ![h.ev.pid] = node], Idle, cl)
<1> DEFINE c == h.ev.pid
           n == [m EXCEPT ![c] = node]
<1>1. /\ o \in [Pids -> Process] /\ s \in Seq(Events) /\ cl \subseteq Cleanup
      /\ m \in [Pids -> ProcessNode \cup {None}]
      /\ h.ev \in CreateEvents
  BY DEF Books, Shapes
<1>2. c \in Pids
  BY <1>1 DEF CreateEvents
<1>3. /\ n \in [Pids -> ProcessNode \cup {None}]
      /\ n[c] = node /\ \A p \in Pids : p # c => n[p] = m[p]
  BY <1>1, <1>2
<1>4. node # None
  BY NoneAssumption
<1>5. /\ \A p : ~Handling(Idle, p)
      /\ \A p : Handling(h, p) <=> p = c
  BY DEF Handling
<1> HIDE DEF n
<1>6. Shapes(o, s, n, Idle, cl)
  BY <1>1, <1>3 DEF Shapes
<1>7. MapCurrent(o, n, Idle)
  BY <1>3 DEF Books, MapCurrent
<1>8. WillLeave(o, s, n, Idle, cl)
  BY <1>3, <1>5 DEF Books, WillLeave
<1>9. Known(o, s, n, Idle)
  BY <1>3, <1>4, <1>5 DEF Books, Known, InBooks
<1> QED
  BY <1>6, <1>7, <1>8, <1>9 DEF Books, n

\* A process that has ended leaves the table.
LEMMA BooksRemove ==
  ASSUME NEW o, NEW s, NEW m, NEW h, NEW cl, Books(o, s, m, h, cl),
         NEW p \in Pids, ~o[p].alive
  PROVE  Books(o, s, [m EXCEPT ![p] = None], h, cl)
<1> DEFINE n == [m EXCEPT ![p] = None]
<1>1. m \in [Pids -> ProcessNode \cup {None}]
  BY DEF Books, Shapes
<1>2. /\ n \in [Pids -> ProcessNode \cup {None}]
      /\ n[p] = None /\ \A q \in Pids : q # p => n[q] = m[q]
  BY <1>1
<1> HIDE DEF n
<1>3. Shapes(o, s, n, h, cl)
  BY <1>2 DEF Books, Shapes
<1>4. MapCurrent(o, n, h) /\ WillLeave(o, s, n, h, cl) /\ Known(o, s, n, h)
  BY <1>2 DEF Books, MapCurrent, WillLeave, Known, InBooks
<1> QED
  BY <1>3, <1>4 DEF Books, n

\* The end of a process is handled, which takes it out of the table at once...
LEMMA BooksTakeStop ==
  ASSUME NEW o, NEW s, NEW m, NEW cl, Books(o, s, m, Idle, cl), s # << >>,
         Head(s).type = "ProcessStop"
  PROVE  Books(o, Tail(s), [m EXCEPT ![Head(s).pid] = None], Idle, cl)
<1> DEFINE t == Tail(s)
           p == Head(s).pid
           n == [m EXCEPT ![p] = None]
<1>1. s \in Seq(Events) /\ m \in [Pids -> ProcessNode \cup {None}]
  BY DEF Books, Shapes
<1>2. StreamCurrent(o, t) /\ StopsLast(o, t) /\ t \in Seq(Events)
  BY <1>1, TailKeeps, TailFacts DEF Books
<1>3. /\ p \in Pids /\ ~o[p].alive
      /\ ~Announced(t, p) /\ ~Stopping(t, p)
  BY <1>1, TailKeeps, TailFacts, EventTypes DEF Books
<1>4. \A q : /\ Announced(s, q) <=> Announced(t, q)
             /\ Stopping(s, q) <=> Stopping(t, q) \/ q = p
  BY <1>1, TailSays
<1>5. /\ n \in [Pids -> ProcessNode \cup {None}]
      /\ n[p] = None /\ \A q \in Pids : q # p => n[q] = m[q]
  BY <1>1, <1>3
<1> HIDE DEF n, t, p
<1>6. \A q : ~Handling(Idle, q)
  BY DEF Handling
<1>7. Shapes(o, t, n, Idle, cl) /\ MapCurrent(o, n, Idle)
  BY <1>2, <1>5 DEF Books, Shapes, MapCurrent
<1>8. WillLeave(o, t, n, Idle, cl)
  BY <1>3, <1>4, <1>5, <1>6 DEF Books, WillLeave
<1>9. RootsEnded(o, t, cl) /\ Known(o, t, n, Idle)
  BY <1>3, <1>4, <1>5 DEF Books, RootsEnded, Known, InBooks
<1> QED
  BY <1>2, <1>7, <1>8, <1>9 DEF Books, n, t, p

\* ... or leaves it to a clean-up task.
LEMMA BooksTakeRootStop ==
  ASSUME NEW o, NEW s, NEW m, NEW cl, Books(o, s, m, Idle, cl), s # << >>,
         Head(s).type = "ProcessStop",
         NEW u \in Cleanup, u.root = Head(s).pid, u.pc # "forget"
  PROVE  Books(o, Tail(s), m, Idle, cl \cup {u})
<1> DEFINE t == Tail(s)
           p == Head(s).pid
<1>1. s \in Seq(Events) /\ m \in [Pids -> ProcessNode \cup {None}]
  BY DEF Books, Shapes
<1>2. StreamCurrent(o, t) /\ StopsLast(o, t) /\ t \in Seq(Events)
  BY <1>1, TailKeeps, TailFacts DEF Books
<1>3. /\ p \in Pids /\ ~o[p].alive
      /\ ~Announced(t, p) /\ ~Stopping(t, p)
  BY <1>1, TailKeeps, TailFacts, EventTypes DEF Books
<1>4. \A q : /\ Announced(s, q) <=> Announced(t, q)
             /\ Stopping(s, q) <=> Stopping(t, q) \/ q = p
  BY <1>1, TailSays
<1>5. u.root = p
  OBVIOUS
<1> HIDE DEF t, p
<1>6. \A q : ~Handling(Idle, q)
  BY DEF Handling
<1>7. Shapes(o, t, m, Idle, cl \cup {u})
  BY <1>2 DEF Books, Shapes
<1>8. WillLeave(o, t, m, Idle, cl \cup {u})
  BY <1>3, <1>4, <1>5, <1>6 DEF Books, WillLeave
<1>9. RootsEnded(o, t, cl \cup {u}) /\ Known(o, t, m, Idle)
  BY <1>3, <1>4, <1>5 DEF Books, RootsEnded, Known, InBooks
<1> QED
  BY <1>2, <1>7, <1>8, <1>9 DEF Books, t

\* A clean-up task goes on; it is through with the table before its last step...
LEMMA BooksCleanup ==
  ASSUME NEW o, NEW s, NEW m, NEW h, NEW cl, Books(o, s, m, h, cl),
         NEW t \in cl, NEW u \in Cleanup, u.root = t.root,
         u.pc # "forget" \/ m[t.root] = None
  PROVE  Books(o, s, m, h, (cl \ {t}) \cup {u})
<1> DEFINE d == (cl \ {t}) \cup {u}
<1>1. d \subseteq Cleanup
  BY DEF Books, Shapes
<1>2. \A p \in Pids : m[p] # None /\ (\E w \in cl : w.root = p /\ w.pc # "forget")
                         => \E w \in d : w.root = p /\ w.pc # "forget"
  OBVIOUS
<1>3. \A w \in d : \E v \in cl : w.root = v.root
  OBVIOUS
<1> HIDE DEF d
<1>4. Shapes(o, s, m, h, d)
  BY <1>1 DEF Books, Shapes
<1>5. WillLeave(o, s, m, h, d)
  BY <1>2 DEF Books, WillLeave
<1>6. RootsEnded(o, s, d)
  BY <1>3 DEF Books, RootsEnded
<1> QED
  BY <1>4, <1>5, <1>6 DEF Books, d

\* ... after which it is gone.
LEMMA BooksForget ==
  ASSUME NEW o, NEW s, NEW m, NEW h, NEW cl, Books(o, s, m, h, cl),
         NEW t \in cl, t.pc = "forget"
  PROVE  Books(o, s, m, h, cl \ {t})
BY DEF Books, Shapes, WillLeave, RootsEnded

\* A change of nodes that leaves their lives alone.
LEMMA BooksSameLives ==
  ASSUME NEW o, NEW s, NEW m, NEW h, NEW cl, Books(o, s, m, h, cl),
         NEW n \in [Pids -> ProcessNode \cup {None}],
         \A p \in Pids : /\ n[p] # None <=> m[p] # None
                         /\ n[p] # None => n[p].inc = m[p].inc
  PROVE  Books(o, s, n, h, cl)
BY DEF Books, Shapes, MapCurrent, WillLeave, Known, InBooks

\* A running process does something.
LEMMA BooksAct ==
  ASSUME NEW o, NEW s, NEW m, NEW h, NEW cl, Books(o, s, m, h, cl),
         NEW d \in [Pids -> Process],
         \A p \in Pids : d[p].inc = o[p].inc /\ d[p].alive = o[p].alive,
         NEW e \in Events, e.type \notin {"ProcessCreate", "ProcessStop"}
  PROVE  Books(d, Append(s, e), m, h, cl)
<1> DEFINE t == Append(s, e)
<1>1. /\ s \in Seq(Events) /\ cl \subseteq Cleanup
      /\ h \in [ev : CreateEvents, ctx : Context] \cup {Idle}
  BY DEF Books, Shapes
<1>2. \A i \in 1..Len(s) : s[i].pid \in Pids
  BY <1>1, EventTypes
<1>3. StreamCurrent(d, s) /\ StopsLast(d, s)
  BY <1>2 DEF Books, StreamCurrent, StopsLast
<1>4. StreamCurrent(d, t) /\ StopsLast(d, t) /\ t \in Seq(Events)
  BY <1>1, <1>3, AppendKeeps, AppendFacts
<1>5. \A q : /\ Announced(t, q) <=> Announced(s, q)
             /\ Stopping(t, q) <=> Stopping(s, q)
  BY <1>1, AppendSays
<1> HIDE DEF t
<1>6. /\ h # Idle => h.ev.pid \in Pids
      /\ \A c \in cl : c.root \in Pids
  BY <1>1 DEF CreateEvents, Cleanup
<1>7. Shapes(d, t, m, h, cl)
  BY <1>4 DEF Books, Shapes
<1>8. MapCurrent(d, m, h) /\ WillLeave(d, t, m, h, cl)
  BY <1>5, <1>6 DEF Books, MapCurrent, WillLeave
<1>9. RootsEnded(d, t, cl) /\ Known(d, t, m, h)
  BY <1>5, <1>6 DEF Books, RootsEnded, Known, InBooks
<1> QED
  BY <1>4, <1>7, <1>8, <1>9 DEF Books, t

\* A pid that nothing refers to is given to a new process.
LEMMA BooksSpawn ==
  ASSUME NEW o, NEW s, NEW m, NEW h, NEW cl, Books(o, s, m, h, cl),
         NEW c \in Pids, ~o[c].alive,
         ~Announced(s, c), ~Stopping(s, c), ~Handling(h, c), \A t \in cl : t.root # c,
         NEW d \in [Pids -> Process], d[c].alive,
         \A p \in Pids : p # c => d[p] = o[p],
         NEW e \in Events, e.type = "ProcessCreate", e.pid = c, e.inc = d[c].inc
  PROVE  Books(d, Append(s, e), m, h, cl) /\ m[c] = None
<1> DEFINE t == Append(s, e)
<1>1. /\ s \in Seq(Events) /\ cl \subseteq Cleanup
      /\ h \in [ev : CreateEvents, ctx : Context] \cup {Idle}
  BY DEF Books, Shapes
<1>2. \A i \in 1..Len(s) : s[i].pid \in Pids
  BY <1>1, EventTypes
<1>3. StreamCurrent(d, s)
  BY <1>2 DEF Books, StreamCurrent, Announced, Stopping
<1>a. StopsLast(d, s)
  <2>1. \A i \in 1..Len(s) : s[i].type = "ProcessStop" => s[i].pid # c
    BY DEF Stopping
  <2> QED
    BY <1>2, <2>1 DEF Books, StopsLast
<1>4. StreamCurrent(d, t) /\ StopsLast(d, t) /\ t \in Seq(Events)
  BY <1>1, <1>3, <1>a, AppendKeeps, AppendFacts
<1>5. \A q : /\ Announced(t, q) <=> Announced(s, q) \/ q = c
             /\ Stopping(t, q) <=> Stopping(s, q)
  BY <1>1, AppendSays
<1> HIDE DEF t
<1>6. m[c] = None
  BY DEF Books, WillLeave
<1>7. /\ h # Idle => h.ev.pid \in Pids /\ h.ev.pid # c
      /\ \A w \in cl : w.root \in Pids
  BY <1>1 DEF CreateEvents, Cleanup, Handling
<1>8. Shapes(d, t, m, h, cl) /\ MapCurrent(d, m, h)
  BY <1>4, <1>6, <1>7 DEF Books, Shapes, MapCurrent
<1>9. WillLeave(d, t, m, h, cl) /\ RootsEnded(d, t, cl)
  BY <1>5, <1>7 DEF Books, WillLeave, RootsEnded
<1>10. Known(d, t, m, h)
  BY <1>5 DEF Books, Known, InBooks
<1> QED
  BY <1>4, <1>6, <1>8, <1>9, <1>10 DEF Books, t

\* The host tells the daemon of every event and gives a pid out again only when no
\* task of the daemon and no event refers to it; monitoring is not switched off.
Undisturbed == ~Lossy /\ ~PromptReuse /\ Switchable = {}

\* What the evictor is about to remove has ended.
VictimEnded == evictor.victim # None => ~os[evictor.victim].alive

BooksInv == /\ Undisturbed /\ TypeOK /\ connected /\ disabled_pids = {}
            /\ Books(os, stream, process_map, handler, cleanups)
            /\ VictimEnded

\* A signal leaves the books in order, and kills whom the node is about.
LEMMA EffectBooks ==
  ASSUME connected, NEW w, NEW m, NEW h, NEW cl, Books(os, w, m, h, cl),
         NEW p \in Pids, NEW judged \in Lives, NEW reasons,
         Spare(w) \/ (judged \in {0, os[p].inc} /\ Terminate(p, judged, reasons, w))
  PROVE  /\ Books(os', stream', m, h, cl)
         /\ \A q \in Pids : os'[q].alive => os[q].alive
         /\ KillsOnlyJudged'
<1>1. CASE Spare(w)
  BY <1>1 DEF Spare, KillsOnlyJudged
<1>2. CASE judged \in {0, os[p].inc} /\ Terminate(p, judged, reasons, w)
  <2>1. os \in [Pids -> Process]
    BY DEF Books, Shapes
  <2>2. KillsOnlyJudged'
    BY <1>2 DEF Terminate, KillsOnlyJudged
  <2>3. CASE os[p].alive /\ ~Audit
    <3>1. os' = Ended(os, p) /\ stream' = Append(w, StopOf(os, p))
      BY <1>2, <2>3 DEF Terminate, Ended, StopOf, StopEvent
    <3> QED
      BY <2>1, <2>2, <2>3, <3>1, BooksEnd, EndedFacts
  <2>4. CASE ~(os[p].alive /\ ~Audit)
    <3>1. os' = os /\ stream' = w
      BY <1>2, <2>4 DEF Terminate
    <3> QED
      BY <2>2, <3>1
  <2> QED
    BY <2>3, <2>4
<1> QED
  BY <1>1, <1>2

LEMMA SentAppends ==
  ASSUME connected, stream \in Seq(Events), NEW e \in Events
  PROVE  Sent(<<e>>) = Append(stream, e)
BY DEF Sent

LEMMA SpawnBooks ==
  ASSUME BooksInv, NEW p \in PidOrNone, NEW c \in Pids, NEW img \in Images,
         Spawn(p, c, img), TypeOK'
  PROVE  BooksInv' /\ KillsOnlyJudged' /\ process_map[c] = None
<1>1. /\ os \in [Pids -> Process] /\ os' \in [Pids -> Process] /\ stream \in Seq(Events)
      /\ Books(os, stream, process_map, handler, cleanups)
  BY DEF BooksInv, TypeOK
<1>2. Settled(c) /\ ~os[c].alive
  BY DEF Spawn, BooksInv, Undisturbed
<1>3. /\ ~Announced(stream, c) /\ ~Stopping(stream, c) /\ ~Handling(handler, c)
      /\ \A t \in cleanups : t.root # c
  BY <1>1, <1>2 DEF Settled, Announced, Stopping, Handling
<1>4. /\ os'[c].alive /\ os'[c].inc = os[c].inc + 1
      /\ \A q \in Pids : q # c => os'[q] = os[q]
  BY <1>1 DEF Spawn
<1>5. PICK hdr \in {p, c} :
             stream' = Sent(<<[type |-> "ProcessCreate", hdr |-> hdr,
                               pid |-> c, ppid |-> p, img |-> img,
                               inc |-> os[c].inc + 1]>>)
  BY DEF Spawn
<1> DEFINE e == [type |-> "ProcessCreate", hdr |-> hdr, pid |-> c, ppid |-> p,
                 img |-> img, inc |-> os[c].inc + 1]
<1>6. e \in Events
  <2>1. os[c].inc + 1 \in Lives /\ hdr \in PidOrNone
    BY <1>1 DEF Process, Lives, PidOrNone
  <2> QED
    BY <2>1 DEF Events, CreateEvents
<1>7. e.type = "ProcessCreate" /\ e.pid = c /\ e.inc = os'[c].inc
  BY <1>4
<1>8. stream' = Append(stream, e)
  BY <1>1, <1>5, <1>6, SentAppends DEF BooksInv
<1> HIDE DEF e
<1>9. /\ Books(os', stream', process_map, handler, cleanups)
      /\ process_map[c] = None
  BY <1>1, <1>2, <1>3, <1>4, <1>6, <1>7, <1>8, BooksSpawn
<1>10. VictimEnded'
  <2>1. evictor.victim # c /\ (evictor.victim # None => evictor.victim \in Pids)
    BY <1>2 DEF Settled, BooksInv, TypeOK, PidOrNone
  <2> QED
    BY <1>4, <2>1 DEF BooksInv, VictimEnded, Spawn, tasks
<1> QED
  BY <1>9, <1>10 DEF Spawn, BooksInv, tables, tasks, KillsOnlyJudged, Undisturbed

LEMMA ExitBooks ==
  ASSUME BooksInv, NEW p \in Pids, Exit(p), TypeOK'
  PROVE  BooksInv' /\ KillsOnlyJudged'
<1>1. /\ os \in [Pids -> Process] /\ stream \in Seq(Events)
      /\ Books(os, stream, process_map, handler, cleanups)
      /\ evictor.victim \in PidOrNone
  BY DEF BooksInv, TypeOK
<1>2. os' = Ended(os, p) /\ stream' = Append(stream, StopOf(os, p)) /\ os[p].alive
  <2>1. StopOf(os, p) \in Events
    BY <1>1, EndedFacts
  <2>2. Sent(<<StopOf(os, p)>>) = Append(stream, StopOf(os, p))
    BY <1>1, <2>1, SentAppends DEF BooksInv
  <2> QED
    BY <2>2 DEF Exit, Ended, StopOf, StopEvent
<1>3. Books(os', stream', process_map, handler, cleanups)
  BY <1>1, <1>2, BooksEnd
<1>4. VictimEnded'
  BY <1>1, <1>2, EndedFacts DEF BooksInv, VictimEnded, Exit, tasks, PidOrNone
<1> QED
  BY <1>3, <1>4 DEF Exit, BooksInv, tables, tasks, KillsOnlyJudged, Undisturbed

LEMMA ActBooks ==
  ASSUME BooksInv, NEW p \in Pids, NEW a \in Activities, Act(p, a), TypeOK'
  PROVE  BooksInv' /\ KillsOnlyJudged'
<1>1. /\ os \in [Pids -> Process] /\ os' \in [Pids -> Process] /\ stream \in Seq(Events)
      /\ Books(os, stream, process_map, handler, cleanups)
      /\ evictor.victim \in PidOrNone
  BY DEF BooksInv, TypeOK
<1> DEFINE e == [type |-> a, hdr |-> p, pid |-> p]
<1>2. e \in Events /\ e.type \notin {"ProcessCreate", "ProcessStop"}
  BY ActivitiesAssumption DEF Events, ActEvents
<1>3. stream' = Append(stream, e)
  BY <1>1, <1>2, SentAppends DEF Act, BooksInv
<1>4. \A q \in Pids : os'[q].inc = os[q].inc /\ os'[q].alive = os[q].alive
  <2>1. os' = [os EXCEPT ![p] = [os[p] EXCEPT !.web = @ \/ a = "Listen"]]
    BY DEF Act
  <2>2. os[p] \in Process
    BY <1>1
  <2>3. /\ [os[p] EXCEPT !.web = @ \/ a = "Listen"].inc = os[p].inc
        /\ [os[p] EXCEPT !.web = @ \/ a = "Listen"].alive = os[p].alive
    BY <2>2 DEF Process
  <2> QED
    BY <1>1, <2>1, <2>3
<1> HIDE DEF e
<1>5. Books(os', stream', process_map, handler, cleanups)
  BY <1>1, <1>2, <1>3, <1>4, BooksAct
<1>6. VictimEnded'
  BY <1>1, <1>4 DEF BooksInv, VictimEnded, Act, tasks, PidOrNone
<1> QED
  BY <1>5, <1>6 DEF Act, BooksInv, tables, tasks, KillsOnlyJudged, Undisturbed

LEMMA HandlerType ==
  ASSUME TypeOK, handler # Idle
  PROVE  /\ handler.ev \in CreateEvents /\ handler.ctx \in Context
         /\ handler.ev.pid \in Pids /\ handler.ev.inc \in Lives
BY DEF TypeOK, CreateEvents, Idle

LEMMA LoopBooks ==
  ASSUME BooksInv, TelemetryLoop, TypeOK'
  PROVE  BooksInv' /\ KillsOnlyJudged'
<1>t. /\ os \in [Pids -> Process] /\ stream \in Seq(Events) /\ connected
      /\ process_map \in [Pids -> ProcessNode \cup {None}]
      /\ process_map' \in [Pids -> ProcessNode \cup {None}]
      /\ Books(os, stream, process_map, handler, cleanups)
      /\ evictor.victim \in PidOrNone /\ Undisturbed
      /\ cleanups' \subseteq Cleanup
  BY DEF BooksInv, TypeOK
\* It suffices to look at the books and at those who were alive.
<1>s. SUFFICES /\ Books(os', stream', process_map', handler', cleanups')
               /\ \A q \in Pids : os'[q].alive => os[q].alive
               /\ KillsOnlyJudged'
  <2>1. connected' /\ disabled_pids' = {} /\ evictor' = evictor
    BY DEF TelemetryLoop, DropEvent, HandleProcessCreate, InsertAndJudge,
           HandleProcessStop, HandleListen, HandleActivity, tasks, BooksInv
  <2> QED
    BY <1>t, <2>1 DEF BooksInv, VictimEnded, PidOrNone
<1>1. CASE DropEvent
  BY <1>1 DEF DropEvent, BooksInv
<1>2. CASE HandleProcessCreate
  <2>1. /\ stream # << >> /\ handler = Idle /\ Head(stream).type = "ProcessCreate"
        /\ handler' = [ev |-> Head(stream), ctx |-> ParentContext(Head(stream).ppid)]
        /\ Spare(Tail(stream)) /\ UNCHANGED <<process_map, cleanups>>
    BY <1>2 DEF HandleProcessCreate, Incoming
  <2>2. ParentContext(Head(stream).ppid) \in Context
    <3>1. Head(stream) \in CreateEvents
      BY <1>t, <2>1, TailFacts, EventShape
    <3> QED
      BY <3>1, ContextType DEF CreateEvents, BooksInv
  <2>3. Books(os, Tail(stream), process_map, handler', cleanups)
    BY <1>t, <2>1, <2>2, BooksTakeCreate
  <2> QED
    BY <2>1, <2>3 DEF Spare, KillsOnlyJudged
<1>3. CASE InsertAndJudge
  <2>1. /\ handler.ev \in CreateEvents /\ handler.ctx \in Context
        /\ handler.ev.pid \in Pids /\ handler.ev.inc \in Lives /\ handler # Idle
    BY <1>3, HandlerType DEF InsertAndJudge, BooksInv
  <2> DEFINE node == ChildNode(handler.ev, handler.ctx)
             p    == handler.ev.pid
             v    == IF handler.ctx.web THEN Verdicts(handler.ev.img) ELSE {}
  <2>2. node \in ProcessNode /\ node.inc = handler.ev.inc
    BY <2>1, ChildNodeType DEF ChildNode
  <2>3. /\ process_map' = [process_map EXCEPT ![p] = node]
        /\ handler' = Idle /\ cleanups' = cleanups
        /\ Spare(stream) \/ Terminate(p, handler.ev.inc, v, stream)
    BY <1>3 DEF InsertAndJudge
  <2> HIDE DEF node, v
  <2>4. Books(os, stream, process_map', handler', cleanups')
    BY <1>t, <2>1, <2>2, <2>3, BooksInsert
  <2>5. handler.ev.inc = os[p].inc
    BY <1>t, <2>1 DEF Books, MapCurrent
  <2> QED
    BY <1>t, <2>1, <2>3, <2>4, <2>5, EffectBooks
<1>4. CASE HandleProcessStop
  <2> DEFINE p == Head(stream).pid
             u == [root |-> p, inc |-> Head(stream).inc, pc |-> "sleep", victims |-> {}]
  <2>1. /\ stream # << >> /\ handler = Idle /\ Head(stream).type = "ProcessStop"
        /\ Spare(Tail(stream)) /\ UNCHANGED handler
        /\ \/ UNCHANGED process_map /\ cleanups' = cleanups \cup {u}
           \/ UNCHANGED cleanups /\ process_map' = [process_map EXCEPT ![p] = None]
    BY <1>4 DEF HandleProcessStop, Incoming, tables
  <2>2. CASE UNCHANGED cleanups /\ process_map' = [process_map EXCEPT ![p] = None]
    BY <1>t, <2>1, <2>2, BooksTakeStop DEF Spare, KillsOnlyJudged
  <2>3. CASE UNCHANGED process_map /\ cleanups' = cleanups \cup {u}
    <3>1. u \in Cleanup /\ u.root = p /\ u.pc # "forget"
      BY <1>t, <2>3
    <3> HIDE DEF u
    <3>2. Books(os, Tail(stream), process_map, Idle, cleanups \cup {u})
      BY <1>t, <2>1, <3>1, BooksTakeRootStop
    <3> QED
      BY <2>1, <2>3, <3>2 DEF Spare, KillsOnlyJudged
  <2> QED
    BY <2>1, <2>2, <2>3
<1>5. CASE HandleListen
  <2> DEFINE p == Head(stream).pid
  <2>1. /\ stream # << >> /\ Head(stream).type = "Listen"
        /\ Spare(Tail(stream)) /\ UNCHANGED <<handler, cleanups>>
        /\ process_map' = IF Tracked(p)
                          THEN [process_map EXCEPT ![p] =
                                   [process_map[p] EXCEPT !.is_web_server = TRUE]]
                          ELSE process_map
    BY <1>5 DEF HandleListen, Incoming, tasks
  <2>2. Books(os, Tail(stream), process_map, handler, cleanups)
    BY <1>t, <2>1, BooksTakeAct
  <2>3. \A q \in Pids : /\ process_map'[q] # None <=> process_map[q] # None
                        /\ process_map'[q] # None => process_map'[q].inc = process_map[q].inc
    <3>1. p \in Pids
      BY <1>t, <2>1, TailFacts, EventTypes
    <3>2. CASE Tracked(p)
      <4>1. process_map[p] \in ProcessNode
        BY <1>t, <3>1, <3>2 DEF Tracked
      <4> DEFINE n == [process_map[p] EXCEPT !.is_web_server = TRUE]
      <4>2. n \in ProcessNode /\ n.inc = process_map[p].inc
        BY <4>1 DEF ProcessNode
      <4>3. n # None
        BY <4>2, NoneAssumption
      <4> HIDE DEF n
      <4>4. process_map' = [process_map EXCEPT ![p] = n]
        BY <2>1, <3>2 DEF n
      <4> QED
        BY <1>t, <3>1, <3>2, <4>2, <4>3, <4>4 DEF Tracked
    <3> QED
      BY <2>1, <3>2
  <2>4. Books(os, Tail(stream), process_map', handler, cleanups)
    BY <1>t, <2>2, <2>3, BooksSameLives
  <2> QED
    BY <2>1, <2>4 DEF Spare, KillsOnlyJudged
<1>6. ASSUME NEW a \in Activities \ {"Listen"}, HandleActivity(a)
      PROVE  /\ Books(os', stream', process_map', handler', cleanups')
             /\ \A q \in Pids : os'[q].alive => os[q].alive
             /\ KillsOnlyJudged'
  <2> DEFINE p == Head(stream).pid
             j == IF Tracked(p) THEN process_map[p].inc ELSE 0
  <2>1. /\ stream # << >> /\ Head(stream).type \notin {"ProcessCreate", "ProcessStop"}
        /\ UNCHANGED <<process_map, handler, cleanups>>
        /\ Spare(Tail(stream)) \/ Terminate(p, j, {a}, Tail(stream))
    BY <1>6, ActivitiesAssumption DEF HandleActivity, Incoming, tables, tasks
  <2>2. Books(os, Tail(stream), process_map, handler, cleanups)
    BY <1>t, <2>1, BooksTakeAct
  <2>3. p \in Pids
    BY <1>t, <2>1, TailFacts, EventTypes
  <2>4. j \in Lives /\ j \in {0, os[p].inc}
    BY <1>t, <2>3 DEF Tracked, Books, MapCurrent, ProcessNode, Lives
  <2> HIDE DEF j
  <2> QED
    BY <1>t, <2>1, <2>2, <2>3, <2>4, EffectBooks
<1> QED
  BY <1>1, <1>2, <1>3, <1>4, <1>5, <1>6 DEF TelemetryLoop

LEMMA CleanupBooks ==
  ASSUME BooksInv, NEW r \in Pids, CleanupStep(r), TypeOK'
  PROVE  BooksInv' /\ KillsOnlyJudged'
<1>t. /\ stream \in Seq(Events) /\ connected /\ cleanups \subseteq Cleanup
      /\ process_map \in [Pids -> ProcessNode \cup {None}]
      /\ Books(os, stream, process_map, handler, cleanups)
      /\ evictor.victim \in PidOrNone /\ Undisturbed
  BY DEF BooksInv, TypeOK
<1>0. PICK t \in cleanups : \/ CleanupCollect(t)
                           \/ \E p \in Pids : CleanupKill(t, p)
                           \/ CleanupUntrack(t)
                           \/ CleanupForget(t)
  BY DEF CleanupStep
<1>c. /\ t \in Cleanup /\ t.root \in Pids
      /\ ~os[t.root].alive
  BY <1>t DEF Cleanup, Books, RootsEnded
<1>s. SUFFICES /\ Books(os', stream', process_map', handler', cleanups')
               /\ \A q \in Pids : os'[q].alive => os[q].alive
               /\ KillsOnlyJudged'
  <2>1. connected' /\ disabled_pids' = {} /\ evictor' = evictor
    BY <1>0 DEF CleanupCollect, CleanupKill, CleanupUntrack, CleanupForget, BooksInv
  <2> QED
    BY <1>t, <2>1 DEF BooksInv, VictimEnded, PidOrNone
<1>1. CASE CleanupCollect(t)
  <2> DEFINE vs == {p \in Pids \ {t.root} :
                      Tracked(p) /\ process_map[p].install_root_pid = t.root}
             u  == [t EXCEPT !.pc = "kill", !.victims = vs]
  <2>1. u \in Cleanup /\ u.root = t.root /\ u.pc # "forget"
    BY <1>c DEF Cleanup
  <2> HIDE DEF u
  <2>2. /\ cleanups' = (cleanups \ {t}) \cup {u}
        /\ Spare(stream) /\ UNCHANGED <<process_map, handler>>
    BY <1>1 DEF CleanupCollect, Move, tables, u
  <2>3. Books(os, stream, process_map, handler, cleanups')
    BY <1>t, <2>1, <2>2, BooksCleanup
  <2> QED
    BY <2>2, <2>3 DEF Spare, KillsOnlyJudged
<1>2. ASSUME NEW p \in Pids, CleanupKill(t, p)
      PROVE  /\ Books(os', stream', process_map', handler', cleanups')
             /\ \A q \in Pids : os'[q].alive => os[q].alive
             /\ KillsOnlyJudged'
  <2> DEFINE u == [t EXCEPT !.victims = @ \ {p}]
             reasons == {"PersistentProcess"}
             j == process_map[p].inc
  <2>1. u \in Cleanup /\ u.root = t.root /\ u.pc # "forget"
    BY <1>2, <1>c DEF Cleanup, CleanupKill
  <2> HIDE DEF u
  <2>2. /\ cleanups' = (cleanups \ {t}) \cup {u}
        /\ Spare(stream) \/ (Tracked(p) /\ Terminate(p, j, reasons, stream))
        /\ UNCHANGED <<process_map, handler>>
    BY <1>2 DEF CleanupKill, Move, tables, u
  <2>3. Books(os, stream, process_map, handler, cleanups')
    BY <1>t, <2>1, <2>2, BooksCleanup
  <2>4. Tracked(p) => j \in Lives /\ j = os[p].inc
    BY <1>t DEF Tracked, Books, MapCurrent, ProcessNode
  <2>5. CASE Spare(stream)
    BY <2>2, <2>3, <2>5 DEF Spare, KillsOnlyJudged
  <2>6. CASE Tracked(p) /\ Terminate(p, j, reasons, stream)
    <3> HIDE DEF j, reasons
    <3> QED
      BY <1>t, <2>2, <2>3, <2>4, <2>6, EffectBooks
  <2> QED
    BY <2>2, <2>5, <2>6
<1>3. CASE CleanupUntrack(t)
  <2> DEFINE u == [t EXCEPT !.pc = "forget"]
             n == [process_map EXCEPT ![t.root] = None]
  <2>1. u \in Cleanup /\ u.root = t.root
    BY <1>c DEF Cleanup
  <2>2. Books(os, stream, n, handler, cleanups) /\ n[t.root] = None
    BY <1>t, <1>c, BooksRemove
  <2> HIDE DEF u, n
  <2>3. /\ cleanups' = (cleanups \ {t}) \cup {u} /\ process_map' = n
        /\ Spare(stream) /\ UNCHANGED handler
    BY <1>3 DEF CleanupUntrack, Move, u, n
  <2>4. Books(os, stream, n, handler, cleanups')
    BY <1>t, <2>1, <2>2, <2>3, BooksCleanup
  <2> QED
    BY <2>3, <2>4 DEF Spare, KillsOnlyJudged
<1>4. CASE CleanupForget(t)
  <2>1. /\ t.pc = "forget" /\ cleanups' = cleanups \ {t}
        /\ Spare(stream) /\ UNCHANGED <<process_map, handler>>
    BY <1>4 DEF CleanupForget
  <2>2. Books(os, stream, process_map, handler, cleanups')
    BY <1>t, <2>1, BooksForget
  <2> QED
    BY <2>1, <2>2 DEF Spare, KillsOnlyJudged
<1> QED
  BY <1>0, <1>1, <1>2, <1>3, <1>4

LEMMA EvictBooks ==
  ASSUME BooksInv, EvictTask, TypeOK'
  PROVE  BooksInv' /\ KillsOnlyJudged'
<1>t. /\ Books(os, stream, process_map, handler, cleanups)
      /\ evictor \in [todo : SUBSET Pids, victim : PidOrNone,
                      pc : {"untrack", "forget"}]
  BY DEF BooksInv, TypeOK
<1>1. CASE EvictCollect
  <2>1. evictor'.victim = evictor.victim
    BY <1>1, <1>t DEF EvictCollect
  <2> QED
    BY <1>1, <1>t, <2>1 DEF EvictCollect, Spare, BooksInv, VictimEnded, KillsOnlyJudged,
                           tables, Undisturbed
<1>2. ASSUME NEW p \in Pids, EvictCheck(p)
      PROVE  BooksInv' /\ KillsOnlyJudged'
  <2>1. evictor'.victim = IF os[p].alive THEN None ELSE p
    BY <1>2 DEF EvictCheck
  <2> QED
    BY <1>2, <1>t, <2>1 DEF EvictCheck, Spare, BooksInv, VictimEnded, KillsOnlyJudged,
                           tables, Undisturbed
<1>3. CASE EvictUntrack
  <2>1. evictor.victim \in Pids /\ ~os[evictor.victim].alive
        /\ evictor'.victim = evictor.victim
    BY <1>3, <1>t DEF EvictUntrack, PidOrNone, BooksInv, VictimEnded
  <2>2. Books(os, stream, [process_map EXCEPT ![evictor.victim] = None], handler, cleanups)
    BY <1>t, <2>1, BooksRemove
  <2> QED
    BY <1>3, <1>t, <2>1, <2>2 DEF EvictUntrack, Spare, BooksInv, VictimEnded,
                                 KillsOnlyJudged, Undisturbed
<1>4. CASE EvictForget
  <2>1. evictor'.victim = None
    BY <1>4, <1>t DEF EvictForget
  <2> QED
    BY <1>4, <1>t, <2>1 DEF EvictForget, Spare, BooksInv, VictimEnded, KillsOnlyJudged,
                           Undisturbed
<1> QED
  BY <1>1, <1>2, <1>3, <1>4 DEF EvictTask

LEMMA InitBooks == Undisturbed /\ Init => BooksInv /\ KillsOnlyJudged
<1> SUFFICES ASSUME Undisturbed, Init PROVE BooksInv /\ KillsOnlyJudged
  OBVIOUS
<1>1. TypeOK
  BY InitType
<1>2. /\ connected /\ disabled_pids = {} /\ stream = << >> /\ handler = Idle
      /\ cleanups = {} /\ evictor.victim = None /\ sigkill = NoKill
  BY DEF Init
<1>3. \A p \in Pids : process_map[p] # None => process_map[p].inc = os[p].inc /\ os[p].alive
  BY DEF Init
<1>4. \A p \in Pids : os[p].alive => p \in Preexisting /\ os[p].inc = 1
  BY DEF Init, Running
<1>5. Shapes(os, stream, process_map, handler, cleanups)
  BY <1>1 DEF Shapes, TypeOK
<1>6. StreamCurrent(os, stream) /\ StopsLast(os, stream) /\ RootsEnded(os, stream, cleanups)
  BY <1>2 DEF StreamCurrent, StopsLast, RootsEnded
<1>7. MapCurrent(os, process_map, handler)
  BY <1>2, <1>3 DEF MapCurrent
<1>8. WillLeave(os, stream, process_map, handler, cleanups)
  BY <1>2, <1>3 DEF WillLeave, Handling, Announced
<1>9. Known(os, stream, process_map, handler)
  BY <1>4 DEF Known
<1> QED
  BY <1>1, <1>2, <1>5, <1>6, <1>7, <1>8, <1>9 DEF BooksInv, Books, VictimEnded, KillsOnlyJudged

\* Every step keeps the books.
LEMMA NextBooks == BooksInv /\ [Next]_vars => BooksInv' /\ (KillsOnlyJudged => KillsOnlyJudged')
<1> SUFFICES ASSUME BooksInv, [Next]_vars
             PROVE  BooksInv' /\ (KillsOnlyJudged => KillsOnlyJudged')
  OBVIOUS
<1>t. TypeOK'
  BY NextType DEF BooksInv
<1>1. CASE Host
  <2>1. CASE Disconnect \/ Reconnect
    BY <2>1 DEF Disconnect, Reconnect, BooksInv, Undisturbed
  <2> QED
    BY <1>1, <1>t, <2>1, SpawnBooks, ExitBooks, ActBooks DEF Host
<1>2. CASE TelemetryLoop
  BY <1>2, <1>t, LoopBooks
<1>3. CASE \E r \in Pids : CleanupStep(r)
  BY <1>3, <1>t, CleanupBooks
<1>4. CASE EvictTask
  BY <1>4, <1>t, EvictBooks
<1>5. CASE Operator
  BY <1>5 DEF Operator, BooksInv, Undisturbed
<1>6. CASE \E p \in Pids : Age(p)
  BY <1>6, <1>t DEF Age, Spare, BooksInv, VictimEnded, KillsOnlyJudged, Undisturbed, tasks
<1>7. CASE UNCHANGED vars
  BY <1>7 DEF vars, host, tables, tasks, BooksInv, TypeOK, VictimEnded, KillsOnlyJudged,
              Undisturbed
<1> QED
  BY <1>1, <1>2, <1>3, <1>4, <1>5, <1>6, <1>7 DEF Next

\* terminate_threat_child signals a pid: when no event is lost, monitoring is never
\* switched off and the host does not recycle a pid under the daemon's hands, the
\* process it reaches is the one the node was created for, or none - whatever the order
\* in which the loop, the clean-up tasks and the evictor take their steps.
THEOREM KillsReachTheJudged == Undisturbed /\ Spec => []KillsOnlyJudged
<1> QED
  BY InitBooks, NextBooks, PTL DEF Spec

\* handle_raw_event misses nobody: under the same conditions, whenever the loop has
\* caught up with the stream, every running process that was started after the daemon
\* has the node of its current life, although the clean-up tasks and the evictor remove
\* nodes by pid at any time.
THEOREM NobodyEscapesTheTable == Undisturbed /\ Spec => []NobodyEscapes
<1>1. BooksInv => NobodyEscapes
  <2> SUFFICES ASSUME BooksInv, stream = << >>, handler = Idle, NEW p \in Pids,
                      os[p].alive, p \in Preexisting => os[p].inc > 1
               PROVE  Tracked(p) /\ process_map[p].inc = os[p].inc
    BY DEF NobodyEscapes
  <2>1. ~Handling(handler, p) /\ ~Announced(stream, p)
    BY DEF Handling, Announced
  <2> QED
    BY <2>1 DEF BooksInv, Books, Known, InBooks, MapCurrent, Tracked
<1> QED
  BY <1>1, InitBooks, NextBooks, PTL DEF Spec

-----------------------------------------------------------------------------
(* Of whom the children inherit: a parent's node is there when a child asks. *)

\* q is in the books when the handler comes to the i-th event.
SaidBefore(s, i, q) == \E j \in 1..(i - 1) : s[j].type = "ProcessCreate" /\ s[j].pid = q
KnownBefore(s, m, h, i, q) == m[q] # None \/ Handling(h, q) \/ SaidBefore(s, i, q)

\* While the start of a child waits, the end of its parent is not handled.
ParentsFirst(o, s) ==
    \A i \in 1..Len(s) : s[i].type = "ProcessCreate" /\ s[i].ppid # None =>
        /\ ~o[s[i].ppid].alive => Stopping(s, s[i].ppid)
        /\ \A j \in 1..(i - 1) : ~(s[j].type = "ProcessStop" /\ s[j].pid = s[i].ppid)

\* Of the processes in F, whose children inherit something, the running ones are in
\* the books, and all of them when the handler comes to a child.
FamilyKnown(o, s, m, h, F) ==
    /\ \A i \in 1..Len(s) : s[i].type = "ProcessCreate" /\ s[i].ppid \in F =>
          KnownBefore(s, m, h, i, s[i].ppid)
    /\ \A p \in F : o[p].alive => InBooks(s, m, h, p)

LEMMA ParentType ==
  ASSUME NEW e \in Events, e.type = "ProcessCreate"
  PROVE  e.ppid \in PidOrNone /\ e \in CreateEvents
BY EventShape DEF CreateEvents

LEMMA TailBefore ==
  ASSUME NEW s \in Seq(Events), s # << >>, NEW i \in 1..Len(Tail(s)), NEW q
  PROVE  SaidBefore(s, i + 1, q) <=> SaidBefore(Tail(s), i, q)
                                     \/ (Head(s).type = "ProcessCreate" /\ Head(s).pid = q)
<1> DEFINE t == Tail(s)
<1>1. /\ Len(t) = Len(s) - 1 /\ Len(s) \in Nat
      /\ 1 \in 1..Len(s) /\ s[1] = Head(s)
      /\ \A j \in 1..Len(t) : j + 1 \in 1..Len(s) /\ t[j] = s[j + 1]
  BY TailFacts
<1> HIDE DEF t
<1>2. ASSUME NEW j \in 1..i, s[j].type = "ProcessCreate" /\ s[j].pid = q
      PROVE  SaidBefore(t, i, q) \/ (Head(s).type = "ProcessCreate" /\ Head(s).pid = q)
  <2>1. CASE j = 1
    BY <1>1, <1>2, <2>1
  <2>2. CASE j # 1
    <3>1. j - 1 \in 1..(i - 1) /\ j - 1 \in 1..Len(t) /\ t[j - 1] = s[j]
      BY <1>1, <2>2 DEF t
    <3> QED
      BY <1>2, <3>1 DEF SaidBefore
  <2> QED
    BY <2>1, <2>2
<1>3. ASSUME NEW j \in 1..(i - 1), t[j].type = "ProcessCreate" /\ t[j].pid = q
      PROVE  SaidBefore(s, i + 1, q)
  <2>1. j + 1 \in 1..((i + 1) - 1) /\ t[j] = s[j + 1]
    BY <1>1 DEF t
  <2> QED
    BY <1>3, <2>1 DEF SaidBefore
<1>4. Head(s).type = "ProcessCreate" /\ Head(s).pid = q => SaidBefore(s, i + 1, q)
  <2>1. 1 \in 1..((i + 1) - 1)
    OBVIOUS
  <2> QED
    BY <1>1, <2>1 DEF SaidBefore
<1>5. (i + 1) - 1 = i
  OBVIOUS
<1> QED
  BY <1>2, <1>3, <1>4, <1>5 DEF SaidBefore, t

LEMMA AppendBefore ==
  ASSUME NEW s \in Seq(Events), NEW e \in Events, NEW q
  PROVE  /\ \A i \in 1..Len(s) : SaidBefore(Append(s, e), i, q) <=> SaidBefore(s, i, q)
         /\ SaidBefore(Append(s, e), Len(s) + 1, q) <=> Announced(s, q)
<1> DEFINE t == Append(s, e)
<1>1. /\ Len(s) \in Nat /\ (Len(s) + 1) - 1 = Len(s)
      /\ \A i \in 1..Len(s) : t[i] = s[i]
  BY AppendFacts
<1> HIDE DEF t
<1>2. ASSUME NEW i \in 1..Len(s)
      PROVE  SaidBefore(t, i, q) <=> SaidBefore(s, i, q)
  <2>1. \A j \in 1..(i - 1) : t[j] = s[j]
    BY <1>1
  <2> QED
    BY <2>1 DEF SaidBefore
<1>3. SaidBefore(t, Len(s) + 1, q) <=> Announced(s, q)
  BY <1>1 DEF SaidBefore, Announced
<1> QED
  BY <1>2, <1>3 DEF t

\* ParentsFirst: taking an event...
LEMMA ParentsFirstTail ==
  ASSUME NEW o, NEW s \in Seq(Events), s # << >>, ParentsFirst(o, s)
  PROVE  /\ ParentsFirst(o, Tail(s))
         /\ Head(s).type = "ProcessStop" =>
               \A i \in 1..Len(Tail(s)) :
                  Tail(s)[i].type = "ProcessCreate" => Tail(s)[i].ppid # Head(s).pid
<1> DEFINE t == Tail(s)
<1>1. /\ Len(t) = Len(s) - 1 /\ Len(s) \in Nat
      /\ 1 \in 1..Len(s) /\ s[1] = Head(s)
      /\ \A j \in 1..Len(t) : j + 1 \in 1..Len(s) /\ t[j] = s[j + 1]
  BY TailFacts
<1>p. \A i \in 1..Len(s) : s[i].type = "ProcessStop" => s[i].pid # None
  <2>1. \A i \in 1..Len(s) : s[i] \in Events
    OBVIOUS
  <2> QED
    BY <2>1, EventTypes, PidsAssumption
<1>2. \A p : Stopping(s, p) <=> Stopping(t, p) \/ (Head(s).type = "ProcessStop" /\ Head(s).pid = p)
  BY TailSays
<1> HIDE DEF t
<1>3. ASSUME NEW i \in 1..Len(t), t[i].type = "ProcessCreate", t[i].ppid # None
      PROVE  /\ ~(Head(s).type = "ProcessStop" /\ Head(s).pid = t[i].ppid)
             /\ ~o[t[i].ppid].alive => Stopping(s, t[i].ppid)
             /\ \A j \in 1..(i - 1) : ~(t[j].type = "ProcessStop" /\ t[j].pid = t[i].ppid)
  <2>1. i + 1 \in 1..Len(s) /\ t[i] = s[i + 1] /\ (i + 1) - 1 = i
    BY <1>1
  <2>2. /\ ~o[t[i].ppid].alive => Stopping(s, t[i].ppid)
        /\ \A j \in 1..i : ~(s[j].type = "ProcessStop" /\ s[j].pid = t[i].ppid)
    BY <1>3, <2>1 DEF ParentsFirst
  <2>3. 1 \in 1..i /\ \A j \in 1..(i - 1) : j + 1 \in 1..i /\ t[j] = s[j + 1]
    BY <1>1, <2>1
  <2> QED
    BY <1>1, <2>2, <2>3
<1>4. ParentsFirst(o, t)
  BY <1>2, <1>3 DEF ParentsFirst
<1> QED
  BY <1>1, <1>3, <1>4, <1>p DEF t

\* ... and putting one behind the others, as long as whoever ends is told of, and the
\* parent of whoever starts runs.
LEMMA ParentsFirstAppend ==
  ASSUME NEW o, NEW d, NEW s \in Seq(Events), NEW e \in Events, ParentsFirst(o, s),
         \A i \in 1..Len(s) : s[i].type = "ProcessCreate" /\ s[i].ppid # None
            /\ ~d[s[i].ppid].alive =>
               ~o[s[i].ppid].alive \/ (e.type = "ProcessStop" /\ e.pid = s[i].ppid),
         e.type = "ProcessCreate" /\ e.ppid # None => d[e.ppid].alive /\ ~Stopping(s, e.ppid)
  PROVE  ParentsFirst(d, Append(s, e))
<1> DEFINE t == Append(s, e)
<1>1. /\ Len(t) = Len(s) + 1 /\ Len(s) \in Nat /\ (Len(s) + 1) - 1 = Len(s)
      /\ \A i \in 1..Len(s) : i \in 1..Len(t) /\ t[i] = s[i]
      /\ t[Len(s) + 1] = e
      /\ \A i \in 1..Len(t) : i \in 1..Len(s) \/ i = Len(s) + 1
  BY AppendFacts
<1>2. \A p : Stopping(t, p) <=> Stopping(s, p) \/ (e.type = "ProcessStop" /\ e.pid = p)
  BY AppendSays
<1> HIDE DEF t
<1> SUFFICES ASSUME NEW i \in 1..Len(t), t[i].type = "ProcessCreate", t[i].ppid # None
             PROVE  /\ ~d[t[i].ppid].alive => Stopping(t, t[i].ppid)
                    /\ \A j \in 1..(i - 1) : ~(t[j].type = "ProcessStop" /\ t[j].pid = t[i].ppid)
  BY DEF ParentsFirst, t
<1>3. CASE i \in 1..Len(s)
  <2>1. t[i] = s[i] /\ \A j \in 1..(i - 1) : t[j] = s[j]
    BY <1>1, <1>3
  <2> QED
    BY <1>2, <1>3, <2>1 DEF ParentsFirst
<1>4. CASE i = Len(s) + 1
  <2>1. t[i] = e /\ \A j \in 1..(i - 1) : j \in 1..Len(s) /\ t[j] = s[j]
    BY <1>1, <1>4
  <2> QED
    BY <2>1 DEF Stopping
<1> QED
  BY <1>1, <1>3, <1>4

\* FamilyKnown: an event is put behind the others.
LEMMA FamilyAppend ==
  ASSUME NEW o, NEW s \in Seq(Events), NEW m, NEW h, NEW F, FamilyKnown(o, s, m, h, F),
         NEW d, NEW G, NEW e \in Events,
         \A i \in 1..Len(s) : s[i].type = "ProcessCreate" /\ s[i].ppid \in G => s[i].ppid \in F,
         \A p \in G : d[p].alive =>
            (p \in F /\ o[p].alive) \/ (e.type = "ProcessCreate" /\ e.pid = p),
         e.type = "ProcessCreate" /\ e.ppid \in G => e.ppid \in F /\ o[e.ppid].alive
  PROVE  FamilyKnown(d, Append(s, e), m, h, G)
<1> DEFINE t == Append(s, e)
<1>1. /\ Len(t) = Len(s) + 1 /\ Len(s) \in Nat
      /\ \A i \in 1..Len(s) : i \in 1..Len(t) /\ t[i] = s[i]
      /\ t[Len(s) + 1] = e
      /\ \A i \in 1..Len(t) : i \in 1..Len(s) \/ i = Len(s) + 1
  BY AppendFacts
<1>2. \A p : Announced(t, p) <=> Announced(s, p) \/ (e.type = "ProcessCreate" /\ e.pid = p)
  BY AppendSays
<1>3. \A p : /\ \A i \in 1..Len(s) : SaidBefore(t, i, p) <=> SaidBefore(s, i, p)
             /\ SaidBefore(t, Len(s) + 1, p) <=> Announced(s, p)
  BY AppendBefore
<1> HIDE DEF t
<1>4. ASSUME NEW i \in 1..Len(t), t[i].type = "ProcessCreate", t[i].ppid \in G
      PROVE  KnownBefore(t, m, h, i, t[i].ppid)
  <2>1. CASE i \in 1..Len(s)
    BY <1>1, <1>3, <1>4, <2>1 DEF FamilyKnown, KnownBefore
  <2>2. CASE i = Len(s) + 1
    <3>1. InBooks(s, m, h, e.ppid)
      BY <1>1, <1>4, <2>2 DEF FamilyKnown
    <3> QED
      BY <1>1, <1>3, <2>2, <3>1 DEF InBooks, KnownBefore
  <2> QED
    BY <1>1, <2>1, <2>2
<1>5. \A p \in G : d[p].alive => InBooks(t, m, h, p)
  BY <1>2 DEF FamilyKnown, InBooks
<1> QED
  BY <1>4, <1>5 DEF FamilyKnown, t

\* FamilyKnown: the first event is taken; whoever it takes out of the books has ended
\* and is the parent of nobody who waits.
LEMMA FamilyTail ==
  ASSUME NEW o, NEW s \in Seq(Events), s # << >>, NEW m, NEW h, NEW F,
         FamilyKnown(o, s, m, h, F), NEW n, NEW k,
         \A p \in F : \/ /\ m[p] # None \/ Handling(h, p)
                            \/ (Head(s).type = "ProcessCreate" /\ Head(s).pid = p)
                         => n[p] # None \/ Handling(k, p)
                      \/ /\ ~o[p].alive
                         /\ \A i \in 1..Len(Tail(s)) :
                               Tail(s)[i].type = "ProcessCreate" => Tail(s)[i].ppid # p
  PROVE  FamilyKnown(o, Tail(s), n, k, F)
<1> DEFINE t == Tail(s)
<1>1. /\ Len(t) = Len(s) - 1 /\ Len(s) \in Nat
      /\ \A j \in 1..Len(t) : j + 1 \in 1..Len(s) /\ t[j] = s[j + 1]
  BY TailFacts
<1>2. \A p : Announced(s, p) <=> Announced(t, p)
                                 \/ (Head(s).type = "ProcessCreate" /\ Head(s).pid = p)
  BY TailSays
<1>3. \A i \in 1..Len(t) : \A p :
         SaidBefore(s, i + 1, p) <=> SaidBefore(t, i, p)
                                     \/ (Head(s).type = "ProcessCreate" /\ Head(s).pid = p)
  BY TailBefore
<1> HIDE DEF t
<1>4. ASSUME NEW i \in 1..Len(t), t[i].type = "ProcessCreate", t[i].ppid \in F
      PROVE  KnownBefore(t, n, k, i, t[i].ppid)
  <2>1. KnownBefore(s, m, h, i + 1, t[i].ppid)
    BY <1>1, <1>4 DEF FamilyKnown
  <2> QED
    BY <1>3, <1>4, <2>1 DEF KnownBefore, t
<1>5. \A p \in F : o[p].alive => InBooks(t, n, k, p)
  BY <1>2 DEF FamilyKnown, InBooks
<1> QED
  BY <1>4, <1>5 DEF FamilyKnown, t

\* FamilyKnown: a node is entered, changed, or removed when its process has ended and
\* is the parent of nobody who waits.
LEMMA FamilyNodes ==
  ASSUME NEW o, NEW s, NEW m, NEW h, NEW F, FamilyKnown(o, s, m, h, F), NEW n, NEW k,
         \A p \in F : \/ m[p] # None \/ Handling(h, p) => n[p] # None \/ Handling(k, p)
                      \/ /\ ~o[p].alive
                         /\ \A i \in 1..Len(s) : s[i].type = "ProcessCreate" => s[i].ppid # p
  PROVE  FamilyKnown(o, s, n, k, F)
<1>1. \A i \in 1..Len(s) : s[i].type = "ProcessCreate" /\ s[i].ppid \in F =>
          KnownBefore(s, n, k, i, s[i].ppid)
  BY DEF FamilyKnown, KnownBefore
<1>2. \A p \in F : o[p].alive => InBooks(s, n, k, p)
  BY DEF FamilyKnown, InBooks
<1> QED
  BY <1>1, <1>2 DEF FamilyKnown

-----------------------------------------------------------------------------
(* That the engine's view is the truth *)

\* Nobody calls listen, and a pid that was in use when the daemon started is not given
\* out again.
WithoutListeners == "Listen" \notin Activities /\ Preexisting \cap Recycled = {}

\* What the daemon could know of: processes that descend from nothing it missed.
Rooted(o) == {p \in Pids : o[p].root # None /\ ~o[p].unseen}
Webs(o)   == {p \in Pids : o[p].web /\ ~o[p].unseen}

\* Whatever a process descends from, its children do.
UnseenInherited(o, s) ==
    \A i \in 1..Len(s) : s[i].type = "ProcessCreate" /\ s[i].ppid # None =>
        (o[s[i].ppid].unseen => o[s[i].pid].unseen)

\* The installation a process descends from, as a pid; what a new process inherits from
\* its parent, and what the handler concludes from what it has read of the parent.
RootPid(o, p)        == IF p = None \/ o[p].root = None THEN None ELSE o[p].root[1]
RootBelow(r, img, p) == IF r # None THEN r ELSE IF img \in InstallImages THEN p ELSE None
ChildRoot(ev, ctx)   == IF ev.img \in InstallImages /\ ~ctx.install THEN ev.pid ELSE ctx.root
ChildWeb(ev, ctx, l) == ev.img \in WebImages \/ ctx.web \/ ev.pid \in l

RootTrue(o, s, m, h, cl) ==
    /\ \A p \in Pids : m[p] # None /\ ~o[p].unseen => m[p].install_root_pid = RootPid(o, p)
    /\ h # Idle /\ ~o[h.ev.pid].unseen => ChildRoot(h.ev, h.ctx) = RootPid(o, h.ev.pid)
    /\ \A i \in 1..Len(s) : s[i].type = "ProcessCreate" =>
          RootPid(o, s[i].pid) = RootBelow(RootPid(o, s[i].ppid), s[i].img, s[i].pid)
    /\ \A t \in cl : \A p \in t.victims : o[p].unseen \/ RootPid(o, p) = t.root

WebTrue(o, s, m, h, l) ==
    /\ \A p \in l : p \in Pids \ Recycled /\ o[p].inc >= 1 /\ o[p].web
    /\ \A p \in Pids : o[p].img \in WebImages => o[p].web
    /\ \A p \in Pids : m[p] # None /\ ~o[p].unseen => m[p].is_web_server = o[p].web
    /\ h # Idle /\ ~o[h.ev.pid].unseen => ChildWeb(h.ev, h.ctx, l) = o[h.ev.pid].web
    /\ \A i \in 1..Len(s) : s[i].type = "ProcessCreate" =>
          o[s[i].pid].web = (s[i].img \in WebImages \/ (s[i].ppid # None /\ o[s[i].ppid].web))

View(o, s, m, h, cl, l) ==
    /\ Books(o, s, m, h, cl) /\ ParentsFirst(o, s) /\ UnseenInherited(o, s)
    /\ FamilyKnown(o, s, m, h, Rooted(o)) /\ RootTrue(o, s, m, h, cl)
    /\ WithoutListeners => FamilyKnown(o, s, m, h, Webs(o)) /\ WebTrue(o, s, m, h, l)

\* The processes keep what they have inherited.
SameHeritage(o, d) ==
    \A p \in Pids : /\ d[p].root = o[p].root /\ d[p].img = o[p].img /\ d[p].inc = o[p].inc
                    /\ d[p].unseen = o[p].unseen
                    /\ WithoutListeners => d[p].web = o[p].web

\* The events of t that tell of a start are some of those of s.
NoNewStarts(s, t) ==
    \A i \in 1..Len(t) : t[i].type = "ProcessCreate" => \E j \in 1..Len(s) : t[i] = s[j]

\* The nodes of n are some of those of m.
NoNewNodes(m, n) ==
    \A p \in Pids : n[p] # None =>
        /\ m[p] # None /\ n[p].install_root_pid = m[p].install_root_pid
        /\ WithoutListeners => n[p].is_web_server = m[p].is_web_server

\* What is true stays true in a step that tells the daemon of nobody new.
LEMMA ViewSame ==
  ASSUME NEW o, NEW s, NEW m, NEW h, NEW cl, NEW l, View(o, s, m, h, cl, l),
         NEW d, NEW t, NEW n, NEW k, NEW dl, NEW w, Books(d, t, n, k, dl),
         SameHeritage(o, d), NoNewStarts(s, t), NoNewNodes(m, n), k \in {h, Idle},
         WithoutListeners => w = l,
         \A c \in dl : \A p \in c.victims : o[p].unseen \/ RootPid(o, p) = c.root,
         ParentsFirst(d, t), FamilyKnown(d, t, n, k, Rooted(o)),
         WithoutListeners => FamilyKnown(d, t, n, k, Webs(o))
  PROVE  View(d, t, n, k, dl, w)
<1>1. /\ t \in Seq(Events) /\ h \in [ev : CreateEvents, ctx : Context] \cup {Idle}
      /\ dl \subseteq Cleanup
  BY DEF View, Books, Shapes
<1>2. \A p \in PidOrNone : RootPid(d, p) = RootPid(o, p)
  BY DEF SameHeritage, RootPid, PidOrNone
<1>3. \A i \in 1..Len(t) : t[i].type = "ProcessCreate" =>
         t[i].pid \in Pids /\ t[i].ppid \in PidOrNone
  <2>1. \A i \in 1..Len(t) : t[i] \in Events
    BY <1>1
  <2> QED
    BY <2>1, EventTypes, ParentType
<1>4. h # Idle => h.ev.pid \in Pids
  BY <1>1 DEF CreateEvents
<1>5. RootTrue(d, t, n, k, dl)
  <2>1. Pids \subseteq PidOrNone
    BY DEF PidOrNone
  <2>2. \A p \in Pids : n[p] # None /\ ~d[p].unseen => n[p].install_root_pid = RootPid(d, p)
    BY <1>2, <2>1 DEF View, RootTrue, NoNewNodes, SameHeritage
  <2>3. k # Idle /\ ~d[k.ev.pid].unseen => ChildRoot(k.ev, k.ctx) = RootPid(d, k.ev.pid)
    BY <1>2, <1>4, <2>1 DEF View, RootTrue, SameHeritage
  <2>4. \A i \in 1..Len(t) : t[i].type = "ProcessCreate" =>
          RootPid(d, t[i].pid) = RootBelow(RootPid(d, t[i].ppid), t[i].img, t[i].pid)
    BY <1>2, <1>3, <2>1 DEF View, RootTrue, NoNewStarts
  <2>5. \A c \in dl : \A p \in c.victims : d[p].unseen \/ RootPid(d, p) = c.root
    BY <1>1, <1>2, <2>1 DEF Cleanup, SameHeritage
  <2> QED
    BY <2>2, <2>3, <2>4, <2>5 DEF RootTrue
<1>6. WithoutListeners => WebTrue(d, t, n, k, w)
  <2> SUFFICES ASSUME WithoutListeners PROVE WebTrue(d, t, n, k, w)
    OBVIOUS
  <2>1. \A p \in Pids : /\ d[p].web = o[p].web /\ d[p].img = o[p].img
                        /\ d[p].inc = o[p].inc /\ d[p].unseen = o[p].unseen
    BY DEF SameHeritage
  <2>2. WebTrue(o, s, m, h, l) /\ w = l
    BY DEF View
  <2>3. \A p \in w : p \in Pids \ Recycled /\ d[p].inc >= 1 /\ d[p].web
    BY <2>1, <2>2 DEF WebTrue
  <2>4. \A p \in Pids : d[p].img \in WebImages => d[p].web
    BY <2>1, <2>2 DEF WebTrue
  <2>5. \A p \in Pids : n[p] # None /\ ~d[p].unseen => n[p].is_web_server = d[p].web
    BY <2>1, <2>2 DEF WebTrue, NoNewNodes
  <2>6. k # Idle /\ ~d[k.ev.pid].unseen => ChildWeb(k.ev, k.ctx, w) = d[k.ev.pid].web
    BY <1>4, <2>1, <2>2 DEF WebTrue
  <2>7. \A i \in 1..Len(t) : t[i].type = "ProcessCreate" =>
          d[t[i].pid].web = (t[i].img \in WebImages \/ (t[i].ppid # None /\ d[t[i].ppid].web))
    <3>1. \A i \in 1..Len(t) : t[i].type = "ProcessCreate" =>
          o[t[i].pid].web = (t[i].img \in WebImages \/ (t[i].ppid # None /\ o[t[i].ppid].web))
      BY <2>2 DEF WebTrue, NoNewStarts
    <3> QED
      BY <1>3, <2>1, <3>1 DEF PidOrNone
  <2> QED
    BY <2>3, <2>4, <2>5, <2>6, <2>7 DEF WebTrue
<1>7. Rooted(d) = Rooted(o)
  BY DEF SameHeritage, Rooted
<1>8. WithoutListeners => Webs(d) = Webs(o)
  BY DEF SameHeritage, Webs
<1>9. UnseenInherited(d, t)
  <2>1. \A i \in 1..Len(t) : t[i].type = "ProcessCreate" /\ t[i].ppid # None =>
          (o[t[i].ppid].unseen => o[t[i].pid].unseen)
    BY DEF View, UnseenInherited, NoNewStarts
  <2> QED
    BY <1>3, <2>1 DEF UnseenInherited, SameHeritage, PidOrNone
<1> QED
  BY <1>5, <1>6, <1>7, <1>8, <1>9 DEF View

LEMMA StartsOfTail ==
  ASSUME NEW s \in Seq(Events), s # << >>
  PROVE  NoNewStarts(s, Tail(s))
BY TailFacts DEF NoNewStarts

LEMMA StartsOfAppend ==
  ASSUME NEW s \in Seq(Events), NEW e \in Events, e.type # "ProcessCreate"
  PROVE  NoNewStarts(s, Append(s, e))
<1> DEFINE t == Append(s, e)
<1>1. /\ \A i \in 1..Len(s) : t[i] = s[i]
      /\ t[Len(s) + 1] = e
      /\ \A i \in 1..Len(t) : i \in 1..Len(s) \/ i = Len(s) + 1
  BY AppendFacts
<1> HIDE DEF t
<1> QED
  BY <1>1 DEF NoNewStarts, t

LEMMA ViewEnd ==
  ASSUME NEW o, NEW s, NEW m, NEW h, NEW cl, NEW l, View(o, s, m, h, cl, l),
         NEW p \in Pids, o[p].alive
  PROVE  View(Ended(o, p), Append(s, StopOf(o, p)), m, h, cl, l)
<1> DEFINE d == Ended(o, p)
           e == StopOf(o, p)
           t == Append(s, e)
<1>1. /\ o \in [Pids -> Process] /\ s \in Seq(Events) /\ Books(o, s, m, h, cl)
  BY DEF View, Books, Shapes
<1>2. /\ e \in Events /\ SameHeritage(o, d)
      /\ \A q \in Pids : /\ d[q].alive => o[q].alive
                         /\ q # p => d[q] = o[q]
  BY <1>1, EndedFacts DEF SameHeritage
<1>3. e.type = "ProcessStop" /\ e.pid = p
  BY DEF StopOf
<1>4. Books(d, t, m, h, cl)
  BY <1>1, BooksEnd
<1> HIDE DEF d, e
<1>5. NoNewStarts(s, t)
  BY <1>1, <1>2, <1>3, StartsOfAppend
<1>6. ParentsFirst(d, t)
  <2>1. \A i \in 1..Len(s) : s[i].type = "ProcessCreate" => s[i].ppid \in PidOrNone
    <3>1. \A i \in 1..Len(s) : s[i] \in Events
      BY <1>1
    <3> QED
      BY <3>1, ParentType
  <2>2. \A i \in 1..Len(s) : s[i].type = "ProcessCreate" /\ s[i].ppid # None
            /\ ~d[s[i].ppid].alive => ~o[s[i].ppid].alive \/ s[i].ppid = p
    BY <1>2, <2>1 DEF PidOrNone
  <2>3. ParentsFirst(o, s)
    BY DEF View
  <2> QED
    BY <1>1, <1>2, <1>3, <2>2, <2>3, ParentsFirstAppend
<1>7. ASSUME NEW F \in SUBSET Pids, FamilyKnown(o, s, m, h, F)
      PROVE  FamilyKnown(d, t, m, h, F)
  BY <1>1, <1>2, <1>3, <1>7, FamilyAppend
<1>8. Rooted(o) \subseteq Pids /\ Webs(o) \subseteq Pids
  BY DEF Rooted, Webs
<1>9. \A c \in cl : \A q \in c.victims : o[q].unseen \/ RootPid(o, q) = c.root
  BY DEF View, RootTrue
<1>10. NoNewNodes(m, m)
  BY DEF NoNewNodes
<1> HIDE DEF t
<1>11. /\ FamilyKnown(d, t, m, h, Rooted(o))
       /\ WithoutListeners => FamilyKnown(d, t, m, h, Webs(o))
  BY <1>7, <1>8 DEF View
<1> QED
  BY <1>2, <1>4, <1>5, <1>6, <1>9, <1>10, <1>11, ViewSame DEF d, e, t

\* An event that tells of no start is taken, and the node of nobody who runs may go.
LEMMA ViewTake ==
  ASSUME NEW o, NEW s, NEW m, NEW h, NEW cl, NEW l, View(o, s, m, h, cl, l), s # << >>,
         NEW n, NEW dl, NEW w, Books(o, Tail(s), n, h, dl),
         Head(s).type # "ProcessCreate", NoNewNodes(m, n),
         \A p \in Pids : m[p] # None => n[p] # None
                                        \/ (Head(s).type = "ProcessStop" /\ Head(s).pid = p),
         WithoutListeners => w = l,
         \A c \in dl : c \in cl \/ c.victims = {}
  PROVE  View(o, Tail(s), n, h, dl, w)
<1> DEFINE t == Tail(s)
<1>1. s \in Seq(Events) /\ Books(o, s, m, h, cl) /\ ParentsFirst(o, s)
  BY DEF View, Books, Shapes
<1>2. NoNewStarts(s, t)
  BY <1>1, StartsOfTail
<1>3. /\ ParentsFirst(o, t)
      /\ Head(s).type = "ProcessStop" =>
            \A i \in 1..Len(t) : t[i].type = "ProcessCreate" => t[i].ppid # Head(s).pid
  BY <1>1, ParentsFirstTail
<1>4. Head(s).type = "ProcessStop" => ~o[Head(s).pid].alive
  BY <1>1, TailKeeps DEF Books
<1>5. ASSUME NEW F \in SUBSET Pids, FamilyKnown(o, s, m, h, F)
      PROVE  FamilyKnown(o, t, n, h, F)
  <2>1. \A p \in F : \/ /\ m[p] # None \/ Handling(h, p)
                            \/ (Head(s).type = "ProcessCreate" /\ Head(s).pid = p)
                         => n[p] # None \/ Handling(h, p)
                     \/ /\ ~o[p].alive
                        /\ \A i \in 1..Len(t) : t[i].type = "ProcessCreate" => t[i].ppid # p
    BY <1>3, <1>4
  <2> QED
    BY <1>1, <1>5, <2>1, FamilyTail
<1>6. Rooted(o) \subseteq Pids /\ Webs(o) \subseteq Pids /\ SameHeritage(o, o)
  BY DEF Rooted, Webs, SameHeritage
<1>7. \A c \in dl : \A q \in c.victims : o[q].unseen \/ RootPid(o, q) = c.root
  BY DEF View, RootTrue
<1> HIDE DEF t
<1>8. /\ FamilyKnown(o, t, n, h, Rooted(o))
      /\ WithoutListeners => FamilyKnown(o, t, n, h, Webs(o))
  BY <1>5, <1>6 DEF View
<1> QED
  BY <1>2, <1>3, <1>6, <1>7, <1>8, ViewSame DEF t

\* A clean-up task goes on, collects processes of its installation, or removes the root.
LEMMA ViewCleanup ==
  ASSUME NEW o, NEW s, NEW m, NEW h, NEW cl, NEW l, View(o, s, m, h, cl, l),
         NEW n, NEW dl, Books(o, s, n, h, dl), NoNewNodes(m, n),
         \A p \in Pids : m[p] # None => n[p] # None \/ \E c \in cl : c.root = p,
         \A c \in dl : \A p \in c.victims : o[p].unseen \/ RootPid(o, p) = c.root
  PROVE  View(o, s, n, h, dl, l)
<1>1. s \in Seq(Events) /\ Books(o, s, m, h, cl) /\ ParentsFirst(o, s)
  BY DEF View, Books, Shapes
<1>2. \A c \in cl : ~o[c.root].alive /\ ~Stopping(s, c.root)
  BY <1>1 DEF Books, RootsEnded
<1>3. \A c \in cl : c.root # None
  BY <1>1, PidsAssumption DEF Books, Shapes, Cleanup
<1>4. \A c \in cl : \A i \in 1..Len(s) : s[i].type = "ProcessCreate" => s[i].ppid # c.root
  BY <1>1, <1>2, <1>3 DEF ParentsFirst
<1>5. ASSUME NEW F \in SUBSET Pids, FamilyKnown(o, s, m, h, F)
      PROVE  FamilyKnown(o, s, n, h, F)
  <2>1. \A p \in F : \/ m[p] # None \/ Handling(h, p) => n[p] # None \/ Handling(h, p)
                     \/ /\ ~o[p].alive
                        /\ \A i \in 1..Len(s) : s[i].type = "ProcessCreate" => s[i].ppid # p
    BY <1>2, <1>4
  <2> QED
    BY <1>5, <2>1, FamilyNodes
<1>6. Rooted(o) \subseteq Pids /\ Webs(o) \subseteq Pids /\ SameHeritage(o, o) /\ NoNewStarts(s, s)
  BY DEF Rooted, Webs, SameHeritage, NoNewStarts
<1>7. /\ FamilyKnown(o, s, n, h, Rooted(o))
      /\ WithoutListeners => FamilyKnown(o, s, n, h, Webs(o))
  BY <1>5, <1>6 DEF View
<1> QED
  BY <1>1, <1>6, <1>7, ViewSame

LEMMA ViewAct ==
  ASSUME NEW o, NEW s, NEW m, NEW h, NEW cl, NEW l, View(o, s, m, h, cl, l),
         NEW d \in [Pids -> Process], SameHeritage(o, d),
         \A p \in Pids : d[p].alive = o[p].alive,
         NEW e \in Events, e.type \notin {"ProcessCreate", "ProcessStop"}
  PROVE  View(d, Append(s, e), m, h, cl, l)
<1> DEFINE t == Append(s, e)
<1>1. s \in Seq(Events) /\ Books(o, s, m, h, cl) /\ ParentsFirst(o, s)
  BY DEF View, Books, Shapes
<1>2. Books(d, t, m, h, cl)
  BY <1>1, BooksAct DEF SameHeritage
<1>3. NoNewStarts(s, t) /\ NoNewNodes(m, m)
  BY <1>1, StartsOfAppend DEF NoNewNodes
<1>4. ParentsFirst(d, t)
  <2>1. \A i \in 1..Len(s) : s[i].type = "ProcessCreate" => s[i].ppid \in PidOrNone
    <3>1. \A i \in 1..Len(s) : s[i] \in Events
      BY <1>1
    <3> QED
      BY <3>1, ParentType
  <2>2. \A i \in 1..Len(s) : s[i].type = "ProcessCreate" /\ s[i].ppid # None
            /\ ~d[s[i].ppid].alive => ~o[s[i].ppid].alive
    BY <2>1 DEF PidOrNone
  <2> QED
    BY <1>1, <2>2, ParentsFirstAppend
<1>5. ASSUME NEW F \in SUBSET Pids, FamilyKnown(o, s, m, h, F)
      PROVE  FamilyKnown(d, t, m, h, F)
  BY <1>1, <1>5, FamilyAppend
<1>6. Rooted(o) \subseteq Pids /\ Webs(o) \subseteq Pids
  BY DEF Rooted, Webs
<1>7. \A c \in cl : \A q \in c.victims : o[q].unseen \/ RootPid(o, q) = c.root
  BY DEF View, RootTrue
<1> HIDE DEF t
<1>8. /\ FamilyKnown(d, t, m, h, Rooted(o))
      /\ WithoutListeners => FamilyKnown(d, t, m, h, Webs(o))
  BY <1>5, <1>6 DEF View
<1> QED
  BY <1>2, <1>3, <1>4, <1>7, <1>8, ViewSame DEF t

\* What the handler reads of the parent is true.
LEMMA ContextTrue ==
  ASSUME IInv, View(os, stream, process_map, handler, cleanups, listening_pids),
         handler = Idle, stream # << >>, Head(stream).type = "ProcessCreate"
  PROVE  LET p   == Head(stream).ppid
             ctx == ParentContext(p)
         IN /\ ctx \in Context /\ (ctx.install <=> ctx.root # None)
            /\ \/ p # None /\ os[p].unseen
               \/ /\ ctx.root = RootPid(os, p)
                  /\ WithoutListeners => ctx.web = (p # None /\ os[p].web)
<1> DEFINE e == Head(stream)
           p == e.ppid
           ctx == ParentContext(p)
<1>1. /\ stream \in Seq(Events) /\ TypeOK /\ InstallContextRooted
      /\ os \in [Pids -> Process] /\ listening_pids \subseteq Pids
      /\ process_map \in [Pids -> ProcessNode \cup {None}]
  BY DEF IInv, TypeOK
<1>2. e \in Events /\ 1 \in 1..Len(stream) /\ stream[1] = e
  BY <1>1, TailFacts
<1>3. p \in PidOrNone
  BY <1>2, ParentType
<1>4. ctx \in Context /\ (ctx.install <=> ctx.root # None)
  BY <1>1, <1>3, ContextType, ContextOfRooted
<1>5. ASSUME NEW F \in SUBSET Pids, p \in F, FamilyKnown(os, stream, process_map, handler, F)
      PROVE  Tracked(p)
  <2>1. KnownBefore(stream, process_map, handler, 1, p)
    BY <1>2, <1>5 DEF FamilyKnown
  <2> QED
    BY <2>1 DEF KnownBefore, Handling, SaidBefore, Tracked
<1>6. CASE p # None /\ Tracked(p) /\ ~os[p].unseen
  <2>1. /\ ctx.root = process_map[p].install_root_pid
        /\ ctx.web = (process_map[p].is_web_server \/ p \in listening_pids)
        /\ p \in Pids /\ process_map[p] # None /\ process_map[p] \in ProcessNode
    BY <1>1, <1>3, <1>6 DEF ParentContext, PidOrNone, Tracked
  <2>2. ctx.root = RootPid(os, p)
    BY <1>6, <2>1 DEF View, RootTrue
  <2>3. ASSUME WithoutListeners PROVE ctx.web = (p # None /\ os[p].web)
    <3>1. process_map[p].is_web_server = os[p].web /\ (p \in listening_pids => os[p].web)
      BY <1>6, <2>1, <2>3 DEF View, WebTrue
    <3>2. process_map[p].is_web_server \in BOOLEAN /\ os[p].web \in BOOLEAN
      BY <1>1, <2>1 DEF ProcessNode, Process
    <3> QED
      BY <1>6, <2>1, <3>1, <3>2
  <2> QED
    BY <1>4, <2>2, <2>3
<1>7. CASE p # None /\ ~Tracked(p) /\ ~os[p].unseen
  <2>1. /\ ctx.root = None /\ p \in Pids
        /\ ctx.web = (os[p].alive /\ (os[p].img \in WebImages \/ p \in listening_pids))
    BY <1>3, <1>7 DEF ParentContext, PidOrNone
  <2>2. p \notin Rooted(os)
    BY <1>5, <1>7 DEF View, Rooted
  <2>3. ASSUME WithoutListeners PROVE ctx.web = (p # None /\ os[p].web)
    <3>1. p \notin Webs(os)
      BY <1>5, <1>7, <2>3 DEF View, Webs
    <3>2. ~os[p].web
      BY <1>7, <2>1, <3>1 DEF Webs
    <3>3. ~(os[p].img \in WebImages \/ p \in listening_pids)
      BY <2>1, <2>3, <3>2 DEF View, WebTrue
    <3> QED
      BY <2>1, <3>2, <3>3
  <2>4. RootPid(os, p) = None
    BY <1>7, <2>1, <2>2 DEF Rooted, RootPid
  <2> QED
    BY <1>4, <2>1, <2>3, <2>4
<1>8. CASE p = None
  BY <1>4, <1>8 DEF ParentContext, RootPid
<1>9. CASE p # None /\ os[p].unseen
  BY <1>4, <1>9
<1> QED
  BY <1>6, <1>7, <1>8, <1>9

LEMMA ViewTakeCreate ==
  ASSUME NEW o, NEW s, NEW m, NEW cl, NEW l, View(o, s, m, Idle, cl, l), s # << >>,
         Head(s).type = "ProcessCreate", NEW ctx \in Context,
         ctx.install <=> ctx.root # None,
         \/ Head(s).ppid # None /\ o[Head(s).ppid].unseen
         \/ /\ ctx.root = RootPid(o, Head(s).ppid)
            /\ WithoutListeners =>
                  ctx.web = (Head(s).ppid # None /\ o[Head(s).ppid].web)
  PROVE  View(o, Tail(s), m, [ev |-> Head(s), ctx |-> ctx], cl, l)
<1> DEFINE e == Head(s)
           h == [ev |-> e, ctx |-> ctx]
           t == Tail(s)
<1>1. /\ s \in Seq(Events) /\ Books(o, s, m, Idle, cl) /\ ParentsFirst(o, s)
      /\ o \in [Pids -> Process]
  BY DEF View, Books, Shapes
<1>2. Books(o, t, m, h, cl)
  BY <1>1, BooksTakeCreate
<1>3. ParentsFirst(o, t)
  BY <1>1, ParentsFirstTail
<1>4. e \in Events /\ e \in CreateEvents /\ 1 \in 1..Len(s) /\ s[1] = e /\ e.pid \in Pids
  BY <1>1, TailFacts, ParentType, EventTypes
<1>5. h.ev = e /\ h.ctx = ctx /\ h # Idle /\ \A p : Handling(h, p) <=> p = e.pid
  <2>1. h \in [ev : CreateEvents, ctx : Context] /\ h.ev = e /\ h.ctx = ctx
    BY <1>4
  <2> QED
    BY <2>1, NoneAssumption DEF Idle, Handling
<1>6. \A p : ~Handling(Idle, p)
  BY DEF Handling
<1> HIDE DEF h
<1>7. ASSUME NEW F \in SUBSET Pids, FamilyKnown(o, s, m, Idle, F)
      PROVE  FamilyKnown(o, t, m, h, F)
  BY <1>1, <1>5, <1>6, <1>7, FamilyTail
<1>8. Rooted(o) \subseteq Pids /\ Webs(o) \subseteq Pids
  BY DEF Rooted, Webs
<1>9. RootTrue(o, s, m, Idle, cl) /\ NoNewStarts(s, t)
  BY <1>1, StartsOfTail DEF View
<1>a. ~o[e.pid].unseen =>
         /\ ctx.root = RootPid(o, e.ppid)
         /\ WithoutListeners => ctx.web = (e.ppid # None /\ o[e.ppid].web)
  BY <1>4 DEF View, UnseenInherited
<1>b. UnseenInherited(o, t)
  BY <1>9 DEF View, UnseenInherited, NoNewStarts
<1>10. ~o[e.pid].unseen => ChildRoot(e, ctx) = RootPid(o, e.pid)
  <2>1. RootPid(o, e.pid) = RootBelow(RootPid(o, e.ppid), e.img, e.pid)
    BY <1>4, <1>9 DEF RootTrue
  <2> QED
    BY <1>a, <2>1 DEF ChildRoot, RootBelow
<1>11. RootTrue(o, t, m, h, cl)
  BY <1>5, <1>9, <1>10 DEF RootTrue, NoNewStarts
<1>12. ASSUME WithoutListeners PROVE WebTrue(o, t, m, h, l)
  <2>1. WebTrue(o, s, m, Idle, l)
    BY <1>12 DEF View
  <2>2. o[e.pid].web = (e.img \in WebImages \/ (e.ppid # None /\ o[e.ppid].web))
    BY <1>4, <2>1 DEF WebTrue
  <2>3. o[e.pid].web \in BOOLEAN /\ (e.pid \in l => o[e.pid].web)
    BY <1>1, <1>4, <2>1 DEF WebTrue, Process
  <2>4. ~o[e.pid].unseen => ChildWeb(e, ctx, l) = o[e.pid].web
    BY <1>12, <1>a, <2>2, <2>3 DEF ChildWeb
  <2>5. \A i \in 1..Len(t) : t[i].type = "ProcessCreate" =>
          o[t[i].pid].web = (t[i].img \in WebImages \/ (t[i].ppid # None /\ o[t[i].ppid].web))
    BY <1>9, <2>1 DEF WebTrue, NoNewStarts
  <2> QED
    BY <1>5, <2>1, <2>4, <2>5 DEF WebTrue
<1>13. /\ FamilyKnown(o, t, m, h, Rooted(o))
       /\ WithoutListeners => FamilyKnown(o, t, m, h, Webs(o))
  <2> HIDE DEF t
  <2> QED
    BY <1>7, <1>8 DEF View
<1> QED
  BY <1>2, <1>3, <1>b, <1>11, <1>12, <1>13 DEF View, h

LEMMA ViewInsert ==
  ASSUME NEW o, NEW s, NEW m, NEW h, NEW cl, NEW l, View(o, s, m, h, cl, l),
         h # Idle, NEW node \in ProcessNode, node.inc = h.ev.inc,
         node.install_root_pid = ChildRoot(h.ev, h.ctx),
         WithoutListeners => node.is_web_server = ChildWeb(h.ev, h.ctx, l)
  PROVE  View(o, s, [m EXCEPT ![h.ev.pid] = node], Idle, cl, l)
<1> DEFINE c == h.ev.pid
           n == [m EXCEPT ![c] = node]
<1>1. /\ Books(o, s, m, h, cl) /\ ParentsFirst(o, s)
      /\ m \in [Pids -> ProcessNode \cup {None}]
      /\ h.ev \in CreateEvents
  BY DEF View, Books, Shapes
<1>2. Books(o, s, n, Idle, cl)
  BY <1>1, BooksInsert
<1>3. c \in Pids /\ node # None
  BY <1>1, NoneAssumption DEF CreateEvents
<1>4. /\ n[c] = node /\ \A p \in Pids : p # c => n[p] = m[p]
  BY <1>1, <1>3
<1>5. \A p : Handling(h, p) => p = c
  BY DEF Handling
<1> HIDE DEF n
<1>6. ASSUME NEW F \in SUBSET Pids, FamilyKnown(o, s, m, h, F)
      PROVE  FamilyKnown(o, s, n, Idle, F)
  <2>1. \A p \in F : m[p] # None \/ Handling(h, p) => n[p] # None \/ Handling(Idle, p)
    BY <1>3, <1>4, <1>5
  <2> QED
    BY <1>6, <2>1, FamilyNodes
<1>7. Rooted(o) \subseteq Pids /\ Webs(o) \subseteq Pids
  BY DEF Rooted, Webs
<1>8. RootTrue(o, s, n, Idle, cl)
  BY <1>4 DEF View, RootTrue
<1>9. WithoutListeners => WebTrue(o, s, n, Idle, l)
  BY <1>4 DEF View, WebTrue
<1> QED
  BY <1>1, <1>2, <1>6, <1>7, <1>8, <1>9 DEF View, n

LEMMA ViewSpawn ==
  ASSUME NEW o, NEW s, NEW m, NEW h, NEW cl, NEW l, View(o, s, m, h, cl, l),
         NEW c \in Pids, ~o[c].alive,
         \A i \in 1..Len(s) : s[i].pid # c, ~Handling(h, c),
         \A t \in cl : t.root # c /\ c \notin t.victims,
         NEW d \in [Pids -> Process], d[c].alive, d[c].inc >= 1,
         WithoutListeners => c \notin l,
         \A p \in Pids : p # c => d[p] = o[p],
         NEW e \in Events, e.type = "ProcessCreate", e.pid = c, e.inc = d[c].inc,
         d[c].img = e.img,
         e.ppid # None => o[e.ppid].alive,
         RootPid(d, c) = RootBelow(RootPid(o, e.ppid), e.img, c),
         d[c].web = (e.img \in WebImages \/ (e.ppid # None /\ o[e.ppid].web)),
         e.ppid # None /\ o[e.ppid].unseen => d[c].unseen
  PROVE  View(d, Append(s, e), m, h, cl, l)
<1> DEFINE t == Append(s, e)
<1>1. /\ Books(o, s, m, h, cl) /\ ParentsFirst(o, s)
      /\ s \in Seq(Events) /\ cl \subseteq Cleanup
      /\ h \in [ev : CreateEvents, ctx : Context] \cup {Idle}
  BY DEF View, Books, Shapes
<1>2. ~Announced(s, c) /\ ~Stopping(s, c)
  BY DEF Announced, Stopping
<1>3. Books(d, t, m, h, cl) /\ m[c] = None
  BY <1>1, <1>2, BooksSpawn
<1>4. \A i \in 1..Len(s) : /\ s[i].pid \in Pids \ {c}
                           /\ s[i].type = "ProcessCreate" => s[i].ppid \in PidOrNone
  <2>1. \A i \in 1..Len(s) : s[i] \in Events
    BY <1>1
  <2> QED
    BY <2>1, EventTypes, ParentType
\* Nobody who waits is a child of the process that had the pid before.
<1>5. \A i \in 1..Len(s) : s[i].type = "ProcessCreate" => s[i].ppid # c
  <2>1. c # None
    BY PidsAssumption
  <2> QED
    BY <1>1, <1>2, <2>1 DEF ParentsFirst
<1>6. e.ppid \in PidOrNone /\ e.ppid # c
  BY ParentType, PidsAssumption
<1>7. e.ppid # None => d[e.ppid] = o[e.ppid] /\ ~Stopping(s, e.ppid)
  BY <1>1, <1>6 DEF PidOrNone, Books, StopsLast, Stopping
<1>8. ParentsFirst(d, t)
  <2>1. \A i \in 1..Len(s) : s[i].type = "ProcessCreate" /\ s[i].ppid # None
            /\ ~d[s[i].ppid].alive => ~o[s[i].ppid].alive
    BY <1>4, <1>5 DEF PidOrNone
  <2> QED
    BY <1>1, <1>7, <2>1, ParentsFirstAppend
<1>9. ASSUME NEW F \in SUBSET Pids, NEW G \in SUBSET Pids, G \ {c} = F \ {c},
             FamilyKnown(o, s, m, h, F)
      PROVE  FamilyKnown(d, t, m, h, G)
  <2>1. \A i \in 1..Len(s) : s[i].type = "ProcessCreate" /\ s[i].ppid \in G => s[i].ppid \in F
    BY <1>5, <1>9
  <2>2. \A p \in G : d[p].alive => (p \in F /\ o[p].alive) \/ (e.type = "ProcessCreate" /\ e.pid = p)
    BY <1>9
  <2>3. e.ppid \in G => e.ppid \in F /\ o[e.ppid].alive
    BY <1>6, <1>9, PidsAssumption
  <2> QED
    BY <1>1, <1>9, <2>1, <2>2, <2>3, FamilyAppend
<1>10. /\ Rooted(o) \subseteq Pids /\ Webs(o) \subseteq Pids
       /\ Rooted(d) \subseteq Pids /\ Webs(d) \subseteq Pids
       /\ Rooted(d) \ {c} = Rooted(o) \ {c} /\ Webs(d) \ {c} = Webs(o) \ {c}
  BY DEF Rooted, Webs
<1>11. /\ FamilyKnown(d, t, m, h, Rooted(d))
       /\ WithoutListeners => FamilyKnown(d, t, m, h, Webs(d))
  <2> HIDE DEF t
  <2> QED
    BY <1>9, <1>10 DEF View
<1>12. \A p \in PidOrNone : p # c => RootPid(d, p) = RootPid(o, p)
  BY DEF RootPid, PidOrNone
<1>13. h # Idle => h.ev.pid \in Pids \ {c}
  BY <1>1 DEF CreateEvents, Handling
<1>14. /\ \A i \in 1..Len(s) : t[i] = s[i]
       /\ t[Len(s) + 1] = e
       /\ \A i \in 1..Len(t) : i \in 1..Len(s) \/ i = Len(s) + 1
  BY <1>1, AppendFacts
<1> HIDE DEF t
<1>15. RootTrue(d, t, m, h, cl)
  <2>1. RootTrue(o, s, m, h, cl) /\ Pids \subseteq PidOrNone
    BY DEF View, PidOrNone
  <2>2. \A p \in Pids : m[p] # None /\ ~d[p].unseen => m[p].install_root_pid = RootPid(d, p)
    BY <1>3, <1>12, <2>1 DEF RootTrue
  <2>3. h # Idle /\ ~d[h.ev.pid].unseen => ChildRoot(h.ev, h.ctx) = RootPid(d, h.ev.pid)
    BY <1>12, <1>13, <2>1 DEF RootTrue
  <2>4. ASSUME NEW i \in 1..Len(t), t[i].type = "ProcessCreate"
        PROVE  RootPid(d, t[i].pid) = RootBelow(RootPid(d, t[i].ppid), t[i].img, t[i].pid)
    <3>1. CASE i \in 1..Len(s)
      BY <1>4, <1>5, <1>12, <1>14, <2>1, <2>4, <3>1 DEF RootTrue
    <3>2. CASE i = Len(s) + 1
      BY <1>6, <1>12, <1>14, <3>2
    <3> QED
      BY <1>14, <3>1, <3>2
  <2>5. \A w \in cl : \A p \in w.victims : d[p].unseen \/ RootPid(d, p) = w.root
    <3>1. \A w \in cl : \A p \in w.victims : p \in Pids \ {c}
      BY <1>1 DEF Cleanup
    <3> QED
      BY <1>12, <2>1, <3>1 DEF RootTrue
  <2> QED
    BY <2>2, <2>3, <2>4, <2>5 DEF RootTrue
<1>16. ASSUME WithoutListeners PROVE WebTrue(d, t, m, h, l)
  <2>1. WebTrue(o, s, m, h, l)
    BY <1>16 DEF View
  <2>2. \A p \in l : p \in Pids \ Recycled /\ d[p].inc >= 1 /\ d[p].web
    BY <1>16, <2>1 DEF WebTrue
  <2>3. \A p \in Pids : d[p].img \in WebImages => d[p].web
    BY <2>1 DEF WebTrue
  <2>4. \A p \in Pids : m[p] # None /\ ~d[p].unseen => m[p].is_web_server = d[p].web
    BY <1>3, <2>1 DEF WebTrue
  <2>5. h # Idle /\ ~d[h.ev.pid].unseen => ChildWeb(h.ev, h.ctx, l) = d[h.ev.pid].web
    BY <1>13, <2>1 DEF WebTrue
  <2>6. ASSUME NEW i \in 1..Len(t), t[i].type = "ProcessCreate"
        PROVE  d[t[i].pid].web = (t[i].img \in WebImages
                                  \/ (t[i].ppid # None /\ d[t[i].ppid].web))
    <3>1. CASE i \in 1..Len(s)
      <4>1. o[s[i].pid].web = (s[i].img \in WebImages
                               \/ (s[i].ppid # None /\ o[s[i].ppid].web))
        BY <1>14, <2>1, <2>6, <3>1 DEF WebTrue
      <4>2. d[s[i].pid] = o[s[i].pid] /\ (s[i].ppid # None => d[s[i].ppid] = o[s[i].ppid])
        BY <1>4, <1>5, <1>14, <2>6, <3>1 DEF PidOrNone
      <4> QED
        BY <1>14, <3>1, <4>1, <4>2
    <3>2. CASE i = Len(s) + 1
      BY <1>7, <1>14, <3>2
    <3> QED
      BY <1>14, <3>1, <3>2
  <2> QED
    BY <2>2, <2>3, <2>4, <2>5, <2>6 DEF WebTrue
<1>17. UnseenInherited(d, t)
  <2> SUFFICES ASSUME NEW i \in 1..Len(t), t[i].type = "ProcessCreate", t[i].ppid # None,
                      d[t[i].ppid].unseen
               PROVE  d[t[i].pid].unseen
    BY DEF UnseenInherited
  <2>1. CASE i \in 1..Len(s)
    <3>1. d[s[i].pid] = o[s[i].pid] /\ d[s[i].ppid] = o[s[i].ppid]
      BY <1>4, <1>5, <1>14, <2>1 DEF PidOrNone
    <3> QED
      BY <1>14, <2>1, <3>1 DEF View, UnseenInherited
  <2>2. CASE i = Len(s) + 1
    BY <1>7, <1>14, <2>2
  <2> QED
    BY <1>14, <2>1, <2>2
<1> QED
  BY <1>3, <1>8, <1>11, <1>15, <1>16, <1>17 DEF View, t

\* Nothing becomes old enough for the evictor.
Quiet == /\ ~Ageing
         /\ evictor.todo = {} /\ evictor.victim = None
         /\ \A p \in Pids : process_seen[p] # "stale"

ViewInv == /\ IInv /\ BooksInv /\ Quiet
           /\ View(os, stream, process_map, handler, cleanups, listening_pids)

LEMMA EffectView ==
  ASSUME connected, NEW w, NEW m, NEW h, NEW cl, NEW l, View(os, w, m, h, cl, l),
         NEW p \in Pids, NEW judged, NEW reasons,
         Spare(w) \/ Terminate(p, judged, reasons, w)
  PROVE  /\ View(os', stream', m, h, cl, l)
         /\ Spare(w) \/ "PersistentProcess" \notin reasons => CleanupHitsOnlyLeftovers'
<1>1. CASE Spare(w)
  BY <1>1 DEF Spare, CleanupHitsOnlyLeftovers
<1>2. CASE Terminate(p, judged, reasons, w)
  <2>1. "PersistentProcess" \notin reasons => CleanupHitsOnlyLeftovers'
    BY <1>2 DEF Terminate, CleanupHitsOnlyLeftovers
  <2>2. CASE os[p].alive /\ ~Audit
    <3>1. os' = Ended(os, p) /\ stream' = Append(w, StopOf(os, p))
      BY <1>2, <2>2 DEF Terminate, Ended, StopOf, StopEvent
    <3>2. View(os', stream', m, h, cl, l)
      BY <2>2, <3>1, ViewEnd
    <3> QED
      BY <1>1, <2>1, <3>2
  <2>3. CASE ~(os[p].alive /\ ~Audit)
    BY <1>1, <1>2, <2>1, <2>3 DEF Terminate
  <2> QED
    BY <2>2, <2>3
<1> QED
  BY <1>1, <1>2

LEMMA HostView ==
  ASSUME ViewInv, Host, BooksInv', IInv'
  PROVE  /\ View(os', stream', process_map', handler', cleanups', listening_pids')
         /\ CleanupHitsOnlyLeftovers'
<1>t. /\ os \in [Pids -> Process] /\ os' \in [Pids -> Process] /\ stream \in Seq(Events)
      /\ View(os, stream, process_map, handler, cleanups, listening_pids)
      /\ connected /\ Undisturbed
  BY DEF ViewInv, BooksInv, TypeOK
<1>s. SUFFICES View(os', stream', process_map, handler, cleanups, listening_pids)
  BY DEF Host, Spawn, Exit, Act, Disconnect, Reconnect, tables, tasks,
         CleanupHitsOnlyLeftovers
<1>1. ASSUME NEW p \in PidOrNone, NEW c \in Pids, NEW img \in Images, Spawn(p, c, img)
      PROVE  View(os', stream', process_map, handler, cleanups, listening_pids)
  <2>1. Settled(c) /\ ~os[c].alive /\ os[c].inc < LastLife(c) /\ (p # None => os[p].alive)
    BY <1>1, <1>t DEF Spawn, Undisturbed
  <2>2. PICK hdr \in {p, c} :
               stream' = Sent(<<[type |-> "ProcessCreate", hdr |-> hdr,
                                 pid |-> c, ppid |-> p, img |-> img,
                                 inc |-> os[c].inc + 1]>>)
    BY <1>1 DEF Spawn
  <2> DEFINE life == os[c].inc + 1
             e == [type |-> "ProcessCreate", hdr |-> hdr, pid |-> c, ppid |-> p,
                   img |-> img, inc |-> life]
             root == IF p # None /\ os[p].root # None THEN os[p].root
                     ELSE IF img \in InstallImages THEN <<c, life>> ELSE None
  <2>3. /\ os'[c].inc = life /\ os'[c].alive /\ os'[c].img = img
        /\ os'[c].web = (img \in WebImages \/ (p # None /\ os[p].web))
        /\ os'[c].root = root
        /\ os'[c].unseen = (p # None /\ os[p].unseen)
        /\ \A q \in Pids : q # c => os'[q] = os[q]
    BY <1>1, <1>t DEF Spawn
  <2>4. life \in Lives /\ life >= 1
    BY <1>t DEF Process, Lives
  <2>5. e \in Events
    BY <2>4 DEF Events, CreateEvents, PidOrNone
  <2>6. stream' = Append(stream, e)
    BY <1>t, <2>2, <2>5, SentAppends
  <2>7. RootPid(os', c) = RootBelow(RootPid(os, p), img, c)
    <3>1. c # None
      BY PidsAssumption
    <3>2. CASE p # None /\ os[p].root # None
      <4>1. os[p].root \in Pids \X Lives
        BY <1>t, <3>2 DEF Process, RootIds, PidOrNone
      <4>2. os[p].root[1] # None
        BY <4>1, PidsAssumption
      <4> QED
        BY <2>3, <3>1, <3>2, <4>2 DEF RootPid, RootBelow
    <3>3. CASE ~(p # None /\ os[p].root # None)
      <4>1. <<c, life>> # None
        BY <2>4, NoneAssumption
      <4> QED
        BY <2>3, <3>1, <3>3, <4>1 DEF RootPid, RootBelow
    <3> QED
      BY <3>2, <3>3
  <2>8. /\ \A i \in 1..Len(stream) : stream[i].pid # c
        /\ ~Handling(handler, c)
        /\ \A t \in cleanups : t.root # c /\ c \notin t.victims
    BY <1>t, <2>1 DEF Settled, Handling
  <2>9. WithoutListeners => c \notin listening_pids
    <3>1. c \notin Recycled => os[c].inc < 1
      BY <2>1 DEF LastLife
    <3>2. os[c].inc \in Nat
      BY <1>t DEF Process, Lives
    <3> QED
      BY <1>t, <3>1, <3>2 DEF View, WebTrue
  <2>10. /\ e.type = "ProcessCreate" /\ e.pid = c /\ e.inc = os'[c].inc /\ e.img = img
         /\ e.ppid = p /\ os'[c].inc >= 1
    BY <2>3, <2>4
  <2>11. /\ os'[c].web = (e.img \in WebImages \/ (e.ppid # None /\ os[e.ppid].web))
         /\ e.ppid # None /\ os[e.ppid].unseen => os'[c].unseen
         /\ e.ppid # None => os[e.ppid].alive
         /\ RootPid(os', c) = RootBelow(RootPid(os, e.ppid), e.img, c)
    BY <2>1, <2>3, <2>7, <2>10
  <2>12. os'[c].alive /\ os'[c].img = e.img /\ \A q \in Pids : q # c => os'[q] = os[q]
    BY <2>3, <2>10
  <2> HIDE DEF e, root, life
  <2> QED
    BY <1>t, <2>1, <2>5, <2>6, <2>8, <2>9, <2>10, <2>11, <2>12, ViewSpawn
<1>2. ASSUME NEW p \in Pids, Exit(p)
      PROVE  View(os', stream', process_map, handler, cleanups, listening_pids)
  <2>1. StopOf(os, p) \in Events
    BY <1>t, EndedFacts
  <2>2. Sent(<<StopOf(os, p)>>) = Append(stream, StopOf(os, p))
    BY <1>t, <2>1, SentAppends
  <2>3. os' = Ended(os, p) /\ stream' = Append(stream, StopOf(os, p)) /\ os[p].alive
    BY <1>2, <2>2 DEF Exit, Ended, StopOf, StopEvent
  <2> QED
    BY <1>t, <2>3, ViewEnd
<1>3. ASSUME NEW p \in Pids, NEW a \in Activities, Act(p, a)
      PROVE  View(os', stream', process_map, handler, cleanups, listening_pids)
  <2> DEFINE e == [type |-> a, hdr |-> p, pid |-> p]
             r == [os[p] EXCEPT !.web = @ \/ a = "Listen"]
  <2>1. e \in Events /\ e.type \notin {"ProcessCreate", "ProcessStop"}
    BY ActivitiesAssumption DEF Events, ActEvents
  <2>2. stream' = Append(stream, e)
    BY <1>3, <1>t, <2>1, SentAppends DEF Act
  <2>3. /\ r.root = os[p].root /\ r.img = os[p].img /\ r.inc = os[p].inc
        /\ r.unseen = os[p].unseen
        /\ r.alive = os[p].alive /\ (WithoutListeners => r.web = os[p].web)
    <3>1. os[p] \in Process
      BY <1>t
    <3> QED
      BY <3>1 DEF Process, WithoutListeners
  <2> HIDE DEF e, r
  <2>4. os' = [os EXCEPT ![p] = r]
    BY <1>3 DEF Act, r
  <2>5. SameHeritage(os, os') /\ \A q \in Pids : os'[q].alive = os[q].alive
    BY <1>t, <2>3, <2>4 DEF SameHeritage
  <2> QED
    BY <1>t, <2>1, <2>2, <2>5, ViewAct
<1>4. CASE Disconnect \/ Reconnect
  BY <1>4, <1>t DEF Disconnect, Reconnect, Undisturbed
<1> QED
  BY <1>1, <1>2, <1>3, <1>4 DEF Host

LEMMA LoopView ==
  ASSUME ViewInv, TelemetryLoop, BooksInv', IInv'
  PROVE  /\ View(os', stream', process_map', handler', cleanups', listening_pids')
         /\ CleanupHitsOnlyLeftovers'
<1>t. /\ os \in [Pids -> Process] /\ stream \in Seq(Events)
      /\ process_map \in [Pids -> ProcessNode \cup {None}]
      /\ View(os, stream, process_map, handler, cleanups, listening_pids)
      /\ Books(os, stream, process_map, handler, cleanups)
      /\ Books(os', stream', process_map', handler', cleanups')
      /\ connected /\ Undisturbed /\ TypeOK /\ IInv
  BY DEF ViewInv, BooksInv, TypeOK
<1>1. CASE DropEvent
  BY <1>1 DEF DropEvent, ViewInv, BooksInv
<1>2. CASE HandleProcessCreate
  <2>1. /\ stream # << >> /\ handler = Idle /\ Head(stream).type = "ProcessCreate"
        /\ handler' = [ev |-> Head(stream), ctx |-> ParentContext(Head(stream).ppid)]
        /\ Spare(Tail(stream)) /\ UNCHANGED <<process_map, cleanups, listening_pids>>
    BY <1>2 DEF HandleProcessCreate, Incoming
  <2> DEFINE ctx == ParentContext(Head(stream).ppid)
  <2>2. /\ ctx \in Context /\ (ctx.install <=> ctx.root # None)
        /\ \/ Head(stream).ppid # None /\ os[Head(stream).ppid].unseen
           \/ /\ ctx.root = RootPid(os, Head(stream).ppid)
              /\ WithoutListeners =>
                    ctx.web = (Head(stream).ppid # None /\ os[Head(stream).ppid].web)
    BY <1>t, <2>1, ContextTrue
  <2> HIDE DEF ctx
  <2>3. View(os, Tail(stream), process_map, [ev |-> Head(stream), ctx |-> ctx], cleanups,
             listening_pids)
    BY <1>t, <2>1, <2>2, ViewTakeCreate
  <2> QED
    BY <2>1, <2>3 DEF Spare, CleanupHitsOnlyLeftovers, ctx
<1>3. CASE InsertAndJudge
  <2>1. /\ handler.ev \in CreateEvents /\ handler.ctx \in Context
        /\ handler.ev.pid \in Pids /\ handler.ev.inc \in Lives /\ handler # Idle
    BY <1>3, <1>t, HandlerType DEF InsertAndJudge
  <2> DEFINE node == ChildNode(handler.ev, handler.ctx)
             p    == handler.ev.pid
             v    == IF handler.ctx.web THEN Verdicts(handler.ev.img) ELSE {}
  <2>2. /\ node \in ProcessNode /\ node.inc = handler.ev.inc
        /\ node.install_root_pid = ChildRoot(handler.ev, handler.ctx)
        /\ node.is_web_server = ChildWeb(handler.ev, handler.ctx, listening_pids)
    BY <2>1, ChildNodeType DEF ChildNode, ChildRoot, ChildWeb
  <2>3. /\ process_map' = [process_map EXCEPT ![p] = node]
        /\ handler' = Idle /\ UNCHANGED <<cleanups, listening_pids>>
        /\ Spare(stream) \/ Terminate(p, handler.ev.inc, v, stream)
    BY <1>3 DEF InsertAndJudge
  <2>4. "PersistentProcess" \notin v
    BY DEF Verdicts
  <2> HIDE DEF node, v
  <2>5. View(os, stream, process_map', handler', cleanups', listening_pids')
    BY <1>t, <2>1, <2>2, <2>3, ViewInsert
  <2> QED
    BY <1>t, <2>1, <2>3, <2>4, <2>5, EffectView
<1>4. CASE HandleProcessStop
  <2> DEFINE p == Head(stream).pid
             u == [root |-> p, inc |-> Head(stream).inc, pc |-> "sleep", victims |-> {}]
  <2>1. /\ stream # << >> /\ handler = Idle /\ Head(stream).type = "ProcessStop"
        /\ Spare(Tail(stream)) /\ UNCHANGED <<handler, listening_pids>>
        /\ \/ UNCHANGED process_map /\ cleanups' = cleanups \cup {u}
           \/ UNCHANGED cleanups /\ process_map' = [process_map EXCEPT ![p] = None]
    BY <1>4 DEF HandleProcessStop, Incoming, tables
  <2>2. Books(os, Tail(stream), process_map', handler, cleanups')
    BY <1>t, <2>1 DEF Spare
  <2>3. \A c \in cleanups' : c \in cleanups \/ c.victims = {}
    <3>1. u.victims = {}
      OBVIOUS
    <3> HIDE DEF u
    <3> QED
      BY <2>1, <3>1
  <2>4. /\ NoNewNodes(process_map, process_map')
        /\ \A q \in Pids : process_map[q] # None =>
              process_map'[q] # None \/ (Head(stream).type = "ProcessStop" /\ p = q)
    BY <1>t, <2>1 DEF NoNewNodes
  <2> HIDE DEF u
  <2>5. View(os, Tail(stream), process_map', handler, cleanups', listening_pids)
    BY <1>t, <2>1, <2>2, <2>3, <2>4, ViewTake
  <2> QED
    BY <2>1, <2>5 DEF Spare, CleanupHitsOnlyLeftovers
<1>5. CASE HandleListen
  <2> DEFINE p == Head(stream).pid
             n == [process_map[p] EXCEPT !.is_web_server = TRUE]
  <2>1. /\ stream # << >> /\ Head(stream).type = "Listen"
        /\ Spare(Tail(stream)) /\ UNCHANGED <<handler, cleanups>>
        /\ process_map' = IF Tracked(p) THEN [process_map EXCEPT ![p] = n]
                          ELSE process_map
    BY <1>5 DEF HandleListen, Incoming, tasks
  <2>2. Books(os, Tail(stream), process_map', handler, cleanups)
    BY <1>t, <2>1 DEF Spare
  <2>3. p \in Pids /\ Head(stream) \in Events
    BY <1>t, <2>1, TailFacts, EventTypes
  <2>4. ~WithoutListeners
    BY <2>1, <2>3 DEF WithoutListeners, Events, CreateEvents, StopEvents, ActEvents
  <2>5. /\ NoNewNodes(process_map, process_map')
        /\ \A q \in Pids : process_map[q] # None => process_map'[q] # None
    <3>1. CASE Tracked(p)
      <4>1. process_map[p] \in ProcessNode
        BY <1>t, <2>3, <3>1 DEF Tracked
      <4>2. n \in ProcessNode /\ n.install_root_pid = process_map[p].install_root_pid
        BY <4>1 DEF ProcessNode
      <4>3. n # None
        BY <4>2, NoneAssumption
      <4> HIDE DEF n
      <4> QED
        BY <1>t, <2>1, <2>3, <2>4, <3>1, <4>2, <4>3 DEF Tracked, NoNewNodes
    <3>2. CASE ~Tracked(p)
      BY <2>1, <3>2 DEF NoNewNodes
    <3> QED
      BY <3>1, <3>2
  <2>6. View(os, Tail(stream), process_map', handler, cleanups, listening_pids')
    BY <1>t, <2>1, <2>2, <2>4, <2>5, ViewTake
  <2> QED
    BY <2>1, <2>6 DEF Spare, CleanupHitsOnlyLeftovers
<1>6. ASSUME NEW a \in Activities \ {"Listen"}, HandleActivity(a)
      PROVE  /\ View(os', stream', process_map', handler', cleanups', listening_pids')
             /\ CleanupHitsOnlyLeftovers'
  <2> DEFINE p == Head(stream).pid
             j == IF Tracked(p) THEN process_map[p].inc ELSE 0
  <2>1. /\ stream # << >> /\ Head(stream).type \notin {"ProcessCreate", "ProcessStop"}
        /\ UNCHANGED <<process_map, handler, cleanups, listening_pids>>
        /\ Spare(Tail(stream)) \/ Terminate(p, j, {a}, Tail(stream))
    BY <1>6, ActivitiesAssumption DEF HandleActivity, Incoming, tables, tasks
  <2>2. Books(os, Tail(stream), process_map, handler, cleanups)
    BY <1>t, <2>1, BooksTakeAct
  <2>3. View(os, Tail(stream), process_map, handler, cleanups, listening_pids)
    BY <1>t, <2>1, <2>2, ViewTake DEF NoNewNodes
  <2>4. p \in Pids
    BY <1>t, <2>1, TailFacts, EventTypes
  <2>5. "PersistentProcess" \notin {a}
    BY ActivitiesAssumption
  <2> HIDE DEF j
  <2> QED
    BY <1>t, <2>1, <2>3, <2>4, <2>5, EffectView
<1> QED
  BY <1>1, <1>2, <1>3, <1>4, <1>5, <1>6 DEF TelemetryLoop

LEMMA CleanupView ==
  ASSUME ViewInv, NEW r \in Pids, CleanupStep(r), BooksInv', IInv'
  PROVE  /\ View(os', stream', process_map', handler', cleanups', listening_pids')
         /\ CleanupHitsOnlyLeftovers'
<1>t. /\ os \in [Pids -> Process] /\ stream \in Seq(Events) /\ cleanups \subseteq Cleanup
      /\ process_map \in [Pids -> ProcessNode \cup {None}]
      /\ View(os, stream, process_map, handler, cleanups, listening_pids)
      /\ Books(os, stream, process_map, handler, cleanups)
      /\ Books(os', stream', process_map', handler', cleanups')
      /\ connected
  BY DEF ViewInv, BooksInv, TypeOK
<1>0. PICK t \in cleanups : \/ CleanupCollect(t)
                           \/ \E p \in Pids : CleanupKill(t, p)
                           \/ CleanupUntrack(t)
                           \/ CleanupForget(t)
  BY DEF CleanupStep
<1>c. /\ t \in Cleanup /\ t.root \in Pids /\ ~os[t.root].alive
      /\ t.victims \subseteq Pids
  BY <1>t DEF Cleanup, Books, RootsEnded
<1>v. \A c \in cleanups : \A p \in c.victims : os[p].unseen \/ RootPid(os, p) = c.root
  BY <1>t DEF View, RootTrue
<1>1. CASE CleanupCollect(t)
  <2> DEFINE vs == {p \in Pids \ {t.root} :
                      Tracked(p) /\ process_map[p].install_root_pid = t.root}
             u  == [t EXCEPT !.pc = "kill", !.victims = vs]
  <2>1. u.victims = vs /\ u.root = t.root
    BY <1>c DEF Cleanup
  <2>2. /\ cleanups' = (cleanups \ {t}) \cup {u}
        /\ Spare(stream) /\ UNCHANGED <<process_map, handler, listening_pids>>
    BY <1>1 DEF CleanupCollect, Move, tables
  <2>3. \A p \in u.victims : os[p].unseen \/ RootPid(os, p) = u.root
    BY <1>t, <2>1 DEF View, RootTrue, Tracked
  <2> HIDE DEF u, vs
  <2>4. \A c \in cleanups' : \A p \in c.victims : os[p].unseen \/ RootPid(os, p) = c.root
    BY <1>v, <2>2, <2>3
  <2>5. View(os, stream, process_map, handler, cleanups', listening_pids)
    BY <1>t, <2>2, <2>4, ViewCleanup DEF NoNewNodes, Spare
  <2> QED
    BY <2>2, <2>5 DEF Spare, CleanupHitsOnlyLeftovers
<1>2. ASSUME NEW p \in Pids, CleanupKill(t, p)
      PROVE  /\ View(os', stream', process_map', handler', cleanups', listening_pids')
             /\ CleanupHitsOnlyLeftovers'
  <2> DEFINE u == [t EXCEPT !.victims = @ \ {p}]
             reasons == {"PersistentProcess"}
             j == process_map[p].inc
  <2>1. u \in Cleanup /\ u.root = t.root /\ u.victims \subseteq t.victims /\ u.pc # "forget"
        /\ p \in t.victims
    BY <1>2, <1>c DEF Cleanup, CleanupKill
  <2> HIDE DEF u
  <2>2. /\ cleanups' = (cleanups \ {t}) \cup {u}
        /\ Spare(stream) \/ (Tracked(p) /\ Terminate(p, j, reasons, stream))
        /\ UNCHANGED <<process_map, handler, listening_pids>>
    BY <1>2 DEF CleanupKill, Move, tables, u
  <2>3. Books(os, stream, process_map, handler, cleanups')
    BY <1>t, <2>1, <2>2, BooksCleanup
  <2>4. \A c \in cleanups' : \A q \in c.victims : os[q].unseen \/ RootPid(os, q) = c.root
    BY <1>v, <2>1, <2>2
  <2>5. View(os, stream, process_map, handler, cleanups', listening_pids)
    BY <1>t, <2>3, <2>4, ViewCleanup DEF NoNewNodes
  <2>6. View(os', stream', process_map, handler, cleanups', listening_pids)
    <3> HIDE DEF j, reasons
    <3> QED
      BY <1>t, <2>2, <2>5, EffectView
\* The process descends from the installation of t, whose root has ended.
  <2>7. CleanupHitsOnlyLeftovers'
    <3>1. CASE Spare(stream)
      BY <3>1 DEF Spare, CleanupHitsOnlyLeftovers
    <3>2. CASE Terminate(p, j, reasons, stream)
      <4>1. os[p].unseen \/ (RootPid(os, p) = t.root /\ t.root # None)
        BY <1>c, <1>v, <2>1, PidsAssumption
      <4>2. os[p].unseen \/ (os[p].root # None /\ os[p].root[1] = t.root)
        BY <4>1 DEF RootPid
      <4>3. os' = os \/ os' = Ended(os, p)
        BY <3>2 DEF Terminate, Ended
      <4>4. /\ os'[p].root = os[p].root /\ os'[p].unseen = os[p].unseen
            /\ ~os'[t.root].alive
        BY <1>t, <1>c, <4>3, EndedFacts
      <4>5. sigkill'.pid = p
        BY <3>2 DEF Terminate
      <4> QED
        BY <4>2, <4>4, <4>5 DEF CleanupHitsOnlyLeftovers
    <3> QED
      BY <2>2, <3>1, <3>2
  <2> QED
    BY <2>2, <2>6, <2>7
<1>3. CASE CleanupUntrack(t)
  <2> DEFINE u == [t EXCEPT !.pc = "forget"]
  <2>1. u.victims = t.victims /\ u.root = t.root
    BY <1>c DEF Cleanup
  <2>2. /\ cleanups' = (cleanups \ {t}) \cup {u}
        /\ process_map' = [process_map EXCEPT ![t.root] = None]
        /\ Spare(stream) /\ UNCHANGED <<handler, listening_pids>>
    BY <1>3 DEF CleanupUntrack, Move
  <2> HIDE DEF u
  <2>3. \A c \in cleanups' : \A p \in c.victims : os[p].unseen \/ RootPid(os, p) = c.root
    BY <1>v, <2>1, <2>2
  <2>4. /\ NoNewNodes(process_map, process_map')
        /\ \A p \in Pids : process_map[p] # None =>
              process_map'[p] # None \/ \E c \in cleanups : c.root = p
    BY <1>t, <2>2 DEF NoNewNodes
  <2>a. Books(os, stream, process_map', handler, cleanups')
    BY <1>t, <2>2 DEF Spare
  <2>5. View(os, stream, process_map', handler, cleanups', listening_pids)
    BY <1>t, <2>a, <2>3, <2>4, ViewCleanup
  <2> QED
    BY <2>2, <2>5 DEF Spare, CleanupHitsOnlyLeftovers
<1>4. CASE CleanupForget(t)
  <2>1. /\ cleanups' = cleanups \ {t}
        /\ Spare(stream) /\ UNCHANGED <<process_map, handler, listening_pids>>
    BY <1>4 DEF CleanupForget
  <2>2. View(os, stream, process_map, handler, cleanups', listening_pids)
    BY <1>t, <1>v, <2>1, ViewCleanup DEF NoNewNodes, Spare
  <2> QED
    BY <2>1, <2>2 DEF Spare, CleanupHitsOnlyLeftovers
<1> QED
  BY <1>0, <1>1, <1>2, <1>3, <1>4

LEMMA NextQuiet ==
  ASSUME TypeOK, Quiet, [Next]_vars
  PROVE  Quiet' /\ ~EvictTask /\ ~\E p \in Pids : Age(p)
<1>1. ~EvictTask
  <2>1. evictor \in [todo : SUBSET Pids, victim : PidOrNone, pc : {"untrack", "forget"}]
    BY DEF TypeOK
  <2> QED
    BY <2>1 DEF EvictTask, EvictCollect, EvictCheck, EvictUntrack, EvictForget, Quiet
<1>2. ~\E p \in Pids : Age(p)
  BY DEF Age, Quiet
<1>3. CASE UNCHANGED <<process_seen, evictor>>
  BY <1>1, <1>2, <1>3 DEF Quiet
<1>4. ASSUME NEW p \in Pids, NEW v \in {"none", "fresh"},
             process_seen' = [process_seen EXCEPT ![p] = v], UNCHANGED evictor
      PROVE  Quiet'
  BY <1>4 DEF Quiet, TypeOK
<1>5. CASE HandleProcessCreate
  <2>1. Head(stream).pid \in Pids
    BY <1>5, StreamType, EventShape DEF HandleProcessCreate, Incoming
  <2> QED
    BY <1>1, <1>2, <1>4, <1>5, <2>1 DEF HandleProcessCreate
<1>6. CASE HandleProcessStop
  <2>1. Head(stream).pid \in Pids
    BY <1>6, StreamType, EventShape DEF HandleProcessStop, Incoming
  <2>2. \/ UNCHANGED <<process_seen, evictor>>
        \/ /\ process_seen' = [process_seen EXCEPT ![Head(stream).pid] = "none"]
           /\ UNCHANGED evictor
    BY <1>6 DEF HandleProcessStop, tables
  <2> QED
    BY <1>1, <1>2, <1>3, <1>4, <2>1, <2>2
<1>7. CASE DropEvent \/ InsertAndJudge \/ HandleListen
           \/ \E a \in Activities \ {"Listen"} : HandleActivity(a)
  BY <1>3, <1>7 DEF DropEvent, InsertAndJudge, HandleListen, HandleActivity, tables, tasks
<1>8. CASE Host \/ Operator
  BY <1>3, <1>8 DEF Host, Spawn, Exit, Act, Disconnect, Reconnect, Operator,
                    DisableMonitoring, EnableMonitoring, tables, tasks
<1>9. ASSUME NEW r \in Pids, CleanupStep(r)
      PROVE  Quiet' /\ ~EvictTask /\ ~\E p \in Pids : Age(p)
  <2>1. PICK t \in cleanups : \/ CleanupCollect(t)
                             \/ \E p \in Pids : CleanupKill(t, p)
                             \/ CleanupUntrack(t)
                             \/ CleanupForget(t)
    BY <1>9 DEF CleanupStep
  <2>2. t.root \in Pids
    BY DEF TypeOK, Cleanup
  <2>3. \/ UNCHANGED <<process_seen, evictor>>
        \/ process_seen' = [process_seen EXCEPT ![t.root] = "none"] /\ UNCHANGED evictor
    BY <2>1 DEF CleanupCollect, CleanupKill, CleanupUntrack, CleanupForget, tables
  <2> QED
    BY <1>1, <1>2, <1>3, <1>4, <2>2, <2>3
<1>10. CASE UNCHANGED vars
  BY <1>3, <1>10 DEF vars, tables, tasks
<1> QED
  BY <1>1, <1>2, <1>5, <1>6, <1>7, <1>8, <1>9, <1>10 DEF Next, TelemetryLoop

LEMMA InitView == Undisturbed /\ ~Ageing /\ Init => ViewInv /\ CleanupHitsOnlyLeftovers
<1> SUFFICES ASSUME Undisturbed, ~Ageing, Init PROVE ViewInv /\ CleanupHitsOnlyLeftovers
  OBVIOUS
<1>1. BooksInv
  BY InitBooks
<1>2. IInv
  <2>1. InstallContextRooted /\ ContextRooted
    BY DEF Init, InstallContextRooted, ContextRooted, Tracked
  <2> QED
    BY InitType, <2>1 DEF IInv
<1>3. Quiet
  BY DEF Init, Quiet
<1>4. stream = << >> /\ handler = Idle /\ cleanups = {}
  BY DEF Init
<1>5. PICK used \in SUBSET Preexisting : \E img \in [used -> Images],
              listening \in SUBSET used, underWeb \in SUBSET used,
              root \in [used -> (used \X {0, 1}) \cup {None}] :
          Running(used, img, listening, underWeb, root)
  BY DEF Init
<1>6. PICK img \in [used -> Images], listening \in SUBSET used,
           underWeb \in SUBSET used, root \in [used -> (used \X {0, 1}) \cup {None}] :
          Running(used, img, listening, underWeb, root)
  BY <1>5
<1>7. ASSUME NEW p \in used
      PROVE  os[p] = [inc |-> 1, alive |-> TRUE, img |-> img[p], root |-> root[p],
                      web |-> img[p] \in WebImages \/ p \in listening \cup underWeb,
                      unseen |-> \/ root[p] # None
                                 \/ /\ p \in underWeb \ listening
                                    /\ img[p] \notin WebImages]
  BY <1>6, PidsAssumption DEF Running
<1>a. ASSUME NEW p \in Pids, p \notin used
      PROVE  os[p] = [inc |-> 0, alive |-> FALSE, img |-> None, root |-> None,
                      web |-> FALSE, unseen |-> FALSE]
  BY <1>6, <1>a DEF Running
<1>8. used \subseteq Pids
  BY PidsAssumption
<1>9. ASSUME NEW p \in Pids
      PROVE  /\ os[p].alive <=> p \in used
             /\ p \in used => /\ os[p].inc = 1 /\ os[p].img = img[p]
                              /\ img[p] \in WebImages \/ p \in listening => os[p].web
             /\ p \notin used => os[p].img = None /\ ~os[p].web /\ ~os[p].unseen
             /\ ~os[p].unseen =>
                   /\ os[p].root = None
                   /\ os[p].web <=> p \in used /\ (img[p] \in WebImages \/ p \in listening)
  <2>1. CASE p \in used
    <3> DEFINE web    == img[p] \in WebImages \/ p \in listening \cup underWeb
               unseen == \/ root[p] # None
                         \/ /\ p \in underWeb \ listening
                            /\ img[p] \notin WebImages
               yes    == TRUE
    <3>1. os[p] = [inc |-> 1, alive |-> yes, img |-> img[p], root |-> root[p],
                   web |-> web, unseen |-> unseen]
      BY <1>7, <2>1
    <3>2. /\ img[p] \in WebImages \/ p \in listening => web
          /\ ~unseen => /\ root[p] = None
                        /\ web <=> img[p] \in WebImages \/ p \in listening
      OBVIOUS
    <3>3. yes
      OBVIOUS
    <3> HIDE DEF web, unseen, yes
    <3>4. /\ os[p].inc = 1 /\ os[p].img = img[p] /\ os[p].root = root[p]
          /\ os[p].alive = yes /\ os[p].web = web /\ os[p].unseen = unseen
      BY <3>1
    <3> QED
      BY <2>1, <3>2, <3>3, <3>4
  <2>2. CASE p \notin used
    <3> DEFINE no == FALSE
    <3>1. os[p] = [inc |-> 0, alive |-> no, img |-> None, root |-> None,
                   web |-> no, unseen |-> no]
      BY <1>a, <2>2
    <3>2. ~no
      OBVIOUS
    <3> HIDE DEF no
    <3>3. /\ os[p].inc = 0 /\ os[p].img = None /\ os[p].root = None
          /\ os[p].alive = no /\ os[p].web = no /\ os[p].unseen = no
      BY <3>1
    <3> QED
      BY <2>2, <3>2, <3>3
  <2> QED
    BY <2>1, <2>2
<1>10. listening_pids = listening
  BY <1>6 DEF Running
<1>11. None \notin WebImages
  BY ImagesAssumption
<1>12. ASSUME NEW p \in Pids
       PROVE  /\ process_map[p] # None <=>
                     os[p].alive /\ (os[p].img \in WebImages \/ p \in listening)
              /\ process_map[p] # None => /\ process_map[p].is_web_server = TRUE
                                         /\ process_map[p].install_root_pid = None
  <2> DEFINE node == [is_web_server |-> TRUE, is_install_context |-> FALSE,
                      is_top_level_install |-> FALSE, install_root_pid |-> None,
                      depth |-> 0, inc |-> os[p].inc]
  <2>1. process_map[p] =
          IF os[p].alive /\ (os[p].img \in WebImages \/ p \in listening) THEN node ELSE None
    BY <1>10 DEF Init, Preseeded
  <2>2. os[p].inc \in Lives
    BY <1>1 DEF BooksInv, TypeOK, Process
  <2>3. node \in ProcessNode /\ node.is_web_server = TRUE /\ node.install_root_pid = None
    BY <2>2 DEF ProcessNode, PidOrNone
  <2>4. node # None
    BY <2>3, NoneAssumption
  <2> HIDE DEF node
  <2> QED
    BY <2>1, <2>3, <2>4
<1>13. ParentsFirst(os, stream)
  BY <1>4 DEF ParentsFirst
<1>14. /\ Rooted(os) = {} /\ UnseenInherited(os, stream)
       /\ \A p \in Webs(os) : os[p].alive => process_map[p] # None
  <2>1. Rooted(os) = {}
    BY <1>9 DEF Rooted
  <2>2. UnseenInherited(os, stream)
    BY <1>4 DEF UnseenInherited
  <2>3. ASSUME NEW p \in Webs(os), os[p].alive PROVE process_map[p] # None
    <3>1. p \in Pids /\ os[p].web /\ ~os[p].unseen
      BY DEF Webs
    <3>2. p \in used /\ (img[p] \in WebImages \/ p \in listening) /\ os[p].img = img[p]
      BY <1>9, <3>1
    <3> QED
      BY <1>12, <2>3, <3>1, <3>2
  <2> QED
    BY <2>1, <2>2, <2>3
<1>15. /\ FamilyKnown(os, stream, process_map, handler, Rooted(os))
       /\ FamilyKnown(os, stream, process_map, handler, Webs(os))
  BY <1>4, <1>14 DEF FamilyKnown, InBooks
<1>16. RootTrue(os, stream, process_map, handler, cleanups)
  <2>1. \A p \in Pids : ~os[p].unseen => RootPid(os, p) = None
    BY <1>9 DEF RootPid
  <2>2. \A p \in Pids : process_map[p] # None /\ ~os[p].unseen =>
            process_map[p].install_root_pid = RootPid(os, p)
    BY <1>12, <2>1
  <2>3. \A i \in 1..Len(stream) : stream[i].type = "ProcessCreate" =>
          RootPid(os, stream[i].pid)
            = RootBelow(RootPid(os, stream[i].ppid), stream[i].img, stream[i].pid)
    BY <1>4
  <2>4. \A t \in cleanups : \A p \in t.victims : os[p].unseen \/ RootPid(os, p) = t.root
    BY <1>4
  <2> QED
    BY <1>4, <2>2, <2>3, <2>4 DEF RootTrue
<1>17. WithoutListeners => WebTrue(os, stream, process_map, handler, listening_pids)
  <2> SUFFICES ASSUME WithoutListeners
               PROVE WebTrue(os, stream, process_map, handler, listening_pids)
    OBVIOUS
  <2>1. ASSUME NEW p \in listening
        PROVE  p \in Pids \ Recycled /\ os[p].inc >= 1 /\ os[p].web
    <3>1. p \in used /\ p \in Pids /\ p \notin Recycled
      BY <1>8 DEF WithoutListeners
    <3>2. os[p].inc = 1 /\ os[p].web
      BY <1>9, <3>1
    <3> QED
      BY <3>1, <3>2
  <2>2. ASSUME NEW p \in Pids, os[p].img \in WebImages PROVE os[p].web
    <3>1. p \in used
      BY <1>9, <1>11, <2>2
    <3> QED
      BY <1>9, <2>2, <3>1
  <2>3. ASSUME NEW p \in Pids, process_map[p] # None, ~os[p].unseen
        PROVE  process_map[p].is_web_server = os[p].web
    <3>1. os[p].web /\ os[p].web \in BOOLEAN
      BY <1>1, <1>9, <1>12, <2>3 DEF BooksInv, TypeOK, Process
    <3> QED
      BY <1>12, <2>3, <3>1
  <2> QED
    BY <1>4, <1>10, <2>1, <2>2, <2>3 DEF WebTrue
<1>18. CleanupHitsOnlyLeftovers
  BY DEF Init, CleanupHitsOnlyLeftovers
<1> QED
  BY <1>1, <1>2, <1>3, <1>13, <1>14, <1>15, <1>16, <1>17, <1>18 DEF ViewInv, View, BooksInv

\* Every step keeps the engine's view true.
LEMMA NextView ==
  ViewInv /\ CleanupHitsOnlyLeftovers /\ [Next]_vars => ViewInv' /\ CleanupHitsOnlyLeftovers'
<1> SUFFICES ASSUME ViewInv, CleanupHitsOnlyLeftovers, [Next]_vars
             PROVE  ViewInv' /\ CleanupHitsOnlyLeftovers'
  OBVIOUS
<1>1. BooksInv'
  BY NextBooks DEF ViewInv
<1>2. IInv'
  BY NextType, NextRooted DEF ViewInv, IInv
<1>3. Quiet' /\ ~EvictTask /\ ~\E p \in Pids : Age(p)
  BY NextQuiet DEF ViewInv, IInv
<1> SUFFICES /\ View(os', stream', process_map', handler', cleanups', listening_pids')
             /\ CleanupHitsOnlyLeftovers'
  BY <1>1, <1>2, <1>3 DEF ViewInv
<1>4. CASE Operator
  BY <1>4 DEF Operator, ViewInv, BooksInv, Undisturbed
<1>5. CASE UNCHANGED vars
  BY <1>5 DEF vars, host, tables, tasks, ViewInv, CleanupHitsOnlyLeftovers
<1> QED
  BY <1>1, <1>2, <1>3, <1>4, <1>5, HostView, LoopView, CleanupView DEF Next

\* The clean-up after a top-level installation (ProcessStop) kills for
\* "PersistentProcess": when, besides, no process gets old enough for the evictor, what
\* it reaches does descend from an installation, and from one that is over, unless it
\* descends from an installation that ran before the daemon.
THEOREM CleanupSparesTheRest ==
  Undisturbed /\ ~Ageing /\ Spec => []CleanupHitsOnlyLeftovers
<1> QED
  BY InitView, NextView, PTL DEF Spec

\* Under the same conditions, and when nobody calls listen after having started and the
\* pids in use when the daemon starts are not given out again (listening_pids is never
\* pruned), every node tells the truth about its process, whatever ran before the daemon:
\* it names the installation the process descends from, and is a web node exactly if the
\* process is under a web one.  Not covered are the descendants of what ran before the
\* daemon below an installation, or below a web process by way of another image.
THEOREM TheViewIsTrue ==
  Undisturbed /\ ~Ageing /\ WithoutListeners /\ Spec => []ViewIsTrue
<1> DEFINE Inv == WithoutListeners /\ ViewInv /\ CleanupHitsOnlyLeftovers
<1>1. Undisturbed /\ ~Ageing /\ WithoutListeners /\ Init => Inv
  BY InitView
<1>2. Inv /\ [Next]_vars => Inv'
  BY NextView DEF WithoutListeners
<1>3. Inv => ViewIsTrue
  <2> SUFFICES ASSUME Inv, NEW p \in Pids, Tracked(p), ~os[p].unseen
               PROVE  /\ process_map[p].install_root_pid =
                            IF os[p].root = None THEN None ELSE os[p].root[1]
                      /\ process_map[p].is_web_server = os[p].web
    BY DEF ViewIsTrue
  <2>1. p # None
    BY PidsAssumption
  <2> QED
    BY <2>1 DEF ViewInv, View, RootTrue, WebTrue, RootPid, Tracked
<1> QED
  BY <1>1, <1>2, <1>3, PTL DEF Spec
=============================================================================
