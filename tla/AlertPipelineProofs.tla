------------------------- MODULE AlertPipelineProofs -------------------------
(* What holds of AlertPipeline for every set of alerts and every bound. *)
EXTENDS AlertPipeline, TLAPS, SequenceTheorems

\* The request under way is what the buffer begins with: other tasks only append
\* to it.  Once the cloud has stored the request, the entries can go.
BatchIsPrefix ==
    /\ Len(batch) <= Len(buffer)
    /\ \A k \in 1..Len(batch) : batch[k] = buffer[k]
    /\ streamer = "sent" => \A k \in 1..Len(batch) : batch[k] \in server

IInv == TypeOK /\ BatchIsPrefix

\* The alerts whose line was written, or could not be.
Tried == Elems(audit) \cup unwritten

\* An alert that is about to be queued is one of them.
WrittenFirst ==
    \A a \in Alerts : pc[a] \in {"newline", "queue"} => a \in Tried

AuditInv == TypeOK /\ BatchIsPrefix /\ AuditedFirst /\ WrittenFirst

-----------------------------------------------------------------------------

LEMMA InitType == Init => TypeOK
  BY AlertsAssumption, BoundsAssumption DEF Init, TypeOK, PCs, Times

\* The steps of dispatch_alert keep the type.
LEMMA DispatchType ==
  ASSUME TypeOK, NEW a \in Alerts, AddAlertToQueue(a) \/ DispatchAlert(a)
  PROVE  TypeOK'
<1> USE DEF TypeOK, At, Go, PCs
<1>1. CASE AddAlertToQueue(a)
  <2> DEFINE kept == IF Len(recent) >= MaxRecentAlerts THEN Tail(recent) ELSE recent
  <2>1. kept \in Seq(Alerts) /\ Len(kept) < MaxRecentAlerts
    BY BoundsAssumption DEF AddAlertToQueue
  <2>2. recent' \in Seq(Alerts) /\ Len(recent') <= MaxRecentAlerts
    BY <1>1, <2>1, BoundsAssumption DEF AddAlertToQueue
  <2> QED
    BY <1>1, <2>2 DEF AddAlertToQueue, log, hooks
<1>2. CASE WriteLine(a)
  <2>1. /\ pc' \in [Alerts -> PCs]
        /\ audit' = audit \/ audit' = Append(audit, a)
        /\ unwritten' \subseteq Alerts
        /\ UNCHANGED <<recent, log, hooks, clock, restarts>>
    BY <1>2 DEF WriteLine
  <2>2. CASE audit' = Append(audit, a)
    <3>1. audit' \in Seq(Alerts \cup {Newline})
      BY <2>2, AppendProperties
    <3> QED
      BY <2>1, <3>1 DEF log, hooks
  <2>3. CASE audit' = audit
    BY <2>1, <2>3 DEF log, hooks
  <2> QED
    BY <2>1, <2>2, <2>3
<1>3. CASE WriteNewline(a)
  <2>1. /\ pc' \in [Alerts -> PCs]
        /\ audit' = audit \/ audit' = Append(audit, Newline)
        /\ UNCHANGED <<recent, unwritten, log, hooks, clock, restarts>>
    BY <1>3 DEF WriteNewline
  <2>2. CASE audit' = Append(audit, Newline)
    <3>1. audit' \in Seq(Alerts \cup {Newline})
      BY <2>2, AppendProperties
    <3> QED
      BY <2>1, <3>1 DEF log, hooks
  <2>3. CASE audit' = audit
    BY <2>1, <2>3 DEF log, hooks
  <2> QED
    BY <2>1, <2>2, <2>3
<1>4. CASE QueueLogEntry(a)
  BY <1>4 DEF QueueLogEntry, hooks
<1> QED
  BY <1>1, <1>2, <1>3, <1>4 DEF DispatchAlert

\* The steps of the webhook task keep the type.
LEMMA NotifyType ==
  ASSUME TypeOK, NEW a \in Alerts, Notify(a)
  PROVE  TypeOK'
<1> USE DEF TypeOK, At, Go, PCs
<1>1. CASE CheckDedup(a)
  BY <1>1 DEF CheckDedup, log
<1>2. CASE InsertDedup(a)
  <2>1. dedup' \in [Keys -> Times \cup {Never}]
    BY <1>2, AlertsAssumption DEF InsertDedup
  <2> QED
    BY <1>2, <2>1 DEF InsertDedup, log
<1>3. CASE Post(a)
  BY <1>3 DEF Post, log
<1> QED
  BY <1>1, <1>2, <1>3 DEF Notify

\* The steps of the streamer keep the type.
LEMMA StreamerType ==
  ASSUME TypeOK, LogStreamer
  PROVE  TypeOK'
<1> USE DEF TypeOK, hooks
<1>1. CASE TakeBatch
  BY <1>1 DEF TakeBatch
<1>2. CASE Arrive
  BY <1>2 DEF Arrive
<1>3. CASE Retain
  BY <1>3 DEF Retain
<1>4. CASE Drain
  BY <1>4 DEF Drain
<1> QED
  BY <1>1, <1>2, <1>3, <1>4 DEF LogStreamer

LEMMA NextType == TypeOK /\ [Next]_vars => TypeOK'
<1> SUFFICES ASSUME TypeOK, [Next]_vars PROVE TypeOK'
  OBVIOUS
<1>1. CASE \E a \in Alerts : AddAlertToQueue(a) \/ DispatchAlert(a) \/ Notify(a)
  BY <1>1, DispatchType, NotifyType
<1>2. CASE LogStreamer
  BY <1>2, StreamerType
<1>3. CASE Restart
  BY <1>3, BoundsAssumption DEF Restart, TypeOK, PCs
<1>4. CASE Tick
  BY <1>4, BoundsAssumption DEF Tick, TypeOK, Times, log, hooks
<1>5. CASE UNCHANGED vars
  BY <1>5 DEF vars, log, hooks, TypeOK
<1> QED
  BY <1>1, <1>2, <1>3, <1>4, <1>5 DEF Next

\* The ring of recent alerts never grows beyond its limit, and every variable of
\* the pipeline keeps its shape.
THEOREM TypeCorrect == Spec => []TypeOK
<1>1. Init => TypeOK
  BY InitType
<1>2. TypeOK /\ [Next]_vars => TypeOK'
  BY NextType
<1> QED
  BY <1>1, <1>2, PTL DEF Spec

-----------------------------------------------------------------------------

LEMMA NextPrefix == IInv /\ [Next]_vars => BatchIsPrefix'
<1> SUFFICES ASSUME IInv, [Next]_vars PROVE BatchIsPrefix'
  OBVIOUS
<1> USE DEF IInv, BatchIsPrefix, TypeOK
<1>1. CASE UNCHANGED log
  BY <1>1 DEF log
<1>2. ASSUME NEW a \in Alerts, QueueLogEntry(a) PROVE BatchIsPrefix'
  <2>1. /\ buffer' = Append(buffer, a) /\ buffer \in Seq(Alerts) /\ batch \in Seq(Alerts)
        /\ UNCHANGED <<streamer, batch, server>>
    BY <1>2 DEF QueueLogEntry
  <2>2. /\ Len(buffer') = Len(buffer) + 1
        /\ \A k \in 1..Len(buffer) : buffer'[k] = buffer[k]
    BY <2>1
  <2> QED
    BY <2>1, <2>2
<1>3. CASE TakeBatch
  BY <1>3 DEF TakeBatch
<1>4. CASE Arrive
  BY <1>4 DEF Arrive
<1>5. CASE Retain
  BY <1>5 DEF Retain
<1>6. CASE Drain
  BY <1>6 DEF Drain
<1>7. CASE Restart
  BY <1>7 DEF Restart
<1> QED
  BY <1>1, <1>2, <1>3, <1>4, <1>5, <1>6, <1>7
  DEF Next, LogStreamer, DispatchAlert, Notify, AddAlertToQueue, WriteLine,
      WriteNewline, CheckDedup, InsertDedup, Post, Tick, vars

LEMMA Inductive == Spec => []IInv
<1>1. Init => IInv
  BY InitType DEF Init, IInv, BatchIsPrefix
<1>2. IInv /\ [Next]_vars => IInv'
  BY NextType, NextPrefix DEF IInv
<1> QED
  BY <1>1, <1>2, PTL DEF Spec

\* Every step of the pipeline queues, delivers, forgets or restarts as the
\* promise has it, or is none of its business.
LEMMA StepKeepsPromise ==
  ASSUME IInv, [Next]_vars
  PROVE  [Promise!Next]_(Promise!vars)
<1> USE DEF IInv, BatchIsPrefix, TypeOK
<1>1. CASE UNCHANGED <<buffer, server, restarts>>
  BY <1>1 DEF Promise!vars
<1>2. ASSUME NEW a \in Alerts, QueueLogEntry(a) PROVE Promise!Next
  <2>1. Promise!Queue(a)
    BY <1>2 DEF QueueLogEntry, Promise!Queue
  <2> QED
    BY <2>1 DEF Promise!Next
<1>3. CASE Arrive
  <2>1. {batch[k] : k \in 1..Len(batch)} = {buffer[k] : k \in 1..Len(batch)}
    OBVIOUS
  <2>2. Promise!Deliver(Len(batch))
    BY <1>3, <2>1 DEF Arrive, Promise!Deliver
  <2>3. Len(batch) \in 0..Len(buffer)
    OBVIOUS
  <2> QED
    BY <2>2, <2>3 DEF Promise!Next
<1>4. CASE Drain
  <2>1. Promise!Forget(Len(batch))
    BY <1>4 DEF Drain, Promise!Forget
  <2>2. Len(batch) \in 0..Len(buffer)
    OBVIOUS
  <2> QED
    BY <2>1, <2>2 DEF Promise!Next
<1>5. CASE Restart
  BY <1>5 DEF Restart, Promise!Restart, Promise!Next
<1> QED
  BY <1>1, <1>2, <1>3, <1>4, <1>5
  DEF Next, LogStreamer, DispatchAlert, Notify, AddAlertToQueue, WriteLine,
      WriteNewline, CheckDedup, InsertDedup, Post, Tick, TakeBatch, Retain,
      vars, log, hooks

\* The log streamer keeps its promise: an entry leaves the buffer only after the
\* cloud has it or when the daemon is killed, and nothing is reordered, whatever
\* is queued meanwhile and however often requests fail.
THEOREM StreamerKeepsPromise == Spec => KeepsPromise
<1>1. Init => Promise!Init
  BY DEF Init, Promise!Init
<1>2. IInv /\ [Next]_vars => [Promise!Next]_(Promise!vars)
  BY StepKeepsPromise
<1> QED
  BY <1>1, <1>2, Inductive, PTL DEF Spec, KeepsPromise, Promise!Spec
-----------------------------------------------------------------------------

\* Nothing is taken out of the audit log.
LEMMA AuditGrows ==
  ASSUME TypeOK, [Next]_vars
  PROVE  Tried \subseteq Tried'
<1> USE DEF TypeOK, Elems, Tried
<1>1. CASE UNCHANGED <<audit, unwritten>>
  BY <1>1
<1>2. ASSUME NEW a \in Alerts, WriteLine(a) PROVE Tried \subseteq Tried'
  <2>1. audit' = audit \/ audit' = Append(audit, a)
    BY <1>2 DEF WriteLine
  <2>2. unwritten \subseteq unwritten'
    BY <1>2 DEF WriteLine
  <2>3. Elems(audit) \subseteq Elems(audit')
    BY <2>1
  <2> QED
    BY <2>2, <2>3
<1>3. ASSUME NEW a \in Alerts, WriteNewline(a) PROVE Tried \subseteq Tried'
  <2>1. /\ audit' = audit \/ audit' = Append(audit, Newline)
        /\ unwritten' = unwritten
    BY <1>3 DEF WriteNewline
  <2>2. Elems(audit) \subseteq Elems(audit')
    BY <2>1
  <2> QED
    BY <2>1, <2>2
<1> QED
  BY <1>1, <1>2, <1>3
  DEF Next, LogStreamer, DispatchAlert, Notify, AddAlertToQueue, QueueLogEntry,
      CheckDedup, InsertDedup, Post, TakeBatch, Arrive, Retain, Drain, Restart,
      Tick, vars

LEMMA NextWrittenFirst == AuditInv /\ [Next]_vars => WrittenFirst'
<1> SUFFICES ASSUME AuditInv, [Next]_vars,
                    NEW b \in Alerts, pc'[b] \in {"newline", "queue"}
             PROVE  b \in Tried'
  BY DEF WrittenFirst
<1> USE DEF AuditInv, TypeOK
<1>1. CASE pc[b] \in {"newline", "queue"}
  BY <1>1, AuditGrows DEF WrittenFirst
<1>2. CASE WriteLine(b)
  BY <1>2 DEF WriteLine, Elems, Tried, At, Go
<1>3. CASE pc[b] \notin {"newline", "queue"} /\ ~WriteLine(b)
  BY <1>3
  DEF Next, LogStreamer, DispatchAlert, Notify, AddAlertToQueue, WriteLine,
      WriteNewline, QueueLogEntry, CheckDedup, InsertDedup, Post, TakeBatch,
      Arrive, Retain, Drain, Restart, Tick, vars, At, Go
<1> QED
  BY <1>1, <1>2, <1>3

LEMMA NextAudited == AuditInv /\ [Next]_vars => AuditedFirst'
<1> SUFFICES ASSUME AuditInv, [Next]_vars PROVE AuditedFirst'
  OBVIOUS
<1> USE DEF AuditInv, TypeOK
<1> server \cup Elems(buffer) \subseteq Tried
  BY DEF AuditedFirst, Tried
<1> SUFFICES server' \cup Elems(buffer') \subseteq Tried'
  BY DEF AuditedFirst, Tried, Elems
<1>1. Tried \subseteq Tried'
  BY AuditGrows
<1>2. CASE UNCHANGED <<buffer, server>>
  <2>1. Elems(buffer') = Elems(buffer)
    BY <1>2 DEF Elems
  <2> QED
    BY <1>1, <1>2, <2>1
<1>3. ASSUME NEW a \in Alerts, QueueLogEntry(a) PROVE server' \cup Elems(buffer') \subseteq Tried'
  <2>1. Elems(buffer') = Elems(buffer) \cup {a}
    BY <1>3 DEF QueueLogEntry, Elems
  <2>2. a \in Tried /\ server' = server
    BY <1>3 DEF QueueLogEntry, WrittenFirst, At
  <2> QED
    BY <1>1, <2>1, <2>2
<1>4. CASE Arrive
  <2>1. Elems(batch) \subseteq Elems(buffer)
    <3>1. Len(batch) \in Nat /\ Len(buffer) \in Nat
      BY LenProperties
    <3>2. 1..Len(batch) \subseteq 1..Len(buffer)
      BY <3>1 DEF BatchIsPrefix
    <3> QED
      BY <3>2, Zenon DEF BatchIsPrefix, Elems
  <2>2. server' = server \cup Elems(batch) /\ buffer' = buffer
    BY <1>4 DEF Arrive, Elems
  <2>3. Elems(buffer') = Elems(buffer)
    BY <2>2 DEF Elems
  <2>4. server' \cup Elems(buffer') \subseteq Tried
    BY <2>1, <2>2, <2>3, Zenon
  <2> QED
    BY <1>1, <2>4, Zenon
<1>5. CASE Drain
  <2>1. Elems(buffer') \subseteq Elems(buffer) /\ server' = server
    BY <1>5 DEF Drain, Elems
  <2> QED
    BY <1>1, <2>1
<1>6. CASE Restart
  <2>1. Elems(buffer') = {} /\ server' = server
    BY <1>6 DEF Restart, Elems
  <2> QED
    BY <1>1, <2>1, Zenon
<1> QED
  BY <1>2, <1>3, <1>4, <1>5, <1>6
  DEF Next, LogStreamer, DispatchAlert, Notify, AddAlertToQueue, WriteLine,
      WriteNewline, CheckDedup, InsertDedup, Post, Tick, TakeBatch, Retain, vars,
      log, hooks

\* The cloud never has an alert, and is never about to be sent one, that the
\* host's own log lacks, wherever the daemon is killed, unless its line could not be
\* written.
THEOREM AuditComesFirst == Spec => []AuditedFirst
<1>1. Init => AuditInv
  BY InitType DEF Init, AuditInv, BatchIsPrefix, AuditedFirst, WrittenFirst, Elems
<1>2. AuditInv /\ [Next]_vars => AuditInv'
  BY NextType, NextPrefix, NextWrittenFirst, NextAudited DEF AuditInv, IInv
<1>3. AuditInv => AuditedFirst
  BY DEF AuditInv
<1> QED
  BY <1>1, <1>2, <1>3, PTL DEF Spec

-----------------------------------------------------------------------------

\* An entry of DISPATCH_DEDUP is the time at which some alert with its key was let
\* through, one whose task is beyond the insertion.
EntriesHaveOwners ==
    \A k \in Keys : dedup[k] # Never =>
        \E b \in Alerts : /\ KeyOf[b] = k /\ stamp[b] = dedup[k]
                          /\ pc[b] \in {"post", "done"}

\* An alert that is about to be inserted has been let through.
InsertedAreStamped == \A a \in Alerts : pc[a] = "insert" => stamp[a] # Never

DedupInv == TypeOK /\ EntriesHaveOwners /\ InsertedAreStamped

\* Insertions are stamped, whatever is checked or restarted.
LEMMA NextStamped == DedupInv /\ [Next]_vars => InsertedAreStamped'
<1> SUFFICES ASSUME DedupInv, [Next]_vars, NEW a \in Alerts, pc'[a] = "insert"
             PROVE  stamp'[a] # Never
  BY DEF InsertedAreStamped
<1> USE DEF DedupInv, TypeOK, InsertedAreStamped
<1>1. CASE CheckDedup(a)
  BY <1>1, BoundsAssumption DEF CheckDedup, Times, At, Go
<1>2. ASSUME NEW b \in Alerts, b # a, CheckDedup(b) PROVE stamp'[a] # Never
  BY <1>2 DEF CheckDedup, At, Go
<1>3. CASE UNCHANGED stamp
  <2>1. pc[a] = "insert" \/ CheckDedup(a)
    BY DEF Next, LogStreamer, DispatchAlert, Notify, AddAlertToQueue, WriteLine,
       WriteNewline, QueueLogEntry, CheckDedup, InsertDedup, Post, TakeBatch,
       Arrive, Retain, Drain, Restart, Tick, vars, At, Go
  <2> QED
    BY <1>1, <1>3, <2>1
<1> QED
  BY <1>1, <1>2, <1>3
  DEF Next, LogStreamer, DispatchAlert, Notify, AddAlertToQueue, WriteLine,
      WriteNewline, QueueLogEntry, InsertDedup, Post, TakeBatch, Arrive, Retain,
      Drain, Restart, Tick, vars, hooks

\* An owner stays one: its task only goes on, and its stamp is never given again.
LEMMA OwnerStays ==
  ASSUME DedupInv, [Next]_vars, ~Restart,
         NEW b \in Alerts, pc[b] \in {"post", "done"}
  PROVE  stamp'[b] = stamp[b] /\ pc'[b] \in {"post", "done"}
<1> USE DEF DedupInv, TypeOK
<1>1. CASE UNCHANGED <<pc, stamp>>
  BY <1>1
<1>2. ASSUME NEW a \in Alerts,
             AddAlertToQueue(a) \/ DispatchAlert(a) \/ Notify(a)
      PROVE  stamp'[b] = stamp[b] /\ pc'[b] \in {"post", "done"}
  BY <1>2 DEF DispatchAlert, Notify, AddAlertToQueue, WriteLine, WriteNewline,
      QueueLogEntry, CheckDedup, InsertDedup, Post, hooks, At, Go
<1> QED
  BY <1>1, <1>2 DEF Next, LogStreamer, TakeBatch, Arrive, Retain, Drain, Tick,
      vars, hooks

LEMMA NextOwners == DedupInv /\ [Next]_vars => EntriesHaveOwners'
<1> SUFFICES ASSUME DedupInv, [Next]_vars, NEW k \in Keys, dedup'[k] # Never
             PROVE  \E b \in Alerts : /\ KeyOf[b] = k /\ stamp'[b] = dedup'[k]
                                      /\ pc'[b] \in {"post", "done"}
  BY DEF EntriesHaveOwners
<1> USE DEF DedupInv, TypeOK
<1>1. ASSUME NEW a \in Alerts, InsertDedup(a), KeyOf[a] = k
      PROVE  /\ stamp'[a] = dedup'[k]
             /\ pc'[a] \in {"post", "done"}
  BY <1>1 DEF InsertDedup, At, Go
<1>2. CASE dedup'[k] = dedup[k] /\ ~Restart
  <2>1. PICK b \in Alerts : /\ KeyOf[b] = k /\ stamp[b] = dedup[k]
                            /\ pc[b] \in {"post", "done"}
    BY <1>2 DEF EntriesHaveOwners
  <2> QED
    BY <1>2, <2>1, OwnerStays
<1>3. ~Restart
  BY DEF Restart
<1>4. ASSUME NEW a \in Alerts, InsertDedup(a), KeyOf[a] # k
      PROVE  dedup'[k] = dedup[k]
  BY <1>4, AlertsAssumption DEF InsertDedup
<1>5. (\E a \in Alerts : InsertDedup(a)) \/ UNCHANGED dedup
  BY <1>3
  DEF Next, LogStreamer, DispatchAlert, Notify, AddAlertToQueue, WriteLine,
      WriteNewline, QueueLogEntry, CheckDedup, Post, TakeBatch, Arrive, Retain,
      Drain, Tick, vars, hooks
<1> QED
  BY <1>1, <1>2, <1>3, <1>4, <1>5

\* The task that suppresses an alert does so because of another alert with the same
\* key, which was let through less than the window before (DISPATCH_DEDUP), for all
\* alerts, keys and windows, in every order of the tasks and across restarts.
THEOREM SuppressionHasAReason == Spec => SuppressedForAReason
<1> DEFINE Step == \A a \in Alerts : pc'[a] = "suppressed" /\ pc[a] # "suppressed" =>
             \E b \in Alerts \ {a} :
                 /\ KeyOf[b] = KeyOf[a] /\ stamp[b] # Never
                 /\ clock < stamp[b] + DedupWindow
<1>1. Init => DedupInv
  BY InitType DEF Init, DedupInv, EntriesHaveOwners, InsertedAreStamped
<1>2. DedupInv /\ [Next]_vars => DedupInv'
  BY NextType, NextStamped, NextOwners DEF DedupInv
<1>3. DedupInv /\ [Next]_vars => [Step]_vars
  <2> SUFFICES ASSUME DedupInv, Next, NEW a \in Alerts,
                      pc'[a] = "suppressed", pc[a] # "suppressed"
               PROVE  \E b \in Alerts \ {a} :
                          /\ KeyOf[b] = KeyOf[a] /\ stamp[b] # Never
                          /\ clock < stamp[b] + DedupWindow
    OBVIOUS
  <2>1. CheckDedup(a)
    BY DEF DedupInv, TypeOK, Next, LogStreamer, DispatchAlert, Notify,
       AddAlertToQueue, WriteLine, WriteNewline, QueueLogEntry, CheckDedup,
       InsertDedup, Post, TakeBatch, Arrive, Retain, Drain, Restart, Tick, At, Go
  <2>2. IsRepeat(a) /\ pc[a] = "check"
    BY <2>1 DEF CheckDedup, At, Go, DedupInv, TypeOK
  <2>3. KeyOf[a] \in Keys
    BY AlertsAssumption
  <2>4. PICK b \in Alerts : /\ KeyOf[b] = KeyOf[a] /\ stamp[b] = dedup[KeyOf[a]]
                            /\ pc[b] \in {"post", "done"}
    BY <2>2, <2>3 DEF IsRepeat, DedupInv, EntriesHaveOwners
  <2> QED
    BY <2>2, <2>4 DEF IsRepeat
<1> QED
  BY <1>1, <1>2, <1>3, PTL DEF Spec, SuppressedForAReason
=============================================================================
