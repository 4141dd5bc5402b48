---------------------------- MODULE AlertPipeline ----------------------------
(***************************************************************************)
(* What happens to an alert: dispatch_alert (src/notifications.rs), the    *)
(* audit log (src/audit.rs), the log buffer and the log streamer           *)
(* (src/cloud.rs), and the task that posts it to the webhooks.             *)
(*                                                                         *)
(* Each alert has a unique id.  The watcher, the telemetry loop, the scans *)
(* and the API dispatch alerts from threads of their own, and dispatch is  *)
(* no critical section: its steps interleave.  The daemon may be killed    *)
(* and started again; the audit log and what others received outlive it.   *)
(***************************************************************************)
EXTENDS Naturals, Sequences, FiniteSets

CONSTANTS
    Alerts,          \* the alerts raised
    Keys, KeyOf,     \* their deduplication keys: threat type and process id
    MaxRecentAlerts, \* MAX_RECENT_ALERTS
    DedupWindow,     \* DEDUP_WINDOW_SECS
    MaxTime,         \* bound: the clock stops there
    MaxRestarts,     \* bound: restarts of the daemon
    Newline,         \* the end of a line of the audit log
    Never            \* no time

ASSUME AlertsAssumption == KeyOf \in [Alerts -> Keys] /\ Newline \notin Alerts
ASSUME BoundsAssumption ==
    /\ MaxRecentAlerts \in Nat \ {0} /\ DedupWindow \in Nat
    /\ MaxTime \in Nat /\ MaxRestarts \in Nat /\ Never \notin Nat

Times == 0..MaxTime

VARIABLES
    pc,         \* how far each alert has come
    recent,     \* RECENT_ALERTS
    audit,      \* audit.log: what each write appended
    unwritten,  \* the alerts whose line could not be written (a ghost)
    buffer,     \* LOGS_BUFFER
    streamer,   \* what the log streamer is doing
    batch,      \* the entries of its request
    server,     \* the entries the cloud has received
    dedup,      \* DISPATCH_DEDUP
    stamp,      \* the time at which an alert was let through to the webhooks
    posted,     \* the alerts posted to them
    clock,
    restarts

log == <<buffer, streamer, batch, server>>
hooks == <<dedup, stamp, posted>>
vars == <<pc, recent, audit, unwritten, log, hooks, clock, restarts>>

PCs == {"raised", "audit", "newline", "queue", "check", "insert", "post",
        "done", "suppressed", "lost"}

At(a, step) == pc[a] = step
Go(a, step) == pc' = [pc EXCEPT ![a] = step]

-----------------------------------------------------------------------------
(* dispatch_alert, in the task that raises the alert *)

\* Variant: the ring is full one alert too late.
AddAlertToQueue_PopLate(a) ==
    /\ At(a, "raised") /\ Go(a, "audit")
    /\ recent' = Append(IF Len(recent) > MaxRecentAlerts THEN Tail(recent)
                        ELSE recent, a)
    /\ UNCHANGED <<audit, unwritten, log, hooks, clock, restarts>>

\* add_alert_to_queue: the oldest goes when the ring is full.
AddAlertToQueue(a) ==
    /\ At(a, "raised") /\ Go(a, "audit")
    /\ recent' = Append(IF Len(recent) >= MaxRecentAlerts THEN Tail(recent)
                        ELSE recent, a)
    /\ UNCHANGED <<audit, unwritten, log, hooks, clock, restarts>>

\* Variant: the line is left to a task that may not get to it.
WriteLine_Detached(a) ==
    /\ At(a, "audit") /\ Go(a, "queue")
    /\ audit' \in {audit, audit \o <<a, Newline>>}
    /\ UNCHANGED <<recent, unwritten, log, hooks, clock, restarts>>

\* write_to_audit_log: writeln! to an unbuffered file is a write for the line and
\* a write for its end.  The file may not open and either write may fail (a line cut
\* short counts as not written); dispatch_alert goes on all the same.
WriteLine(a) ==
    /\ At(a, "audit")
    /\ \/ Go(a, "newline") /\ audit' = Append(audit, a) /\ UNCHANGED unwritten
       \/ Go(a, "queue") /\ unwritten' = unwritten \cup {a} /\ UNCHANGED audit
    /\ UNCHANGED <<recent, log, hooks, clock, restarts>>

WriteNewline(a) ==
    /\ At(a, "newline") /\ Go(a, "queue")
    /\ audit' \in {audit, Append(audit, Newline)}
    /\ UNCHANGED <<recent, unwritten, log, hooks, clock, restarts>>

QueueLogEntry(a) ==
    /\ At(a, "queue") /\ Go(a, "check")
    /\ buffer' = Append(buffer, a)
    /\ UNCHANGED <<recent, audit, unwritten, streamer, batch, server, hooks, clock, restarts>>

-----------------------------------------------------------------------------
(* The task it spawns: has an alert with this key been let through lately? *)

\* Variant: the window includes its end.
IsRepeat_Inclusive(a) == /\ dedup[KeyOf[a]] # Never
                         /\ clock <= dedup[KeyOf[a]] + DedupWindow

IsRepeat(a) == /\ dedup[KeyOf[a]] # Never
               /\ clock < dedup[KeyOf[a]] + DedupWindow

CheckDedup(a) ==
    /\ At(a, "check")
    /\ IF IsRepeat(a) THEN Go(a, "suppressed") /\ UNCHANGED stamp
       ELSE Go(a, "insert") /\ stamp' = [stamp EXCEPT ![a] = clock]
    /\ UNCHANGED <<recent, audit, unwritten, log, dedup, posted, clock, restarts>>

InsertDedup(a) ==
    /\ At(a, "insert") /\ Go(a, "post")
    /\ dedup' = [dedup EXCEPT ![KeyOf[a]] = stamp[a]]
    /\ UNCHANGED <<recent, audit, unwritten, log, stamp, posted, clock, restarts>>

\* Without a configuration, or when the request fails, nothing is posted, and
\* nobody notices.
Post(a) ==
    /\ At(a, "post") /\ Go(a, "done")
    /\ posted' \in {posted, posted \cup {a}}
    /\ UNCHANGED <<recent, audit, unwritten, log, dedup, stamp, clock, restarts>>

-----------------------------------------------------------------------------
(* start_log_streamer *)

\* Variant: the buffer is taken instead of copied.
TakeBatch_Moved ==
    /\ streamer = "asleep" /\ buffer # << >>
    /\ batch' = buffer /\ buffer' = << >> /\ streamer' = "sending"
    /\ UNCHANGED <<pc, recent, audit, unwritten, server, hooks, clock, restarts>>

TakeBatch ==
    /\ streamer = "asleep" /\ buffer # << >>
    /\ batch' = buffer /\ streamer' = "sending"
    /\ UNCHANGED <<pc, recent, audit, unwritten, buffer, server, hooks, clock, restarts>>

\* The request reaches the cloud, which stores the entries.
Arrive ==
    /\ streamer = "sending" /\ streamer' = "sent"
    /\ server' = server \cup {batch[k] : k \in 1..Len(batch)}
    /\ UNCHANGED <<pc, recent, audit, unwritten, buffer, batch, hooks, clock, restarts>>

\* The request or its answer is lost, or the answer is not a success.
Retain ==
    /\ streamer \in {"sending", "sent"} /\ streamer' = "asleep"
    /\ batch' = << >>
    /\ UNCHANGED <<pc, recent, audit, unwritten, buffer, server, hooks, clock, restarts>>

\* Variant: the whole buffer is cleared.
Drain_All ==
    /\ streamer = "sent" /\ streamer' = "asleep"
    /\ buffer' = << >> /\ batch' = << >>
    /\ UNCHANGED <<pc, recent, audit, unwritten, server, hooks, clock, restarts>>

\* The answer is a success: what was sent leaves the buffer.
Drain ==
    /\ streamer = "sent" /\ streamer' = "asleep"
    /\ buffer' = IF Len(buffer) >= Len(batch)
                 THEN SubSeq(buffer, Len(batch) + 1, Len(buffer)) ELSE << >>
    /\ batch' = << >>
    /\ UNCHANGED <<pc, recent, audit, unwritten, server, hooks, clock, restarts>>

-----------------------------------------------------------------------------

\* The daemon is killed, with all it holds in memory, and started again.
Restart ==
    /\ restarts < MaxRestarts /\ restarts' = restarts + 1
    /\ pc' = [a \in Alerts |->
                 IF pc[a] \in {"raised", "done", "suppressed"} THEN pc[a] ELSE "lost"]
    /\ recent' = << >>
    /\ buffer' = << >> /\ streamer' = "asleep" /\ batch' = << >>
    /\ dedup' = [k \in Keys |-> Never]
    /\ UNCHANGED <<audit, unwritten, server, stamp, posted, clock>>

Tick == /\ clock < MaxTime /\ clock' = clock + 1
        /\ UNCHANGED <<pc, recent, audit, unwritten, log, hooks, restarts>>

Init ==
    /\ pc = [a \in Alerts |-> "raised"]
    /\ recent = << >> /\ audit = << >> /\ unwritten = {}
    /\ buffer = << >> /\ streamer = "asleep" /\ batch = << >> /\ server = {}
    /\ dedup = [k \in Keys |-> Never]
    /\ stamp = [a \in Alerts |-> Never] /\ posted = {}
    /\ clock = 0 /\ restarts = 0

DispatchAlert(a) == WriteLine(a) \/ WriteNewline(a) \/ QueueLogEntry(a)
Notify(a) == CheckDedup(a) \/ InsertDedup(a) \/ Post(a)
LogStreamer == TakeBatch \/ Arrive \/ Retain \/ Drain

Next == \/ \E a \in Alerts : AddAlertToQueue(a) \/ DispatchAlert(a) \/ Notify(a)
        \/ LogStreamer \/ Restart \/ Tick

Spec == Init /\ [][Next]_vars

\* The streamer wakes up and goes on, and does not fail to reach the cloud for ever.
FairSpec == Spec /\ WF_vars(LogStreamer) /\ SF_vars(Arrive)

-----------------------------------------------------------------------------
(* Properties *)

Elems(seq) == {seq[k] : k \in 1..Len(seq)}

\* Type invariant: the ring of recent alerts (add_alert_to_queue) never exceeds
\* its limit, and the logs hold alerts and nothing else.
TypeOK ==
    /\ pc \in [Alerts -> PCs]
    /\ recent \in Seq(Alerts) /\ Len(recent) <= MaxRecentAlerts
    /\ audit \in Seq(Alerts \cup {Newline}) /\ unwritten \subseteq Alerts
    /\ buffer \in Seq(Alerts) /\ batch \in Seq(Alerts)
    /\ streamer \in {"asleep", "sending", "sent"} /\ server \subseteq Alerts
    /\ dedup \in [Keys -> Times \cup {Never}]
    /\ stamp \in [Alerts -> Times \cup {Never}]
    /\ posted \subseteq Alerts
    /\ clock \in Times /\ restarts \in 0..MaxRestarts

\* The streamer implements the promise: no queued alert is forgotten before the
\* cloud has it, whatever is queued while a request is under way and whatever
\* becomes of the request, unless the daemon is killed.
Promise == INSTANCE AtLeastOnce
               WITH Entries <- Alerts, pending <- buffer, delivered <- server
KeepsPromise == Promise!Spec

\* Whatever the cloud has, or is about to be sent, the host's own log has too, even
\* if the daemon is killed half-way; unless its line could not be written, which
\* does not keep the alert from the cloud.
AuditedFirst == server \cup Elems(buffer) \subseteq Elems(audit) \cup unwritten

\* An alert is kept from the webhooks only if another with its key was let through
\* less than the window before, however the two tasks interleave.
SuppressedForAReason ==
    [][\A a \in Alerts : pc'[a] = "suppressed" /\ pc[a] # "suppressed" =>
           \E b \in Alerts \ {a} :
               /\ KeyOf[b] = KeyOf[a] /\ stamp[b] # Never
               /\ clock < stamp[b] + DedupWindow]_vars

\* What is queued does reach the cloud, unless the daemon is killed before.
QueuedArrives ==
    \A a \in Alerts, n \in 0..MaxRestarts :
        a \in Elems(buffer) /\ restarts = n ~> a \in server \/ restarts # n
=============================================================================
