------------------------------ MODULE TlsBuffer ------------------------------
(***************************************************************************)
(* The ring buffers of decrypted traffic (src/tls_buffer.rs): one per      *)
(* process, filled by the connections of the telemetry socket and of the   *)
(* transparent proxy.                                                      *)
(*                                                                         *)
(* add_record takes the lock of one buffer at a time: it adds up all of    *)
(* them, looks for the largest if the total is too large, drops the oldest *)
(* record of that one, and at last makes room in the process's own buffer  *)
(* and appends.  Connections interleave between any two locks.  A record   *)
(* is its length and the time it arrived; what an excluded path matches is *)
(* not received.  A buffer that is absent from the map is an empty one.    *)
(* Half a minute after an alert flush_on_alert takes what is still there   *)
(* of the traffic around it; the agent is licensed.                        *)
(***************************************************************************)
EXTENDS Naturals, Sequences, SequencesExt, FiniteSets, FiniteSetsExt

CONSTANTS
    Pids,       \* processes whose traffic is captured
    MapOrder,   \* the order in which TLS_BUFFERS is iterated
    Conns,      \* connections, each handled by a task or thread
    Lengths,    \* of payloads
    Capacity,   \* of the buffer of a process: tls_buffer.capacity_mb
    GlobalCapacity, \* of all of them: tls_buffer.global_capacity_mb
    Switchable, \* pids whose capture the console switches
    Alerts,
    Before, After, \* the window around an alert, in ticks: 60 s and 30 s
    None,
    MaxRecords, \* bound: records received
    MaxTime     \* bound: ticks of the clock

ASSUME BufferAssumption ==
    /\ IsFiniteSet(Pids) /\ IsFiniteSet(Conns)
    /\ None \notin Pids /\ Switchable \subseteq Pids
    /\ MapOrder \in Seq(Pids) /\ ToSet(MapOrder) = Pids /\ IsInjective(MapOrder)
    /\ Lengths \subseteq Nat
    /\ {Capacity, GlobalCapacity, Before, After, MaxRecords, MaxTime} \subseteq Nat

VARIABLES
    now,
    buffers,   \* TLS_BUFFERS
    disabled,  \* DISABLED_TLS_PIDS
    adding,    \* what each connection does
    received,  \* how many records were received
    appended,  \* all that was ever appended for a process (a ghost)
    flush      \* the task of each alert

vars == <<now, buffers, disabled, adding, received, appended, flush>>

Record == [id : 1..MaxRecords, len : Lengths, at : 0..MaxTime]

\* total_bytes
Bytes(s) ==
    LET Sum[n \in 0..Len(s)] == IF n = 0 THEN 0 ELSE Sum[n - 1] + s[n].len
    IN  Sum[Len(s)]

Idle == [step |-> "idle"]
Adding(c) == adding[c] # Idle

-----------------------------------------------------------------------------
(* The clock and the console *)

Tick ==
    /\ now < MaxTime /\ now' = now + 1
    /\ UNCHANGED <<buffers, disabled, adding, received, appended, flush>>

SwitchCapture(p) ==
    /\ p \in Switchable
    /\ disabled' = SymDiff(disabled, {p})
    /\ UNCHANGED <<now, buffers, adding, received, appended, flush>>

-----------------------------------------------------------------------------
(* add_record *)

\* The step of connection c that add_record comes to next; k counts the buffers.
Goto(c, step) ==
    [step |-> step, pid |-> adding[c].pid, rec |-> adding[c].rec,
     k |-> 1, sum |-> 0, largest |-> None, most |-> 0]

\* The record is stamped, and dropped if its process is switched off.
Receive(c, p, len) ==
    /\ ~Adding(c) /\ p \notin disabled /\ received < MaxRecords
    /\ received' = received + 1
    /\ adding' = [adding EXCEPT ![c] =
                     [step |-> "sum", pid |-> p,
                      rec |-> [id |-> received + 1, len |-> len, at |-> now],
                      k |-> 1, sum |-> 0, largest |-> None, most |-> 0]]
    /\ UNCHANGED <<now, buffers, disabled, appended, flush>>

\* (Variant: a total that is reached exactly counts as exceeded.)
TooMuch_Inclusive(total) == total >= GlobalCapacity

TooMuch(total) == total > GlobalCapacity

\* One buffer is added to the total.
SumNext(c) ==
    LET a == adding[c]
        total == a.sum + Bytes(buffers[MapOrder[a.k]])
    IN /\ a.step = "sum"
       /\ adding' = [adding EXCEPT ![c] =
              IF a.k < Len(MapOrder) THEN [a EXCEPT !.k = @ + 1, !.sum = total]
              ELSE Goto(c, IF TooMuch(total + a.rec.len) THEN "find" ELSE "append")]
       /\ UNCHANGED <<now, buffers, disabled, received, appended, flush>>

\* One buffer is compared with the largest so far.
FindNext(c) ==
    LET a == adding[c]
        p == MapOrder[a.k]
        found == IF Bytes(buffers[p]) > a.most
                 THEN [a EXCEPT !.largest = p, !.most = Bytes(buffers[p])] ELSE a
    IN /\ a.step = "find"
       /\ adding' = [adding EXCEPT ![c] =
              IF a.k < Len(MapOrder) THEN [found EXCEPT !.k = @ + 1]
              ELSE IF found.largest = None THEN Goto(c, "append")
              ELSE [Goto(c, "evict") EXCEPT !.largest = found.largest]]
       /\ UNCHANGED <<now, buffers, disabled, received, appended, flush>>

\* (Variant: the newest record is dropped.)
EvictLargest_Newest(c) ==
    LET p == adding[c].largest
    IN /\ adding[c].step = "evict"
       /\ buffers' = [buffers EXCEPT ![p] = IF @ = << >> THEN @ ELSE Front(@)]
       /\ adding' = [adding EXCEPT ![c] = Goto(c, "append")]
       /\ UNCHANGED <<now, disabled, received, appended, flush>>

\* The oldest record of that buffer goes, if it still has one.
EvictLargest(c) ==
    LET p == adding[c].largest
    IN /\ adding[c].step = "evict"
       /\ buffers' = [buffers EXCEPT ![p] = IF @ = << >> THEN @ ELSE Tail(@)]
       /\ adding' = [adding EXCEPT ![c] = Goto(c, "append")]
       /\ UNCHANGED <<now, disabled, received, appended, flush>>

\* (Variant: the new record is not counted.)
MadeRoom_Before(s, len) ==
    LET Rest(k) == SubSeq(s, k + 1, Len(s))
    IN Rest(Min({k \in 0..Len(s) : Bytes(Rest(k)) <= Capacity \/ k = Len(s)}))

\* The records that stay when the oldest are dropped until len more bytes fit in,
\* or none is left.
MadeRoom(s, len) ==
    LET Rest(k) == SubSeq(s, k + 1, Len(s))
    IN Rest(Min({k \in 0..Len(s) : Bytes(Rest(k)) + len <= Capacity \/ k = Len(s)}))

AppendRecord(c) ==
    LET a == adding[c]
    IN /\ a.step = "append"
       /\ buffers' = [buffers EXCEPT ![a.pid] = Append(MadeRoom(@, a.rec.len), a.rec)]
       /\ appended' = [appended EXCEPT ![a.pid] = Append(@, a.rec)]
       /\ adding' = [adding EXCEPT ![c] = Idle]
       /\ UNCHANGED <<now, disabled, received, flush>>

AddRecord(c) ==
    \/ \E p \in Pids, len \in Lengths : Receive(c, p, len)
    \/ SumNext(c) \/ FindNext(c) \/ EvictLargest(c) \/ AppendRecord(c)

-----------------------------------------------------------------------------
(* flush_on_alert *)

\* An alert about p is raised.
Alert(a, p) ==
    /\ flush[a].step = "none"
    /\ flush' = [flush EXCEPT ![a] = [step |-> "asleep", pid |-> p, at |-> now]]
    /\ UNCHANGED <<now, buffers, disabled, adding, received, appended>>

\* A record belongs to the evidence of an alert raised at t.
InWindow(r, t) == IF r.at < t THEN t - r.at <= Before ELSE r.at - t <= After

\* The records of s that do, in their order.
Evidence(s, t) ==
    LET Kept[n \in 0..Len(s)] ==
            IF n = 0 THEN << >>
            ELSE IF InWindow(s[n], t) THEN Append(Kept[n - 1], s[n]) ELSE Kept[n - 1]
    IN  Kept[Len(s)]

\* The task wakes up, perhaps late, and takes the evidence that is left.
Collect(a) ==
    LET f == flush[a]
    IN /\ f.step = "asleep" /\ now >= f.at + After
       /\ flush' = [flush EXCEPT ![a] =
                       [step |-> "done", records |-> Evidence(buffers[f.pid], f.at)]]
       /\ UNCHANGED <<now, buffers, disabled, adding, received, appended>>

FlushOnAlert(a) == (\E p \in Pids : Alert(a, p)) \/ Collect(a)

-----------------------------------------------------------------------------

Init ==
    /\ now = 0 /\ received = 0 /\ disabled = {}
    /\ buffers = [p \in Pids |-> << >>] /\ appended = [p \in Pids |-> << >>]
    /\ adding = [c \in Conns |-> Idle]
    /\ flush = [a \in Alerts |-> [step |-> "none"]]

Next ==
    \/ Tick
    \/ \E p \in Pids : SwitchCapture(p)
    \/ \E c \in Conns : AddRecord(c)
    \/ \E a \in Alerts : FlushOnAlert(a)

Spec == Init /\ [][Next]_vars

-----------------------------------------------------------------------------
(* Properties *)

\* Type invariant: a buffer is within its capacity, unless it holds one record that
\* is larger by itself.
TypeOK ==
    /\ now \in 0..MaxTime /\ received \in 0..MaxRecords /\ disabled \subseteq Switchable
    /\ buffers \in [Pids -> Seq(Record)] /\ appended \in [Pids -> Seq(Record)]
    /\ \A p \in Pids : Bytes(buffers[p]) <= Capacity \/ Len(buffers[p]) = 1
    /\ \A c \in Conns :
          Adding(c) =>
              /\ adding[c].step \in {"sum", "find", "evict", "append"}
              /\ adding[c].pid \in Pids /\ adding[c].rec \in Record
              /\ adding[c].k \in 1..Len(MapOrder)
              /\ adding[c].largest \in IF adding[c].step = "evict" THEN Pids
                                       ELSE Pids \cup {None}
    /\ \A a \in Alerts :
          /\ flush[a].step \in {"none", "asleep", "done"}
          /\ flush[a].step = "asleep" => flush[a].pid \in Pids /\ flush[a].at \in 0..now
          /\ flush[a].step = "done" => flush[a].records \in Seq(Record)

\* The bytes that were appended for each process, and those that connections bring
\* for the processes P.
Held == [p \in Pids |-> Bytes(appended[p])]
Coming(P) ==
    [c \in Conns |-> IF Adding(c) /\ adding[c].pid \in P THEN adding[c].rec.len ELSE 0]

Total(f, S) == MapThenSumSet(LAMBDA x : f[x], S)

\* All the bytes that add_record got for the processes P.
Volume(P) == Total(Held, P) + Total(Coming(P), Conns)

\* Evidence is lost to the limits only: as long as all that add_record got fits
\* into them, every record is there, in whatever order the connections add up the
\* buffers and append to them.
NothingLostBelowLimits ==
    Volume(Pids) <= GlobalCapacity /\ (\A p \in Pids : Volume({p}) <= Capacity)
        => buffers = appended

\* The evidence of an alert has no holes: what flush_on_alert takes is the newest
\* part of all that was recorded of the process around the alert, although for 30
\* seconds add_record goes on dropping records, also on behalf of other processes.
NoHoles ==
    [][\A a \in Alerts :
          flush[a].step = "asleep" /\ flush'[a].step = "done"
              => IsSuffix(flush'[a].records,
                          Evidence(appended[flush[a].pid], flush[a].at))]_vars
=============================================================================
