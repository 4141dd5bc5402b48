----------------------------- MODULE AtLeastOnce -----------------------------
(***************************************************************************)
(* What the log streamer of src/cloud.rs promises the agent's tasks: an    *)
(* entry that was queued stays pending until the cloud has it, entries are *)
(* pending in the order they were queued, and only a restart of the agent, *)
(* which keeps them in memory, forgets any.  The cloud may get an entry    *)
(* more than once.                                                         *)
(***************************************************************************)
EXTENDS Naturals, Sequences

CONSTANT Entries

VARIABLES pending,    \* queued and not yet forgotten by the agent
          delivered,  \* the entries the cloud has
          restarts    \* of the agent

vars == <<pending, delivered, restarts>>

Init == pending = << >> /\ delivered = {} /\ restarts = 0

Queue(e) == pending' = Append(pending, e) /\ UNCHANGED <<delivered, restarts>>

\* The cloud receives the first n of the pending entries.
Deliver(n) ==
    /\ delivered' = delivered \cup {pending[k] : k \in 1..n}
    /\ UNCHANGED <<pending, restarts>>

\* The agent forgets the first n of them, which the cloud has.
Forget(n) ==
    /\ \A k \in 1..n : pending[k] \in delivered
    /\ pending' = SubSeq(pending, n + 1, Len(pending))
    /\ UNCHANGED <<delivered, restarts>>

Restart == pending' = << >> /\ restarts' = restarts + 1 /\ UNCHANGED delivered

Next == \/ \E e \in Entries : Queue(e)
        \/ \E n \in 0..Len(pending) : Deliver(n) \/ Forget(n)
        \/ Restart

Spec == Init /\ [][Next]_vars
=============================================================================
