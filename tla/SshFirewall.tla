----------------------------- MODULE SshFirewall -----------------------------
(***************************************************************************)
(* SSH brute-force blocking: the task that tails the authentication log    *)
(* (src/ssh_monitor.rs), the count of recent failures and the tasks that   *)
(* block an address with an iptables rule and unblock it two hours later   *)
(* (src/heuristics.rs), and the console's and warden-cli's own commands    *)
(* (src/cloud.rs, warden-cli).                                             *)
(*                                                                         *)
(* Every failure beyond the limit starts a task with a rule of its own, so *)
(* an address may be blocked several times over.  Time passes in ticks     *)
(* that are long compared with the half second between two polls of the    *)
(* log.  A line of the log stands for a failure of one valid address       *)
(* (successes only raise an alert); the daemon enforces (WARDEN_AUDIT is   *)
(* off) and is not stopped; iptables does not fail.                        *)
(***************************************************************************)
EXTENDS Integers, Sequences, SequencesExt, FiniteSets

CONSTANTS
    IPs,        \* the addresses
    Limit,      \* failures that are tolerated
    Window,     \* ticks for which a failure counts: 60 s
    BlockTime,  \* ticks for which a block lasts: 2 h
    MaxLines,   \* bound: lines of a log file
    MaxFailures, \* bound: failures of an address in a window
    QuietRotation \* assumption: nothing is unread when the log is rotated

ASSUME BoundsAssumption ==
    /\ Limit \in Nat /\ Window \in Nat \ {0} /\ BlockTime \in Nat \ {0}
    /\ MaxLines \in Nat \ {0} /\ MaxFailures \in Nat \ {0}
    /\ QuietRotation \in BOOLEAN

VARIABLES
    file,      \* the log: a sequence of addresses
    rotated,   \* whether the file the monitor has open was renamed
    open,      \* that file, if so
    pos,       \* how far the monitor has read
    monitor,   \* what the monitor is doing
    attempts,  \* ssh_attempts: how long ago each failure was
    starting,  \* the tasks that are about to add their rule
    timers,    \* the tasks that sleep: the ticks left
    rules,     \* the DROP rules of each address
    ordered,   \* the addresses with a rule the console ordered (a ghost)
    unblocked  \* those with a rule deleted by hand while tasks sleep (a ghost)

logs == <<file, rotated, open, pos>>
firewall == <<starting, timers, rules, ordered, unblocked>>
vars == <<logs, monitor, attempts, firewall>>

Current == IF rotated THEN open ELSE file
Unread == SubSeq(Current, pos + 1, Len(Current))
IsUnread(ip) == ip \in ToSet(Unread)
Failures(ip) == Len(SelectSeq(Unread, LAMBDA x : x = ip)) + Len(attempts[ip])

-----------------------------------------------------------------------------
(* sshd, the log rotation, the clock and the operator *)

\* An address that is not blocked fails to log in.  A new log does not outgrow
\* what the monitor has read of the old one before the next poll.
LogFailure(ip) ==
    /\ rules[ip] = 0 /\ Len(file) < MaxLines /\ Failures(ip) < MaxFailures
    /\ rotated => Len(file) + 1 < Len(open)
    /\ file' = Append(file, ip)
    /\ UNCHANGED <<rotated, open, pos, monitor, attempts, firewall>>

\* An empty log is not rotated.
Rotate ==
    /\ file # << >> /\ ~rotated
    /\ QuietRotation => Unread = << >>
    /\ rotated' = TRUE /\ open' = file /\ file' = << >>
    /\ UNCHANGED <<pos, monitor, attempts, firewall>>

\* The failures of a window one tick later: those that still count.
Recent(s) ==
    LET Kept[n \in 0..Len(s)] ==
            IF n = 0 THEN << >>
            ELSE IF s[n] + 1 < Window THEN Append(Kept[n - 1], s[n] + 1) ELSE Kept[n - 1]
    IN  Kept[Len(s)]

\* The log is polled between two ticks.
Tick ==
    /\ Unread = << >> /\ ~rotated
    /\ \A ip \in IPs : starting[ip] = 0 /\ 0 \notin ToSet(timers[ip])
    /\ attempts' = [ip \in IPs |-> Recent(attempts[ip])]
    /\ timers' = [ip \in IPs |-> [k \in DOMAIN timers[ip] |-> timers[ip][k] - 1]]
    /\ UNCHANGED <<logs, monitor, starting, rules, ordered, unblocked>>

\* The console's block_ip adds a rule that no task deletes.
BlockIp(ip) ==
    /\ ip \notin ordered
    /\ rules' = [rules EXCEPT ![ip] = @ + 1]
    /\ ordered' = ordered \cup {ip}
    /\ UNCHANGED <<logs, monitor, attempts, starting, timers, unblocked>>

\* Variant: every rule of the address is deleted at once.
DeleteOne_All(ip) ==
    /\ rules' = [rules EXCEPT ![ip] = 0]
    /\ ordered' = ordered \ {ip}

\* iptables -D deletes one rule, whoever added it, and fails when there is none.
DeleteOne(ip) ==
    /\ rules' = [rules EXCEPT ![ip] = IF @ > 0 THEN @ - 1 ELSE 0]
    /\ ordered' = IF rules[ip] > 1 THEN ordered ELSE ordered \ {ip}

\* The console's unblock_ip, and warden-cli firewall unblock; bound: once while
\* tasks sleep.
Unblock(ip) ==
    /\ rules[ip] > 0 /\ ip \notin unblocked
    /\ DeleteOne(ip)
    /\ unblocked' = IF timers[ip] # << >> THEN unblocked \cup {ip} ELSE unblocked
    /\ UNCHANGED <<logs, monitor, attempts, starting, timers>>

-----------------------------------------------------------------------------
(* handle_raw_event (SSHAuth), in the monitor's task *)

\* Variant: only the failure that passes the limit starts a task, so an address
\* that was unblocked is not blocked again.
SSHAuth_OnlyOnce(ip) ==
    LET recent == Append(attempts[ip], 0)
    IN /\ attempts' = [attempts EXCEPT ![ip] = recent]
       /\ starting' = IF Len(recent) = Limit + 1
                      THEN [starting EXCEPT ![ip] = @ + 1] ELSE starting

\* The failures of the window are kept, also when there are too many: each one
\* more blocks the address once more.
SSHAuth(ip) ==
    LET recent == Append(attempts[ip], 0)
    IN /\ attempts' = [attempts EXCEPT ![ip] = recent]
       /\ starting' = IF Len(recent) > Limit
                      THEN [starting EXCEPT ![ip] = @ + 1] ELSE starting

(* start_ssh_monitor *)

ReadLine ==
    /\ monitor = "reading" /\ Unread # << >>
    /\ pos' = pos + 1
    /\ SSHAuth(Head(Unread))
    /\ UNCHANGED <<file, rotated, open, monitor, timers, rules, ordered, unblocked>>

ReadEnd ==
    /\ monitor = "reading" /\ Unread = << >>
    /\ monitor' = "checking"
    /\ UNCHANGED <<logs, attempts, firewall>>

\* Variant: the new file is opened at the old position.
CheckRotation_KeepsPosition ==
    /\ monitor = "checking" /\ monitor' = "reading"
    /\ IF Len(file) < pos THEN rotated' = FALSE /\ open' = << >>
       ELSE UNCHANGED <<rotated, open>>
    /\ UNCHANGED <<file, pos, attempts, firewall>>

\* A file that is shorter than what was read is another one.
CheckRotation ==
    /\ monitor = "checking" /\ monitor' = "reading"
    /\ IF Len(file) < pos THEN rotated' = FALSE /\ open' = << >> /\ pos' = 0
       ELSE UNCHANGED <<rotated, open, pos>>
    /\ UNCHANGED <<file, attempts, firewall>>

-----------------------------------------------------------------------------
(* trigger_firewall_block, the spawned task *)

\* Variant: a task that finds another one asleep leaves the deletion to it.
AddRule_SharesTimer(ip) ==
    /\ starting[ip] > 0
    /\ starting' = [starting EXCEPT ![ip] = @ - 1]
    /\ rules' = [rules EXCEPT ![ip] = @ + 1]
    /\ timers' = [timers EXCEPT ![ip] = IF @ = << >> THEN <<BlockTime>> ELSE @]
    /\ UNCHANGED <<logs, monitor, attempts, ordered, unblocked>>

AddRule(ip) ==
    /\ starting[ip] > 0
    /\ starting' = [starting EXCEPT ![ip] = @ - 1]
    /\ rules' = [rules EXCEPT ![ip] = @ + 1]
    /\ timers' = [timers EXCEPT ![ip] = Append(@, BlockTime)]
    /\ UNCHANGED <<logs, monitor, attempts, ordered, unblocked>>

\* The oldest task wakes up.
DeleteRule(ip) ==
    /\ timers[ip] # << >> /\ Head(timers[ip]) = 0
    /\ timers' = [timers EXCEPT ![ip] = Tail(@)]
    /\ DeleteOne(ip)
    /\ unblocked' = IF Len(timers[ip]) > 1 THEN unblocked ELSE unblocked \ {ip}
    /\ UNCHANGED <<logs, monitor, attempts, starting>>

-----------------------------------------------------------------------------

\* The monitor starts at the end of the log.
Init ==
    /\ file \in {<< >>} \cup {<<ip>> : ip \in IPs}
    /\ rotated = FALSE /\ open = << >> /\ pos = Len(file)
    /\ monitor = "reading"
    /\ attempts = [ip \in IPs |-> << >>]
    /\ starting = [ip \in IPs |-> 0] /\ timers = [ip \in IPs |-> << >>]
    /\ rules = [ip \in IPs |-> 0]
    /\ ordered = {} /\ unblocked = {}

Monitor == ReadLine \/ ReadEnd \/ CheckRotation
Block(ip) == AddRule(ip) \/ DeleteRule(ip)

Next == \/ \E ip \in IPs : LogFailure(ip) \/ BlockIp(ip) \/ Unblock(ip) \/ Block(ip)
        \/ Rotate \/ Tick \/ Monitor

Spec == Init /\ [][Next]_vars

\* Tasks go on, and time does.
FairSpec == /\ Spec /\ WF_vars(Monitor) /\ SF_vars(Tick)
            /\ \A ip \in IPs : WF_vars(Block(ip))

-----------------------------------------------------------------------------
(* Properties *)

\* Type invariant: the monitor never reads past the end of its file, a failure
\* older than the window is not counted and no task sleeps longer than a block.
TypeOK ==
    /\ file \in Seq(IPs) /\ Len(file) <= MaxLines
    /\ rotated \in BOOLEAN /\ open \in Seq(IPs) /\ pos \in 0..Len(Current)
    /\ monitor \in {"reading", "checking"}
    /\ attempts \in [IPs -> Seq(0..(Window - 1))]
    /\ starting \in [IPs -> Nat]
    /\ timers \in [IPs -> Seq(0..BlockTime)]
    /\ rules \in [IPs -> Nat]
    /\ ordered \subseteq IPs /\ unblocked \subseteq IPs

\* An address stays blocked until the last of its blocks is over, and as long as
\* the console says, unless an operator unblocks it, although each of the tasks of
\* trigger_firewall_block deletes a rule.
BlockLasts ==
    \A ip \in IPs :
        (timers[ip] # << >> \/ ip \in ordered) /\ ip \notin unblocked => rules[ip] > 0

\* A failure beyond the limit gets its address blocked, although the log is
\* rotated while start_ssh_monitor reads it.
BruteForceIsBlocked ==
    \A ip \in IPs : IsUnread(ip) /\ Failures(ip) > Limit ~> rules[ip] > 0

\* No address is blocked for ever, unless the console says so: the tasks of
\* trigger_firewall_block delete every rule that they added.
BlocksEnd == \A ip \in IPs : rules[ip] > 0 ~> rules[ip] = 0 \/ ip \in ordered
=============================================================================
