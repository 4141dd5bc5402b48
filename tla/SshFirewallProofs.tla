-------------------------- MODULE SshFirewallProofs --------------------------
(***************************************************************************)
(* A block lasts as long as it was meant to (BlockLasts of SshFirewall),   *)
(* and the monitor's position, the windows and the sleeping tasks stay in  *)
(* bounds (TypeOK), for every set of addresses and all limits and times.   *)
(***************************************************************************)
EXTENDS SshFirewall, SequenceTheorems, Induction, TLAPS

\* The part of the type invariant that the firewall needs.
FirewallType ==
    /\ timers \in [IPs -> Seq(Int)]
    /\ rules \in [IPs -> Nat]
    /\ ordered \subseteq IPs /\ unblocked \subseteq IPs

Ordered(ip) == IF ip \in ordered THEN 1 ELSE 0

\* Every rule of an address has a task that will delete it, but for the one that
\* the console ordered; and none is missing unless an operator deleted one.
Matches(ip) ==
    /\ rules[ip] <= Len(timers[ip]) + Ordered(ip)
    /\ ip \in ordered => rules[ip] > 0
    /\ ip \in unblocked \/ rules[ip] = Len(timers[ip]) + Ordered(ip)

RulesMatch == \A ip \in IPs : Matches(ip)

IInv == FirewallType /\ RulesMatch

-----------------------------------------------------------------------------

LEMMA InitHolds == Init => IInv
BY DEF Init, IInv, FirewallType, RulesMatch, Matches, Ordered

\* One tick later the same tasks sleep.
LEMMA TickKeepsTimers ==
    ASSUME NEW s \in Seq(Int)
    PROVE  /\ [k \in DOMAIN s |-> s[k] - 1] \in Seq(Int)
           /\ Len([k \in DOMAIN s |-> s[k] - 1]) = Len(s)
<1> DEFINE t == [k \in 1..Len(s) |-> s[k] - 1]
<1>1. DOMAIN s = 1..Len(s) /\ Len(s) \in Nat
  OBVIOUS
<1>2. \A k \in 1..Len(s) : s[k] - 1 \in Int
  OBVIOUS
<1>3. t \in Seq(Int) /\ Len(t) = Len(s)
  BY <1>1, <1>2
<1> QED
  BY <1>1, <1>3

\* A step that changes the rules of one address leaves the others matched.
LEMMA OthersMatch ==
    ASSUME NEW ip \in IPs, RulesMatch, Matches(ip)',
           \A other \in IPs \ {ip} :
               /\ rules'[other] = rules[other] /\ timers'[other] = timers[other]
               /\ other \in ordered' <=> other \in ordered
               /\ other \in unblocked' <=> other \in unblocked
    PROVE  RulesMatch'
BY DEF RulesMatch, Matches, Ordered

LEMMA NextHolds == IInv /\ [Next]_vars => IInv'
<1> SUFFICES ASSUME IInv, [Next]_vars PROVE IInv'
  OBVIOUS
<1> USE DEF IInv, FirewallType, RulesMatch, Matches, Ordered
<1>1. CASE UNCHANGED firewall
  BY <1>1 DEF firewall
<1>2. CASE \E ip \in IPs : BlockIp(ip)
  BY <1>2 DEF BlockIp
<1>3. ASSUME NEW ip \in IPs, Unblock(ip) PROVE IInv'
  <2>1. /\ timers' = timers /\ rules[ip] > 0
        /\ rules' = [rules EXCEPT ![ip] = @ - 1]
        /\ ordered' = IF rules[ip] > 1 THEN ordered ELSE ordered \ {ip}
        /\ unblocked' = IF timers[ip] # << >> THEN unblocked \cup {ip} ELSE unblocked
    BY <1>3 DEF Unblock, DeleteOne
  <2>2. timers[ip] = << >> <=> Len(timers[ip]) = 0
    OBVIOUS
  <2>3. FirewallType'
    BY <2>1
  <2>4. Matches(ip)'
    BY <2>1, <2>2
  <2> QED
    BY <2>1, <2>3, <2>4, OthersMatch
<1>4. ASSUME NEW ip \in IPs, AddRule(ip) PROVE IInv'
  <2>1. /\ rules' = [rules EXCEPT ![ip] = @ + 1]
        /\ timers' = [timers EXCEPT ![ip] = Append(@, BlockTime)]
        /\ ordered' = ordered /\ unblocked' = unblocked
    BY <1>4 DEF AddRule
  <2>2. Append(timers[ip], BlockTime) \in Seq(Int)
        /\ Len(Append(timers[ip], BlockTime)) = Len(timers[ip]) + 1
    BY BoundsAssumption
  <2>3. FirewallType'
    BY <2>1, <2>2
  <2>4. Matches(ip)'
    BY <2>1, <2>2
  <2> QED
    BY <2>1, <2>3, <2>4, OthersMatch
<1>5. ASSUME NEW ip \in IPs, DeleteRule(ip) PROVE IInv'
  <2>1. /\ timers[ip] # << >> /\ timers' = [timers EXCEPT ![ip] = Tail(@)]
        /\ rules' = [rules EXCEPT ![ip] = IF @ > 0 THEN @ - 1 ELSE 0]
        /\ ordered' = IF rules[ip] > 1 THEN ordered ELSE ordered \ {ip}
        /\ unblocked' = IF Len(timers[ip]) > 1 THEN unblocked ELSE unblocked \ {ip}
    BY <1>5 DEF DeleteRule, DeleteOne
  <2>2. Tail(timers[ip]) \in Seq(Int) /\ Len(Tail(timers[ip])) = Len(timers[ip]) - 1
        /\ Len(timers[ip]) > 0
    BY <2>1
  <2>3. FirewallType'
    BY <2>1, <2>2
  <2>4. Matches(ip)'
    BY <2>1, <2>2
  <2> QED
    BY <2>1, <2>3, <2>4, OthersMatch
<1>6. CASE Tick
  <2>1. timers' = [ip \in IPs |-> [k \in DOMAIN timers[ip] |-> timers[ip][k] - 1]]
        /\ UNCHANGED <<starting, rules, ordered, unblocked>>
    BY <1>6 DEF Tick
  <2>2. \A ip \in IPs : timers'[ip] \in Seq(Int) /\ Len(timers'[ip]) = Len(timers[ip])
    BY <2>1, TickKeepsTimers
  <2> QED
    BY <2>1, <2>2
<1>7. CASE ReadLine
  BY <1>7 DEF ReadLine
<1> QED
  BY <1>1, <1>2, <1>3, <1>4, <1>5, <1>6, <1>7
  DEF Next, vars, Block, Monitor, LogFailure, Rotate, ReadEnd, CheckRotation, firewall

\* A block lasts until the last of its tasks is over, and as long as the console
\* says, unless an operator deletes a rule while tasks sleep.
THEOREM BlocksLast == Spec => []BlockLasts
<1>1. IInv => BlockLasts
  BY DEF IInv, FirewallType, RulesMatch, Matches, Ordered, BlockLasts
<1> QED
  BY <1>1, InitHolds, NextHolds, PTL DEF Spec

-----------------------------------------------------------------------------
(* Type correctness *)

Ages == 0..(Window - 1)

\* Failures that still count one tick later are within the window.
LEMMA RecentType ==
    ASSUME NEW s \in Seq(Ages)
    PROVE  Recent(s) \in Seq(Ages)
<1> DEFINE N == Len(s)
           X == Seq(Ages)
           Kept[n \in 0..N] ==
               IF n = 0 THEN << >>
               ELSE IF s[n] + 1 < Window THEN Append(Kept[n - 1], s[n] + 1) ELSE Kept[n - 1]
           step == [nx \in (1..N) \X X |->
                       IF s[nx[1]] + 1 < Window THEN Append(nx[2], s[nx[1]] + 1) ELSE nx[2]]
<1>1. Recent(s) = Kept[N]
  BY DEF Recent
<1>2. N \in Nat /\ << >> \in X
  OBVIOUS
<1>3. \A n \in 1..N : s[n] \in Nat /\ (s[n] + 1 < Window => s[n] + 1 \in Ages)
  <2>1. \A n \in 1..N : s[n] \in Ages
    BY ElementOfSeq
  <2> QED
    BY <2>1, BoundsAssumption DEF Ages
<1>4. step \in [(1..N) \X X -> X]
  <2>1. \A nx \in (1..N) \X X : nx[1] \in 1..N /\ nx[2] \in X
    OBVIOUS
  <2>2. \A nx \in (1..N) \X X :
           (IF s[nx[1]] + 1 < Window THEN Append(nx[2], s[nx[1]] + 1) ELSE nx[2]) \in X
    BY <1>3, <2>1, AppendProperties
  <2> HIDE DEF X
  <2> QED
    BY <2>2
<1>5. PICK f : Iterates(f, N, X, << >>, step)
  <2> DEFINE x0 == << >>
  <2> HIDE DEF step, N, X, x0
  <2>1. x0 \in X
    BY <1>2 DEF x0
  <2>2. PICK f : Iterates(f, N, X, x0, step)
    BY <1>2, <1>4, <2>1, IterationExists
  <2> QED
    BY <2>2 DEF x0
<1>6. /\ f \in [0..N -> X] /\ f[0] = << >>
      /\ \A n \in 1..N : f[n] = IF s[n] + 1 < Window THEN Append(f[n - 1], s[n] + 1) ELSE f[n - 1]
  <2>1. f \in [0..N -> X] /\ f[0] = << >> /\ \A n \in 1..N : f[n] = step[<<n, f[n - 1]>>]
    BY <1>5 DEF Iterates
  <2>2. ASSUME NEW n \in 1..N
        PROVE  f[n] = IF s[n] + 1 < Window THEN Append(f[n - 1], s[n] + 1) ELSE f[n - 1]
    <3>1. f[n - 1] \in X
      BY <1>2, <2>1
    <3>2. <<n, f[n - 1]>> \in (1..N) \X X /\ <<n, f[n - 1]>>[1] = n /\ <<n, f[n - 1]>>[2] = f[n - 1]
      BY <3>1
    <3>3. step[<<n, f[n - 1]>>] =
             IF s[n] + 1 < Window THEN Append(f[n - 1], s[n] + 1) ELSE f[n - 1]
      BY <3>2
    <3> HIDE DEF step
    <3> QED
      BY <2>1, <3>3
  <2> QED
    BY <2>1, <2>2
<1>7. f = [n \in 0..N |->
              IF n = 0 THEN << >>
              ELSE IF s[n] + 1 < Window THEN Append(f[n - 1], s[n] + 1) ELSE f[n - 1]]
  <2> HIDE DEF N, X, step
  <2>1. \A n \in 0..N : n = 0 \/ n \in 1..N
    BY <1>2
  <2>2. \A n \in 0..N : f[n] = IF n = 0 THEN << >>
              ELSE IF s[n] + 1 < Window THEN Append(f[n - 1], s[n] + 1) ELSE f[n - 1]
    BY <1>6, <2>1, Zenon
  <2> QED
    BY <1>6, <2>2
<1>8. Kept = [n \in 0..N |->
                 IF n = 0 THEN << >>
                 ELSE IF s[n] + 1 < Window THEN Append(Kept[n - 1], s[n] + 1) ELSE Kept[n - 1]]
  <2> HIDE DEF N, X, step
  <2> QED
    BY <1>7
<1> HIDE DEF Kept, step
<1> DEFINE S == {n \in 0..N : Kept[n] \in X}
<1>9. 0 \in S
  BY <1>2, <1>8
<1>10. ASSUME NEW n \in 1..N, n - 1 \in S PROVE n \in S
  <2>1. n \in 0..N /\ n # 0 /\ Kept[n - 1] \in X
    BY <1>10
  <2>2. Kept[n] = IF s[n] + 1 < Window THEN Append(Kept[n - 1], s[n] + 1) ELSE Kept[n - 1]
    BY <1>8, <2>1
  <2>3. s[n] + 1 < Window => Append(Kept[n - 1], s[n] + 1) \in X
    BY <1>3, <2>1, AppendProperties
  <2>4. Kept[n] \in X
    BY <2>1, <2>2, <2>3
  <2> QED
    BY <2>1, <2>4
<1> HIDE DEF S
<1>11. 0..N \subseteq S
  BY <1>2, <1>9, <1>10, BoundedInduction
<1> QED
  BY <1>1, <1>2, <1>11 DEF S

\* What is left to read, and one line less.
LEMMA UnreadType ==
    ASSUME TypeOK
    PROVE  /\ Current \in Seq(IPs) /\ Len(Current) \in Nat /\ Unread \in Seq(IPs)
           /\ Unread # << >> => Head(Unread) \in IPs /\ pos + 1 \in 0..Len(Current)
<1>1. Current \in Seq(IPs) /\ pos \in 0..Len(Current)
  BY DEF TypeOK, Current
<1> DEFINE cur == Current
<1> HIDE DEF cur
<1>2. cur \in Seq(IPs) /\ pos \in 0..Len(cur) /\ Len(cur) \in Nat
  BY <1>1 DEF cur
<1>3. \A i \in (pos + 1)..Len(cur) : cur[i] \in IPs
  BY <1>2, ElementOfSeq
<1>4. /\ SubSeq(cur, pos + 1, Len(cur)) \in Seq(IPs)
      /\ pos = Len(cur) => SubSeq(cur, pos + 1, Len(cur)) = << >>
  BY <1>2, <1>3, SubSeqProperties, SubSeqEmpty
<1>5. Unread = SubSeq(cur, pos + 1, Len(cur))
  BY DEF Unread, cur
<1>6. Unread # << >> => Head(Unread) \in IPs /\ pos + 1 \in 0..Len(cur)
  BY <1>2, <1>4, <1>5, HeadTailProperties
<1> QED
  BY <1>2, <1>4, <1>5, <1>6 DEF cur

\* What rules and tasks are after iptables -D.
LEMMA DeleteOneType ==
    ASSUME TypeOK, NEW ip \in IPs, DeleteOne(ip)
    PROVE  rules' \in [IPs -> Nat] /\ ordered' \subseteq IPs
<1>1. rules[ip] \in Nat /\ (rules[ip] > 0 => rules[ip] - 1 \in Nat)
  BY DEF TypeOK
<1> QED
  BY <1>1 DEF DeleteOne, TypeOK

\* What the windows and the tasks are after one more failure of an address.
LEMMA SSHAuthType ==
    ASSUME TypeOK, NEW ip \in IPs, SSHAuth(ip)
    PROVE  /\ attempts' \in [IPs -> Seq(0..(Window - 1))]
           /\ starting' \in [IPs -> Nat]
<1> DEFINE recent == Append(attempts[ip], 0)
<1>1. attempts \in [IPs -> Seq(0..(Window - 1))] /\ starting \in [IPs -> Nat]
  BY DEF TypeOK
<1>2. /\ attempts' = [attempts EXCEPT ![ip] = recent]
      /\ starting' = IF Len(recent) > Limit
                     THEN [starting EXCEPT ![ip] = @ + 1] ELSE starting
  BY DEF SSHAuth
<1>3. recent \in Seq(0..(Window - 1))
  <2>1. 0 \in 0..(Window - 1) /\ attempts[ip] \in Seq(0..(Window - 1))
    BY <1>1, BoundsAssumption
  <2> QED
    BY <2>1, AppendProperties
<1> HIDE DEF recent
<1>4. attempts' \in [IPs -> Seq(0..(Window - 1))]
  BY <1>1, <1>2, <1>3
<1>5. [starting EXCEPT ![ip] = @ + 1] \in [IPs -> Nat]
  BY <1>1
<1>6. starting' \in [IPs -> Nat]
  BY <1>1, <1>2, <1>5
<1> QED
  BY <1>4, <1>6

\* The type invariant is inductive: a line is read only while there is one, the
\* clock drops the failures that leave the window, and no task sleeps below zero.
LEMMA TypeNext == TypeOK /\ [Next]_vars => TypeOK'
<1> SUFFICES ASSUME TypeOK, [Next]_vars PROVE TypeOK'
  OBVIOUS
<1> USE BoundsAssumption
<1>1. ASSUME NEW ip \in IPs, LogFailure(ip) PROVE TypeOK'
  <2>1. file' \in Seq(IPs) /\ Len(file') = Len(file) + 1 /\ Len(file) \in Nat
    BY <1>1, AppendProperties DEF LogFailure, TypeOK
  <2>2. Len(file') <= MaxLines
    BY <1>1, <2>1 DEF LogFailure
  <2>3. pos' \in 0..Len(Current)'
    BY <1>1, <2>1 DEF LogFailure, TypeOK, Current
  <2> QED
    BY <1>1, <2>1, <2>2, <2>3 DEF LogFailure, TypeOK, firewall
<1>2. ASSUME NEW ip \in IPs, BlockIp(ip) PROVE TypeOK'
  BY <1>2 DEF BlockIp, TypeOK, Current, logs
<1>3. ASSUME NEW ip \in IPs, Unblock(ip) PROVE TypeOK'
  BY <1>3, DeleteOneType DEF Unblock, TypeOK, Current, logs
<1>4. ASSUME NEW ip \in IPs, AddRule(ip) PROVE TypeOK'
  <2>1. BlockTime \in 0..BlockTime /\ timers[ip] \in Seq(0..BlockTime)
    BY DEF TypeOK
  <2>2. Append(timers[ip], BlockTime) \in Seq(0..BlockTime)
    BY <2>1, AppendProperties
  <2>3. /\ starting[ip] \in Nat /\ starting[ip] - 1 \in Nat
        /\ rules[ip] + 1 \in Nat
    BY <1>4 DEF AddRule, TypeOK
  <2> QED
    BY <1>4, <2>2, <2>3 DEF AddRule, TypeOK, Current, logs
<1>5. ASSUME NEW ip \in IPs, DeleteRule(ip) PROVE TypeOK'
  <2>1. Tail(timers[ip]) \in Seq(0..BlockTime)
    BY <1>5, HeadTailProperties DEF DeleteRule, TypeOK
  <2> QED
    BY <1>5, <2>1, DeleteOneType DEF DeleteRule, TypeOK, Current, logs
<1>6. CASE Rotate
  BY <1>6 DEF Rotate, TypeOK, Current, firewall
<1>7. CASE Tick
  <2>1. attempts' \in [IPs -> Seq(0..(Window - 1))]
    <3>1. ASSUME NEW ip \in IPs PROVE Recent(attempts[ip]) \in Seq(0..(Window - 1))
      <4>1. attempts[ip] \in Seq(0..(Window - 1))
        BY DEF TypeOK
      <4> QED
        BY <4>1, RecentType DEF Ages
    <3>2. attempts' = [ip \in IPs |-> Recent(attempts[ip])]
      BY <1>7 DEF Tick
    <3> QED
      BY <3>1, <3>2
  <2>2. ASSUME NEW ip \in IPs
        PROVE  [k \in DOMAIN timers[ip] |-> timers[ip][k] - 1] \in Seq(0..BlockTime)
    <3> DEFINE s == timers[ip]
    <3>1. s \in Seq(0..BlockTime) /\ 0 \notin ToSet(s) /\ DOMAIN s = 1..Len(s) /\ Len(s) \in Nat
      BY <1>7, LenProperties DEF Tick, TypeOK
    <3> HIDE DEF s
    <3>2. ASSUME NEW k \in 1..Len(s) PROVE s[k] \in 0..BlockTime /\ s[k] # 0
      <4>1. s[k] \in 0..BlockTime
        BY <3>1, ElementOfSeq
      <4>2. s[k] \in ToSet(s)
        BY <3>1 DEF ToSet
      <4> QED
        BY <3>1, <4>1, <4>2
    <3>3. \A k \in 1..Len(s) : s[k] - 1 \in 0..BlockTime
      BY <3>2
    <3>4. [k \in 1..Len(s) |-> s[k] - 1] \in Seq(0..BlockTime)
      BY <3>1, <3>3, IsASeq
    <3> QED
      BY <3>1, <3>4 DEF s
  <2>3. timers' \in [IPs -> Seq(0..BlockTime)]
    BY <1>7, <2>2 DEF Tick
  <2> QED
    BY <1>7, <2>1, <2>3 DEF Tick, TypeOK, Current, logs
<1>8. CASE ReadLine
  <2>1. pos' \in 0..Len(Current)' /\ Head(Unread) \in IPs
    BY <1>8, UnreadType DEF ReadLine, Current
  <2>2. SSHAuth(Head(Unread))
    BY <1>8 DEF ReadLine
  <2>3. /\ attempts' \in [IPs -> Seq(0..(Window - 1))]
        /\ starting' \in [IPs -> Nat]
    BY <2>1, <2>2, SSHAuthType
  <2> QED
    BY <1>8, <2>1, <2>3 DEF ReadLine, TypeOK
<1>9. CASE ReadEnd
  BY <1>9 DEF ReadEnd, TypeOK, Current, logs, firewall
<1>10. CASE CheckRotation
  <2>1. CASE Len(file) < pos
    <3>1. Len(file) \in Nat /\ file \in Seq(IPs)
      BY DEF TypeOK
    <3>2. /\ rotated' = FALSE /\ open' = << >> /\ pos' = 0 /\ file' = file
          /\ monitor' = "reading"
      BY <1>10, <2>1 DEF CheckRotation
    <3>3. pos' \in 0..Len(Current)' /\ open' \in Seq(IPs)
      BY <3>1, <3>2 DEF Current
    <3> QED
      BY <1>10, <3>2, <3>3 DEF CheckRotation, TypeOK, firewall
  <2>2. CASE ~(Len(file) < pos)
    BY <1>10, <2>2 DEF CheckRotation, TypeOK, Current, firewall
  <2> QED
    BY <2>1, <2>2
<1>11. CASE UNCHANGED vars
  BY <1>11 DEF TypeOK, Current, vars, logs, firewall
<1> QED
  BY <1>1, <1>2, <1>3, <1>4, <1>5, <1>6, <1>7, <1>8, <1>9, <1>10, <1>11
     DEF Next, Block, Monitor

\* The monitor of the log never reads past its end, no failure older than the window
\* is counted and no task sleeps longer than a block, for every set of addresses and
\* all limits and times, whenever the log is rotated.
THEOREM TypeCorrect == Spec => []TypeOK
<1>1. Init => TypeOK
  <2> SUFFICES ASSUME Init PROVE TypeOK
    OBVIOUS
  <2>1. file \in Seq(IPs) /\ Len(file) \in Nat /\ Len(file) <= MaxLines
    <3>1. CASE file = << >>
      BY <3>1, BoundsAssumption
    <3>2. ASSUME NEW ip \in IPs, file = <<ip>>
          PROVE  file \in Seq(IPs) /\ Len(file) = 1
      BY <3>2
    <3>3. 1 <= MaxLines
      BY BoundsAssumption
    <3> QED
      BY <3>1, <3>2, <3>3 DEF Init
  <2>2. /\ rotated = FALSE /\ open = << >> /\ pos = Len(file) /\ monitor = "reading"
        /\ rules \in [IPs -> Nat] /\ starting \in [IPs -> Nat]
        /\ ordered = {} /\ unblocked = {}
    BY DEF Init
  <2>3. attempts \in [IPs -> Seq(0..(Window - 1))]
    BY DEF Init
  <2>4. timers \in [IPs -> Seq(0..BlockTime)]
    BY DEF Init
  <2>5. pos \in 0..Len(Current) /\ open \in Seq(IPs)
    BY <2>1, <2>2 DEF Current
  <2> QED
    BY <2>1, <2>2, <2>3, <2>4, <2>5 DEF TypeOK
<1> QED
  BY <1>1, TypeNext, PTL DEF Spec
==============================================================================
