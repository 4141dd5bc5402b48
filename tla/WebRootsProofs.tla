---------------------------- MODULE WebRootsProofs ----------------------------
(* What holds of WebRoots for every set of containers, directories and files. *)
EXTENDS WebRoots, FiniteSetTheorems, SequenceTheorems, TLAPS

\* The shapes of what the git watcher works on.
GitShapes ==
    /\ head \in [n : Nat, auto : BOOLEAN]
    /\ git \in [pc : {"off", "spawned", "start", "idle", "judge"},
                last : [n : Nat \cup {-1}, auto : BOOLEAN],
                current : [n : Nat \cup {-1}, auto : BOOLEAN],
                first : [n : Nat \cup {-1}, auto : BOOLEAN]]
    /\ git_events \in Nat

\* Commits are numbered in order, and a HEAD that differs from the one that is known
\* has a higher number.
HeadMovesOn ==
    /\ git.last.n <= head.n /\ (git.last.n = head.n => git.last = head)
    /\ git.pc = "judge" =>
          /\ git.last.n < git.current.n /\ git.current.n <= head.n
          /\ git.current.n = head.n => git.current = head

\* Every tracked file of Root that is on disk is allowed, but for those that were
\* withdrawn and those that git did not tell of.
Covered == GitIndex(Root) \ (withdrawn \cup unindexed) \subseteq allowed

\* The watch was there before the first HEAD was read: when no event is left, HEAD is
\* the commit that is known or is being judged, or git failed and nothing is promised.
NoCommitIsMissed ==
    git_events = 0 => /\ git.pc = "idle" => git.last = head \/ git.last = git.first \/ Covered
                      /\ git.pc = "judge" => git.current = head \/ Covered

\* What AutomatedIsIndexed says once no event is left, said of HEAD.
HeadIsIndexed ==
    /\ git.pc \in {"idle", "judge"} /\ git.last = head /\ git.last # git.first
    /\ git.last.auto
    => Covered

\* main.rs seeds the allowlist before it starts the watcher.
SeededFirst == phase \notin {"watch", "ready"} => git.pc = "off"

\* What is committed was written before.
WrittenFirst == tracked \subseteq written

GitInv ==
    GitShapes /\ SeededFirst /\ WrittenFirst /\ HeadMovesOn /\ NoCommitIsMissed /\ HeadIsIndexed

-----------------------------------------------------------------------------

LEMMA InitGit == Init => GitInv
  BY WebRootsAssumption
     DEF Init, GitInv, GitShapes, SeededFirst, WrittenFirst, HeadMovesOn, NoCommitIsMissed,
         HeadIsIndexed, NoCommit

\* A step that neither commits nor is the watcher's keeps the invariant when, once the
\* watcher is there, all that leaves the allowlist is withdrawn, what was withdrawn
\* comes back by it, and what comes to the tree is untracked.
LEMMA ElsewhereGit ==
  ASSUME GitInv, head' = head, tracked' = tracked, git_events' = git_events, git' = git,
         phase \in {"watch", "ready"} => phase' \in {"watch", "ready"},
         unindexed' = unindexed, written \subseteq written',
         git.pc # "off" =>
            /\ present' \cap tracked \subseteq present
            /\ allowed \ allowed' \subseteq withdrawn'
            /\ withdrawn \ withdrawn' \subseteq allowed'
  PROVE  GitInv'
<1>1. GitShapes' /\ SeededFirst' /\ WrittenFirst'
  BY DEF GitInv, GitShapes, SeededFirst, WrittenFirst
<1>2. HeadMovesOn'
  BY DEF GitInv, HeadMovesOn
<1>3. git.pc # "off" /\ Covered => Covered'
  BY DEF Covered, GitIndex, FilesIn
<1>4. NoCommitIsMissed'
  BY <1>3 DEF GitInv, NoCommitIsMissed
<1>5. HeadIsIndexed'
  BY <1>3 DEF GitInv, HeadIsIndexed
<1> QED
  BY <1>1, <1>2, <1>4, <1>5 DEF GitInv

LEMMA SpawnGit ==
  ASSUME GitInv, StartGitWatcher
  PROVE  GitInv'
<1> USE DEF GitInv, GitShapes, StartGitWatcher, host, inbound
<1>1. git'.pc = "spawned" /\ git'.last = git.last /\ GitShapes' /\ SeededFirst' /\ WrittenFirst'
  BY DEF SeededFirst, WrittenFirst
<1> QED
  BY <1>1 DEF HeadMovesOn, NoCommitIsMissed, HeadIsIndexed

\* A commit has a number of its own, and an event follows when the watch is there.
LEMMA CommitGit ==
  ASSUME GitInv, NEW f \in Files, NEW auto \in BOOLEAN, Commit(f, auto)
  PROVE  GitInv'
<1> USE DEF GitInv, GitShapes
<1>1. /\ head'.n = head.n + 1 /\ head' \in [n : Nat, auto : BOOLEAN]
      /\ git' = git /\ git.last.n < head'.n
  BY DEF Commit, HeadMovesOn
<1>2. GitShapes' /\ SeededFirst' /\ WrittenFirst' /\ HeadMovesOn'
  BY <1>1 DEF Commit, SeededFirst, WrittenFirst, HeadMovesOn, startup
<1>3. NoCommitIsMissed'
  BY <1>1 DEF Commit, NoCommitIsMissed
<1>4. HeadIsIndexed'
  BY <1>1 DEF HeadIsIndexed
<1> QED
  BY <1>2, <1>3, <1>4

LEMMA NoCommitShape ==
  NoCommit \in [n : Nat \cup {-1}, auto : BOOLEAN] /\ NoCommit \in Commits
BY WebRootsAssumption DEF NoCommit, Commits

\* What a step of the watcher leaves allowed, and what git failed to tell it.
LEMMA GitStepCovers ==
  ASSUME NEW task, NEW events, NEW fails \in BOOLEAN, NEW inodes,
         GitStep(task, events, fails, inodes)
  PROVE  /\ Covered \/ fails => Covered'
         /\ GitIndex(Root) \subseteq inodes => Covered'
<1>1. GitIndex(Root)' = GitIndex(Root) /\ tracked' = tracked
  BY DEF GitStep, host, GitIndex, FilesIn
<1>2. /\ allowed' = allowed \cup inodes /\ withdrawn' = withdrawn \ inodes
      /\ unindexed' = (IF fails THEN tracked ELSE unindexed) \ inodes
  BY DEF GitStep
<1>3. GitIndex(Root) \subseteq tracked
  BY DEF GitIndex
<1> QED
  BY <1>1, <1>2, <1>3 DEF Covered

LEMMA WatcherGit ==
  ASSUME GitInv, GitWatcher
  PROVE  GitInv'
<1> USE DEF GitInv, GitShapes
<1>0. /\ head' = head /\ tracked' = tracked /\ written' = written /\ phase' = phase
      /\ phase \in {"watch", "ready"}
  BY DEF GitWatcher, GitWatch, GitFirstHead, GitReadHead, GitJudge, GitStep, host, startup,
     SeededFirst
<1>a. SeededFirst' /\ WrittenFirst'
  BY <1>0 DEF SeededFirst, WrittenFirst
<1>1. CASE GitWatch
  <2>1. /\ git'.pc \in {"off", "start"} /\ git'.last = git.last /\ GitShapes'
    BY <1>1, <1>0 DEF GitWatch, GitStep
  <2> QED
    BY <1>1, <1>0, <1>a, <2>1 DEF GitWatch, HeadMovesOn, NoCommitIsMissed, HeadIsIndexed
<1>2. CASE GitFirstHead
  <2>0. PICK fails \in BOOLEAN :
           LET hash == IF fails THEN NoCommit ELSE head
           IN  GitStep([git EXCEPT !.pc = "idle", !.last = hash, !.first = hash], git_events,
                       fails, {})
    BY <1>2 DEF GitFirstHead
  <2> DEFINE hash == IF fails THEN NoCommit ELSE head
  <2>1. /\ git' = [git EXCEPT !.pc = "idle", !.last = hash, !.first = hash]
        /\ git_events' = git_events /\ hash \in {NoCommit, head}
    BY <2>0 DEF GitStep
  <2> HIDE DEF hash
  <2>a. hash \in [n : Nat \cup {-1}, auto : BOOLEAN]
    BY <2>1, NoCommitShape
  <2>2. /\ git'.pc = "idle" /\ git'.last = hash /\ git'.first = hash /\ GitShapes'
    BY <1>0, <2>1, <2>a
  <2>3. hash.n <= head.n /\ (hash.n = head.n => hash = head)
    BY <2>1 DEF NoCommit
  <2>4. HeadMovesOn'
    BY <1>0, <2>2, <2>3 DEF HeadMovesOn
  <2> QED
    BY <1>0, <1>a, <2>2, <2>4 DEF NoCommitIsMissed, HeadIsIndexed
<1>3. CASE GitReadHead
  <2>0. PICK fails \in BOOLEAN :
           GitStep(IF fails \/ head = git.last THEN git
                   ELSE [git EXCEPT !.pc = "judge", !.current = head], git_events - 1, fails, {})
    BY <1>3 DEF GitReadHead
  <2>b. Covered \/ fails => Covered'
    BY <2>0, GitStepCovers
  <2>c. git_events' = git_events - 1
    BY <2>0 DEF GitStep
  <2>a. /\ Covered \/ fails => Covered'
        /\ git_events' = git_events - 1 /\ git.pc = "idle" /\ git_events' \in Nat
    BY <1>3, <2>b, <2>c DEF GitReadHead
  <2>1. CASE fails \/ head = git.last
    <3>1. git' = git /\ GitShapes'
      BY <1>0, <2>0, <2>a, <2>1 DEF GitStep
    <3>2. HeadMovesOn' /\ NoCommitIsMissed'
      BY <1>0, <2>a, <2>1, <3>1 DEF HeadMovesOn, NoCommitIsMissed
    <3>3. HeadIsIndexed'
      BY <1>0, <2>a, <3>1 DEF HeadIsIndexed
    <3> QED
      BY <1>a, <3>1, <3>2, <3>3
  <2>2. CASE ~fails /\ head # git.last
    <3>0. git' = [git EXCEPT !.pc = "judge", !.current = head]
      BY <2>0, <2>2 DEF GitStep
    <3>1. git'.pc = "judge" /\ git'.current = head /\ git'.last = git.last /\ GitShapes'
      BY <1>0, <2>a, <3>0
    <3>2. git.last.n < head.n
      BY <2>2 DEF HeadMovesOn
    <3>3. HeadMovesOn' /\ NoCommitIsMissed'
      BY <1>0, <3>1, <3>2 DEF HeadMovesOn, NoCommitIsMissed
    <3>4. HeadIsIndexed'
      BY <1>0, <2>2, <3>1 DEF HeadIsIndexed
    <3> QED
      BY <1>a, <3>1, <3>3, <3>4
  <2> QED
    BY <2>1, <2>2
<1>4. CASE GitJudge
  <2>0. PICK fails \in BOOLEAN :
           GitStep([git EXCEPT !.pc = "idle", !.last = git.current, !.current = NoCommit],
                   git_events, fails,
                   IF git.current.auto /\ ~fails THEN GitIndex(Root) ELSE {})
    BY <1>4 DEF GitJudge
  <2>1. /\ git' = [git EXCEPT !.pc = "idle", !.last = git.current, !.current = NoCommit]
        /\ git_events' = git_events
    BY <2>0 DEF GitStep
  <2>2. /\ git'.pc = "idle" /\ git'.last = git.current /\ GitShapes' /\ git.pc = "judge"
    BY <1>4, <1>0, <2>1 DEF GitJudge, NoCommit
  <2>3. Covered => Covered'
    BY <2>0, GitStepCovers
  <2>4. git.current.auto => Covered'
    BY <2>0, GitStepCovers
  <2>5. HeadMovesOn' /\ NoCommitIsMissed'
    BY <1>0, <2>1, <2>2, <2>3 DEF HeadMovesOn, NoCommitIsMissed
  <2>6. HeadIsIndexed'
    BY <1>0, <2>2, <2>4 DEF HeadIsIndexed
  <2> QED
    BY <1>a, <2>2, <2>5, <2>6
<1> QED
  BY <1>1, <1>2, <1>3, <1>4 DEF GitWatcher

\* No other step takes anything from the allowlist without withdrawing it.
LEMMA OtherGit ==
  ASSUME GitInv,
         \/ Listener \/ Operator \/ Disconnect \/ Reconnect \/ UNCHANGED vars
         \/ \E c \in Containers : ContainerChanges(c)
         \/ \E f \in Files : WriteFile(f) \/ FimEvent(f)
         \/ \E w \in Dirs : FimCommand(w) \/ VolumeCommit(w)
  PROVE  GitInv'
<1> USE DEF host, inbound, startup, failed, ghosts
<1>1. CASE Listener
  <2>1. CASE ReadEvent
    BY <2>1, ElsewhereGit DEF ReadEvent
  <2>2. CASE HandleStart
    BY <2>2, ElsewhereGit DEF HandleStart
  <2>3. CASE HandleStartUnknown
    BY <2>3, ElsewhereGit DEF HandleStartUnknown
  <2>4. CASE HandleDie
    BY <2>4, ElsewhereGit DEF HandleDie
  <2> QED
    BY <1>1, <2>1, <2>2, <2>3, <2>4 DEF Listener
<1>2. CASE Operator
  BY <1>2, ElsewhereGit DEF Operator, Request, RequestWatch, RequestAllow, RequestDisallow,
     Approve
<1>3. CASE Disconnect \/ Reconnect \/ \E c \in Containers : ContainerChanges(c)
  BY <1>3, ElsewhereGit DEF Disconnect, Reconnect, ContainerChanges
<1>4. CASE \E f \in Files : WriteFile(f) \/ FimEvent(f)
  BY <1>4, ElsewhereGit DEF WriteFile, FimEvent, GitInv, WrittenFirst
<1>5. CASE UNCHANGED vars
  BY <1>5, ElsewhereGit DEF vars
<1>6. CASE \E w \in Dirs : FimCommand(w) \/ VolumeCommit(w)
  BY <1>6, ElsewhereGit DEF FimCommand, VolumeCommit
<1> QED
  BY <1>1, <1>2, <1>3, <1>4, <1>5, <1>6

LEMMA StartupGit ==
  ASSUME GitInv, Startup
  PROVE  GitInv'
<1> USE DEF host, inbound, startup, ghosts
<1>1. CASE Discover
  BY <1>1, ElsewhereGit DEF Discover
<1>2. CASE RegisterListed
  BY <1>2, ElsewhereGit DEF RegisterListed
<1>3. CASE StartListener
  BY <1>3, ElsewhereGit DEF StartListener
<1>4. CASE SeedAllowlist
  <2>1. git.pc = "off"
    BY <1>4 DEF SeedAllowlist, GitInv, SeededFirst
  <2> QED
    BY <1>4, <2>1, ElsewhereGit DEF SeedAllowlist
<1>5. CASE \E w \in Dirs : StartFimWatcher(w) \/ FimWatcherFails(w)
  BY <1>5, ElsewhereGit DEF StartFimWatcher, FimWatcherFails
<1> QED
  BY <1>1, <1>2, <1>3, <1>4, <1>5, SpawnGit DEF Startup

LEMMA GitStepKeeps == GitInv /\ [Next]_vars => GitInv'
<1> SUFFICES ASSUME GitInv, [Next]_vars  PROVE GitInv'
  OBVIOUS
<1>1. CASE Startup
  BY <1>1, StartupGit
<1>2. CASE GitWatcher
  BY <1>2, WatcherGit
<1>3. CASE \E f \in Files : \E auto \in BOOLEAN : Commit(f, auto)
  BY <1>3, CommitGit
<1> QED
  BY <1>1, <1>2, <1>3, OtherGit DEF Next, Host

\* Once the git watcher has judged a commit to be automated and no event is left,
\* every committed file on disk is allowed (start_git_commit_watcher), but for those
\* that were withdrawn and those that git failed to tell of since, for any number of
\* commits, containers, requests and failures.
THEOREM AutomatedAreIndexed == Spec => []AutomatedIsIndexed
<1>1. GitInv => AutomatedIsIndexed
  BY DEF GitInv, NoCommitIsMissed, HeadIsIndexed, AutomatedIsIndexed, AutomatedLast, Covered
<1> QED
  BY <1>1, InitGit, GitStepKeeps, PTL DEF Spec

-----------------------------------------------------------------------------
(* Channels *)

\* A finite set as a sequence has its elements, and no others.
LEMMA SetToSeqElements ==
  ASSUME NEW S, IsFiniteSet(S)
  PROVE  /\ SetToSeq(S) \in Seq(S) /\ Len(SetToSeq(S)) \in Nat
         /\ \A x \in S : \E i \in 1..Len(SetToSeq(S)) : SetToSeq(S)[i] = x
<1> DEFINE n == Cardinality(S)
           s == SetToSeq(S)
<1>1. n \in Nat /\ ExistsBijection(1..n, S)
  BY FS_CardinalityType
<1>2. PICK f \in [1..n -> S] : IsInjective(f)
  BY <1>1 DEF ExistsBijection, Bijection, Injection
<1>3. s \in [1..n -> S] /\ IsInjective(s)
  BY <1>2 DEF SetToSeq
<1> HIDE DEF s
<1>4. s \in Injection(1..n, S)
  BY <1>3 DEF Injection
<1>5. Cardinality(1..n) = n
  BY <1>1, FS_Interval
<1>6. s \in Surjection(1..n, S)
  BY <1>4, <1>5, FS_Injection
<1>7. s \in Seq(S) /\ Len(s) = n
  BY <1>1, <1>3
<1>8. \A x \in S : \E i \in 1..n : s[i] = x
  BY <1>3, <1>6 DEF Surjection
<1> QED
  BY <1>1, <1>7, <1>8 DEF s

\* The last command about a directory is of this kind.
LastOrder(q, kind, d) ==
    \E i \in 1..Len(q) :
        q[i] = Command(kind, d) /\ \A j \in i..Len(q) : q[j].dir = d => q[j].kind = kind

NoOrder(q, d) == \A i \in 1..Len(q) : q[i].dir # d

\* What a watcher with this channel and these directories comes to.
WillWatch(q, ds, d) == LastOrder(q, "watch", d) \/ (NoOrder(q, d) /\ d \in ds)
WontWatch(q, ds, d) == LastOrder(q, "unwatch", d) \/ (NoOrder(q, d) /\ d \notin ds)

\* Commands about other directories, and what part of them fits, change nothing.
LEMMA OthersQueued ==
  ASSUME NEW q \in Seq(Commands), NEW t \in Seq(Commands),
         NEW n \in Len(q)..(Len(q) + Len(t)), NEW d,
         \A i \in 1..Len(t) : t[i].dir # d
  PROVE  /\ SubSeq(q \o t, 1, n) \in Seq(Commands) /\ Len(SubSeq(q \o t, 1, n)) = n
         /\ NoOrder(q, d) => NoOrder(SubSeq(q \o t, 1, n), d)
         /\ \A kind : LastOrder(q, kind, d) => LastOrder(SubSeq(q \o t, 1, n), kind, d)
<1> DEFINE r == SubSeq(q \o t, 1, n)
<1>1. /\ Len(q) \in Nat /\ Len(t) \in Nat /\ n \in Nat
      /\ Len(q) <= n /\ n <= Len(q) + Len(t)
  BY LenProperties
<1>2. /\ q \o t \in Seq(Commands) /\ Len(q \o t) = Len(q) + Len(t)
      /\ \A i \in 1..(Len(q) + Len(t)) : (q \o t)[i] = IF i <= Len(q) THEN q[i] ELSE t[i - Len(q)]
  BY ConcatProperties
<1>3. \A i \in 1..n : (q \o t)[i] \in Commands
  BY <1>1, <1>2, ElementOfSeq
<1>4. /\ r \in Seq(Commands) /\ Len(r) = n
      /\ \A i \in 1..n : r[i] = (q \o t)[i]
  BY <1>1, <1>3, SubSeqProperties
<1> HIDE DEF r
<1>5. \A i \in 1..n : IF i <= Len(q) THEN r[i] = q[i] ELSE r[i].dir # d
  BY <1>1, <1>2, <1>4
<1>6. NoOrder(q, d) => NoOrder(r, d)
  BY <1>1, <1>4, <1>5 DEF NoOrder
<1>7. ASSUME NEW kind, LastOrder(q, kind, d) PROVE LastOrder(r, kind, d)
  <2>1. PICK i \in 1..Len(q) :
           q[i] = Command(kind, d) /\ \A j \in i..Len(q) : q[j].dir = d => q[j].kind = kind
    BY <1>7 DEF LastOrder
  <2>2. i \in 1..Len(r) /\ r[i] = Command(kind, d)
    BY <1>1, <1>4, <1>5, <2>1
  <2>3. \A j \in i..Len(r) : r[j].dir = d => r[j].kind = kind
    BY <1>1, <1>4, <1>5, <2>1
  <2> QED
    BY <2>2, <2>3 DEF LastOrder
<1> QED
  BY <1>4, <1>6, <1>7 DEF r

\* Commands that all fit are the last ones about their directories.
LEMMA TheseQueued ==
  ASSUME NEW q \in Seq(Commands), NEW t \in Seq(Commands), NEW kind, NEW d,
         \A i \in 1..Len(t) : t[i].kind = kind,
         \E i \in 1..Len(t) : t[i] = Command(kind, d)
  PROVE  LastOrder(q \o t, kind, d)
<1>1. Len(q) \in Nat /\ Len(t) \in Nat
  BY LenProperties
<1>2. /\ Len(q \o t) = Len(q) + Len(t)
      /\ \A i \in 1..(Len(q) + Len(t)) : (q \o t)[i] = IF i <= Len(q) THEN q[i] ELSE t[i - Len(q)]
  BY ConcatProperties
<1>3. PICK k \in 1..Len(t) : t[k] = Command(kind, d)
  OBVIOUS
<1> DEFINE i == Len(q) + k
<1>4. i \in 1..Len(q \o t) /\ i > Len(q) /\ i - Len(q) = k
  BY <1>1, <1>2
<1>5. (q \o t)[i] = Command(kind, d)
  BY <1>1, <1>2, <1>3, <1>4
<1>6. \A j \in i..Len(q \o t) : (q \o t)[j].kind = kind
  <2> SUFFICES ASSUME NEW j \in i..Len(q \o t) PROVE (q \o t)[j].kind = kind
    OBVIOUS
  <2>1. j \in 1..(Len(q) + Len(t)) /\ ~(j <= Len(q)) /\ j - Len(q) \in 1..Len(t)
    BY <1>1, <1>2, <1>4
  <2> QED
    BY <1>2, <2>1
<1> QED
  BY <1>4, <1>5, <1>6 DEF LastOrder

\* What a watcher comes to is not changed by its next command.
LEMMA CommandDone ==
  ASSUME NEW q \in Seq(Commands), q # << >>, NEW ds, NEW d
  PROVE  LET after == IF Head(q).kind = "watch" THEN ds \cup {Head(q).dir} ELSE ds \ {Head(q).dir}
         IN  /\ WillWatch(q, ds, d) => WillWatch(Tail(q), after, d)
             /\ WontWatch(q, ds, d) => WontWatch(Tail(q), after, d)
<1> DEFINE after == IF Head(q).kind = "watch" THEN ds \cup {Head(q).dir} ELSE ds \ {Head(q).dir}
           r == Tail(q)
           h == Head(q)
<1>1. /\ r \in Seq(Commands) /\ Len(r) = Len(q) - 1 /\ h = q[1] /\ h \in Commands
      /\ Len(q) \in Nat /\ Len(q) > 0
      /\ \A i \in 1..Len(r) : r[i] = q[i + 1]
  BY HeadTailProperties, LenProperties, EmptySeq
<1> HIDE DEF r, h
<1>2. NoOrder(q, d) => NoOrder(r, d) /\ h.dir # d
  BY <1>1 DEF NoOrder
<1>3. ASSUME NEW kind, LastOrder(q, kind, d)
      PROVE  LastOrder(r, kind, d) \/ (NoOrder(r, d) /\ h = Command(kind, d))
  <2>1. PICK i \in 1..Len(q) :
           q[i] = Command(kind, d) /\ \A j \in i..Len(q) : q[j].dir = d => q[j].kind = kind
    BY <1>3 DEF LastOrder
  <2>2. CASE i > 1
    <3>1. i - 1 \in 1..Len(r) /\ r[i - 1] = Command(kind, d)
      BY <1>1, <2>1, <2>2
    <3>2. \A j \in (i - 1)..Len(r) : r[j].dir = d => r[j].kind = kind
      <4> SUFFICES ASSUME NEW j \in (i - 1)..Len(r), r[j].dir = d PROVE r[j].kind = kind
        OBVIOUS
      <4>1. j + 1 \in i..Len(q) /\ r[j] = q[j + 1]
        BY <1>1, <2>2
      <4> QED
        BY <2>1, <4>1
    <3> QED
      BY <3>1, <3>2 DEF LastOrder
  <2>3. CASE i = 1 /\ ~NoOrder(r, d)
    <3>1. PICK k \in 1..Len(r) : r[k].dir = d
      BY <2>3 DEF NoOrder
    <3>2. \A j \in 1..Len(r) : r[j] \in Commands /\ (r[j].dir = d => r[j].kind = kind)
      <4> SUFFICES ASSUME NEW j \in 1..Len(r)
                   PROVE  r[j] \in Commands /\ (r[j].dir = d => r[j].kind = kind)
        OBVIOUS
      <4>1. j + 1 \in i..Len(q) /\ r[j] = q[j + 1] /\ r[j] \in Commands
        BY <1>1, <2>3, ElementOfSeq
      <4> QED
        BY <2>1, <4>1
    <3>3. r[k] = Command(kind, d)
      BY <3>1, <3>2 DEF Commands, Command
    <3> QED
      BY <1>1, <3>2, <3>3 DEF LastOrder
  <2>4. CASE i = 1 /\ NoOrder(r, d)
    BY <1>1, <2>1, <2>4
  <2> QED
    BY <1>1, <2>2, <2>3, <2>4
<1>4. /\ h = Command("watch", d) => d \in after
      /\ h = Command("unwatch", d) => d \notin after
      /\ h.dir # d => (d \in after <=> d \in ds)
  BY DEF h, Command
<1>5. WillWatch(q, ds, d) => WillWatch(r, after, d)
  BY <1>2, <1>3, <1>4 DEF WillWatch
<1>6. WontWatch(q, ds, d) => WontWatch(r, after, d)
  BY <1>2, <1>3, <1>4 DEF WontWatch
<1> QED
  BY <1>5, <1>6 DEF r, h

\* What add_fim_watch_path and remove_fim_watch_path make of a channel.
LEMMA BroadcastChannel ==
  ASSUME TypeOK, NEW w \in Dirs, commands[w] # None, NEW dirs \in Seq(Dirs),
         NEW kind \in {"watch", "unwatch"}
  PROVE  LET r == Broadcast(kind, dirs)[w]
         IN  /\ r \in Seq(Commands) /\ Len(r) <= QueueCap /\ r # None
             /\ \A d, ds : (\A i \in 1..Len(dirs) : dirs[i] # d) =>
                   /\ WillWatch(commands[w], ds, d) => WillWatch(r, ds, d)
                   /\ WontWatch(commands[w], ds, d) => WontWatch(r, ds, d)
             /\ \A d : (\E i \in 1..Len(dirs) : dirs[i] = d)
                        /\ Len(commands[w]) + Len(dirs) <= QueueCap
                        => LastOrder(r, kind, d)
<1> DEFINE q == commands[w]
           t == [i \in 1..Len(dirs) |-> Command(kind, dirs[i])]
           n == IF Len(q \o t) <= QueueCap THEN Len(q \o t) ELSE QueueCap
           r == Broadcast(kind, dirs)[w]
<1>1. q \in Seq(Commands) /\ Len(q) <= QueueCap /\ Len(q) \in Nat /\ QueueCap \in Nat
  BY WebRootsAssumption, LenProperties DEF TypeOK
<1>2. Len(dirs) \in Nat /\ DOMAIN dirs = 1..Len(dirs)
  BY LenProperties
<1>3. \A i \in 1..Len(dirs) : Command(kind, dirs[i]) \in Commands
  BY ElementOfSeq DEF Command, Commands
<1>4. /\ t \in Seq(Commands) /\ Len(t) = Len(dirs)
      /\ \A i \in 1..Len(dirs) : t[i] = Command(kind, dirs[i])
  BY <1>2, <1>3
<1>c. \A i \in 1..Len(dirs) : t[i].kind = kind /\ t[i].dir = dirs[i]
  BY DEF Command
<1>5. r = SubSeq(q \o t, 1, n)
  BY <1>2 DEF Broadcast, Queued
<1> HIDE DEF q, t, r
<1>6. /\ q \o t \in Seq(Commands) /\ Len(q \o t) = Len(q) + Len(t)
  BY <1>1, <1>4, ConcatProperties
<1>7. n \in Len(q)..(Len(q) + Len(t)) /\ n <= QueueCap /\ n \in Nat
  BY <1>1, <1>2, <1>4, <1>6
<1>8. r \in Seq(Commands) /\ Len(r) = n
  <2>1. \A i \in 1..n : (q \o t)[i] \in Commands
    BY <1>6, <1>7, <1>1, <1>2, <1>4, ElementOfSeq
  <2> QED
    BY <1>5, <1>7, <2>1, SubSeqProperties
<1>9. r # None
  BY <1>8, NoneAssumption
<1>10. ASSUME NEW d, NEW ds, \A i \in 1..Len(dirs) : dirs[i] # d
       PROVE  /\ WillWatch(q, ds, d) => WillWatch(r, ds, d)
              /\ WontWatch(q, ds, d) => WontWatch(r, ds, d)
  <2>1. \A i \in 1..Len(t) : t[i].dir # d
    BY <1>4, <1>c, <1>10
  <2> HIDE DEF n
  <2>2. /\ NoOrder(q, d) => NoOrder(r, d)
        /\ \A k : LastOrder(q, k, d) => LastOrder(r, k, d)
    BY <1>1, <1>4, <1>5, <1>7, <2>1, OthersQueued
  <2> QED
    BY <2>2 DEF WillWatch, WontWatch
<1>11. ASSUME NEW d, \E i \in 1..Len(dirs) : dirs[i] = d, Len(q) + Len(dirs) <= QueueCap
       PROVE  LastOrder(r, kind, d)
  <2>1. n = Len(q \o t)
    BY <1>4, <1>6, <1>11
  <2>2. r = q \o t
    BY <1>5, <1>6, <2>1, SubSeqFull
  <2>3. \A i \in 1..Len(t) : t[i].kind = kind
    BY <1>4, <1>c
  <2>4. \E i \in 1..Len(t) : t[i] = Command(kind, d)
    BY <1>4, <1>11
  <2> QED
    BY <1>1, <1>4, <2>2, <2>3, <2>4, TheseQueued
<1> QED
  BY <1>7, <1>8, <1>9, <1>10, <1>11 DEF q, r

\* Broadcast keeps the types, and which watchers there are.
LEMMA BroadcastType ==
  ASSUME TypeOK, NEW dirs \in Seq(Dirs), NEW kind \in {"watch", "unwatch"},
         commands' = Broadcast(kind, dirs)
  PROVE  /\ DOMAIN commands' = Dirs
         /\ \A w \in Dirs : /\ commands'[w] = None <=> commands[w] = None
                            /\ commands'[w] # None =>
                                  commands'[w] \in Seq(Commands) /\ Len(commands'[w]) <= QueueCap
<1>1. DOMAIN commands' = Dirs /\ \A w \in Dirs : commands[w] = None => commands'[w] = None
  BY DEF Broadcast
<1>2. ASSUME NEW w \in Dirs, commands[w] # None
      PROVE  /\ commands'[w] \in Seq(Commands) /\ Len(commands'[w]) <= QueueCap
             /\ commands'[w] # None
  BY <1>2, BroadcastChannel
<1> QED
  BY <1>1, <1>2

\* The sequences of directories that are broadcast.
LEMMA SequenceOfDirs ==
  ASSUME NEW S \in SUBSET Dirs
  PROVE  /\ SetToSeq(S) \in Seq(Dirs)
         /\ \A d : (\E i \in 1..Len(SetToSeq(S)) : SetToSeq(S)[i] = d) <=> d \in S
<1> DEFINE s == SetToSeq(S)
<1>1. IsFiniteSet(S)
  BY WebRootsAssumption, FS_Subset
<1>2. s \in Seq(S) /\ Len(s) \in Nat /\ \A x \in S : \E i \in 1..Len(s) : s[i] = x
  BY <1>1, SetToSeqElements
<1> HIDE DEF s
<1>3. \A i \in 1..Len(s) : s[i] \in S
  BY <1>2, ElementOfSeq
<1>4. s \in Seq(Dirs)
  BY <1>2
<1> QED
  BY <1>2, <1>3, <1>4 DEF s

LEMMA SequenceOfMounts ==
  ASSUME NEW c \in Containers
  PROVE  LET dirs == SetToSeq(WebMounts[c]) \o SetToSeq(ConfMounts[c])
         IN  /\ dirs \in Seq(Dirs)
             /\ \A d : (\E i \in 1..Len(dirs) : dirs[i] = d) <=> d \in Mounts(c)
<1> DEFINE a == SetToSeq(WebMounts[c])
           b == SetToSeq(ConfMounts[c])
<1>1. WebMounts[c] \in SUBSET Dirs /\ ConfMounts[c] \in SUBSET Dirs
  BY WebRootsAssumption
<1>2. /\ a \in Seq(Dirs) /\ b \in Seq(Dirs)
      /\ \A d : (\E i \in 1..Len(a) : a[i] = d) <=> d \in WebMounts[c]
      /\ \A d : (\E i \in 1..Len(b) : b[i] = d) <=> d \in ConfMounts[c]
  BY <1>1, SequenceOfDirs
<1> HIDE DEF a, b
<1>3. /\ a \o b \in Seq(Dirs) /\ Len(a \o b) = Len(a) + Len(b)
      /\ Len(a) \in Nat /\ Len(b) \in Nat
      /\ \A i \in 1..(Len(a) + Len(b)) : (a \o b)[i] = IF i <= Len(a) THEN a[i] ELSE b[i - Len(a)]
  BY <1>2, ConcatProperties, LenProperties
<1>4. ASSUME NEW i \in 1..Len(a \o b)
      PROVE  (a \o b)[i] \in Mounts(c)
  <2>1. CASE i <= Len(a)
    BY <1>2, <1>3, <2>1 DEF Mounts
  <2>2. CASE ~(i <= Len(a))
    <3>1. i - Len(a) \in 1..Len(b) /\ (a \o b)[i] = b[i - Len(a)]
      BY <1>3, <2>2
    <3> QED
      BY <1>2, <3>1 DEF Mounts
  <2> QED
    BY <2>1, <2>2
<1>5. ASSUME NEW d \in WebMounts[c]
      PROVE  \E i \in 1..Len(a \o b) : (a \o b)[i] = d
  <2>1. PICK i \in 1..Len(a) : a[i] = d
    BY <1>2
  <2>2. i \in 1..Len(a \o b) /\ (a \o b)[i] = d
    BY <1>3, <2>1
  <2> QED
    BY <2>2
<1>6. ASSUME NEW d \in ConfMounts[c]
      PROVE  \E i \in 1..Len(a \o b) : (a \o b)[i] = d
  <2>1. PICK i \in 1..Len(b) : b[i] = d
    BY <1>2
  <2>2. /\ Len(a) + i \in 1..(Len(a) + Len(b)) /\ ~(Len(a) + i <= Len(a))
        /\ (Len(a) + i) - Len(a) = i
    BY <1>3
  <2>3. (a \o b)[Len(a) + i] = d
    BY <1>3, <2>1, <2>2
  <2> QED
    BY <1>3, <2>2, <2>3
<1>7. \A d : (\E i \in 1..Len(a \o b) : (a \o b)[i] = d) <=> d \in Mounts(c)
  BY <1>4, <1>5, <1>6 DEF Mounts
<1> QED
  BY <1>3, <1>7 DEF a, b

-----------------------------------------------------------------------------
(* Type correctness *)

\* Every commit and every event counts as a change.
Bounded ==
    /\ changes \in 0..MaxChanges /\ head.n \in 0..changes /\ git_events <= changes
    /\ blind \subseteq Containers /\ touched \subseteq Dirs /\ dead \subseteq Dirs

Shapes == TypeOK /\ Bounded

LEMMA InitShapes == Init => Shapes
<1> SUFFICES ASSUME Init PROVE Shapes
  OBVIOUS
<1> USE WebRootsAssumption
<1>1. NoCommit \in Commits /\ head \in Commits /\ head.n = 0
  BY DEF Init, NoCommit, Commits
<1>2. git \in [pc : {"off", "spawned", "start", "idle", "judge"},
                last : Commits, current : Commits, first : Commits]
  BY <1>1 DEF Init
<1>3. \A w \in Dirs : commands[w] = None
  BY DEF Init
<1> QED
  BY <1>1, <1>2, <1>3 DEF Init, Shapes, TypeOK, Bounded, Idle, Phases

LEMMA StartupShapes ==
  ASSUME Shapes, Startup
  PROVE  Shapes'
<1> USE WebRootsAssumption DEF Shapes, TypeOK, Bounded, host, inbound, startup, failed, ghosts
<1>1. CASE Discover
  <2>1. listing' \subseteq Containers /\ blind' \subseteq Containers /\ phase' \in Phases
    BY <1>1 DEF Discover, Phases
  <2> QED
    BY <1>1, <2>1 DEF Discover
<1>2. CASE RegisterListed
  <2>1. mounts' \in [Containers -> (SUBSET Dirs) \cup {None}]
    BY <1>2 DEF RegisterListed, Mounts
  <2>2. web_roots' \subseteq Dirs /\ config_dirs' \subseteq Dirs /\ phase' \in Phases
    BY <1>2 DEF RegisterListed, Phases
  <2> QED
    BY <1>2, <2>1, <2>2 DEF RegisterListed
<1>3. CASE StartListener
  BY <1>3 DEF StartListener, Phases
<1>4. CASE SeedAllowlist
  <2>1. allowed' \subseteq present
    BY <1>4 DEF SeedAllowlist
  <2>2. phase' \in Phases
    BY <1>4 DEF SeedAllowlist, Phases
  <2> QED
    BY <1>4, <2>1, <2>2 DEF SeedAllowlist
<1>5. CASE StartGitWatcher
  BY <1>5 DEF StartGitWatcher, Phases
<1>6. CASE \E w \in Dirs : StartFimWatcher(w)
  <2>1. PICK w \in Dirs : StartFimWatcher(w)
    BY <1>6
  <2>2. watched' \in [Dirs -> SUBSET Dirs]
    BY <2>1 DEF StartFimWatcher
  <2>3. /\ DOMAIN commands' = Dirs
        /\ \A v \in Dirs : commands'[v] = IF v = w THEN << >> ELSE commands[v]
    BY <2>1 DEF StartFimWatcher
  <2>4. << >> \in Seq(Commands) /\ Len(<< >>) <= QueueCap
    BY EmptySeq
  <2>5. phase' \in Phases
    BY <2>1 DEF StartFimWatcher, Phases
  <2> QED
    BY <2>1, <2>2, <2>3, <2>4, <2>5 DEF StartFimWatcher
<1>7. CASE \E w \in Dirs : FimWatcherFails(w)
  <2>1. phase' \in Phases
    BY <1>7 DEF FimWatcherFails, Phases
  <2> QED
    BY <1>7, <2>1 DEF FimWatcherFails
<1> QED
  BY <1>1, <1>2, <1>3, <1>4, <1>5, <1>6, <1>7 DEF Startup

LEMMA ListenerShapes ==
  ASSUME Shapes, Listener
  PROVE  Shapes'
<1> USE WebRootsAssumption DEF Shapes, TypeOK, Bounded, host, inbound, startup, failed, ghosts
<1>0. listener # Idle => listener.event \in DockerEvents /\ listener.event.c \in Containers
  BY DEF DockerEvents
<1>1. CASE ReadEvent
  <2>1. Head(docker_events) \in DockerEvents /\ Tail(docker_events) \in Seq(DockerEvents)
    BY <1>1, HeadTailProperties DEF ReadEvent
  <2> QED
    BY <1>1, <2>1 DEF ReadEvent
<1>2. CASE HandleStart
  <2> DEFINE c == listener.event.c
             dirs == SetToSeq(WebMounts[c]) \o SetToSeq(ConfMounts[c])
  <2>1. c \in Containers /\ commands' = Broadcast("watch", dirs)
    BY <1>0, <1>2 DEF HandleStart
  <2>2. dirs \in Seq(Dirs)
    BY <2>1, SequenceOfMounts
  <2>3. /\ DOMAIN commands' = Dirs
        /\ \A w \in Dirs : commands'[w] # None =>
              commands'[w] \in Seq(Commands) /\ Len(commands'[w]) <= QueueCap
    <3> HIDE DEF c, dirs
    <3> QED
      BY <2>1, <2>2, BroadcastType
  <2>4. mounts' \in [Containers -> (SUBSET Dirs) \cup {None}]
    BY <1>2, <2>1 DEF HandleStart, Mounts
  <2>5. allowed' \subseteq Files /\ blind' \subseteq Containers
    BY <1>2, <2>1 DEF HandleStart, Registering, FilesIn
  <2> QED
    BY <1>2, <2>3, <2>4, <2>5 DEF HandleStart
<1>3. CASE HandleStartUnknown
  BY <1>0, <1>3 DEF HandleStartUnknown
<1>4. CASE HandleDie
  <2> DEFINE c == listener.event.c
             known == IF mounts[c] = None THEN {} ELSE mounts[c]
             dirs == SetToSeq(known)
  <2>1. c \in Containers /\ commands' = Broadcast("unwatch", dirs) /\ known \in SUBSET Dirs
    BY <1>0, <1>4 DEF HandleDie
  <2>2. /\ DOMAIN commands' = Dirs
        /\ \A w \in Dirs : commands'[w] # None =>
              commands'[w] \in Seq(Commands) /\ Len(commands'[w]) <= QueueCap
    <3> HIDE DEF c, known
    <3>1. dirs \in Seq(Dirs)
      BY <2>1, SequenceOfDirs
    <3> HIDE DEF dirs
    <3> QED
      BY <2>1, <3>1, BroadcastType
  <2>3. mounts' \in [Containers -> (SUBSET Dirs) \cup {None}]
    BY <1>4, <2>1 DEF HandleDie
  <2>4. allowed' \subseteq Files /\ blind' \subseteq Containers
    BY <1>4, <2>1 DEF HandleDie
  <2>5. /\ listener' = Idle
        /\ UNCHANGED << host, inbound, startup, watched, git, touched, dead, changes >>
    BY <1>4 DEF HandleDie
  <2> QED
    BY <2>2, <2>3, <2>4, <2>5
<1> QED
  BY <1>1, <1>2, <1>3, <1>4 DEF Listener

LEMMA GitWatcherShapes ==
  ASSUME Shapes, GitWatcher
  PROVE  Shapes'
<1> USE WebRootsAssumption DEF Shapes, TypeOK, Bounded, host, inbound, startup, failed, ghosts, GitStep
<1>1. NoCommit \in Commits /\ GitIndex(Root) \subseteq Files
  BY DEF NoCommit, Commits, GitIndex
<1>2. CASE GitWatch
  BY <1>2 DEF GitWatch
<1>3. CASE GitFirstHead
  <2>a. PICK fails \in BOOLEAN :
           git' = [git EXCEPT !.pc = "idle", !.last = IF fails THEN NoCommit ELSE head,
                              !.first = IF fails THEN NoCommit ELSE head]
    BY <1>3 DEF GitFirstHead
  <2> DEFINE hash == IF fails THEN NoCommit ELSE head
  <2>b. hash \in Commits
    BY NoCommitShape
  <2>c. git' = [git EXCEPT !.pc = "idle", !.last = hash, !.first = hash]
    BY <2>a
  <2> HIDE DEF hash
  <2>1. git' \in [pc : {"off", "spawned", "start", "idle", "judge"},
                  last : Commits, current : Commits, first : Commits]
    BY <2>b, <2>c
  <2> QED
    BY <1>3, <2>1 DEF GitFirstHead
<1>4. CASE GitReadHead
  <2>1. git' \in [pc : {"off", "spawned", "start", "idle", "judge"},
                  last : Commits, current : Commits, first : Commits]
    BY <1>4 DEF GitReadHead
  <2>2. git_events' = git_events - 1 /\ git_events > 0 /\ allowed' = allowed
    BY <1>4 DEF GitReadHead
  <2>3. git_events' \in 0..MaxChanges /\ git_events' <= changes
    BY <2>2
  <2> QED
    BY <1>4, <2>1, <2>2, <2>3 DEF GitReadHead
<1>5. CASE GitJudge
  BY <1>1, <1>5 DEF GitJudge
<1> QED
  BY <1>2, <1>3, <1>4, <1>5 DEF GitWatcher

LEMMA HostShapes ==
  ASSUME Shapes, Host \/ Disconnect \/ Reconnect \/ \E f \in Files : FimEvent(f)
  PROVE  Shapes'
<1> USE WebRootsAssumption DEF Shapes, TypeOK, Bounded, host, inbound, startup, failed, ghosts
<1>1. ASSUME NEW c \in Containers, ContainerChanges(c) PROVE Shapes'
  <2>1. docker_events' \in Seq(DockerEvents)
    <3>1. /\ [act |-> "start", c |-> c] \in DockerEvents
          /\ [act |-> "die", c |-> c] \in DockerEvents
      BY DEF DockerEvents
    <3>2. /\ Append(docker_events, [act |-> "start", c |-> c]) \in Seq(DockerEvents)
          /\ Append(docker_events, [act |-> "die", c |-> c]) \in Seq(DockerEvents)
      BY <3>1, AppendProperties
    <3> QED
      BY <1>1, <3>2 DEF ContainerChanges
  <2> QED
    BY <1>1, <2>1 DEF ContainerChanges
<1>2. ASSUME NEW f \in Files, WriteFile(f) PROVE Shapes'
  BY <1>2 DEF WriteFile
<1>3. ASSUME NEW f \in Files, NEW auto \in BOOLEAN, Commit(f, auto) PROVE Shapes'
  <2>1. head' \in Commits /\ head'.n = head.n + 1
    BY <1>3 DEF Commit, Commits
  <2> QED
    BY <1>3, <2>1 DEF Commit
<1>4. CASE Disconnect
  <2>1. \A e \in ToSet(docker_events) : e.c \in Containers
    <3> SUFFICES ASSUME NEW e \in ToSet(docker_events) PROVE e \in DockerEvents
      BY DEF DockerEvents
    <3>1. docker_events \in Seq(DockerEvents) /\ DOMAIN docker_events = 1..Len(docker_events)
      BY LenProperties
    <3> QED
      BY <3>1, ElementOfSeq DEF ToSet
  <2>2. << >> \in Seq(DockerEvents)
    BY EmptySeq
  <2> QED
    BY <1>4, <2>1, <2>2 DEF Disconnect
<1>5. CASE Reconnect
  BY <1>5 DEF Reconnect
<1>6. ASSUME NEW f \in Files, FimEvent(f) PROVE Shapes'
  BY <1>6 DEF FimEvent
<1> QED
  BY <1>1, <1>2, <1>3, <1>4, <1>5, <1>6 DEF Host

LEMMA OperatorShapes ==
  ASSUME Shapes, Operator
  PROVE  Shapes'
<1> USE WebRootsAssumption DEF Shapes, TypeOK, Bounded, host, inbound, startup, failed, ghosts, Request
<1>1. ASSUME NEW d \in Dirs, NEW kind \in {"watch", "unwatch"}, RequestWatch(d, kind)
      PROVE  Shapes'
  <2>1. << d >> \in Seq(Dirs)
    OBVIOUS
  <2>2. /\ DOMAIN commands' = Dirs
        /\ \A w \in Dirs : commands'[w] # None =>
              commands'[w] \in Seq(Commands) /\ Len(commands'[w]) <= QueueCap
    BY <1>1, <2>1, BroadcastType DEF RequestWatch
  <2> QED
    BY <1>1, <2>2 DEF RequestWatch
<1>2. ASSUME NEW d \in Dirs, RequestAllow(d) PROVE Shapes'
  BY <1>2 DEF RequestAllow, Registering, FilesIn
<1>3. ASSUME NEW d \in Dirs, RequestDisallow(d) PROVE Shapes'
  BY <1>3 DEF RequestDisallow
<1>4. CASE Approve
  <2>1. allowed' \subseteq Files
    BY <1>4 DEF Approve, GitIndex
  <2> QED
    BY <1>4, <2>1 DEF Approve
<1> QED
  BY <1>1, <1>2, <1>3, <1>4 DEF Operator

LEMMA VolumeCommitShapes ==
  ASSUME Shapes, NEW d \in Dirs, VolumeCommit(d)
  PROVE  Shapes'
<1> USE WebRootsAssumption DEF Shapes, TypeOK, Bounded, host, inbound, startup, failed, ghosts
<1>1. GitIndex(d) \subseteq Files
  BY DEF GitIndex
<1> QED
  BY <1>1 DEF VolumeCommit

LEMMA FimCommandShapes ==
  ASSUME Shapes, NEW w \in Dirs, FimCommand(w)
  PROVE  Shapes'
<1> USE DEF Shapes, TypeOK, Bounded, host, inbound, startup, failed, ghosts
<1>1. /\ commands[w] \in Seq(Commands) /\ commands[w] # << >> /\ Len(commands[w]) <= QueueCap
      /\ QueueCap \in Nat
  BY WebRootsAssumption DEF FimCommand
<1>2. /\ Head(commands[w]) \in Commands /\ Tail(commands[w]) \in Seq(Commands)
      /\ Len(Tail(commands[w])) = Len(commands[w]) - 1 /\ Len(commands[w]) \in Nat
  BY <1>1, HeadTailProperties, LenProperties
<1>3. Head(commands[w]).dir \in Dirs
  BY <1>2 DEF Commands
<1>a. PICK ds \in {watched[w] \cup {Head(commands[w]).dir}, watched[w],
                  watched[w] \ {Head(commands[w]).dir}} :
         watched' = [watched EXCEPT ![w] = ds]
  BY DEF FimCommand
<1>4. watched' \in [Dirs -> SUBSET Dirs]
  BY <1>3, <1>a
<1>5. /\ DOMAIN commands' = Dirs
      /\ \A v \in Dirs : commands'[v] = IF v = w THEN Tail(commands[v]) ELSE commands[v]
  BY DEF FimCommand
<1> HIDE DEF Shapes, TypeOK
<1>6. \A v \in Dirs : commands'[v] # None =>
         commands'[v] \in Seq(Commands) /\ Len(commands'[v]) <= QueueCap
  <2>1. Tail(commands[w]) \in Seq(Commands) /\ Len(Tail(commands[w])) <= QueueCap
    BY <1>1, <1>2
  <2>2. \A v \in Dirs : commands[v] # None =>
           commands[v] \in Seq(Commands) /\ Len(commands[v]) <= QueueCap
    BY DEF Shapes, TypeOK
  <2> QED
    BY <1>5, <2>1, <2>2
<1> QED
  BY <1>4, <1>5, <1>6 DEF FimCommand, Shapes, TypeOK

LEMMA NextShapes == Shapes /\ [Next]_vars => Shapes'
<1> SUFFICES ASSUME Shapes, [Next]_vars PROVE Shapes'
  OBVIOUS
<1>1. CASE UNCHANGED vars
  BY <1>1 DEF vars, host, inbound, startup, failed, ghosts, Shapes, TypeOK, Bounded
<1> QED
  BY <1>1, StartupShapes, ListenerShapes, GitWatcherShapes, HostShapes, OperatorShapes,
     FimCommandShapes, VolumeCommitShapes DEF Next

\* Every variable keeps its shape and no channel of fim.rs holds more than its
\* capacity, for any containers, directories, files and number of changes.
THEOREM TypeCorrect == Spec => []TypeOK
<1>1. Shapes => TypeOK
  BY DEF Shapes
<1> QED
  BY <1>1, InitShapes, NextShapes, PTL DEF Spec

-----------------------------------------------------------------------------
(* Start-up *)

\* How far main.rs is: before the listener and the listed mounts; after these and before
\* the last watcher.
Early   == {"discover", "register"}
Between == {"listen", "seed", "git", "watch"}

\* What there is at each step of main.rs, and what is only ever in the web root.
Orderly ==
    /\ link = "off" <=> phase \in Early \cup {"listen"}
    /\ link # "up" => docker_events = << >>
    /\ link = "off" => listener = Idle
    /\ phase = "discover" => blind = {}
    /\ phase \in Early => /\ web_roots = {Root} /\ config_dirs = {}
                          /\ \A c \in Containers : mounts[c] = None
    /\ phase \notin {"watch", "ready"} => \A w \in Dirs : commands[w] = None
    /\ \A w \in Dirs : commands[w] = None => watched[w] = {}
    /\ ~Seeded => allowed = {}
    /\ phase \notin {"watch", "ready"} => dead = {}
    /\ Root \in web_roots
    /\ \A c \in Containers : mounts[c] \in {None, Mounts(c)}

LEMMA InitOrderly == Init => Orderly
  BY WebRootsAssumption DEF Init, Orderly, Early, Seeded

LEMMA StartupOrderly ==
  ASSUME Shapes, Orderly, Startup
  PROVE  Orderly'
<1> USE DEF Orderly, Early, Seeded, host, inbound, startup, failed, ghosts
<1>1. CASE Discover
  BY <1>1 DEF Discover
<1>2. CASE RegisterListed
  <2>1. \A c \in Containers : mounts'[c] \in {None, Mounts(c)}
    BY <1>2 DEF RegisterListed
  <2> QED
    BY <1>2, <2>1 DEF RegisterListed
<1>3. CASE StartListener
  BY <1>3 DEF StartListener
<1>4. CASE SeedAllowlist
  BY <1>4 DEF SeedAllowlist
<1>5. CASE StartGitWatcher
  BY <1>5 DEF StartGitWatcher
<1>6. CASE \E w \in Dirs : StartFimWatcher(w)
  <2>1. PICK w \in Dirs : StartFimWatcher(w)
    BY <1>6
  <2>2. /\ phase = "watch" /\ phase' \in {"watch", "ready"}
        /\ \A v \in Dirs : commands'[v] = IF v = w THEN << >> ELSE commands[v]
        /\ \A v \in Dirs \ {w} : watched'[v] = watched[v]
    BY <2>1 DEF StartFimWatcher, Shapes, TypeOK
  <2>3. << >> # None
    BY EmptySeq, NoneAssumption
  <2>4. \A v \in Dirs : commands'[v] = None => watched'[v] = {}
    BY <2>2, <2>3
  <2> QED
    BY <2>1, <2>2, <2>4 DEF StartFimWatcher
<1>7. CASE \E w \in Dirs : FimWatcherFails(w)
  BY <1>7 DEF FimWatcherFails
<1> QED
  BY <1>1, <1>2, <1>3, <1>4, <1>5, <1>6, <1>7 DEF Startup

LEMMA ListenerOrderly ==
  ASSUME Shapes, Orderly, Listener
  PROVE  Orderly'
<1> USE DEF Orderly, Early, Seeded, host, inbound, startup, failed, ghosts
<1>0. /\ listener # Idle => listener.event.c \in Containers
      /\ docker_events \in Seq(DockerEvents)
  BY DEF Shapes, TypeOK, DockerEvents
<1>1. CASE ReadEvent
  BY <1>1 DEF ReadEvent
<1>2. CASE HandleStart
  <2> DEFINE c == listener.event.c
             dirs == SetToSeq(WebMounts[c]) \o SetToSeq(ConfMounts[c])
  <2>1. c \in Containers /\ commands' = Broadcast("watch", dirs)
    BY <1>0, <1>2 DEF HandleStart
  <2>2. dirs \in Seq(Dirs)
    BY <2>1, SequenceOfMounts
  <2>3. \A w \in Dirs : commands'[w] = None <=> commands[w] = None
    <3> HIDE DEF c, dirs
    <3> QED
      BY <2>1, <2>2, BroadcastType DEF Shapes
  <2>4. \A b \in Containers : mounts'[b] \in {None, Mounts(b)}
    BY <1>2, <2>1 DEF HandleStart, Shapes, TypeOK
  <2>5. ~Seeded => allowed' = allowed
    BY <1>2 DEF HandleStart, Registering
  <2>6. /\ listener' = Idle /\ link # "off" /\ phase' = phase
        /\ UNCHANGED << host, inbound, startup, watched, dead >>
    BY <1>2 DEF HandleStart
  <2> QED
    BY <2>3, <2>4, <2>5, <2>6
<1>3. CASE HandleStartUnknown
  BY <1>0, <1>3 DEF HandleStartUnknown
<1>4. CASE HandleDie
  <2> DEFINE c == listener.event.c
             known == IF mounts[c] = None THEN {} ELSE mounts[c]
             dirs == SetToSeq(known)
  <2>1. c \in Containers /\ commands' = Broadcast("unwatch", dirs) /\ known \in SUBSET Dirs
    BY <1>0, <1>4 DEF HandleDie, Shapes, TypeOK
  <2>2. \A w \in Dirs : commands'[w] = None <=> commands[w] = None
    <3> HIDE DEF c, known
    <3>1. dirs \in Seq(Dirs)
      BY <2>1, SequenceOfDirs
    <3> HIDE DEF dirs
    <3> QED
      BY <2>1, <3>1, BroadcastType DEF Shapes
  <2>3. \A b \in Containers : mounts'[b] \in {None, Mounts(b)}
    BY <1>4, <2>1 DEF HandleDie, Shapes, TypeOK
  <2>4. ~Seeded => allowed' = {}
    BY <1>4 DEF HandleDie
  <2>5. /\ listener' = Idle /\ link # "off" /\ phase' = phase
        /\ UNCHANGED << host, inbound, startup, watched, dead >>
    BY <1>4 DEF HandleDie
  <2> QED
    BY <2>2, <2>3, <2>4, <2>5
<1> QED
  BY <1>1, <1>2, <1>3, <1>4 DEF Listener

LEMMA OtherOrderly ==
  ASSUME Shapes, Orderly, GitInv,
         \/ GitWatcher \/ Host \/ Operator \/ Disconnect \/ Reconnect \/ UNCHANGED vars
         \/ \E f \in Files : FimEvent(f)
         \/ \E w \in Dirs : FimCommand(w) \/ VolumeCommit(w)
  PROVE  Orderly'
<1> USE DEF Orderly, Early, Seeded, host, inbound, startup, failed, ghosts
<1>1. CASE GitWatcher
  <2>1. Seeded
    <3>1. git.pc # "off"
      BY <1>1 DEF GitWatcher, GitWatch, GitFirstHead, GitReadHead, GitJudge
    <3> QED
      BY <3>1 DEF GitInv, SeededFirst
  <2> QED
    BY <1>1, <2>1 DEF GitWatcher, GitWatch, GitFirstHead, GitReadHead, GitJudge, GitStep
<1>2. ASSUME NEW c \in Containers, ContainerChanges(c) PROVE Orderly'
  BY <1>2 DEF ContainerChanges
<1>3. ASSUME NEW f \in Files, WriteFile(f) PROVE Orderly'
  BY <1>3 DEF WriteFile
<1>4. ASSUME NEW f \in Files, NEW auto \in BOOLEAN, Commit(f, auto) PROVE Orderly'
  BY <1>4 DEF Commit
<1>5. CASE Disconnect
  BY <1>5 DEF Disconnect
<1>6. CASE Reconnect
  BY <1>6 DEF Reconnect
<1>7. CASE \E f \in Files : FimEvent(f)
  BY <1>7 DEF FimEvent
<1>8. CASE UNCHANGED vars
  BY <1>8 DEF vars
<1>9. ASSUME NEW d \in Dirs, NEW kind \in {"watch", "unwatch"}, RequestWatch(d, kind)
      PROVE  Orderly'
  <2>1. << d >> \in Seq(Dirs)
    OBVIOUS
  <2>2. \A w \in Dirs : commands'[w] = None <=> commands[w] = None
    BY <1>9, <2>1, BroadcastType DEF RequestWatch, Shapes
  <2> QED
    BY <1>9, <2>2 DEF RequestWatch, Request
<1>10. ASSUME NEW d \in Dirs, RequestAllow(d) \/ RequestDisallow(d) PROVE Orderly'
  BY <1>10 DEF RequestAllow, RequestDisallow, Request
<1>11. CASE Approve
  BY <1>11 DEF Approve, Request
<1>12. ASSUME NEW w \in Dirs, FimCommand(w) PROVE Orderly'
  <2>1. commands[w] # None /\ commands[w] # << >> /\ commands[w] \in Seq(Commands)
    BY <1>12 DEF FimCommand, Shapes, TypeOK
  <2>2. Tail(commands[w]) # None
    BY <2>1, HeadTailProperties, NoneAssumption
  <2>3. \A v \in Dirs : commands'[v] = IF v = w THEN Tail(commands[v]) ELSE commands[v]
    BY <1>12 DEF FimCommand, Shapes, TypeOK
  <2>4. \A v \in Dirs : v # w => watched'[v] = watched[v]
    BY <1>12 DEF FimCommand, Shapes, TypeOK
  <2>5. \A v \in Dirs : (commands'[v] = None <=> commands[v] = None)
                      /\ (commands'[v] = None => watched'[v] = {})
    BY <2>1, <2>2, <2>3, <2>4
  <2> QED
    BY <1>12, <2>5 DEF FimCommand
<1>13. CASE \E d \in Dirs : VolumeCommit(d)
  BY <1>13 DEF VolumeCommit
<1> QED
  BY <1>1, <1>2, <1>3, <1>4, <1>5, <1>6, <1>7, <1>8, <1>9, <1>10, <1>11, <1>12, <1>13
     DEF Host, Operator

LEMMA NextOrderly ==
  ASSUME Shapes, Orderly, GitInv, [Next]_vars
  PROVE  Orderly'
BY StartupOrderly, ListenerOrderly, OtherOrderly DEF Next

-----------------------------------------------------------------------------
(* Docker's events *)

NoNews(c) == \A i \in 1..Len(docker_events) : docker_events[i].c # c
Handling(c) == listener # Idle /\ listener.event.c = c

\* The last event in the stream about a container says whether it runs.
NewsIsTrue ==
    \A i \in 1..Len(docker_events) :
        (\A j \in (i + 1)..Len(docker_events) : docker_events[j].c # docker_events[i].c)
        => (docker_events[i].act = "start" <=> docker_events[i].c \in running)

\* When there is none, the event that the listener handles says so, or the answer to
\* the first query, or else ACTIVE_CONTAINER_MOUNTS.
Told ==
    \A c \in Containers \ blind : NoNews(c) =>
        /\ Handling(c) => (listener.event.act = "start" <=> c \in running)
        /\ ~Handling(c) => /\ phase = "register" => (c \in listing <=> c \in running)
                           /\ phase \notin Early => (mounts[c] # None <=> c \in running)

News == NewsIsTrue /\ Told

LEMMA InitNews == Init => News
<1> SUFFICES ASSUME Init PROVE News
  OBVIOUS
<1>1. docker_events = << >> /\ listener = Idle /\ phase = "discover"
  BY DEF Init
<1>2. NewsIsTrue
  BY <1>1 DEF NewsIsTrue
<1>3. Told
  BY <1>1 DEF Told, Handling, Early
<1> QED
  BY <1>2, <1>3 DEF News

\* A step that does not touch what the daemon is told of a container.
LEMMA NewsElsewhere ==
  ASSUME News, running' = running, docker_events' = docker_events, listener' = listener,
         listing' = listing, mounts' = mounts, phase' = phase, blind \subseteq blind'
  PROVE  News'
BY DEF News, NewsIsTrue, Told, NoNews, Handling

LEMMA ContainerChangesNews ==
  ASSUME Shapes, Orderly, News, NEW b \in Containers, ContainerChanges(b)
  PROVE  News'
<1> USE DEF startup
<1>1. CASE link = "up"
  <2> DEFINE e == [act |-> IF b \in running THEN "die" ELSE "start", c |-> b]
             q == docker_events
             r == docker_events'
  <2>1. /\ r = Append(q, e) /\ blind' = blind /\ listener' = listener /\ mounts' = mounts
        /\ listing' = listing /\ phase' = phase
        /\ running' = IF b \in running THEN running \ {b} ELSE running \cup {b}
    BY <1>1 DEF ContainerChanges
  <2>2. q \in Seq(DockerEvents) /\ e \in DockerEvents
    BY DEF Shapes, TypeOK, DockerEvents
  <2>3. /\ Len(q) \in Nat /\ Len(r) = Len(q) + 1 /\ r[Len(q) + 1] = e
        /\ \A i \in 1..Len(q) : r[i] = q[i]
    BY <2>1, <2>2, AppendProperties, LenProperties
  <2>4. e.c = b /\ (e.act = "start" <=> b \in running')
    BY <2>1
  <2> HIDE DEF e, q, r
  <2>5. ASSUME NEW i \in 1..Len(r), \A j \in (i + 1)..Len(r) : r[j].c # r[i].c
        PROVE  r[i].act = "start" <=> r[i].c \in running'
    <3>1. CASE i = Len(q) + 1
      BY <2>3, <2>4, <3>1
    <3>2. CASE i # Len(q) + 1
      <4>1. i \in 1..Len(q) /\ r[i] = q[i] /\ Len(q) + 1 \in (i + 1)..Len(r)
        BY <2>3, <3>2
      <4>2. r[i].c # b
        BY <2>3, <2>4, <2>5, <4>1
      <4>3. \A j \in (i + 1)..Len(q) : q[j].c # q[i].c
        BY <2>3, <2>5, <4>1
      <4>4. q[i].act = "start" <=> q[i].c \in running
        BY <4>1, <4>3 DEF News, NewsIsTrue, q
      <4> QED
        BY <2>1, <4>1, <4>2, <4>4
    <3> QED
      BY <3>1, <3>2
  <2>6. NewsIsTrue'
    BY <2>5 DEF NewsIsTrue, r
  <2>7. ASSUME NEW c \in Containers, NoNews(c)' PROVE c # b /\ NoNews(c)
    <3>1. Len(q) + 1 \in 1..Len(r) /\ \A i \in 1..Len(q) : i \in 1..Len(r)
      BY <2>3
    <3>2. \A i \in 1..Len(r) : r[i].c # c
      BY <2>7 DEF NoNews, r
    <3> QED
      BY <2>3, <2>4, <3>1, <3>2 DEF NoNews, q
  <2>8. Told'
    BY <2>1, <2>7 DEF News, Told, Handling
  <2> QED
    BY <2>6, <2>8 DEF News
<1>2. CASE link # "up"
  <2>1. docker_events = << >> /\ docker_events' = << >>
    BY <1>2 DEF ContainerChanges, Orderly
  <2>2. NewsIsTrue'
    BY <2>1 DEF NewsIsTrue
  <2>3. CASE phase = "discover"
    <3>1. link = "off" /\ listener = Idle
      BY <2>3 DEF Orderly, Early
    <3> QED
      BY <2>2, <2>3, <3>1 DEF ContainerChanges, News, Told, Handling, Early
  <2>4. CASE phase # "discover"
    <3>1. blind' = blind \cup {b}
      BY <1>2, <2>4 DEF ContainerChanges
    <3>2. \A c \in Containers : c # b => (c \in running' <=> c \in running)
      BY DEF ContainerChanges
    <3> QED
      BY <2>1, <2>2, <3>1, <3>2 DEF ContainerChanges, News, Told, Handling, NoNews
  <2> QED
    BY <2>3, <2>4
<1> QED
  BY <1>1, <1>2

LEMMA ReadEventNews ==
  ASSUME Shapes, Orderly, News, ReadEvent
  PROVE  News'
<1> DEFINE q == docker_events
           r == docker_events'
           h == Head(docker_events)
<1>1. /\ q \in Seq(DockerEvents) /\ q # << >> /\ listener = Idle
      /\ r = Tail(q) /\ listener' = [event |-> h]
      /\ mounts' = mounts /\ running' = running /\ listing' = listing /\ phase' = phase
      /\ blind' \in {blind, blind \ {h.c}}
  BY DEF ReadEvent, Shapes, TypeOK, startup, host
<1>2. /\ Len(r) = Len(q) - 1 /\ h = q[1] /\ h \in DockerEvents
      /\ Len(q) \in Nat /\ Len(q) > 0
      /\ \A i \in 1..Len(r) : r[i] = q[i + 1]
  BY <1>1, HeadTailProperties, LenProperties, EmptySeq
<1> HIDE DEF q, r, h
<1>3. listener' # Idle /\ listener'.event = h
  BY <1>1, <1>2, NoneAssumption DEF Idle
<1>4. ASSUME NEW i \in 1..Len(r), \A j \in (i + 1)..Len(r) : r[j].c # r[i].c
      PROVE  r[i].act = "start" <=> r[i].c \in running'
  <2>1. i + 1 \in 1..Len(q) /\ r[i] = q[i + 1]
    BY <1>2
  <2>2. ASSUME NEW j \in ((i + 1) + 1)..Len(q) PROVE q[j].c # q[i + 1].c
    <3>1. j - 1 \in (i + 1)..Len(r) /\ j - 1 \in 1..Len(r) /\ r[j - 1] = q[j]
      BY <1>2
    <3> QED
      BY <1>4, <2>1, <3>1
  <2> QED
    BY <1>1, <2>1, <2>2 DEF News, NewsIsTrue, q
<1>5. NewsIsTrue'
  BY <1>4 DEF NewsIsTrue, r
<1>6. ASSUME NEW c \in Containers, c \notin blind', NoNews(c)'
      PROVE  /\ Handling(c)' => (h.act = "start" <=> c \in running')
             /\ ~Handling(c)' => c \notin blind /\ NoNews(c) /\ ~Handling(c)
  <2>1. \A i \in 2..Len(q) : q[i].c # c
    <3> SUFFICES ASSUME NEW i \in 2..Len(q) PROVE q[i].c # c
      OBVIOUS
    <3>1. i - 1 \in 1..Len(r) /\ r[i - 1] = q[i]
      BY <1>2
    <3> QED
      BY <1>6, <3>1 DEF NoNews, r
  <2>2. CASE h.c = c
    <3>1. 1 \in 1..Len(q) /\ \A j \in (1 + 1)..Len(q) : q[j].c # q[1].c
      BY <1>2, <2>1, <2>2
    <3>2. q[1].act = "start" <=> q[1].c \in running
      BY <3>1 DEF News, NewsIsTrue, q
    <3> QED
      BY <1>1, <1>2, <1>3, <2>2, <3>2 DEF Handling
  <2>3. CASE h.c # c
    <3>1. \A i \in 1..Len(q) : q[i].c # c
      BY <1>2, <2>1, <2>3
    <3> QED
      BY <1>1, <1>3, <1>6, <2>3, <3>1 DEF Handling, NoNews, q
  <2> QED
    BY <2>2, <2>3
<1>7. Told'
  BY <1>1, <1>3, <1>6 DEF News, Told
<1> QED
  BY <1>5, <1>7 DEF News

LEMMA HandlersNews ==
  ASSUME Shapes, Orderly, News, HandleStart \/ HandleStartUnknown \/ HandleDie
  PROVE  News'
<1> USE DEF host, inbound, startup
<1> DEFINE b == listener.event.c
<1>1. /\ listener # Idle /\ listener' = Idle /\ docker_events' = docker_events
      /\ running' = running /\ phase' = phase /\ listing' = listing /\ blind \subseteq blind'
  BY DEF HandleStart, HandleStartUnknown, HandleDie
<1>2. b \in Containers /\ Handling(b) /\ phase \notin Early
  BY <1>1 DEF Shapes, TypeOK, DockerEvents, Handling, Orderly
<1>3. \/ b \in blind'
      \/ listener.event.act = "start" /\ mounts'[b] # None
      \/ listener.event.act = "die" /\ mounts'[b] = None
  <2>1. CASE HandleStart
    <3>1. mounts' = [mounts EXCEPT ![b] = Mounts(b)] /\ listener.event.act = "start"
      BY <2>1 DEF HandleStart
    <3>2. Mounts(b) \in SUBSET Dirs
      BY <1>2, WebRootsAssumption DEF Mounts
    <3>3. mounts'[b] = Mounts(b)
      BY <1>2, <3>1 DEF Shapes, TypeOK
    <3> QED
      BY <3>1, <3>2, <3>3, NoneAssumption
  <2>2. CASE HandleDie
    <3>1. mounts' = [mounts EXCEPT ![b] = None] /\ listener.event.act = "die"
      BY <2>2 DEF HandleDie
    <3> QED
      BY <1>2, <3>1 DEF Shapes, TypeOK
  <2>3. CASE HandleStartUnknown
    BY <2>3 DEF HandleStartUnknown
  <2> QED
    BY <2>1, <2>2, <2>3
<1>4. \A c \in Containers : c # b => mounts'[c] = mounts[c] /\ ~Handling(c)
  BY <1>1 DEF HandleStart, HandleStartUnknown, HandleDie, Shapes, TypeOK, Handling
<1> HIDE DEF b
<1>5. NewsIsTrue'
  BY <1>1 DEF News, NewsIsTrue
<1>6. ASSUME NEW c \in Containers \ blind', NoNews(c)'
      PROVE  phase' \notin Early => (mounts'[c] # None <=> c \in running')
  <2>1. c \notin blind /\ NoNews(c)
    BY <1>1, <1>6 DEF NoNews
  <2>2. CASE c = b
    BY <1>1, <1>2, <1>3, <1>6, <2>1, <2>2 DEF News, Told, b
  <2>3. CASE c # b
    BY <1>1, <1>4, <1>6, <2>1, <2>3 DEF News, Told
  <2> QED
    BY <2>2, <2>3
<1>7. Told'
  BY <1>1, <1>2, <1>6 DEF Told, Handling, Early
<1> QED
  BY <1>5, <1>7 DEF News

LEMMA NextNews ==
  ASSUME Shapes, Orderly, News, [Next]_vars
  PROVE  News'
<1> USE DEF host, inbound, startup, failed, ghosts
<1>1. CASE Disconnect
  <2>1. /\ docker_events' = << >> /\ running' = running /\ listener' = listener
        /\ listing' = listing /\ mounts' = mounts /\ phase' = phase
        /\ blind' = blind \cup {e.c : e \in ToSet(docker_events)}
    BY <1>1 DEF Disconnect
  <2>2. ASSUME NEW c \in Containers \ blind' PROVE NoNews(c)
    <3>1. DOMAIN docker_events = 1..Len(docker_events)
      BY LenProperties DEF Shapes, TypeOK
    <3>2. \A i \in 1..Len(docker_events) : docker_events[i] \in ToSet(docker_events)
      BY <3>1 DEF ToSet
    <3> QED
      BY <2>1, <3>2 DEF NoNews
  <2>3. NewsIsTrue'
    BY <2>1 DEF NewsIsTrue
  <2>4. Told'
    BY <2>1, <2>2 DEF News, Told, Handling
  <2> QED
    BY <2>3, <2>4 DEF News
<1>2. CASE Discover
  <2>1. listener = Idle
    BY <1>2 DEF Discover, Orderly, Early
  <2>2. /\ docker_events' = docker_events /\ running' = running /\ listener' = listener
        /\ phase' = "register"
        /\ \A c \in Containers \ blind' : c \in listing' <=> c \in running
    BY <1>2 DEF Discover
  <2>3. NewsIsTrue'
    BY <2>2 DEF News, NewsIsTrue
  <2>4. Told'
    BY <2>1, <2>2 DEF Told, Handling, Early
  <2> QED
    BY <2>3, <2>4 DEF News
<1>3. CASE RegisterListed
  <2>1. listener = Idle /\ phase = "register" /\ \A c \in Containers : mounts[c] = None
    BY <1>3 DEF RegisterListed, Orderly, Early
  <2>2. ASSUME NEW c \in Containers PROVE mounts'[c] # None <=> c \in listing
    <3>1. Mounts(c) # None
      BY WebRootsAssumption, NoneAssumption DEF Mounts
    <3> QED
      BY <1>3, <2>1, <3>1 DEF RegisterListed
  <2>3. /\ docker_events' = docker_events /\ running' = running /\ listener' = listener
        /\ blind' = blind /\ phase' = "listen"
    BY <1>3 DEF RegisterListed
  <2>4. Told'
    BY <2>1, <2>2, <2>3 DEF News, Told, Handling, NoNews
  <2> QED
    BY <2>3, <2>4 DEF News, NewsIsTrue
<1>4. CASE \/ StartListener \/ SeedAllowlist \/ StartGitWatcher
           \/ \E w \in Dirs : StartFimWatcher(w) \/ FimWatcherFails(w)
  <2>1. /\ phase \notin Early /\ phase' \notin Early
        /\ running' = running /\ docker_events' = docker_events /\ listener' = listener
        /\ mounts' = mounts /\ blind' = blind
    BY <1>4 DEF StartListener, SeedAllowlist, StartGitWatcher, StartFimWatcher,
       FimWatcherFails, Early
  <2>2. phase # "register" /\ phase' # "register"
    BY <2>1 DEF Early
  <2> QED
    BY <2>1, <2>2 DEF News, NewsIsTrue, Told, NoNews, Handling
<1>5. ASSUME NEW c \in Containers, ContainerChanges(c) PROVE News'
  BY <1>5, ContainerChangesNews
<1>6. CASE GitWatcher
  BY <1>6, NewsElsewhere DEF GitWatcher, GitWatch, GitFirstHead, GitReadHead, GitJudge, GitStep
<1>7. CASE \E f \in Files : WriteFile(f) \/ FimEvent(f) \/ \E auto \in BOOLEAN : Commit(f, auto)
  BY <1>7, NewsElsewhere DEF WriteFile, FimEvent, Commit
<1>8. CASE Operator
  BY <1>8, NewsElsewhere DEF Operator, Request, RequestWatch, RequestAllow, RequestDisallow,
     Approve
<1>9. CASE Reconnect \/ UNCHANGED vars
  BY <1>9, NewsElsewhere DEF Reconnect, vars
<1>10. CASE \E w \in Dirs : FimCommand(w) \/ VolumeCommit(w)
  BY <1>10, NewsElsewhere DEF FimCommand, VolumeCommit
<1>11. CASE Listener
  BY <1>11, ReadEventNews, HandlersNews DEF Listener
<1> QED
  BY <1>1, <1>2, <1>3, <1>4, <1>5, <1>6, <1>7, <1>8, <1>9, <1>10, <1>11
     DEF Next, Startup, Host

-----------------------------------------------------------------------------
(* What the daemon does about its containers *)

\* The listener is about to register the container.
Starting(c) == Handling(c) /\ listener.event.act = "start"

\* Nothing of a directory is watched or allowed, or will be.
Gone(d) ==
    /\ phase \in Between => d \notin web_roots \cup config_dirs
    /\ \A w \in Dirs : commands[w] # None => WontWatch(commands[w], watched[w], d)
    /\ FilesIn(d) \cap allowed = {}

\* A mount is watched, unless a watch failed, and its files allowed, or both are up to
\* start-up.
There(c, d) ==
    /\ phase \in Between => /\ d \in WebMounts[c] => d \in web_roots
                            /\ d \in ConfMounts[c] => d \in config_dirs
    /\ phase = "watch" /\ d \notin unwatched =>
          /\ \A w \in Dirs : commands[w] # None /\ d \in {w} \cup config_dirs =>
                WillWatch(commands[w], watched[w], d)
          /\ \A w \in dead : d \notin {w} \cup config_dirs
    /\ phase = "ready" /\ d \notin unwatched =>
          \E w \in Dirs : commands[w] # None /\ WillWatch(commands[w], watched[w], d)
    /\ Seeded /\ d \in WebMounts[c] => Expected(d) \subseteq allowed

\* The daemon does what ACTIVE_CONTAINER_MOUNTS says about a container's own mounts.
MountsDone == \A c \in Containers \ blind : ~Starting(c) => \A d \in Own(c) :
    IF mounts[c] = None THEN Gone(d) ELSE There(c, d)

LEMMA InitDone == Init => MountsDone
<1> SUFFICES ASSUME Init, NEW c \in Containers, NEW d \in Own(c)
             PROVE  mounts[c] = None /\ Gone(d)
  BY DEF MountsDone
<1> QED
  BY DEF Init, Gone, Between

\* The own mounts of a container are of no other, and outside the web root.
LEMMA OwnMounts ==
  ASSUME NEW c \in Containers, NEW d \in Own(c)
  PROVE  /\ d \in Dirs /\ d # Root /\ d \notin touched /\ d \in Mounts(c)
         /\ \A b \in Containers : b # c => d \notin Mounts(b)
BY DEF Own, MountedBy, Mounts

\* A step that changes nothing about a directory.
LEMMA DoneElsewhere ==
  ASSUME NEW c \in Containers, NEW d \in Dirs,
         IF mounts[c] = None THEN Gone(d) ELSE There(c, d),
         mounts'[c] = mounts[c], phase' = phase, web_roots' = web_roots,
         config_dirs' = config_dirs,
         \A w \in Dirs : commands'[w] = None <=> commands[w] = None,
         \A w \in Dirs : commands[w] # None =>
            /\ d \notin unwatched' /\ WillWatch(commands[w], watched[w], d)
                  => WillWatch(commands'[w], watched'[w], d)
            /\ WontWatch(commands[w], watched[w], d) => WontWatch(commands'[w], watched'[w], d),
         d \in unwatched => d \in unwatched', dead' = dead,
         FilesIn(d)' \subseteq FilesIn(d), Expected(d)' \subseteq Expected(d),
         \A f \in FilesIn(d) : f \in allowed' <=> f \in allowed
  PROVE  IF mounts'[c] = None THEN Gone(d)' ELSE There(c, d)'
<1>1. Seeded' = Seeded
  BY DEF Seeded
<1>2. ASSUME Gone(d) PROVE Gone(d)'
  BY <1>2 DEF Gone
<1>3. ASSUME There(c, d) PROVE There(c, d)'
  <2>1. phase \in Between => /\ d \in WebMounts[c] => d \in web_roots'
                             /\ d \in ConfMounts[c] => d \in config_dirs'
    BY <1>3 DEF There
  <2>2. phase = "watch" /\ d \notin unwatched' =>
           /\ \A w \in Dirs : commands'[w] # None /\ d \in {w} \cup config_dirs' =>
                 WillWatch(commands'[w], watched'[w], d)
           /\ \A w \in dead' : d \notin {w} \cup config_dirs'
    BY <1>3 DEF There
  <2>3. phase = "ready" /\ d \notin unwatched' =>
           \E w \in Dirs : commands'[w] # None /\ WillWatch(commands'[w], watched'[w], d)
    BY <1>3 DEF There
  <2>4. Seeded /\ d \in WebMounts[c] => Expected(d)' \subseteq allowed'
    <3>1. Expected(d) \subseteq FilesIn(d)
      BY DEF Expected, GitIndex
    <3> QED
      BY <1>3, <3>1 DEF There
  <2> QED
    BY <1>1, <2>1, <2>2, <2>3, <2>4 DEF There
<1> QED
  BY <1>2, <1>3

\* The same of a step that leaves the watchers and Docker's events alone.
LEMMA FilesDone ==
  ASSUME Orderly, MountsDone, mounts' = mounts, listener' = listener, phase' = phase,
         web_roots' = web_roots, config_dirs' = config_dirs, commands' = commands,
         watched' = watched, blind \subseteq blind', touched \subseteq touched',
         trusted' = trusted, unwatched' = unwatched, dead' = dead,
         \A f \in Files : DirOf[f] \notin touched' \cup {Root} =>
             /\ f \in present' => f \in present
             /\ f \in tracked' <=> f \in tracked
             /\ f \in allowed' <=> f \in allowed,
         present \subseteq Files, present' \subseteq Files
  PROVE  MountsDone'
<1> SUFFICES ASSUME NEW c \in Containers \ blind', ~Starting(c)', NEW d \in Own(c)'
             PROVE  IF mounts'[c] = None THEN Gone(d)' ELSE There(c, d)'
  BY DEF MountsDone
<1>1. c \notin blind /\ ~Starting(c) /\ d \in Own(c) /\ d \notin touched' \cup {Root} /\ d \in Dirs
  BY DEF Starting, Handling, Own
<1>2. IF mounts[c] = None THEN Gone(d) ELSE There(c, d)
  BY <1>1 DEF MountsDone
<1>3. FilesIn(d)' \subseteq FilesIn(d) /\ \A f \in FilesIn(d) : f \in allowed' <=> f \in allowed
  BY <1>1 DEF FilesIn
<1>4. Expected(d)' \subseteq Expected(d)
  BY <1>1 DEF Expected, GitIndex, FilesIn
<1> QED
  BY <1>1, <1>2, <1>3, <1>4, DoneElsewhere

LEMMA OtherDone ==
  ASSUME Shapes, Orderly, MountsDone,
         \/ GitWatcher \/ Host \/ Disconnect \/ Reconnect \/ UNCHANGED vars
         \/ \E f \in Files : FimEvent(f)
         \/ \E d \in Dirs : RequestAllow(d) \/ RequestDisallow(d)
         \/ Approve
         \/ \E d \in Dirs : VolumeCommit(d)
  PROVE  MountsDone'
<1> USE DEF host, inbound, startup, failed, ghosts
<1>1. /\ present \subseteq Files /\ \A f \in Deployed : DirOf[f] = Root
      /\ \A d, f : f \in GitIndex(d) => DirOf[f] = d
  BY WebRootsAssumption DEF Shapes, TypeOK, GitIndex, FilesIn
<1>2. CASE GitWatcher
  <2>1. PICK inodes : inodes \subseteq GitIndex(Root) /\ allowed' = allowed \cup inodes
    BY <1>2 DEF GitWatcher, GitWatch, GitFirstHead, GitReadHead, GitJudge, GitStep
  <2>2. UNCHANGED << host, docker_events, link, fim_events, startup, mounts, listener,
                     commands, watched, blind, touched, trusted, unwatched, dead >>
    BY <1>2 DEF GitWatcher, GitWatch, GitFirstHead, GitReadHead, GitJudge, GitStep
  <2>3. \A f \in Files : DirOf[f] # Root => (f \in allowed' <=> f \in allowed)
    BY <1>1, <2>1
  <2> QED
    BY <1>1, <2>2, <2>3, FilesDone
<1>3. ASSUME NEW c \in Containers, ContainerChanges(c) PROVE MountsDone'
  BY <1>1, <1>3, FilesDone DEF ContainerChanges
<1>4. ASSUME NEW f \in Files, WriteFile(f) PROVE MountsDone'
  BY <1>1, <1>4, FilesDone DEF WriteFile
<1>5. ASSUME NEW f \in Files, NEW auto \in BOOLEAN, Commit(f, auto) PROVE MountsDone'
  BY <1>1, <1>5, FilesDone DEF Commit
<1>6. CASE Disconnect \/ Reconnect \/ UNCHANGED vars
  BY <1>1, <1>6, FilesDone DEF Disconnect, Reconnect, vars
<1>7. ASSUME NEW f \in Files, FimEvent(f) PROVE MountsDone'
  BY <1>1, <1>7, FilesDone DEF FimEvent
<1>8. ASSUME NEW d \in Dirs, RequestAllow(d) PROVE MountsDone'
  BY <1>1, <1>8, FilesDone DEF RequestAllow, Request, Registering, FilesIn
<1>9. ASSUME NEW d \in Dirs, RequestDisallow(d) PROVE MountsDone'
  BY <1>1, <1>9, FilesDone DEF RequestDisallow, Request, Deregistering, FilesIn
<1>10. CASE Approve
  <2>1. PICK failing \in SUBSET web_roots :
           allowed' = allowed \cup UNION {GitIndex(d) : d \in web_roots \ failing}
    BY <1>10 DEF Approve
  <2>2. \A f \in Files : DirOf[f] \notin web_roots => (f \in allowed' <=> f \in allowed)
    BY <1>1, <2>1
  <2> QED
    BY <1>1, <1>10, <2>2, FilesDone DEF Approve, Request
<1>11. ASSUME NEW d \in Dirs, VolumeCommit(d) PROVE MountsDone'
  BY <1>1, <1>11, FilesDone DEF VolumeCommit
<1> QED
  BY <1>2, <1>3, <1>4, <1>5, <1>6, <1>7, <1>8, <1>9, <1>10, <1>11 DEF Host

LEMMA WatchersDone ==
  ASSUME Shapes, Orderly, MountsDone,
         \/ \E d \in Dirs : \E kind \in {"watch", "unwatch"} : RequestWatch(d, kind)
         \/ \E w \in Dirs : FimCommand(w)
  PROVE  MountsDone'
<1> USE DEF host, inbound, startup, failed, ghosts
<1> SUFFICES ASSUME NEW c \in Containers \ blind', ~Starting(c)', NEW d \in Own(c)'
             PROVE  IF mounts'[c] = None THEN Gone(d)' ELSE There(c, d)'
  BY DEF MountsDone
<1>1. /\ blind' = blind /\ listener' = listener /\ mounts' = mounts /\ phase' = phase
      /\ web_roots' = web_roots /\ config_dirs' = config_dirs /\ allowed' = allowed
      /\ present' = present /\ touched \subseteq touched' /\ dead' = dead
      /\ tracked' = tracked /\ trusted' = trusted /\ unwatched \subseteq unwatched'
  BY DEF FimCommand, RequestWatch, Request
<1>2. c \notin blind /\ ~Starting(c) /\ d \in Own(c) /\ d \in Dirs /\ d \notin touched'
  BY <1>1 DEF Starting, Handling, Own
<1>3. IF mounts[c] = None THEN Gone(d) ELSE There(c, d)
  BY <1>2 DEF MountsDone
<1>4. FilesIn(d)' = FilesIn(d) /\ Expected(d)' = Expected(d)
  BY <1>1 DEF FilesIn, Expected, GitIndex
<1>5. ASSUME NEW e \in Dirs, NEW kind \in {"watch", "unwatch"}, RequestWatch(e, kind)
      PROVE  IF mounts'[c] = None THEN Gone(d)' ELSE There(c, d)'
  <2> DEFINE dirs == << e >>
  <2>1. dirs \in Seq(Dirs) /\ \A i \in 1..Len(dirs) : dirs[i] = e
    OBVIOUS
  <2>2. commands' = Broadcast(kind, dirs) /\ watched' = watched /\ e # d
    BY <1>2, <1>5 DEF RequestWatch, Request
  <2> HIDE DEF dirs
  <2>3. \A w \in Dirs : commands'[w] = None <=> commands[w] = None
    BY <2>1, <2>2, BroadcastType DEF Shapes
  <2>4. \A w \in Dirs : commands[w] # None =>
           /\ WillWatch(commands[w], watched[w], d) => WillWatch(commands'[w], watched'[w], d)
           /\ WontWatch(commands[w], watched[w], d) => WontWatch(commands'[w], watched'[w], d)
    BY <2>1, <2>2, BroadcastChannel DEF Shapes
  <2> QED
    BY <1>1, <1>2, <1>3, <1>4, <2>3, <2>4, DoneElsewhere
<1>6. ASSUME NEW v \in Dirs, FimCommand(v)
      PROVE  IF mounts'[c] = None THEN Gone(d)' ELSE There(c, d)'
  <2> DEFINE h == Head(commands[v])
             after == IF h.kind = "watch" THEN watched[v] \cup {h.dir} ELSE watched[v] \ {h.dir}
  <2>1. commands[v] # None /\ commands[v] # << >> /\ commands[v] \in Seq(Commands)
    BY <1>6 DEF FimCommand, Shapes, TypeOK
  <2>2. Tail(commands[v]) # None
    BY <2>1, HeadTailProperties, NoneAssumption
  <2>a. \/ watched' = [watched EXCEPT ![v] = after]
        \/ h.kind = "watch" /\ watched' = watched /\ unwatched' = unwatched \cup {h.dir}
    BY <1>6 DEF FimCommand
  <2>3. /\ \A w \in Dirs : commands'[w] = IF w = v THEN Tail(commands[w]) ELSE commands[w]
        /\ \A w \in Dirs : w # v => watched'[w] = watched[w]
    BY <1>6, <2>a DEF FimCommand, Shapes, TypeOK
  <2>4. \A w \in Dirs : commands'[w] = None <=> commands[w] = None
    BY <2>1, <2>2, <2>3
  <2>5. /\ WillWatch(commands[v], watched[v], d) => WillWatch(Tail(commands[v]), after, d)
        /\ WontWatch(commands[v], watched[v], d) => WontWatch(Tail(commands[v]), after, d)
    BY <2>1, CommandDone
  <2>b. /\ d \in after /\ d \notin unwatched' => d \in watched'[v]
        /\ d \notin after => d \notin watched'[v]
    <3>1. CASE watched' = [watched EXCEPT ![v] = after]
      BY <3>1 DEF Shapes, TypeOK
    <3>2. CASE h.kind = "watch" /\ watched' = watched /\ unwatched' = unwatched \cup {h.dir}
      BY <3>2
    <3> QED
      BY <2>a, <3>1, <3>2
  <2> HIDE DEF h, after
  <2>c. /\ d \notin unwatched' /\ WillWatch(commands[v], watched[v], d)
              => WillWatch(Tail(commands[v]), watched'[v], d)
        /\ WontWatch(commands[v], watched[v], d) => WontWatch(Tail(commands[v]), watched'[v], d)
    BY <2>5, <2>b DEF WillWatch, WontWatch
  <2>6. \A w \in Dirs : commands[w] # None =>
           /\ d \notin unwatched' /\ WillWatch(commands[w], watched[w], d)
                 => WillWatch(commands'[w], watched'[w], d)
           /\ WontWatch(commands[w], watched[w], d) => WontWatch(commands'[w], watched'[w], d)
    BY <2>3, <2>c
  <2> QED
    BY <1>1, <1>2, <1>3, <1>4, <2>4, <2>6, DoneElsewhere
<1> QED
  BY <1>5, <1>6

LEMMA StartupDone ==
  ASSUME Shapes, Orderly, MountsDone, Startup
  PROVE  MountsDone'
<1> USE DEF host, inbound, startup, failed, ghosts
<1> SUFFICES ASSUME NEW c \in Containers \ blind', ~Starting(c)', NEW d \in Own(c)'
             PROVE  IF mounts'[c] = None THEN Gone(d)' ELSE There(c, d)'
  BY DEF MountsDone
<1>1. /\ listener' = listener /\ present' = present /\ touched' = touched
      /\ tracked' = tracked
  BY DEF Startup, Discover, RegisterListed, StartListener, SeedAllowlist, StartGitWatcher,
     StartFimWatcher, FimWatcherFails
<1>b. blind \subseteq blind'
  BY DEF Startup, Discover, RegisterListed, StartListener, SeedAllowlist, StartGitWatcher,
     StartFimWatcher, FimWatcherFails, Orderly
<1>2. c \notin blind /\ ~Starting(c) /\ d \in Own(c)
  BY <1>1, <1>b DEF Starting, Handling, Own
<1>3. /\ IF mounts[c] = None THEN Gone(d) ELSE There(c, d)
      /\ d \in Dirs /\ d # Root /\ FilesIn(d)' = FilesIn(d) /\ d \in Mounts(c)
      /\ \A b \in Containers : b # c => d \notin Mounts(b)
  BY <1>1, <1>2, OwnMounts DEF MountsDone, FilesIn
<1>4. CASE Discover
  <2>1. /\ mounts[c] = None /\ mounts'[c] = None /\ commands' = commands /\ watched' = watched
        /\ allowed' = allowed /\ phase' = "register"
    BY <1>4 DEF Discover, Orderly, Early
  <2> QED
    BY <1>3, <2>1 DEF Gone, Between
<1>5. CASE RegisterListed
  <2>1. /\ commands' = commands /\ watched' = watched /\ allowed' = allowed
        /\ phase = "register" /\ phase' = "listen" /\ mounts[c] = None
        /\ web_roots = {Root} /\ config_dirs = {}
    BY <1>5 DEF RegisterListed, Orderly, Early
  <2>2. /\ web_roots' = web_roots \cup UNION {WebMounts[b] : b \in listing}
        /\ config_dirs' = config_dirs \cup UNION {ConfMounts[b] : b \in listing}
        /\ listing \subseteq Containers
    BY <1>5 DEF RegisterListed, Shapes, TypeOK
  <2>3. CASE c \in listing
    <3>1. mounts'[c] = Mounts(c) /\ Mounts(c) # None
      BY <1>5, <2>3, WebRootsAssumption, NoneAssumption DEF RegisterListed, Mounts
    <3>2. /\ d \in WebMounts[c] => d \in web_roots'
          /\ d \in ConfMounts[c] => d \in config_dirs'
      BY <2>2, <2>3
    <3>3. There(c, d)'
      BY <2>1, <3>2 DEF There, Seeded
    <3> QED
      BY <3>1, <3>3
  <2>4. CASE c \notin listing
    <3>1. mounts'[c] = None
      BY <1>5, <2>1, <2>4 DEF RegisterListed
    <3>2. d \notin web_roots' \cup config_dirs'
      BY <1>3, <2>1, <2>2, <2>4 DEF Mounts
    <3>3. Gone(d)'
      BY <1>3, <2>1, <3>2 DEF Gone
    <3> QED
      BY <3>1, <3>3
  <2> QED
    BY <2>3, <2>4
<1>6. CASE StartListener
  BY <1>3, <1>6 DEF StartListener, Gone, There, Between, Seeded
<1>7. CASE SeedAllowlist
  <2>1. /\ commands' = commands /\ watched' = watched /\ mounts' = mounts
        /\ web_roots' = web_roots /\ config_dirs' = config_dirs
        /\ phase = "seed" /\ phase' = "git"
        /\ unwatched' = unwatched /\ dead' = dead
    BY <1>7 DEF SeedAllowlist
  <2>2. allowed' = {f \in present : /\ DirOf[f] \in web_roots
                                   /\ (DirOf[f] \in trusted' => f \in tracked)}
    BY <1>7 DEF SeedAllowlist
  <2>4. d \notin web_roots => FilesIn(d) \cap allowed' = {}
    BY <2>2 DEF FilesIn
  <2>5. d \in web_roots => Expected(d)' \subseteq allowed'
    BY <1>1, <2>2 DEF Expected, GitIndex, FilesIn
  <2>6. ASSUME Gone(d) PROVE Gone(d)'
    BY <1>3, <2>1, <2>4, <2>6 DEF Gone, Between
  <2>7. ASSUME There(c, d) PROVE There(c, d)'
    BY <1>3, <2>1, <2>5, <2>7 DEF There, Between
  <2> QED
    BY <1>3, <2>1, <2>6, <2>7
<1>8. CASE StartGitWatcher
  <2>1. (\A w \in Dirs : commands[w] = None) /\ dead = {}
    BY <1>8 DEF StartGitWatcher, Orderly
  <2>2. /\ commands' = commands /\ watched' = watched /\ allowed' = allowed
        /\ mounts' = mounts /\ web_roots' = web_roots /\ config_dirs' = config_dirs
        /\ unwatched' = unwatched /\ dead' = dead /\ trusted' = trusted
        /\ phase = "git" /\ phase' = "watch"
    BY <1>8 DEF StartGitWatcher
  <2>3. Expected(d)' = Expected(d)
    BY <1>1, <1>3, <2>2 DEF Expected, GitIndex
  <2> QED
    BY <1>3, <2>1, <2>2, <2>3 DEF Gone, There, Between, Seeded
<1>9. ASSUME NEW w \in Dirs, StartFimWatcher(w)
      PROVE  IF mounts'[c] = None THEN Gone(d)' ELSE There(c, d)'
  <2>1. /\ phase = "watch" /\ w \in web_roots /\ mounts' = mounts /\ allowed' = allowed
        /\ web_roots' = web_roots /\ config_dirs' = config_dirs
        /\ phase' \in {"watch", "ready"}
        /\ phase' = "ready" => \A v \in web_roots \ {w} : commands[v] # None \/ v \in dead
        /\ \A v \in Dirs : commands'[v] = IF v = w THEN << >> ELSE commands[v]
        /\ dead' = dead /\ trusted' = trusted
    BY <1>9 DEF StartFimWatcher, LastOf, Shapes, TypeOK
  <2>a. PICK failing \in SUBSET ({w} \cup config_dirs) :
           /\ watched' = [watched EXCEPT ![w] = ({w} \cup config_dirs) \ failing]
           /\ unwatched' = unwatched \cup failing
    BY <1>9 DEF StartFimWatcher
  <2>b. /\ watched'[w] = ({w} \cup config_dirs) \ failing
        /\ \A v \in Dirs \ {w} : watched'[v] = watched[v]
    BY <2>a DEF Shapes, TypeOK
  <2>c. Expected(d)' = Expected(d)
    BY <1>1, <1>3, <2>1 DEF Expected, GitIndex
  <2>2. NoOrder(<< >>, d) /\ << >> # None
    <3>1. << >> \in Seq(Commands) /\ Len(<< >>) = 0
      BY EmptySeq
    <3>2. \A i \in 1..Len(<< >>) : FALSE
      BY <3>1
    <3>3. NoOrder(<< >>, d)
      BY <3>2 DEF NoOrder
    <3> QED
      BY <3>1, <3>3, NoneAssumption
  <2>3. ASSUME Gone(d) PROVE Gone(d)'
    <3>1. d \notin web_roots \cup config_dirs
      BY <2>1, <2>3 DEF Gone, Between
    <3>2. \A v \in Dirs : commands'[v] # None => WontWatch(commands'[v], watched'[v], d)
      BY <2>1, <2>2, <2>3, <2>b, <3>1 DEF Gone, WontWatch
    <3> QED
      BY <1>3, <2>1, <2>3, <3>1, <3>2 DEF Gone
  <2>4. ASSUME There(c, d) PROVE There(c, d)'
    <3>1. d \notin unwatched' =>
             /\ \A v \in Dirs : commands'[v] # None /\ d \in {v} \cup config_dirs =>
                   WillWatch(commands'[v], watched'[v], d)
             /\ \A v \in dead : d \notin {v} \cup config_dirs
      BY <2>1, <2>2, <2>4, <2>a, <2>b DEF There, WillWatch
    <3>2. d \in web_roots \/ d \in config_dirs
      BY <1>3, <2>1, <2>4 DEF There, Between, Mounts
    <3>3. ASSUME phase' = "ready", d \notin unwatched'
          PROVE  \E v \in Dirs : commands'[v] # None /\ WillWatch(commands'[v], watched'[v], d)
      <4>1. \A v \in web_roots : commands'[v] # None \/ v \in dead
        BY <2>1, <2>2, <3>3 DEF Shapes, TypeOK
      <4>2. Root \in web_roots /\ Root \in Dirs
        BY WebRootsAssumption DEF Orderly
      <4> QED
        BY <1>3, <3>1, <3>2, <3>3, <4>1, <4>2
    <3>4. /\ d \in WebMounts[c] => d \in web_roots /\ Expected(d) \subseteq allowed
          /\ d \in ConfMounts[c] => d \in config_dirs
      BY <2>1, <2>4 DEF There, Between, Seeded
    <3> QED
      BY <1>3, <2>1, <2>c, <3>1, <3>3, <3>4 DEF There
  <2> QED
    BY <1>3, <2>1, <2>3, <2>4
<1>10. ASSUME NEW w \in Dirs, FimWatcherFails(w)
       PROVE  IF mounts'[c] = None THEN Gone(d)' ELSE There(c, d)'
  <2>1. /\ phase = "watch" /\ mounts' = mounts /\ allowed' = allowed
        /\ web_roots' = web_roots /\ config_dirs' = config_dirs
        /\ commands' = commands /\ watched' = watched /\ trusted' = trusted
        /\ dead' = dead \cup {w} /\ unwatched' = unwatched \cup {w} \cup config_dirs
        /\ phase' \in {"watch", "ready"}
        /\ phase' = "ready" => \A v \in web_roots : commands[v] # None \/ v \in dead'
    BY <1>10 DEF FimWatcherFails, LastOf
  <2>2. Expected(d)' = Expected(d)
    BY <1>1, <1>3, <2>1 DEF Expected, GitIndex
  <2>3. ASSUME Gone(d) PROVE Gone(d)'
    BY <1>3, <2>1, <2>3 DEF Gone, Between
  <2>4. ASSUME There(c, d) PROVE There(c, d)'
    <3>1. d \notin unwatched' =>
             /\ \A v \in Dirs : commands'[v] # None /\ d \in {v} \cup config_dirs =>
                   WillWatch(commands'[v], watched'[v], d)
             /\ \A v \in dead' : d \notin {v} \cup config_dirs
      BY <2>1, <2>4 DEF There
    <3>2. d \in web_roots \/ d \in config_dirs
      BY <1>3, <2>1, <2>4 DEF There, Between, Mounts
    <3>3. ASSUME phase' = "ready", d \notin unwatched'
          PROVE  \E v \in Dirs : commands'[v] # None /\ WillWatch(commands'[v], watched'[v], d)
      <4>1. Root \in web_roots /\ Root \in Dirs
        BY WebRootsAssumption DEF Orderly
      <4> QED
        BY <1>3, <2>1, <3>1, <3>2, <3>3, <4>1
    <3>4. /\ d \in WebMounts[c] => d \in web_roots /\ Expected(d) \subseteq allowed
          /\ d \in ConfMounts[c] => d \in config_dirs
      BY <2>1, <2>4 DEF There, Between, Seeded
    <3> QED
      BY <1>3, <2>1, <2>2, <3>1, <3>3, <3>4 DEF There
  <2> QED
    BY <1>3, <2>1, <2>3, <2>4
<1> QED
  BY <1>4, <1>5, <1>6, <1>7, <1>8, <1>9, <1>10 DEF Startup

\* A step of the listener leaves the own mounts of other containers alone.
LEMMA ListenerElsewhere ==
  ASSUME Shapes, Orderly, MountsDone, NEW b \in Containers, Handling(b), listener' = Idle,
         NEW dirs \in Seq(Dirs), NEW kind \in {"watch", "unwatch"},
         commands' = Broadcast(kind, dirs),
         \A i \in 1..Len(dirs) : dirs[i] \in Mounts(b),
         watched' = watched, phase' = phase, web_roots' = web_roots,
         config_dirs' = config_dirs, present' = present, touched' = touched,
         tracked' = tracked, dead' = dead, blind \subseteq blind',
         \A e \in Dirs : e \notin Mounts(b) => /\ (e \in trusted' <=> e \in trusted)
                                              /\ (e \in unwatched' <=> e \in unwatched),
         \A a \in Containers : a # b => mounts'[a] = mounts[a],
         \A f \in Files : DirOf[f] \notin Mounts(b) => (f \in allowed' <=> f \in allowed),
         NEW c \in Containers \ blind', c # b, NEW d \in Own(c)'
  PROVE  IF mounts'[c] = None THEN Gone(d)' ELSE There(c, d)'
<1>1. c \notin blind /\ ~Starting(c) /\ d \in Own(c)
  BY DEF Starting, Handling, Own
<1>2. /\ IF mounts[c] = None THEN Gone(d) ELSE There(c, d)
      /\ d \in Dirs /\ d \notin Mounts(b)
  BY <1>1, OwnMounts DEF MountsDone
<1>3. \A w \in Dirs : commands'[w] = None <=> commands[w] = None
  BY BroadcastType DEF Shapes
<1>4. \A i \in 1..Len(dirs) : dirs[i] # d
  BY <1>2
<1>5. \A w \in Dirs : commands[w] # None =>
         /\ WillWatch(commands[w], watched[w], d) => WillWatch(commands'[w], watched'[w], d)
         /\ WontWatch(commands[w], watched[w], d) => WontWatch(commands'[w], watched'[w], d)
  BY <1>4, BroadcastChannel DEF Shapes
<1>6. FilesIn(d)' = FilesIn(d) /\ \A f \in FilesIn(d) : f \in allowed' <=> f \in allowed
  BY <1>2 DEF FilesIn, Shapes, TypeOK
<1>7. (d \in trusted' <=> d \in trusted) /\ (d \in unwatched' <=> d \in unwatched)
  BY <1>2, Zenon
<1>8. GitIndex(d)' = GitIndex(d)
  BY <1>6 DEF GitIndex
<1>9. Expected(d)' = Expected(d)
  BY <1>6, <1>7, <1>8 DEF Expected
<1> QED
  BY <1>2, <1>3, <1>5, <1>6, <1>7, <1>9, DoneElsewhere

LEMMA HandleStartDone ==
  ASSUME Shapes, Orderly, MountsDone, HandleStart
  PROVE  MountsDone'
<1>0. PICK b \in Containers : b = listener.event.c
  BY DEF HandleStart, Shapes, TypeOK, DockerEvents
<1> DEFINE dirs == SetToSeq(WebMounts[b]) \o SetToSeq(ConfMounts[b])
<1>1. /\ listener # Idle /\ listener' = Idle /\ commands' = Broadcast("watch", dirs)
      /\ allowed' = allowed \cup Registering(WebMounts[b])
      /\ mounts' = [mounts EXCEPT ![b] = Mounts(b)]
      /\ blind' = IF phase = "ready" /\ Delivered(dirs) THEN blind ELSE blind \cup {b}
      /\ watched' = watched /\ phase' = phase /\ web_roots' = web_roots
      /\ config_dirs' = config_dirs /\ present' = present /\ touched' = touched
      /\ tracked' = tracked /\ dead' = dead /\ unwatched' = unwatched \ Mounts(b)
      /\ trusted' = IF Seeded THEN trusted \ WebMounts[b] ELSE trusted
  BY <1>0 DEF HandleStart, host, inbound, startup
<1>2. b \in Containers /\ Handling(b)
  BY <1>0, <1>1 DEF Handling
<1>3. dirs \in Seq(Dirs) /\ \A d : (\E i \in 1..Len(dirs) : dirs[i] = d) <=> d \in Mounts(b)
  BY <1>2, SequenceOfMounts
<1> HIDE DEF dirs
<1>4. /\ mounts'[b] = Mounts(b) /\ mounts'[b] # None
      /\ \A a \in Containers : a # b => mounts'[a] = mounts[a]
  <2>1. Mounts(b) \in SUBSET Dirs
    BY <1>2, WebRootsAssumption DEF Mounts
  <2> QED
    BY <1>1, <1>2, <2>1, NoneAssumption DEF Shapes, TypeOK
<1>5. \A f \in Files : DirOf[f] \notin Mounts(b) => (f \in allowed' <=> f \in allowed)
  BY <1>1 DEF Registering, FilesIn, Mounts
<1>6. ASSUME NEW c \in Containers \ blind', ~Starting(c)', NEW d \in Own(c)', c # b
      PROVE  IF mounts'[c] = None THEN Gone(d)' ELSE There(c, d)'
  <2>1. \A e \in Dirs : e \notin Mounts(b) => /\ (e \in trusted' <=> e \in trusted)
                                              /\ (e \in unwatched' <=> e \in unwatched)
    BY <1>1 DEF Mounts
  <2>2. blind \subseteq blind' /\ \A i \in 1..Len(dirs) : dirs[i] \in Mounts(b)
    BY <1>1, <1>3
  <2> QED
    BY <1>1, <1>2, <1>3, <1>4, <1>5, <1>6, <2>1, <2>2, ListenerElsewhere
<1>7. ASSUME b \notin blind', NEW d \in Own(b)'
      PROVE  There(b, d)'
  <2>1. phase = "ready" /\ Delivered(dirs)
    BY <1>1, <1>7
  <2>2. PICK w \in Dirs : commands[w] # None /\ Len(commands[w]) + Len(dirs) <= QueueCap
    BY <2>1 DEF Delivered
  <2>3. d \in Mounts(b)
    BY <1>1, <1>2, <1>7 DEF Own, MountedBy, Mounts
  <2>4. LastOrder(commands'[w], "watch", d)
    BY <1>1, <1>3, <2>2, <2>3, BroadcastChannel DEF Shapes
  <2>5. commands'[w] # None
    BY <1>1, <1>3, <2>2, BroadcastType DEF Shapes
  <2>6. d \in WebMounts[b] => Expected(d)' \subseteq allowed'
    BY <1>1, <2>1 DEF Registering, Seeded, FilesIn, Expected, GitIndex
  <2> QED
    BY <1>1, <2>1, <2>4, <2>5, <2>6 DEF There, Between, WillWatch
<1> QED
  <2> SUFFICES ASSUME NEW c \in Containers \ blind', ~Starting(c)', NEW d \in Own(c)'
               PROVE  IF mounts'[c] = None THEN Gone(d)' ELSE There(c, d)'
    BY DEF MountsDone
  <2> QED
    BY <1>4, <1>6, <1>7

LEMMA HandleDieDone ==
  ASSUME Shapes, Orderly, MountsDone, HandleDie
  PROVE  MountsDone'
<1>0. PICK b \in Containers : b = listener.event.c
  BY DEF HandleDie, Shapes, TypeOK, DockerEvents
<1> DEFINE known == IF mounts[b] = None THEN {} ELSE mounts[b]
           dirs == SetToSeq(known)
<1>1. /\ listener # Idle /\ listener.event.act = "die" /\ listener' = Idle
      /\ commands' = Broadcast("unwatch", dirs)
      /\ allowed' = allowed \ Deregistering(known)
      /\ mounts' = [mounts EXCEPT ![b] = None]
      /\ blind' = IF known = {} \/ (phase = "ready" /\ Delivered(dirs)) THEN blind ELSE blind \cup {b}
      /\ watched' = watched /\ phase' = phase /\ web_roots' = web_roots
      /\ config_dirs' = config_dirs /\ present' = present /\ touched' = touched
      /\ tracked' = tracked /\ dead' = dead /\ unwatched' = unwatched /\ trusted' = trusted
  BY <1>0 DEF HandleDie, host, inbound, startup, failed
<1>2. b \in Containers /\ Handling(b)
  BY <1>0, <1>1 DEF Handling
<1>3. known \in SUBSET Dirs /\ known \subseteq Mounts(b)
  BY <1>2 DEF Shapes, TypeOK, Orderly
<1>4. known = {} <=> mounts[b] = None \/ Mounts(b) = {}
  BY <1>2 DEF Orderly
<1>a. known # {} => known = Mounts(b)
  BY <1>2 DEF Orderly
<1> HIDE DEF known
<1>5. dirs \in Seq(Dirs) /\ \A d : (\E i \in 1..Len(dirs) : dirs[i] = d) <=> d \in known
  BY <1>3, SequenceOfDirs
<1> HIDE DEF dirs
<1>6. mounts'[b] = None /\ \A a \in Containers : a # b => mounts'[a] = mounts[a]
  BY <1>1, <1>2 DEF Shapes, TypeOK
<1>7. \A f \in Files : DirOf[f] \notin Mounts(b) => (f \in allowed' <=> f \in allowed)
  BY <1>1, <1>3 DEF Deregistering, FilesIn
<1>8. \A i \in 1..Len(dirs) : dirs[i] \in Mounts(b)
  BY <1>3, <1>5
<1>9. ASSUME NEW c \in Containers \ blind', ~Starting(c)', NEW d \in Own(c)', c # b
      PROVE  IF mounts'[c] = None THEN Gone(d)' ELSE There(c, d)'
  <2>1. blind \subseteq blind'
    BY <1>1
  <2> QED
    BY <1>1, <1>2, <1>5, <1>6, <1>7, <1>8, <1>9, <2>1, ListenerElsewhere
<1>10. ASSUME b \notin blind', NEW d \in Own(b)'
       PROVE  Gone(d)'
  <2>1. d \in Dirs /\ d \in Mounts(b) /\ d \in Own(b) /\ b \notin blind
    BY <1>1, <1>2, <1>10 DEF Own, MountedBy, Mounts
  <2>2. \A w \in Dirs : commands'[w] = None <=> commands[w] = None
    BY <1>1, <1>5, BroadcastType DEF Shapes
  <2>3. FilesIn(d)' = FilesIn(d)
    BY <1>1 DEF FilesIn
  <2>4. CASE mounts[b] = None
    <3>1. known = {} /\ ~Starting(b)
      BY <1>0, <1>1, <1>4, <2>4 DEF Starting
    <3>2. Gone(d)
      BY <1>2, <2>1, <2>4, <3>1 DEF MountsDone
    <3>3. \A i \in 1..Len(dirs) : dirs[i] # d
      BY <1>5, <3>1
    <3>4. \A w \in Dirs : commands[w] # None =>
             (WontWatch(commands[w], watched[w], d)
                => WontWatch(commands'[w], watched'[w], d))
      BY <1>1, <1>5, <3>3, BroadcastChannel DEF Shapes
    <3>5. FilesIn(d)' \cap allowed' = {}
      BY <1>1, <2>3, <3>2 DEF Gone
    <3> QED
      BY <1>1, <2>2, <3>2, <3>4, <3>5 DEF Gone
  <2>5. CASE mounts[b] # None
    <3>1. known = Mounts(b) /\ known # {}
      BY <1>4, <1>a, <2>1, <2>5
    <3>2. phase = "ready" /\ Delivered(dirs)
      BY <1>1, <1>10, <3>1
    <3>3. \A w \in Dirs : commands[w] # None => LastOrder(commands'[w], "unwatch", d)
      BY <1>1, <1>5, <2>1, <3>1, <3>2, BroadcastChannel DEF Shapes, Delivered
    <3>4. FilesIn(d)' \cap allowed' = {}
      BY <1>1, <2>1, <2>3, <3>1, <3>2 DEF Deregistering, Seeded
    <3> QED
      BY <1>1, <2>2, <3>2, <3>3, <3>4 DEF Gone, Between, WontWatch
  <2> QED
    BY <2>4, <2>5
<1> QED
  <2> SUFFICES ASSUME NEW c \in Containers \ blind', ~Starting(c)', NEW d \in Own(c)'
               PROVE  IF mounts'[c] = None THEN Gone(d)' ELSE There(c, d)'
    BY DEF MountsDone
  <2> QED
    BY <1>6, <1>9, <1>10

LEMMA ListenerDone ==
  ASSUME Shapes, Orderly, MountsDone, Listener
  PROVE  MountsDone'
<1> USE DEF host, inbound, startup
<1>1. CASE ReadEvent
  <2>1. /\ listener = Idle /\ listener' = [event |-> Head(docker_events)]
        /\ mounts' = mounts /\ phase' = phase /\ web_roots' = web_roots
        /\ config_dirs' = config_dirs /\ commands' = commands /\ watched' = watched
        /\ allowed' = allowed /\ present' = present /\ touched' = touched
        /\ tracked' = tracked /\ dead' = dead /\ unwatched' = unwatched /\ trusted' = trusted
        /\ \/ blind' = blind
           \/ Head(docker_events).act = "start" /\ blind' = blind \ {Head(docker_events).c}
    BY <1>1 DEF ReadEvent, failed
  <2>2. Head(docker_events) \in DockerEvents
    BY <1>1, HeadTailProperties DEF ReadEvent, Shapes, TypeOK
  <2>3. listener' # Idle /\ listener'.event = Head(docker_events)
    BY <2>1, <2>2, NoneAssumption DEF Idle
  <2> SUFFICES ASSUME NEW c \in Containers \ blind', ~Starting(c)', NEW d \in Own(c)'
               PROVE  IF mounts'[c] = None THEN Gone(d)' ELSE There(c, d)'
    BY DEF MountsDone
  <2>4. c \notin blind /\ ~Starting(c) /\ d \in Own(c) /\ d \in Dirs
    BY <2>1, <2>3 DEF Starting, Handling, Own
  <2>5. IF mounts[c] = None THEN Gone(d) ELSE There(c, d)
    BY <2>4 DEF MountsDone
  <2>6. FilesIn(d)' = FilesIn(d)
    BY <2>1 DEF FilesIn
  <2>7. Expected(d)' = Expected(d)
    BY <2>1, <2>6 DEF Expected, GitIndex
  <2> QED
    BY <2>1, <2>4, <2>5, <2>6, <2>7, DoneElsewhere
<1>2. CASE HandleStartUnknown
  <2>1. /\ listener # Idle /\ listener' = Idle /\ blind' = blind \cup {listener.event.c}
        /\ mounts' = mounts /\ phase' = phase /\ web_roots' = web_roots
        /\ config_dirs' = config_dirs /\ commands' = commands /\ watched' = watched
        /\ allowed' = allowed /\ present' = present /\ touched' = touched
        /\ tracked' = tracked /\ dead' = dead /\ unwatched' = unwatched /\ trusted' = trusted
    BY <1>2 DEF HandleStartUnknown, failed
  <2> SUFFICES ASSUME NEW c \in Containers \ blind', NEW d \in Own(c)'
               PROVE  IF mounts'[c] = None THEN Gone(d)' ELSE There(c, d)'
    BY DEF MountsDone
  <2>2. c \notin blind /\ ~Starting(c) /\ d \in Own(c) /\ d \in Dirs
    BY <2>1 DEF Starting, Handling, Own
  <2>3. IF mounts[c] = None THEN Gone(d) ELSE There(c, d)
    BY <2>2 DEF MountsDone
  <2>4. FilesIn(d)' = FilesIn(d)
    BY <2>1 DEF FilesIn
  <2>5. Expected(d)' = Expected(d)
    BY <2>1, <2>4 DEF Expected, GitIndex
  <2> QED
    BY <2>1, <2>2, <2>3, <2>4, <2>5, DoneElsewhere
<1> QED
  BY <1>1, <1>2, HandleStartDone, HandleDieDone DEF Listener

\* What RunningIsWatched and StoppedIsForgotten rest on.
MountInv == Shapes /\ Orderly /\ GitInv /\ News /\ MountsDone

LEMMA InitMounts == Init => MountInv
  BY InitShapes, InitOrderly, InitGit, InitNews, InitDone DEF MountInv

LEMMA NextMounts == MountInv /\ [Next]_vars => MountInv'
<1> SUFFICES ASSUME MountInv, [Next]_vars PROVE MountInv'
  OBVIOUS
<1>1. Shapes' /\ Orderly' /\ GitInv' /\ News'
  BY NextShapes, NextOrderly, GitStepKeeps, NextNews DEF MountInv
<1>2. MountsDone'
  BY StartupDone, ListenerDone, WatchersDone, OtherDone DEF MountInv, Next, Operator
<1> QED
  BY <1>1, <1>2 DEF MountInv

\* A channel without commands: what the watcher watches is all there is to come.
LEMMA NothingQueued ==
  ASSUME NEW ds, NEW d
  PROVE  /\ WillWatch(<< >>, ds, d) => d \in ds
         /\ WontWatch(<< >>, ds, d) => d \notin ds
<1>1. Len(<< >>) = 0 /\ \A i \in 1..Len(<< >>) : FALSE
  BY EmptySeq
<1> QED
  BY <1>1 DEF WillWatch, WontWatch, LastOrder

\* "Automatically detects container start/stop events in real-time and registers their
\* mounts": once the daemon is through with its events, the own mounts of a running
\* container of which it missed nothing are watched, unless a watch failed, and their
\* expected files allowed, for any containers, directories and failures, whether the
\* container was there at start-up or came at any step of it.
THEOREM RunningContainersAreWatched == Spec => []RunningIsWatched
<1>1. MountInv => RunningIsWatched
  <2> SUFFICES ASSUME MountInv, Settled, NEW c \in running \ blind, NEW d \in Own(c)
               PROVE  /\ d \in unwatched \/ \E w \in Dirs : d \in watched[w]
                      /\ d \in WebMounts[c] => Expected(d) \subseteq allowed
    BY DEF RunningIsWatched
  <2>1. /\ c \in Containers /\ phase = "ready" /\ docker_events = << >> /\ listener = Idle
        /\ \A w \in Dirs : commands[w] \in {None, << >>}
    BY DEF MountInv, Shapes, TypeOK, Settled
  <2>2. NoNews(c) /\ ~Handling(c) /\ ~Starting(c)
    <3>1. \A i \in 1..Len(docker_events) : FALSE
      BY <2>1, EmptySeq
    <3> QED
      BY <2>1, <3>1 DEF NoNews, Handling, Starting
  <2>3. mounts[c] # None
    BY <2>1, <2>2 DEF MountInv, News, Told, Early
  <2>4. There(c, d)
    BY <2>1, <2>2, <2>3 DEF MountInv, MountsDone
  <2>6. ASSUME d \notin unwatched PROVE \E w \in Dirs : d \in watched[w]
    <3>1. PICK w \in Dirs : commands[w] # None /\ WillWatch(commands[w], watched[w], d)
      BY <2>1, <2>4, <2>6 DEF There
    <3> QED
      BY <2>1, <3>1, NothingQueued
  <2> QED
    BY <2>1, <2>4, <2>6 DEF There, Seeded
<1> QED
  BY <1>1, InitMounts, NextMounts, PTL DEF Spec

\* "Dynamically removing FIM watch and allowlist for stopped container mount": once the
\* daemon is through with its events, nothing of a stopped container of which it missed
\* nothing is watched or allowed, although commands wait in bounded channels and the
\* watchers come up one after the other.
THEOREM StoppedContainersAreForgotten == Spec => []StoppedIsForgotten
<1>1. MountInv => StoppedIsForgotten
  <2> SUFFICES ASSUME MountInv, Settled, NEW c \in Containers \ (running \cup blind),
                      NEW d \in Own(c)
               PROVE  /\ mounts[c] = None
                      /\ \A w \in Dirs : d \notin watched[w]
                      /\ FilesIn(d) \cap allowed = {}
    BY DEF StoppedIsForgotten
  <2>1. /\ phase = "ready" /\ docker_events = << >> /\ listener = Idle
        /\ \A w \in Dirs : commands[w] \in {None, << >>}
    BY DEF Settled
  <2>2. NoNews(c) /\ ~Handling(c) /\ ~Starting(c)
    <3>1. \A i \in 1..Len(docker_events) : FALSE
      BY <2>1, EmptySeq
    <3> QED
      BY <2>1, <3>1 DEF NoNews, Handling, Starting
  <2>3. mounts[c] = None
    BY <2>1, <2>2 DEF MountInv, News, Told, Early
  <2>4. Gone(d)
    BY <2>2, <2>3 DEF MountInv, MountsDone
  <2>5. ASSUME NEW w \in Dirs PROVE d \notin watched[w]
    <3>1. CASE commands[w] = None
      BY <3>1 DEF MountInv, Orderly
    <3>2. CASE commands[w] # None
      BY <2>1, <2>4, <3>2, NothingQueued DEF Gone
    <3> QED
      BY <3>1, <3>2
  <2> QED
    BY <2>3, <2>4, <2>5 DEF Gone
<1> QED
  BY <1>1, InitMounts, NextMounts, PTL DEF Spec
=============================================================================
