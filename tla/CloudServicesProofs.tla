------------------------- MODULE CloudServicesProofs -------------------------
(***************************************************************************)
(* What holds of CloudServices for every set of alerts, hosts, packages,   *)
(* advisories and bounds: the evidence that is uploaded first, then what   *)
(* comes out of a lock file in each format, and the scans and inventories  *)
(* that rest on it.                                                        *)
(***************************************************************************)
EXTENDS CloudServices, Induction, SequenceTheorems, TLAPS

UploaderStates ==
    [step : {"asleep", "next"}, left : SUBSET Evidence]
    \cup [step : {"sending", "stored"}, left : SUBSET Evidence, alert : Evidence,
          bytes : Amounts]

\* The shapes of the variables of ForensicUploads.
Shapes ==
    /\ flush \in [Evidence -> {"none", "collected", "created", "sending", "stored", "done"}]
    /\ label \in [Evidence -> {"none", "forensic", "uploaded"}]
    /\ content \in [Evidence -> Amounts]
    /\ uploader \in UploaderStates
    /\ cloud \in [Evidence -> SUBSET Amounts]
    /\ torn \subseteq Evidence

\* A file that was not caught before the write, and not cut short, has all of the evidence once its task
\* is past the write, and so has what the uploader read of it.
Honest(a) ==
    /\ label[a] = "uploaded" => "whole" \in cloud[a]
    /\ flush[a] = "stored" => "whole" \in cloud[a]
    /\ flush[a] \in {"none", "collected"} => label[a] = "none"
    /\ label[a] = "forensic" => content[a] = "whole" \/ flush[a] = "created"
    /\ uploader.step \in {"sending", "stored"} /\ uploader.alert = a =>
          uploader.bytes = "whole"
    /\ uploader.step = "stored" /\ uploader.alert = a => "whole" \in cloud[a]

UploadInv == Shapes /\ \A a \in Evidence \ torn : Honest(a)

-----------------------------------------------------------------------------

LEMMA InitUpload == Init => UploadInv
  BY DEF Init, ForensicInit, UploadInv, Shapes, Honest, UploaderStates, UploaderRests, Amounts

\* The task of an alert keeps the invariant.
LEMMA FlushUpload ==
  ASSUME UploadInv, NEW b \in Evidence, Collected(b) \/ Flush(b, host.endpoint)
  PROVE  UploadInv'
<1> USE DEF UploadInv, Shapes
<1>1. Shapes'
  <2>1. CASE Collected(b)
    BY <2>1 DEF Collected
  <2>2. CASE CreateFile(b)
    BY <2>2 DEF CreateFile
  <2>3. CASE WriteEvidence(b)
    BY <2>3 DEF WriteEvidence
  <2>4. CASE SendArrives(b)
    BY <2>4 DEF SendArrives, Stored, Amounts
  <2>5. CASE SendAnswered(b)
    BY <2>5 DEF SendAnswered, MarkUploaded
  <2>6. CASE SendFails(b)
    BY <2>6 DEF SendFails
  <2> QED
    BY <2>1, <2>2, <2>3, <2>4, <2>5, <2>6 DEF Flush
<1>2. torn \subseteq torn' /\ uploader' = uploader
  BY DEF Collected, Flush, CreateFile, WriteEvidence, SendArrives, SendAnswered, SendFails
<1>3. ASSUME NEW a \in Evidence \ torn'  PROVE Honest(a)'
  <2>0. Honest(a)
    BY <1>2
  <2>1. CASE Collected(b)
    BY <2>0, <2>1 DEF Collected, Honest
  <2>2. CASE CreateFile(b)
    BY <2>0, <2>2 DEF CreateFile, Honest
  <2>3. CASE WriteEvidence(b)
    BY <2>0, <2>3 DEF WriteEvidence, Honest
  <2>4. CASE SendArrives(b)
    BY <2>0, <2>4 DEF SendArrives, Stored, Honest
  <2>5. CASE SendAnswered(b)
    BY <2>0, <2>5 DEF SendAnswered, MarkUploaded, Honest
  <2>6. CASE SendFails(b)
    BY <2>0, <2>6 DEF SendFails, Honest
  <2> QED
    BY <2>1, <2>2, <2>3, <2>4, <2>5, <2>6 DEF Flush
<1> QED
  BY <1>1, <1>2, <1>3

\* So does the uploader: a file it reads before the write is torn from then on.
LEMMA UploaderUpload ==
  ASSUME UploadInv, UploaderStep
  PROVE  UploadInv'
<1> USE DEF UploadInv, Shapes
<1>1. CASE ListFiles
  <2>1. uploader' \in UploaderStates /\ uploader'.step = "next"
    BY <1>1 DEF ListFiles, UploaderStates
  <2> QED
    BY <1>1, <2>1 DEF ListFiles, Honest
<1>2. ASSUME NEW b \in Evidence, ReadFile(b)  PROVE UploadInv'
  <2>0. uploader.left \in SUBSET Evidence
    BY <1>2 DEF UploaderStates, ReadFile
  <2>1. CASE label[b] = "forensic"
    <3>1. /\ uploader'.step = "sending" /\ uploader'.alert = b
          /\ uploader'.bytes = content[b] /\ uploader' \in UploaderStates
      BY <1>2, <2>0, <2>1 DEF ReadFile, UploaderStates
    <3>2. torn \subseteq torn' /\ torn' \subseteq Evidence
      BY <1>2 DEF ReadFile
    <3>3. flush[b] = "created" => b \in torn'
      BY <1>2, <2>1 DEF ReadFile
    <3> QED
      BY <1>2, <2>1, <3>1, <3>2, <3>3 DEF ReadFile, Honest
  <2>2. CASE label[b] # "forensic"
    <3>1. uploader' \in UploaderStates /\ uploader'.step \in {"asleep", "next"}
      BY <1>2, <2>0, <2>2 DEF ReadFile, NextFile, UploaderRests, UploaderStates
    <3> QED
      BY <1>2, <2>2, <3>1 DEF ReadFile, Honest
  <2> QED
    BY <2>1, <2>2
<1>3. ASSUME NEW b \in Evidence, RetryArrives(b)  PROVE UploadInv'
  <2>1. /\ uploader' \in UploaderStates
        /\ uploader'.alert = uploader.alert /\ uploader'.bytes = uploader.bytes
        /\ uploader.bytes \in Amounts
    BY <1>3 DEF RetryArrives, UploaderStates
  <2> QED
    BY <1>3, <2>1 DEF RetryArrives, Stored, Honest
<1>4. ASSUME RetryAnswered \/ RetryFails  PROVE UploadInv'
  <2>1. uploader' \in UploaderStates /\ uploader'.step \in {"asleep", "next"}
    BY <1>4 DEF RetryAnswered, RetryFails, NextFile, UploaderRests, UploaderStates
  <2>2. CASE RetryFails
    BY <2>1, <2>2 DEF RetryFails, Honest
  <2>3. CASE RetryAnswered
    <3>1. uploader.alert \in Evidence
      BY <2>3 DEF RetryAnswered, UploaderStates
    <3> QED
      BY <2>1, <2>3, <3>1 DEF RetryAnswered, MarkUploaded, Honest
  <2> QED
    BY <1>4, <2>2, <2>3
<1> QED
  BY <1>1, <1>2, <1>3, <1>4 DEF UploaderStep

\* And a restart: a task that had created its file leaves it torn.
LEMMA RestartUpload ==
  ASSUME UploadInv, ForensicRestart
  PROVE  UploadInv'
<1> USE DEF UploadInv, Shapes
<1>1. uploader' \in UploaderStates /\ uploader'.step = "asleep"
  BY DEF ForensicRestart, UploaderRests, UploaderStates
<1> QED
  BY <1>1 DEF ForensicRestart, Honest

LEMMA UploadStep == UploadInv /\ [Next]_vars => UploadInv'
<1> SUFFICES ASSUME UploadInv, [Next]_vars  PROVE UploadInv'
  OBVIOUS
<1>1. CASE UNCHANGED forensicVars
  BY <1>1 DEF UploadInv, Shapes, Honest, forensicVars
<1>2. CASE CollectEvidence \/ \E a \in Evidence : FlushTask(a)
  BY <1>2, FlushUpload DEF CollectEvidence, FlushTask
<1>3. CASE Uploader
  BY <1>3, UploaderUpload DEF Uploader
<1>4. CASE Restart
  BY <1>4, RestartUpload DEF Restart
<1>5. CASE Listener \/ Console \/ Scan
           \/ \E t \in SyncTasks : CollectInventory(t) \/ PostInventory(t)
  BY <1>1, <1>5 DEF Listener, TriggerScan, SyncInventory, Console, Connect, Disconnect,
     ConsoleSends, Scan, CollectInventory, PostInventory
<1> QED
  BY <1>1, <1>2, <1>3, <1>4, <1>5 DEF Next, vars

\* A file is called uploaded_* only when the cloud has all of the evidence
\* (send_forensic_payload), for any number of alerts and restarts.
THEOREM UploadedIsStored == Spec => []UploadedIsInCloud
<1>1. UploadInv => UploadedIsInCloud
  BY DEF UploadInv, Honest, UploadedIsInCloud
<1> QED
  BY <1>1, InitUpload, UploadStep, PTL DEF Spec

-----------------------------------------------------------------------------
(* The lock files *)

\* A reader goes through the lines one by one, and its state is in X all along.
ReadsWithin(format, lines, X) ==
    \E f \in [0..Len(lines) -> X] :
        /\ f[0] = Reader
        /\ \A n \in 1..Len(lines) : f[n] = ReadLine(format, f[n - 1], lines[n])
        /\ Read(format, lines) = f[Len(lines)]

\* It does when no line takes it out of X.
LEMMA ReadSteps ==
  ASSUME NEW format, NEW lines, Len(lines) \in Nat, NEW X, Reader \in X,
         \A n \in 1..Len(lines), r \in X : ReadLine(format, r, lines[n]) \in X
  PROVE  ReadsWithin(format, lines, X)
<1> DEFINE N == Len(lines)
           after[n \in 0..N] ==
               IF n = 0 THEN Reader ELSE ReadLine(format, after[n - 1], lines[n])
           step == [nx \in (1..N) \X X |-> ReadLine(format, nx[2], lines[nx[1]])]
<1>1. Read(format, lines) = after[N]
  BY DEF Read
<1>2. N \in Nat
  OBVIOUS
<1>3. step \in [(1..N) \X X -> X]
  <2>1. \A nx \in (1..N) \X X : nx[1] \in 1..N /\ nx[2] \in X
    OBVIOUS
  <2> QED
    BY <2>1
<1>4. PICK f : Iterates(f, N, X, Reader, step)
  <2> HIDE DEF step, N
  <2> QED
    BY <1>2, <1>3, IterationExists
<1>5. /\ f \in [0..N -> X] /\ f[0] = Reader
      /\ \A n \in 1..N : f[n] = ReadLine(format, f[n - 1], lines[n])
  <2>1. f \in [0..N -> X] /\ f[0] = Reader /\ \A n \in 1..N : f[n] = step[<<n, f[n - 1]>>]
    BY <1>4 DEF Iterates
  <2>2. ASSUME NEW n \in 1..N PROVE f[n] = ReadLine(format, f[n - 1], lines[n])
    <3>1. f[n - 1] \in X
      BY <1>2, <2>1
    <3>2. <<n, f[n - 1]>> \in (1..N) \X X
      BY <3>1
    <3>3. step[<<n, f[n - 1]>>] = ReadLine(format, f[n - 1], lines[n])
      BY <3>2
    <3> QED
      BY <2>1, <3>3
  <2> QED
    BY <2>1, <2>2
<1>6. f = after
  <2>1. f = [n \in 0..N |->
                IF n = 0 THEN Reader ELSE ReadLine(format, f[n - 1], lines[n])]
    <3>1. \A n \in 0..N : f[n] = IF n = 0 THEN Reader ELSE ReadLine(format, f[n - 1], lines[n])
      <4> SUFFICES ASSUME NEW n \in 0..N
                   PROVE  f[n] = IF n = 0 THEN Reader ELSE ReadLine(format, f[n - 1], lines[n])
        OBVIOUS
      <4>1. CASE n = 0
        BY <1>5, <4>1
      <4>2. CASE n # 0
        <5>1. n \in 1..N
          BY <1>2, <4>2
        <5> QED
          BY <1>5, <4>2, <5>1
      <4> QED
        BY <4>1, <4>2
    <3> QED
      BY <1>5, <3>1
  <2>2. after = [n \in 0..N |->
                    IF n = 0 THEN Reader ELSE ReadLine(format, after[n - 1], lines[n])]
    <3> HIDE DEF N, step
    <3> QED
      BY <2>1
  <2> HIDE DEF after
  <2>3. \A n \in 0..N : f[n] = after[n]
    <3> DEFINE S == {n \in 0..N : f[n] = after[n]}
    <3>1. 0 \in S
      BY <1>2, <1>5, <2>2
    <3>2. ASSUME NEW n \in 1..N, n - 1 \in S PROVE n \in S
      <4>1. n \in 0..N /\ n # 0
        BY <1>2
      <4>2. after[n] = ReadLine(format, after[n - 1], lines[n])
        BY <2>2, <4>1
      <4> QED
        BY <1>5, <3>2, <4>1, <4>2
    <3> HIDE DEF S
    <3>3. 0..N \subseteq S
      BY <1>2, <3>1, <3>2, BoundedInduction
    <3> QED
      BY <3>3 DEF S
  <2> QED
    BY <1>5, <2>2, <2>3
<1> QED
  BY <1>1, <1>5, <1>6 DEF ReadsWithin

\* Flattened puts the lines of the packages one after the other.
OneAfterTheOther(n, lines) ==
    /\ DOMAIN Flattened(n, lines) = 1..(n * Len(lines))
    /\ \A k \in 1..Len(lines), j \in 1..n :
          /\ n * (k - 1) + j \in 1..(n * Len(lines))
          /\ Flattened(n, lines)[n * (k - 1) + j] = lines[k][j]
    /\ \A i \in 1..(n * Len(lines)) :
          \E k \in 1..Len(lines), j \in 1..n : i = n * (k - 1) + j

LEMMA FlattenedLines ==
  ASSUME NEW n \in {2, 3, 4}, NEW lines, Len(lines) \in Nat
  PROVE  Len(Flattened(n, lines)) = n * Len(lines) /\ OneAfterTheOther(n, lines)
<1> DEFINE L == Len(lines)
<1>0. L \in Nat
  OBVIOUS
<1> HIDE DEF L
<1>1. n * L \in Nat
  BY <1>0
<1>2. ASSUME NEW k \in 1..L, NEW j \in 1..n
      PROVE  /\ n * (k - 1) + j \in 1..(n * L)
             /\ (n * (k - 1) + j - 1) \div n + 1 = k
             /\ ((n * (k - 1) + j - 1) % n) + 1 = j
  <2>1. CASE n = 2
    BY <1>0, <1>2, <2>1
  <2>2. CASE n = 3
    BY <1>0, <1>2, <2>2
  <2>3. CASE n = 4
    BY <1>0, <1>2, <2>3
  <2> QED
    BY <2>1, <2>2, <2>3
<1>3. ASSUME NEW i \in 1..(n * L)
      PROVE  \E k \in 1..L, j \in 1..n : i = n * (k - 1) + j
  <2> DEFINE k == (i - 1) \div n + 1
             j == ((i - 1) % n) + 1
  <2>1. k \in 1..L /\ j \in 1..n /\ i = n * (k - 1) + j
    <3>1. CASE n = 2
      BY <1>0, <1>3, <3>1
    <3>2. CASE n = 3
      BY <1>0, <1>3, <3>2
    <3>3. CASE n = 4
      BY <1>0, <1>3, <3>3
    <3> QED
      BY <3>1, <3>2, <3>3
  <2> QED
    BY <2>1
<1>4. Len(Flattened(n, lines)) = n * L /\ DOMAIN Flattened(n, lines) = 1..(n * L)
  BY <1>1 DEF Flattened, L
<1>5. ASSUME NEW k \in 1..L, NEW j \in 1..n
      PROVE  Flattened(n, lines)[n * (k - 1) + j] = lines[k][j]
  <2>1. n * (k - 1) + j \in 1..(n * L)
    BY <1>2, <1>5
  <2>2. Flattened(n, lines)[n * (k - 1) + j]
           = lines[(n * (k - 1) + j - 1) \div n + 1][((n * (k - 1) + j - 1) % n) + 1]
    BY <2>1 DEF Flattened, L
  <2> QED
    BY <1>2, <1>5, <2>2
<1> QED
  BY <1>2, <1>3, <1>4, <1>5 DEF L, OneAfterTheOther

\* What the readers remember.
Readers == [deps : SUBSET Deps, name : Names \cup {None},
            version : Versions \cup {Constraint, None}, dev : BOOLEAN, in_specs : BOOLEAN]

State(deps, name, version, dev, in_specs) ==
    [deps |-> deps, name |-> name, version |-> version, dev |-> dev, in_specs |-> in_specs]

\* The first k packages of ps as production dependencies.
FirstDeps(ecosystem, ps, k) ==
    {Dep(ecosystem, <<ps[i].name>>, ps[i].version, FALSE) : i \in 1..k}

LEMMA PackageOf ==
  ASSUME NEW ps \in Seq(Packages(Versions))
  PROVE  /\ Len(ps) \in Nat /\ DOMAIN ps = 1..Len(ps)
         /\ \A k \in 1..Len(ps) : /\ ps[k] \in Packages(Versions)
                                  /\ ps[k].name \in Names /\ ps[k].version \in Versions
                                  /\ ps[k].dev \in BOOLEAN /\ ps[k].nested \in BOOLEAN
                                  /\ ps[k].name # None /\ ps[k].version # None
                                  /\ ps[k].version # Constraint
<1>1. Len(ps) \in Nat /\ DOMAIN ps = 1..Len(ps)
  OBVIOUS
<1>2. \A k \in 1..Len(ps) : ps[k] \in Packages(Versions)
  OBVIOUS
<1>3. \A p \in Packages(Versions) :
         /\ p.name \in Names /\ p.version \in Versions
         /\ p.dev \in BOOLEAN /\ p.nested \in BOOLEAN
  BY DEF Packages
<1>4. None \notin Names /\ None \notin Versions /\ Constraint \notin Versions
  BY LockFilesAssumption, VersionsAssumption
<1> HIDE DEF Packages
<1> QED
  BY <1>1, <1>2, <1>3, <1>4

\* What is read of a package is a dependency.
LEMMA DepIsDep ==
  ASSUME NEW ecosystem \in {"npm", "pip", "composer", "cargo", "go", "gem"},
         NEW name \in Names \cup {None}, NEW version \in Versions \cup {Constraint, OtherText},
         NEW dev \in BOOLEAN
  PROVE  Dep(ecosystem, <<name>>, version, dev) \in Deps
<1>1. <<name>> \in Seq(Names \cup {None, "parent"})
  OBVIOUS
<1> QED
  BY <1>1 DEF Dep, Deps

LEMMA ReaderIsReader == Reader \in Readers /\ Reader = State({}, None, None, FALSE, FALSE)
BY DEF Reader, Readers, State

\* Readers stay readers whatever field changes.
LEMMA ReaderExcept ==
  ASSUME NEW r \in Readers
  PROVE  /\ \A x \in Names \cup {None} : [r EXCEPT !.name = x] \in Readers
         /\ \A x \in Versions \cup {Constraint, None} : [r EXCEPT !.version = x] \in Readers
         /\ \A x \in BOOLEAN : [r EXCEPT !.dev = x] \in Readers
         /\ \A x \in BOOLEAN : [r EXCEPT !.in_specs = x] \in Readers
         /\ \A x \in Deps : [r EXCEPT !.deps = @ \cup {x}] \in Readers
         /\ \A x \in Deps : [r EXCEPT !.name = None, !.deps = @ \cup {x}] \in Readers
BY DEF Readers

\* The states of a reader along a file of a head of P lines, the lines of the packages,
\* and Q more lines.
ReadsBlocks(format, n, blocks, P, Q, lines) ==
    \E f \in [0..Len(lines) -> Readers] :
        /\ f[0] = Reader
        /\ \A i \in 1..P : f[i] = ReadLine(format, f[i - 1], lines[i])
        /\ \A k \in 1..Len(blocks), j \in 1..n :
              f[P + n * (k - 1) + j] =
                 ReadLine(format, f[P + n * (k - 1) + j - 1], blocks[k][j])
        /\ \A i \in 1..Q : f[P + n * Len(blocks) + i] =
              ReadLine(format, f[P + n * Len(blocks) + i - 1],
                       lines[P + n * Len(blocks) + i])
        /\ Read(format, lines) = f[Len(lines)]

LEMMA PlaceAmongLines ==
  ASSUME NEW P \in Nat, NEW N \in Nat, NEW Q \in Nat, NEW m \in Int, NEW j \in Int,
         m + j \in 1..N
  PROVE  P + (m + j) \in 1..(P + N + Q) /\ P + (m + j) = P + m + j
OBVIOUS

LEMMA ReadBlocks ==
  ASSUME NEW format, NEW n \in {2, 3, 4}, NEW blocks, Len(blocks) \in Nat,
         NEW P \in Nat, NEW Q \in Nat, NEW lines,
         Len(lines) = P + n * Len(blocks) + Q,
         \A i \in 1..(n * Len(blocks)) : lines[P + i] = Flattened(n, blocks)[i],
         \A r \in Readers :
            /\ \A i \in 1..P : ReadLine(format, r, lines[i]) \in Readers
            /\ \A k \in 1..Len(blocks), j \in 1..n :
                  ReadLine(format, r, blocks[k][j]) \in Readers
            /\ \A i \in 1..Q : ReadLine(format, r, lines[P + n * Len(blocks) + i]) \in Readers
  PROVE  ReadsBlocks(format, n, blocks, P, Q, lines)
<1> DEFINE L == Len(blocks)
           N == n * L
<1>1. L \in Nat /\ N \in Nat /\ Len(lines) = P + N + Q /\ Len(lines) \in Nat
  <2>1. CASE n = 2
    BY <2>1
  <2>2. CASE n = 3
    BY <2>2
  <2>3. CASE n = 4
    BY <2>3
  <2> QED
    BY <2>1, <2>2, <2>3
<1>2. /\ \A k \in 1..L, j \in 1..n :
            /\ n * (k - 1) + j \in 1..N
            /\ Flattened(n, blocks)[n * (k - 1) + j] = blocks[k][j]
      /\ \A i \in 1..N : \E k \in 1..L, j \in 1..n : i = n * (k - 1) + j
  <2>1. /\ \A k \in 1..Len(blocks), j \in 1..n :
            /\ n * (k - 1) + j \in 1..(n * Len(blocks))
            /\ Flattened(n, blocks)[n * (k - 1) + j] = blocks[k][j]
        /\ \A i \in 1..(n * Len(blocks)) :
              \E k \in 1..Len(blocks), j \in 1..n : i = n * (k - 1) + j
    <3>1. OneAfterTheOther(n, blocks)
      BY FlattenedLines
    <3> QED
      BY <3>1 DEF OneAfterTheOther
  <2> QED
    BY <2>1, Zenon DEF N, L
<1> HIDE DEF N, L
<1>3. \A k \in 1..L, j \in 1..n : lines[P + (n * (k - 1) + j)] = blocks[k][j]
  BY <1>2 DEF N, L
<1>4. ASSUME NEW i \in 1..Len(lines), NEW r \in Readers
      PROVE  ReadLine(format, r, lines[i]) \in Readers
  <2>1. CASE i \in 1..P
    BY <2>1
  <2>2. CASE i > P /\ i <= P + N
    <3>1. i - P \in 1..N /\ i = P + (i - P)
      BY <1>1, <2>2
    <3>2. PICK k \in 1..L, j \in 1..n : i - P = n * (k - 1) + j
      BY <1>2, <3>1
    <3>3. lines[i] = blocks[k][j]
      BY <1>3, <3>1, <3>2
    <3> QED
      BY <3>3 DEF L
  <2>3. CASE i > P + N
    <3>1. i - (P + N) \in 1..Q /\ i = P + N + (i - (P + N))
      BY <1>1, <2>3
    <3>2. \A m \in 1..Q : ReadLine(format, r, lines[P + N + m]) \in Readers
      BY DEF N, L
    <3> QED
      BY <3>1, <3>2
  <2> QED
    BY <1>1, <2>1, <2>2, <2>3
<1>5. PICK f \in [0..Len(lines) -> Readers] :
         /\ f[0] = Reader
         /\ \A i \in 1..Len(lines) : f[i] = ReadLine(format, f[i - 1], lines[i])
         /\ Read(format, lines) = f[Len(lines)]
  <2>1. /\ Len(lines) \in Nat /\ Reader \in Readers
        /\ \A i \in 1..Len(lines), r \in Readers : ReadLine(format, r, lines[i]) \in Readers
    BY <1>1, <1>4, ReaderIsReader
  <2>2. ReadsWithin(format, lines, Readers)
    BY <2>1, ReadSteps
  <2> QED
    BY <2>2 DEF ReadsWithin
<1>6. \A i \in 1..P : f[i] = ReadLine(format, f[i - 1], lines[i])
  <2>1. \A i \in 1..P : i \in 1..Len(lines)
    BY <1>1
  <2> QED
    BY <1>5, <2>1
<1>7. ASSUME NEW k \in 1..L, NEW j \in 1..n
      PROVE  f[P + n * (k - 1) + j] =
                ReadLine(format, f[P + n * (k - 1) + j - 1], blocks[k][j])
  <2>0. n \in Nat /\ k \in Nat /\ j \in Nat /\ n * (k - 1) \in Int
    <3>1. n \in Nat /\ k \in Nat /\ j \in Nat
      BY <1>1
    <3>2. CASE n = 2
      BY <3>1, <3>2
    <3>3. CASE n = 3
      BY <3>1, <3>3
    <3>4. CASE n = 4
      BY <3>1, <3>4
    <3> QED
      BY <3>1, <3>2, <3>3, <3>4
  <2>1. PICK m \in Int : m = n * (k - 1)
    BY <2>0
  <2>2. m + j \in 1..N /\ lines[P + (m + j)] = blocks[k][j]
    BY <1>2, <1>3, <2>1
  <2>3. P + (m + j) \in 1..Len(lines) /\ P + (m + j) = P + m + j
    <3>1. m \in Int /\ j \in Int /\ m + j \in 1..N
      BY <2>0, <2>2
    <3>2. P + (m + j) \in 1..(P + N + Q) /\ P + (m + j) = P + m + j
      BY <1>1, <3>1, PlaceAmongLines
    <3> QED
      BY <1>1, <3>2
  <2>4. f[P + m + j] = ReadLine(format, f[P + m + j - 1], blocks[k][j])
    <3>1. PICK h \in 1..Len(lines) : h = P + (m + j) /\ h = P + m + j
      BY <2>3
    <3>2. f[h] = ReadLine(format, f[h - 1], lines[h])
      BY <1>5, <3>1
    <3> QED
      BY <1>1, <2>0, <2>2, <3>1, <3>2
  <2> QED
    BY <2>1, <2>4
<1>8. ASSUME NEW i \in 1..Q
      PROVE  f[P + N + i] = ReadLine(format, f[P + N + i - 1], lines[P + N + i])
  <2>1. PICK h \in 1..Len(lines) : h = P + N + i
    BY <1>1
  <2>2. f[h] = ReadLine(format, f[h - 1], lines[h])
    BY <1>5, <2>1
  <2> QED
    BY <1>1, <2>1, <2>2
<1> QED
  BY <1>5, <1>6, <1>7, <1>8 DEF N, L, ReadsBlocks

\* From the state after one package to the state after the next, up to the last.
Advances(f, after, n, P, L) ==
    /\ f[P] = after[0]
    /\ \A k \in 1..L : f[P + n * (k - 1)] = after[k - 1] => f[P + n * k] = after[k]

Arrives(f, after, n, P, L) == f[P + n * L] = after[L]

LEMMA BlockInduction ==
  ASSUME NEW f, NEW after, NEW n \in {2, 3, 4}, NEW P \in Nat, NEW L \in Nat,
         Advances(f, after, n, P, L)
  PROVE  Arrives(f, after, n, P, L)
<1>a. /\ f[P] = after[0]
      /\ \A k \in 1..L : f[P + n * (k - 1)] = after[k - 1] => f[P + n * k] = after[k]
  BY DEF Advances
<1> DEFINE S == {k \in Nat : k <= L => f[P + n * k] = after[k]}
<1>1. 0 \in S
  <2>1. P + n * 0 = P
    OBVIOUS
  <2> QED
    BY <1>a, <2>1
<1>2. ASSUME NEW k \in 1..L, k - 1 \in S PROVE k \in S
  <2>1. k - 1 \in Nat /\ k - 1 <= L /\ k \in Nat
    OBVIOUS
  <2> QED
    BY <1>a, <1>2, <2>1
<1> HIDE DEF S
<1>3. L \in S
  <2>1. 0..L \subseteq S
    BY <1>1, <1>2, BoundedInduction
  <2> QED
    BY <2>1
<1> QED
  BY <1>3 DEF S, Arrives

\* yarn.lock: what an entry depends on has a version of its own, which is not taken
\* for the entry's.
LEMMA YarnLineOn ==
  ASSUME NEW D, NEW name, NEW x
  PROVE  /\ YarnLine(State(D, name, None, FALSE, FALSE), Line("margin", <<x>>)) =
               State(D, x, None, FALSE, FALSE)
         /\ name # None =>
               YarnLine(State(D, name, None, FALSE, FALSE), Line("version", x)) =
                  State(D \cup {Dep("npm", <<name>>, x, FALSE)}, None, None, FALSE, FALSE)
         /\ YarnLine(State(D, None, None, FALSE, FALSE), Line("version", x)) =
               State(D, None, None, FALSE, FALSE)
BY DEF YarnLine, Line, State

LEMMA YarnReads ==
  ASSUME NEW ps \in Seq(Packages(Versions))
  PROVE  ParseYarnLock(WriteYarnLock(ps)) = FirstDeps("npm", ps, Len(ps))
<1> DEFINE L == Len(ps)
           blocks == [k \in 1..L |->
               << Line("margin", <<ps[k].name>>), Line("version", ps[k].version),
                  Line("version", Constraint) >>]
           lines == WriteYarnLock(ps)
<1>1. L \in Nat /\ Len(blocks) = L
  BY PackageOf
<1>2. lines = Flattened(3, blocks)
  BY DEF WriteYarnLock
<1>3. \A k \in 1..L : /\ blocks[k][1] = Line("margin", <<ps[k].name>>)
                      /\ blocks[k][2] = Line("version", ps[k].version)
                      /\ blocks[k][3] = Line("version", Constraint)
  OBVIOUS
<1>4. \A k \in 1..L : /\ ps[k].name \in Names /\ ps[k].version \in Versions
                      /\ ps[k].name # None
  BY PackageOf
<1> HIDE DEF blocks, lines, L
<1>5. Len(lines) = 0 + 3 * Len(blocks) + 0
  <2>1. Len(Flattened(3, blocks)) = 3 * Len(blocks)
    BY <1>1, FlattenedLines
  <2> QED
    BY <1>1, <1>2, <2>1
<1>6. ASSUME NEW r \in Readers, NEW k \in 1..Len(blocks), NEW j \in 1..3
      PROVE  ReadLine("yarn.lock", r, blocks[k][j]) \in Readers
  <2>1. ReadLine("yarn.lock", r, blocks[k][j]) = YarnLine(r, blocks[k][j])
    BY DEF ReadLine
  <2>2. k \in 1..L /\ (j = 1 \/ j = 2 \/ j = 3)
    BY <1>1
  <2>3. CASE j = 1
    <3>1. blocks[k][j] = Line("margin", <<ps[k].name>>)
      BY <1>3, <2>2, <2>3
    <3>2. YarnLine(r, blocks[k][j]) = [r EXCEPT !.name = ps[k].name]
      BY <3>1 DEF YarnLine, Line
    <3>3. ps[k].name \in Names \cup {None}
      BY <1>4, <2>2
    <3>4. [r EXCEPT !.name = ps[k].name] \in Readers
      BY <3>3, ReaderExcept
    <3> QED
      BY <2>1, <3>2, <3>4
  <2>4. ASSUME NEW version \in Versions \cup {Constraint},
               blocks[k][j] = Line("version", version)
        PROVE  YarnLine(r, blocks[k][j]) \in Readers
    <3>1. CASE r.name = None
      <4>1. YarnLine(r, blocks[k][j]) = r
        BY <2>4, <3>1 DEF YarnLine, Line
      <4> QED
        BY <4>1
    <3>2. CASE r.name # None
      <4>1. YarnLine(r, blocks[k][j]) = [r EXCEPT !.name = None,
               !.deps = @ \cup {Dep("npm", <<r.name>>, version, FALSE)}]
        BY <2>4, <3>2 DEF YarnLine, Line
      <4>2. r.name \in Names \cup {None}
        BY DEF Readers
      <4>3. Dep("npm", <<r.name>>, version, FALSE) \in Deps
        BY <4>2, DepIsDep
      <4> QED
        BY <4>1, <4>3, ReaderExcept
    <3> QED
      BY <3>1, <3>2
  <2> QED
    BY <1>3, <1>4, <2>1, <2>2, <2>3, <2>4
<1>7. PICK f \in [0..Len(lines) -> Readers] :
         /\ f[0] = Reader
         /\ \A k \in 1..Len(blocks), j \in 1..3 :
               f[0 + 3 * (k - 1) + j] =
                  ReadLine("yarn.lock", f[0 + 3 * (k - 1) + j - 1], blocks[k][j])
         /\ Read("yarn.lock", lines) = f[Len(lines)]
  <2>1. \A i \in 1..(3 * Len(blocks)) : lines[0 + i] = Flattened(3, blocks)[i]
    BY <1>2
  <2>2. 0 \in Nat /\ Len(blocks) \in Nat /\ 3 \in {2, 3, 4}
    BY <1>1
  <2>3. \A i \in 1..0 : FALSE
    OBVIOUS
  <2>4. ReadsBlocks("yarn.lock", 3, blocks, 0, 0, lines)
    BY <1>5, <1>6, <2>1, <2>2, <2>3, ReadBlocks
  <2> QED
    BY <2>4 DEF ReadsBlocks
<1> DEFINE after == [k \in 0..L |-> State(FirstDeps("npm", ps, k), None, None, FALSE, FALSE)]
<1>8. f[0] = after[0]
  <2>1. 1..0 = {}
    OBVIOUS
  <2>2. FirstDeps("npm", ps, 0) = {}
    BY <2>1 DEF FirstDeps
  <2>3. after[0] = State(FirstDeps("npm", ps, 0), None, None, FALSE, FALSE)
    BY <1>1
  <2> QED
    BY <1>7, <2>2, <2>3, ReaderIsReader
<1>9. ASSUME NEW k \in 1..L, f[0 + 3 * (k - 1)] = after[k - 1]
      PROVE  f[0 + 3 * k] = after[k]
  <2> DEFINE D == FirstDeps("npm", ps, k - 1)
             name == ps[k].name
             version == ps[k].version
  <2>0. k \in 0..L /\ k - 1 \in 0..L /\ k \in 1..Len(blocks) /\ name # None
    BY <1>1, <1>4
  <2>1. PICK m \in Nat : m = 3 * (k - 1) /\ m + 3 = 3 * k
    BY <1>1
  <2>2. f[m] = State(D, None, None, FALSE, FALSE)
    BY <1>9, <2>0, <2>1
  <2>3. /\ f[m + 1] = YarnLine(f[m], Line("margin", <<name>>))
        /\ f[m + 2] = YarnLine(f[m + 1], Line("version", version))
        /\ f[m + 3] = YarnLine(f[m + 2], Line("version", Constraint))
    <3>1. /\ f[0 + 3 * (k - 1) + 1] =
                ReadLine("yarn.lock", f[0 + 3 * (k - 1) + 1 - 1], blocks[k][1])
          /\ f[0 + 3 * (k - 1) + 2] =
                ReadLine("yarn.lock", f[0 + 3 * (k - 1) + 2 - 1], blocks[k][2])
          /\ f[0 + 3 * (k - 1) + 3] =
                ReadLine("yarn.lock", f[0 + 3 * (k - 1) + 3 - 1], blocks[k][3])
      <4>1. 1 \in 1..3 /\ 2 \in 1..3 /\ 3 \in 1..3
        OBVIOUS
      <4> QED
        BY <1>7, <2>0, <4>1
    <3>2. /\ 0 + 3 * (k - 1) + 1 = m + 1 /\ 0 + 3 * (k - 1) + 1 - 1 = m
          /\ 0 + 3 * (k - 1) + 2 = m + 2 /\ 0 + 3 * (k - 1) + 2 - 1 = m + 1
          /\ 0 + 3 * (k - 1) + 3 = m + 3 /\ 0 + 3 * (k - 1) + 3 - 1 = m + 2
      BY <2>0, <2>1
    <3>3. \A r, l : ReadLine("yarn.lock", r, l) = YarnLine(r, l)
      BY DEF ReadLine
    <3> QED
      BY <1>3, <3>1, <3>2, <3>3
  <2>a. after[k] = State(FirstDeps("npm", ps, k), None, None, FALSE, FALSE)
    BY <2>0
  <2> HIDE DEF D, name, version, after
  <2>4. f[m + 1] = State(D, name, None, FALSE, FALSE)
    BY <2>2, <2>3, YarnLineOn
  <2>5. f[m + 2] = State(D \cup {Dep("npm", <<name>>, version, FALSE)}, None, None,
                         FALSE, FALSE)
    BY <2>0, <2>3, <2>4, YarnLineOn
  <2>6. f[m + 3] = f[m + 2]
    BY <2>3, <2>5, YarnLineOn
  <2>7. FirstDeps("npm", ps, k) = D \cup {Dep("npm", <<name>>, version, FALSE)}
    <3>1. 1..k = (1..(k - 1)) \cup {k}
      BY <2>0
    <3> QED
      BY <3>1 DEF FirstDeps, D, name, version
  <2> QED
    <3>1. f[m + 3] = after[k]
      BY <2>5, <2>6, <2>7, <2>a
    <3>2. 0 + 3 * k = m + 3
      BY <2>0, <2>1
    <3> QED
      BY <3>1, <3>2
<1>10. f[0 + 3 * L] = after[L]
  <2>1. 3 \in {2, 3, 4} /\ 0 \in Nat
    OBVIOUS
  <2>2. \A k \in 1..L : f[0 + 3 * (k - 1)] = after[k - 1] => f[0 + 3 * k] = after[k]
    BY <1>9
  <2>3. Advances(f, after, 3, 0, L)
    BY <1>8, <2>2 DEF Advances
  <2> HIDE DEF after
  <2>4. Arrives(f, after, 3, 0, L)
    BY <1>1, <2>1, <2>3, BlockInduction
  <2> QED
    BY <2>4 DEF Arrives
<1>11. Read("yarn.lock", lines) = State(FirstDeps("npm", ps, L), None, None, FALSE, FALSE)
  <2>1. after[L] = State(FirstDeps("npm", ps, L), None, None, FALSE, FALSE)
    BY <1>1
  <2> HIDE DEF after
  <2>2. Len(lines) = 0 + 3 * L
    BY <1>1, <1>5
  <2>3. Read("yarn.lock", lines) = f[0 + 3 * L]
    BY <1>7, <2>2
  <2> QED
    BY <1>10, <2>1, <2>3
<1> QED
  BY <1>11 DEF ParseYarnLock, lines, L, State

\* Lines after lines.
IsSequence(s) == Len(s) \in Nat /\ s = [i \in 1..Len(s) |-> s[i]]

Joined(s, t, u) ==
    /\ IsSequence(u) /\ Len(u) = Len(s) + Len(t)
    /\ \A i \in 1..Len(s) : u[i] = s[i]
    /\ \A i \in 1..Len(t) : u[Len(s) + i] = t[i]

LEMMA ConcatLines ==
  ASSUME NEW s, NEW t, IsSequence(s), IsSequence(t)
  PROVE  Joined(s, t, s \o t)
<1> DEFINE S == {s[i] : i \in 1..Len(s)} \cup {t[i] : i \in 1..Len(t)}
<1>1. s \in Seq(S) /\ t \in Seq(S)
  <2>1. \A i \in 1..Len(s) : s[i] \in S
    OBVIOUS
  <2>2. \A i \in 1..Len(t) : t[i] \in S
    OBVIOUS
  <2> HIDE DEF S
  <2>3. s \in [1..Len(s) -> S] /\ t \in [1..Len(t) -> S] /\ Len(s) \in Nat /\ Len(t) \in Nat
    BY <2>1, <2>2 DEF IsSequence
  <2> QED
    BY <2>3, SeqDef
<1> HIDE DEF S
<1>2. /\ s \o t \in Seq(S) /\ Len(s \o t) = Len(s) + Len(t)
      /\ \A i \in 1..(Len(s) + Len(t)) :
            (s \o t)[i] = IF i <= Len(s) THEN s[i] ELSE t[i - Len(s)]
  BY <1>1, ConcatProperties
<1>3. IsSequence(s \o t)
  <2>1. s \o t \in [1..Len(s \o t) -> S] /\ Len(s \o t) \in Nat
    BY <1>2, LenProperties
  <2> QED
    BY <2>1 DEF IsSequence
<1>4. Len(s) \in Nat /\ Len(t) \in Nat
  BY DEF IsSequence
<1>5. \A i \in 1..Len(s) : (s \o t)[i] = s[i]
  BY <1>2, <1>4
<1>6. ASSUME NEW i \in 1..Len(t) PROVE (s \o t)[Len(s) + i] = t[i]
  <2>1. PICK h \in 1..(Len(s) + Len(t)) : h = Len(s) + i /\ ~(h <= Len(s)) /\ h - Len(s) = i
    BY <1>4
  <2> QED
    BY <1>2, <2>1
<1> QED
  BY <1>2, <1>3, <1>5, <1>6 DEF Joined

LEMMA FlattenedSequence ==
  ASSUME NEW n \in {2, 3, 4}, NEW lines, Len(lines) \in Nat
  PROVE  IsSequence(Flattened(n, lines))
<1>1. PICK N \in Nat : N = n * Len(lines)
  <2>1. CASE n = 2
    BY <2>1
  <2>2. CASE n = 3
    BY <2>2
  <2>3. CASE n = 4
    BY <2>3
  <2> QED
    BY <2>1, <2>2, <2>3
<1>2. Flattened(n, lines) =
         [i \in 1..N |-> lines[(i - 1) \div n + 1][((i - 1) % n) + 1]]
  BY <1>1 DEF Flattened
<1> DEFINE g == [i \in 1..N |-> lines[(i - 1) \div n + 1][((i - 1) % n) + 1]]
<1>3. Len(g) = N /\ DOMAIN g = 1..N
  BY <1>1
<1>4. g = [i \in 1..N |-> g[i]]
  OBVIOUS
<1> HIDE DEF g
<1>5. IsSequence(g)
  BY <1>1, <1>3, <1>4 DEF IsSequence
<1> QED
  BY <1>2, <1>5 DEF g

\* Cargo.lock: the version of the format is nobody's.
LEMMA CargoLineOn ==
  ASSUME NEW D, NEW name, NEW x
  PROVE  /\ CargoLine(State(D, name, None, FALSE, FALSE), Line("name", x)) =
               State(D, x, None, FALSE, FALSE)
         /\ name # None =>
               CargoLine(State(D, name, None, FALSE, FALSE), Line("version", x)) =
                  State(D \cup {Dep("cargo", <<name>>, x, FALSE)}, None, None, FALSE, FALSE)
         /\ CargoLine(State(D, None, None, FALSE, FALSE), Line("version", x)) =
               State(D, None, None, FALSE, FALSE)
BY DEF CargoLine, Line, State

LEMMA CargoReads ==
  ASSUME NEW ps \in Seq(Packages(Versions))
  PROVE  ParseCargoLock(WriteCargoLock(ps)) = FirstDeps("cargo", ps, Len(ps))
<1> DEFINE L == Len(ps)
           blocks == [k \in 1..L |->
               << Line("name", ps[k].name), Line("version", ps[k].version) >>]
           lines == WriteCargoLock(ps)
           head == << Line("version", Constraint) >>
<1>1. L \in Nat /\ Len(blocks) = L
  BY PackageOf
<1>2. lines = head \o Flattened(2, blocks)
  BY DEF WriteCargoLock
<1>3. \A k \in 1..L : /\ blocks[k][1] = Line("name", ps[k].name)
                      /\ blocks[k][2] = Line("version", ps[k].version)
  OBVIOUS
<1>4. \A k \in 1..L : /\ ps[k].name \in Names /\ ps[k].version \in Versions
                      /\ ps[k].name # None
  BY PackageOf
<1>h. IsSequence(head) /\ Len(head) = 1 /\ head[1] = Line("version", Constraint)
  BY DEF IsSequence
<1> HIDE DEF blocks, lines, L, head
<1>5. /\ Len(lines) = 1 + 2 * Len(blocks) + 0
      /\ \A i \in 1..(2 * Len(blocks)) : lines[1 + i] = Flattened(2, blocks)[i]
      /\ lines[1] = Line("version", Constraint)
  <2>1. Len(Flattened(2, blocks)) = 2 * Len(blocks) /\ IsSequence(Flattened(2, blocks))
    BY <1>1, FlattenedLines, FlattenedSequence
  <2>2. Joined(head, Flattened(2, blocks), lines)
    BY <1>h, <1>2, <2>1, ConcatLines
  <2>3. Len(blocks) \in Nat /\ 1 \in 1..1
    BY <1>1
  <2> QED
    BY <1>h, <2>1, <2>2, <2>3 DEF Joined
<1>v. ASSUME NEW r \in Readers, NEW l, NEW version \in Versions \cup {Constraint},
             l = Line("version", version)
      PROVE  ReadLine("Cargo.lock", r, l) \in Readers
  <2>0. ReadLine("Cargo.lock", r, l) = CargoLine(r, l)
    BY DEF ReadLine
  <2>1. CASE r.name = None
    <3>1. CargoLine(r, l) = r
      BY <1>v, <2>1 DEF CargoLine, Line
    <3> QED
      BY <2>0, <3>1
  <2>2. CASE r.name # None
    <3>1. CargoLine(r, l) = [r EXCEPT !.name = None,
             !.deps = @ \cup {Dep("cargo", <<r.name>>, version, FALSE)}]
      BY <1>v, <2>2 DEF CargoLine, Line
    <3>2. r.name \in Names \cup {None}
      BY DEF Readers
    <3>3. Dep("cargo", <<r.name>>, version, FALSE) \in Deps
      BY <3>2, DepIsDep
    <3>4. CargoLine(r, l) \in Readers
      BY <3>1, <3>3, ReaderExcept
    <3> QED
      BY <2>0, <3>4
  <2> QED
    BY <2>1, <2>2
<1>6. ASSUME NEW r \in Readers, NEW k \in 1..Len(blocks), NEW j \in 1..2
      PROVE  ReadLine("Cargo.lock", r, blocks[k][j]) \in Readers
  <2>1. ReadLine("Cargo.lock", r, blocks[k][j]) = CargoLine(r, blocks[k][j])
    BY DEF ReadLine
  <2>2. k \in 1..L /\ (j = 1 \/ j = 2)
    BY <1>1
  <2>3. CASE j = 1
    <3>1. blocks[k][j] = Line("name", ps[k].name)
      BY <1>3, <2>2, <2>3
    <3>2. CargoLine(r, blocks[k][j]) = [r EXCEPT !.name = ps[k].name]
      BY <3>1 DEF CargoLine, Line
    <3>3. ps[k].name \in Names \cup {None}
      BY <1>4, <2>2
    <3>4. [r EXCEPT !.name = ps[k].name] \in Readers
      BY <3>3, ReaderExcept
    <3> QED
      BY <2>1, <3>2, <3>4
  <2>4. CASE j = 2
    BY <1>3, <1>4, <1>v, <2>2, <2>4
  <2> QED
    BY <2>2, <2>3, <2>4
<1>7. PICK f \in [0..Len(lines) -> Readers] :
         /\ f[0] = Reader
         /\ \A i \in 1..1 : f[i] = ReadLine("Cargo.lock", f[i - 1], lines[i])
         /\ \A k \in 1..Len(blocks), j \in 1..2 :
               f[1 + 2 * (k - 1) + j] =
                  ReadLine("Cargo.lock", f[1 + 2 * (k - 1) + j - 1], blocks[k][j])
         /\ Read("Cargo.lock", lines) = f[Len(lines)]
  <2>2. 0 \in Nat /\ 1 \in Nat /\ Len(blocks) \in Nat /\ 2 \in {2, 3, 4}
    BY <1>1
  <2>3. \A i \in 1..0 : FALSE
    OBVIOUS
  <2>4. \A i \in 1..1, r \in Readers : ReadLine("Cargo.lock", r, lines[i]) \in Readers
    BY <1>5, <1>v
  <2>5. ReadsBlocks("Cargo.lock", 2, blocks, 1, 0, lines)
    BY <1>5, <1>6, <2>2, <2>3, <2>4, ReadBlocks
  <2> QED
    BY <2>5 DEF ReadsBlocks
<1>r. \A r, l : ReadLine("Cargo.lock", r, l) = CargoLine(r, l)
  BY DEF ReadLine
<1> DEFINE after == [k \in 0..L |-> State(FirstDeps("cargo", ps, k), None, None, FALSE, FALSE)]
<1>8. f[1] = after[0]
  <2>1. 1..0 = {}
    OBVIOUS
  <2>2. FirstDeps("cargo", ps, 0) = {}
    BY <2>1 DEF FirstDeps
  <2>3. after[0] = State(FirstDeps("cargo", ps, 0), None, None, FALSE, FALSE)
    BY <1>1
  <2>4. f[1] = CargoLine(Reader, Line("version", Constraint))
    BY <1>5, <1>7, <1>r
  <2> QED
    BY <2>2, <2>3, <2>4, ReaderIsReader, CargoLineOn
<1>9. ASSUME NEW k \in 1..L, f[1 + 2 * (k - 1)] = after[k - 1]
      PROVE  f[1 + 2 * k] = after[k]
  <2> DEFINE D == FirstDeps("cargo", ps, k - 1)
             name == ps[k].name
             version == ps[k].version
  <2>0. k \in 0..L /\ k - 1 \in 0..L /\ k \in 1..Len(blocks) /\ name # None
    BY <1>1, <1>4
  <2>1. PICK m \in Nat : m = 1 + 2 * (k - 1) /\ m + 2 = 1 + 2 * k
    BY <1>1
  <2>2. f[m] = State(D, None, None, FALSE, FALSE)
    BY <1>9, <2>0, <2>1
  <2>3. /\ f[m + 1] = CargoLine(f[m], Line("name", name))
        /\ f[m + 2] = CargoLine(f[m + 1], Line("version", version))
    <3>1. /\ f[1 + 2 * (k - 1) + 1] =
                ReadLine("Cargo.lock", f[1 + 2 * (k - 1) + 1 - 1], blocks[k][1])
          /\ f[1 + 2 * (k - 1) + 2] =
                ReadLine("Cargo.lock", f[1 + 2 * (k - 1) + 2 - 1], blocks[k][2])
      <4>1. 1 \in 1..2 /\ 2 \in 1..2
        OBVIOUS
      <4> QED
        BY <1>7, <2>0, <4>1
    <3>2. /\ 1 + 2 * (k - 1) + 1 = m + 1 /\ 1 + 2 * (k - 1) + 1 - 1 = m
          /\ 1 + 2 * (k - 1) + 2 = m + 2 /\ 1 + 2 * (k - 1) + 2 - 1 = m + 1
      BY <2>0, <2>1
    <3> QED
      BY <1>3, <1>r, <3>1, <3>2
  <2>a. after[k] = State(FirstDeps("cargo", ps, k), None, None, FALSE, FALSE)
    BY <2>0
  <2> HIDE DEF D, name, version, after
  <2>4. f[m + 1] = State(D, name, None, FALSE, FALSE)
    BY <2>2, <2>3, CargoLineOn
  <2>5. f[m + 2] = State(D \cup {Dep("cargo", <<name>>, version, FALSE)}, None, None,
                         FALSE, FALSE)
    <3>1. name # None
      BY <2>0
    <3>2. f[m + 2] = CargoLine(State(D, name, None, FALSE, FALSE), Line("version", version))
      BY <2>3, <2>4
    <3> QED
      BY <3>1, <3>2, CargoLineOn
  <2>7. FirstDeps("cargo", ps, k) = D \cup {Dep("cargo", <<name>>, version, FALSE)}
    <3>1. 1..k = (1..(k - 1)) \cup {k}
      BY <2>0
    <3> QED
      BY <3>1 DEF FirstDeps, D, name, version
  <2> QED
    <3>1. f[m + 2] = after[k]
      BY <2>5, <2>7, <2>a
    <3>2. 1 + 2 * k = m + 2
      BY <2>0, <2>1
    <3> QED
      BY <3>1, <3>2
<1>10. f[1 + 2 * L] = after[L]
  <2>1. 2 \in {2, 3, 4} /\ 1 \in Nat
    OBVIOUS
  <2>2. \A k \in 1..L : f[1 + 2 * (k - 1)] = after[k - 1] => f[1 + 2 * k] = after[k]
    BY <1>9
  <2>3. Advances(f, after, 2, 1, L)
    BY <1>8, <2>2 DEF Advances
  <2> HIDE DEF after
  <2>4. Arrives(f, after, 2, 1, L)
    BY <1>1, <2>1, <2>3, BlockInduction
  <2> QED
    BY <2>4 DEF Arrives
<1>11. Read("Cargo.lock", lines) = State(FirstDeps("cargo", ps, L), None, None, FALSE, FALSE)
  <2>1. Len(lines) = 1 + 2 * L
    BY <1>1, <1>5
  <2>2. after[L] = State(FirstDeps("cargo", ps, L), None, None, FALSE, FALSE)
    BY <1>1
  <2> QED
    BY <1>7, <1>10, <2>1, <2>2
<1> QED
  BY <1>11 DEF ParseCargoLock, lines, L, State

\* Names that stand for the truth values in a reader.
Yes == TRUE
No  == FALSE

GemDep(name, version) == Dep("gem", <<name>>, version, FALSE)

\* Gemfile.lock: what a gem depends on is read as well, with its constraint.
GemDeps(ps, k) ==
    FirstDeps("gem", ps, k) \cup {Dep("gem", <<ps[1].name>>, Constraint, FALSE) : i \in 1..k}

\* A reader is what it remembers.
LEMMA ReaderState ==
  ASSUME NEW r \in Readers
  PROVE  /\ r = State(r.deps, r.name, r.version, r.dev, r.in_specs)
         /\ r.deps \subseteq Deps /\ r.name \in Names \cup {None}
         /\ r.version \in Versions \cup {Constraint, None}
         /\ r.dev \in BOOLEAN /\ r.in_specs \in BOOLEAN
BY DEF State, Readers

LEMMA StateReader ==
  ASSUME NEW D \in SUBSET Deps, NEW name \in Names \cup {None},
         NEW version \in Versions \cup {Constraint, None}, NEW dev \in BOOLEAN,
         NEW b \in BOOLEAN
  PROVE  State(D, name, version, dev, b) \in Readers
BY DEF State, Readers

LEMMA GemSpecs ==
  ASSUME NEW D, NEW nm, NEW v, NEW dev, NEW b, NEW version
  PROVE  GemLine(State(D, nm, v, dev, b), Indented(2, "specs:", version)) =
            State(D, nm, v, dev, Yes)
<1> DEFINE l == Indented(2, "specs:", version)
           s == State(D, nm, v, dev, b)
<1>1. l.indent = 2 /\ l.name = "specs:" /\ l.version = version
  BY DEF Indented
<1>2. s.in_specs = b /\ s.deps = D
  BY DEF State
<1>a. \A x : [s EXCEPT !.in_specs = x] = State(D, nm, v, dev, x)
  BY DEF State
<1>b. \A x : [s EXCEPT !.deps = x] = State(x, nm, v, dev, b)
  BY DEF State
<1> HIDE DEF l, s
<1>4. GemLine(s, l) = [s EXCEPT !.in_specs = Yes]
  BY <1>1 DEF GemLine, Yes
<1>5. GemLine(s, l) = State(D, nm, v, dev, Yes)
  BY <1>a, <1>b, <1>4
<1> QED
  BY <1>5 DEF l, s

LEMMA GemSection ==
  ASSUME NEW D, NEW nm, NEW v, NEW dev, NEW b, NEW n, NEW name, NEW version,
         n \in {0, 2}, name # "specs:"
  PROVE  GemLine(State(D, nm, v, dev, b), Indented(n, name, version)) =
            State(D, nm, v, dev, No)
<1> DEFINE l == Indented(n, name, version)
           s == State(D, nm, v, dev, b)
<1>1. l.indent = n /\ l.name = name /\ l.version = version
  BY DEF Indented
<1>2. s.in_specs = b /\ s.deps = D
  BY DEF State
<1>a. \A x : [s EXCEPT !.in_specs = x] = State(D, nm, v, dev, x)
  BY DEF State
<1>b. \A x : [s EXCEPT !.deps = x] = State(x, nm, v, dev, b)
  BY DEF State
<1> HIDE DEF l, s
<1>4. GemLine(s, l) = [s EXCEPT !.in_specs = No]
  <2>1. l.name # "specs:" /\ l.indent < 4 /\ ~(l.indent >= 4)
    BY <1>1
  <2> QED
    BY <2>1 DEF GemLine, No
<1>5. GemLine(s, l) = State(D, nm, v, dev, No)
  BY <1>a, <1>b, <1>4
<1> QED
  BY <1>5 DEF l, s

LEMMA GemAdds ==
  ASSUME NEW D, NEW nm, NEW v, NEW dev, NEW n, NEW name, NEW version,
         n \in {4, 6}, version # None
  PROVE  GemLine(State(D, nm, v, dev, Yes), Indented(n, name, version)) =
            State(D \cup {GemDep(name, version)}, nm, v, dev, Yes)
<1> DEFINE l == Indented(n, name, version)
           s == State(D, nm, v, dev, Yes)
<1>1. l.indent = n /\ l.name = name /\ l.version = version
  BY DEF Indented
<1>2. s.in_specs = TRUE /\ s.deps = D
  BY DEF State, Yes
<1>a. \A x : [s EXCEPT !.in_specs = x] = State(D, nm, v, dev, x)
  BY DEF State
<1>b. \A x : [s EXCEPT !.deps = x] = State(x, nm, v, dev, Yes)
  BY DEF State
<1> HIDE DEF l, s
<1>4. GemLine(s, l) = [s EXCEPT !.deps = D \cup {GemDep(name, version)}]
  <2>1. l.indent # 2 /\ ~(l.indent < 4) /\ l.indent >= 4 /\ s.in_specs /\ l.version # None
    BY <1>1, <1>2
  <2>2. GemLine(s, l) = [s EXCEPT !.deps = s.deps \cup {Dep("gem", <<l.name>>, l.version, FALSE)}]
    BY <2>1 DEF GemLine, Yes
  <2> QED
    BY <1>1, <1>2, <2>2 DEF GemDep
<1>5. GemLine(s, l) = State(D \cup {GemDep(name, version)}, nm, v, dev, Yes)
  BY <1>a, <1>b, <1>4
<1> QED
  BY <1>5 DEF l, s

LEMMA GemIgnores ==
  ASSUME NEW D, NEW nm, NEW v, NEW dev, NEW b, NEW n, NEW name,
         NEW version, b \in BOOLEAN, n \in {4, 6}, version = None \/ ~b
  PROVE  GemLine(State(D, nm, v, dev, b), Indented(n, name, version)) = State(D, nm, v, dev, b)
<1> DEFINE l == Indented(n, name, version)
           s == State(D, nm, v, dev, b)
<1>1. l.indent = n /\ l.name = name /\ l.version = version
  BY DEF Indented
<1>2. s.in_specs = b /\ s.deps = D
  BY DEF State
<1>a. \A x : [s EXCEPT !.in_specs = x] = State(D, nm, v, dev, x)
  BY DEF State
<1>b. \A x : [s EXCEPT !.deps = x] = State(x, nm, v, dev, b)
  BY DEF State
<1> HIDE DEF l, s
<1>4. /\ ~(l.indent = 2 /\ l.name = "specs:")
      /\ ~(l.indent < 4 /\ l.name # "specs:")
      /\ ~(l.indent >= 4 /\ s.in_specs /\ l.version # None)
  BY <1>1, <1>2
<1>5. GemLine(s, l) = s
  BY <1>4, Zenon DEF GemLine
<1> QED
  BY <1>5 DEF l, s

LEMMA GemMargin ==
  ASSUME NEW D, NEW nm, NEW v, NEW dev, NEW b, NEW version
  PROVE  GemLine(State(D, nm, v, dev, b), Indented(0, "specs:", version)) =
            State(D, nm, v, dev, b)
<1> DEFINE l == Indented(0, "specs:", version)
           s == State(D, nm, v, dev, b)
<1>1. l.indent = 0 /\ l.name = "specs:" /\ l.version = version
  BY DEF Indented
<1>2. s.in_specs = b /\ s.deps = D
  BY DEF State
<1>a. \A x : [s EXCEPT !.in_specs = x] = State(D, nm, v, dev, x)
  BY DEF State
<1>b. \A x : [s EXCEPT !.deps = x] = State(x, nm, v, dev, b)
  BY DEF State
<1> HIDE DEF l, s
<1>4. /\ ~(l.indent = 2 /\ l.name = "specs:")
      /\ ~(l.indent < 4 /\ l.name # "specs:")
      /\ ~(l.indent >= 4 /\ s.in_specs /\ l.version # None)
  BY <1>1, <1>2
<1>5. GemLine(s, l) = s
  BY <1>4, Zenon DEF GemLine
<1> QED
  BY <1>5 DEF l, s


\* A line at the margin, or a section's entry, says nothing of packages.
LEMMA GemOutside ==
  ASSUME NEW r \in Readers, NEW n \in {0, 2}, NEW name, NEW version
  PROVE  /\ ReadLine("Gemfile.lock", r, Indented(n, name, version)) \in Readers
         /\ ReadLine("Gemfile.lock", r, Indented(n, name, version)).deps = r.deps
<1> DEFINE l == Indented(n, name, version)
           s(b) == State(r.deps, r.name, r.version, r.dev, b)
<1>1. ReadLine("Gemfile.lock", r, l) = GemLine(s(r.in_specs), l)
  BY ReaderState DEF ReadLine
<1>2. r.in_specs \in BOOLEAN /\ n \in {0, 2, 4, 6}
  BY ReaderState
<1>3. ASSUME NEW b \in BOOLEAN PROVE s(b) \in Readers /\ s(b).deps = r.deps
  <2>1. s(b).deps = r.deps
    BY DEF State
  <2> QED
    BY <2>1, ReaderState, StateReader
<1>4. \/ GemLine(s(r.in_specs), l) = s(r.in_specs)
      \/ GemLine(s(r.in_specs), l) = s(Yes)
      \/ GemLine(s(r.in_specs), l) = s(No)
  <2>1. CASE name # "specs:"
    BY <1>2, <2>1, GemSection
  <2>2. CASE name = "specs:" /\ n = 2
    BY <1>2, <2>2, GemSpecs
  <2>3. CASE name = "specs:" /\ n = 0
    BY <1>2, <2>3, GemMargin
  <2> QED
    BY <2>1, <2>2, <2>3
<1> HIDE DEF l, s
<1>5. s(Yes) \in Readers /\ s(No) \in Readers /\ s(Yes).deps = r.deps /\ s(No).deps = r.deps
  BY <1>3 DEF Yes, No
<1>6. s(r.in_specs) \in Readers /\ s(r.in_specs).deps = r.deps
  BY <1>2, <1>3
<1>7. ReadLine("Gemfile.lock", r, l) \in Readers /\ ReadLine("Gemfile.lock", r, l).deps = r.deps
  BY <1>1, <1>4, <1>5, <1>6
<1> QED
  BY <1>7 DEF l

\* A line below specs adds what it says, if it has a version.
LEMMA GemInside ==
  ASSUME NEW r \in Readers, NEW n \in {4, 6}, NEW name,
         NEW version \in Versions \cup {Constraint, None},
         version # None => name \in Names
  PROVE  ReadLine("Gemfile.lock", r, Indented(n, name, version)) \in Readers
<1> DEFINE l == Indented(n, name, version)
           s(D) == State(D, r.name, r.version, r.dev, r.in_specs)
           d == GemDep(name, version)
<1>1. ReadLine("Gemfile.lock", r, l) = GemLine(s(r.deps), l)
  BY ReaderState DEF ReadLine
<1>2. r.in_specs \in BOOLEAN /\ n \in {0, 2, 4, 6} /\ r.deps \subseteq Deps
  BY ReaderState
<1>3. CASE version = None \/ ~r.in_specs
  <2>1. GemLine(s(r.deps), l) = s(r.deps)
    BY <1>2, <1>3, GemIgnores
  <2> QED
    BY <1>1, <2>1, ReaderState
<1>4. CASE version # None /\ r.in_specs
  <2>t. r.in_specs = Yes
    BY <1>4, <1>2 DEF Yes
  <2>1. GemLine(s(r.deps), l) = s(r.deps \cup {d})
    <3>1. version # None
      BY <1>4
    <3>2. GemLine(State(r.deps, r.name, r.version, r.dev, Yes), l) =
             State(r.deps \cup {d}, r.name, r.version, r.dev, Yes)
      BY <3>1, GemAdds
    <3> QED
      BY <2>t, <3>2
  <2>2. d \in Deps
    BY <1>4, DepIsDep DEF GemDep
  <2> HIDE DEF d, l
  <2>3. r.deps \cup {d} \in SUBSET Deps
    BY <1>2, <2>2
  <2>4. s(r.deps \cup {d}) \in Readers
    BY <2>3, ReaderState, StateReader
  <2>5. ReadLine("Gemfile.lock", r, l) \in Readers
    BY <1>1, <2>1, <2>4
  <2> QED
    BY <2>5 DEF l
<1> QED
  BY <1>3, <1>4

LEMMA GemReads ==
  ASSUME NEW ps \in Seq(Packages(Versions))
  PROVE  ParseGemfileLock(WriteGemfileLock(ps)) = GemDeps(ps, Len(ps))
<1> DEFINE L == Len(ps)
           first == ps[1].name
           blocks == [k \in 1..L |->
               << Indented(4, ps[k].name, ps[k].version), Indented(6, first, Constraint),
                  Indented(6, "parent", None) >>]
           lines == WriteGemfileLock(ps)
           head == << Indented(0, "GEM", None), Indented(2, "remote:", None),
                      Indented(2, "specs:", None) >>
           tail == << Indented(0, "DEPENDENCIES", None), Indented(2, first, Constraint) >>
<1>1. L \in Nat /\ Len(blocks) = L
  BY PackageOf
<1>2. lines = (head \o Flattened(3, blocks)) \o tail
  BY DEF WriteGemfileLock
<1>3. \A k \in 1..L : /\ blocks[k][1] = Indented(4, ps[k].name, ps[k].version)
                      /\ blocks[k][2] = Indented(6, first, Constraint)
                      /\ blocks[k][3] = Indented(6, "parent", None)
  OBVIOUS
<1>4. \A k \in 1..L : /\ ps[k].name \in Names /\ ps[k].version \in Versions
                      /\ ps[k].version # None /\ first \in Names
  <2>1. \A k \in 1..L : k \in 1..Len(ps) /\ 1 \in 1..Len(ps)
    BY <1>1
  <2> QED
    BY <2>1, PackageOf
<1>n. Constraint # None
  BY VersionsAssumption
<1>h. /\ IsSequence(head) /\ Len(head) = 3 /\ head[1] = Indented(0, "GEM", None)
      /\ head[2] = Indented(2, "remote:", None) /\ head[3] = Indented(2, "specs:", None)
  BY DEF IsSequence
<1>t. /\ IsSequence(tail) /\ Len(tail) = 2 /\ tail[1] = Indented(0, "DEPENDENCIES", None)
      /\ tail[2] = Indented(2, first, Constraint)
  BY DEF IsSequence
<1> HIDE DEF blocks, lines, L, head, tail, first
<1>5. /\ Len(lines) = 3 + 3 * Len(blocks) + 2
      /\ \A i \in 1..(3 * Len(blocks)) : lines[3 + i] = Flattened(3, blocks)[i]
      /\ \A i \in 1..3 : lines[i] = head[i]
      /\ \A i \in 1..2 : lines[3 + 3 * Len(blocks) + i] = tail[i]
  <2>1. Len(Flattened(3, blocks)) = 3 * Len(blocks) /\ IsSequence(Flattened(3, blocks))
    BY <1>1, FlattenedLines, FlattenedSequence
  <2>2. Joined(head, Flattened(3, blocks), head \o Flattened(3, blocks))
    BY <1>h, <2>1, ConcatLines
  <2>0. IsSequence(head \o Flattened(3, blocks))
    BY <2>2 DEF Joined
  <2>3. Joined(head \o Flattened(3, blocks), tail, lines)
    BY <1>2, <1>t, <2>0, ConcatLines
  <2>4. PICK u : u = head \o Flattened(3, blocks)
    OBVIOUS
  <2>5. /\ Len(u) = 3 + 3 * Len(blocks)
        /\ \A i \in 1..3 : u[i] = head[i]
        /\ \A i \in 1..(3 * Len(blocks)) : u[3 + i] = Flattened(3, blocks)[i]
    BY <1>h, <2>1, <2>2, <2>4 DEF Joined
  <2>6. /\ Len(lines) = Len(u) + 2
        /\ \A i \in 1..Len(u) : lines[i] = u[i]
        /\ \A i \in 1..2 : lines[Len(u) + i] = tail[i]
    BY <1>t, <2>3, <2>4 DEF Joined
  <2> QED
    BY <1>1, <2>5, <2>6
<1>6. ASSUME NEW r \in Readers
      PROVE  /\ \A i \in 1..3 : ReadLine("Gemfile.lock", r, lines[i]) \in Readers
             /\ \A k \in 1..Len(blocks), j \in 1..3 :
                   ReadLine("Gemfile.lock", r, blocks[k][j]) \in Readers
             /\ \A i \in 1..2 :
                   ReadLine("Gemfile.lock", r, lines[3 + 3 * Len(blocks) + i]) \in Readers
  <2>1. ASSUME NEW i \in 1..3 PROVE ReadLine("Gemfile.lock", r, lines[i]) \in Readers
    <3>1. PICK n, name : n \in {0, 2} /\ head[i] = Indented(n, name, None)
      BY <1>h, <2>1
    <3> QED
      BY <1>5, <3>1, GemOutside
  <2>2. ASSUME NEW i \in 1..2
        PROVE  ReadLine("Gemfile.lock", r, lines[3 + 3 * Len(blocks) + i]) \in Readers
    <3>1. lines[3 + 3 * Len(blocks) + i] = tail[i]
      BY <1>5, <2>2
    <3>2. CASE i = 1
      BY <1>t, <3>1, <3>2, GemOutside
    <3>3. CASE i = 2
      BY <1>t, <3>1, <3>3, GemOutside
    <3> QED
      BY <3>2, <3>3
  <2>3. ASSUME NEW k \in 1..Len(blocks), NEW j \in 1..3
        PROVE  ReadLine("Gemfile.lock", r, blocks[k][j]) \in Readers
    <3>0. k \in 1..L /\ (j = 1 \/ j = 2 \/ j = 3) /\ 4 \in {4, 6} /\ 6 \in {4, 6}
      BY <1>1
    <3>1. CASE j = 1
      BY <1>3, <1>4, <3>0, <3>1, GemInside
    <3>2. CASE j = 2
      BY <1>3, <1>4, <3>0, <3>2, GemInside
    <3>3. CASE j = 3
      BY <1>3, <3>0, <3>3, GemInside
    <3> QED
      BY <3>0, <3>1, <3>2, <3>3
  <2> QED
    BY <2>1, <2>2, <2>3
<1>7. PICK f \in [0..Len(lines) -> Readers] :
         /\ f[0] = Reader
         /\ \A i \in 1..3 : f[i] = ReadLine("Gemfile.lock", f[i - 1], lines[i])
         /\ \A k \in 1..Len(blocks), j \in 1..3 :
               f[3 + 3 * (k - 1) + j] =
                  ReadLine("Gemfile.lock", f[3 + 3 * (k - 1) + j - 1], blocks[k][j])
         /\ \A i \in 1..2 : f[3 + 3 * Len(blocks) + i] =
               ReadLine("Gemfile.lock", f[3 + 3 * Len(blocks) + i - 1],
                        lines[3 + 3 * Len(blocks) + i])
         /\ Read("Gemfile.lock", lines) = f[Len(lines)]
  <2>2. 3 \in Nat /\ 2 \in Nat /\ Len(blocks) \in Nat /\ 3 \in {2, 3, 4}
    BY <1>1
  <2>5. ReadsBlocks("Gemfile.lock", 3, blocks, 3, 2, lines)
    BY <1>5, <1>6, <2>2, ReadBlocks
  <2> QED
    BY <2>5 DEF ReadsBlocks
<1>r. \A r, l : ReadLine("Gemfile.lock", r, l) = GemLine(r, l)
  BY DEF ReadLine
<1> DEFINE after == [k \in 0..L |-> State(GemDeps(ps, k), None, None, No, Yes)]
<1>8. f[3] = after[0]
  <2>1. 1..0 = {}
    OBVIOUS
  <2>2. GemDeps(ps, 0) = {}
    BY <2>1 DEF GemDeps, FirstDeps
  <2>3. after[0] = State({}, None, None, No, Yes)
    BY <1>1, <2>2
  <2>4. /\ f[1] = GemLine(f[0], lines[1])
        /\ f[2] = GemLine(f[1], lines[2])
        /\ f[3] = GemLine(f[2], lines[3])
    <3>1. 1 \in 1..3 /\ 2 \in 1..3 /\ 3 \in 1..3 /\ 1 - 1 = 0 /\ 2 - 1 = 1 /\ 3 - 1 = 2
      OBVIOUS
    <3> QED
      BY <1>7, <1>r, <3>1
  <2>5. /\ lines[1] = Indented(0, "GEM", None) /\ lines[2] = Indented(2, "remote:", None)
        /\ lines[3] = Indented(2, "specs:", None)
    BY <1>5, <1>h
  <2>6. /\ FALSE \in BOOLEAN /\ 0 \in {0, 2} /\ 2 \in {0, 2}
        /\ 0 \in {0, 2, 4, 6} /\ 2 \in {0, 2, 4, 6}
        /\ "GEM" # "specs:" /\ "remote:" # "specs:"
    OBVIOUS
  <2>7. f[1] = State({}, None, None, No, No)
    <3>1. f[0] = State({}, None, None, No, No)
      BY <1>7, ReaderIsReader DEF No
    <3> QED
      BY <2>4, <2>5, <2>6, <3>1, GemSection
  <2>8. f[2] = State({}, None, None, No, No)
    BY <2>4, <2>5, <2>6, <2>7, GemSection
  <2>9. f[3] = State({}, None, None, No, Yes)
    BY <2>4, <2>5, <2>6, <2>8, GemSpecs
  <2> QED
    BY <2>3, <2>9
<1>9. ASSUME NEW k \in 1..L, f[3 + 3 * (k - 1)] = after[k - 1]
      PROVE  f[3 + 3 * k] = after[k]
  <2> DEFINE D == GemDeps(ps, k - 1)
             name == ps[k].name
             version == ps[k].version
             E == D \cup {GemDep(name, version)}
             F == E \cup {GemDep(first, Constraint)}
  <2>0. k \in 0..L /\ k - 1 \in 0..L /\ k \in 1..Len(blocks) /\ version # None
    BY <1>1, <1>4
  <2>1. PICK m \in Nat : m = 3 + 3 * (k - 1) /\ m + 3 = 3 + 3 * k
    BY <1>1
  <2>2. f[m] = State(D, None, None, No, Yes)
    BY <1>9, <2>0, <2>1
  <2>3. /\ f[m + 1] = GemLine(f[m], Indented(4, name, version))
        /\ f[m + 2] = GemLine(f[m + 1], Indented(6, first, Constraint))
        /\ f[m + 3] = GemLine(f[m + 2], Indented(6, "parent", None))
    <3>1. /\ f[3 + 3 * (k - 1) + 1] =
                ReadLine("Gemfile.lock", f[3 + 3 * (k - 1) + 1 - 1], blocks[k][1])
          /\ f[3 + 3 * (k - 1) + 2] =
                ReadLine("Gemfile.lock", f[3 + 3 * (k - 1) + 2 - 1], blocks[k][2])
          /\ f[3 + 3 * (k - 1) + 3] =
                ReadLine("Gemfile.lock", f[3 + 3 * (k - 1) + 3 - 1], blocks[k][3])
      <4>1. 1 \in 1..3 /\ 2 \in 1..3 /\ 3 \in 1..3
        OBVIOUS
      <4> QED
        BY <1>7, <2>0, <4>1
    <3>2. /\ 3 + 3 * (k - 1) + 1 = m + 1 /\ 3 + 3 * (k - 1) + 1 - 1 = m
          /\ 3 + 3 * (k - 1) + 2 = m + 2 /\ 3 + 3 * (k - 1) + 2 - 1 = m + 1
          /\ 3 + 3 * (k - 1) + 3 = m + 3 /\ 3 + 3 * (k - 1) + 3 - 1 = m + 2
      BY <2>0, <2>1
    <3> QED
      BY <1>3, <1>r, <3>1, <3>2
  <2>a. after[k] = State(GemDeps(ps, k), None, None, No, Yes)
    BY <2>0
  <2>b. /\ 4 \in {4, 6} /\ 6 \in {4, 6} /\ TRUE \in BOOLEAN
        /\ 4 \in {0, 2, 4, 6} /\ 6 \in {0, 2, 4, 6}
    OBVIOUS
  <2>7. GemDeps(ps, k) = F
    <3>1. 1..k = (1..(k - 1)) \cup {k}
      BY <2>0
    <3> QED
      BY <3>1 DEF FirstDeps, GemDeps, GemDep, first
  <2> HIDE DEF D, E, F, name, version, after
  <2>4. f[m + 1] = State(E, None, None, No, Yes)
    <3>1. f[m + 1] = GemLine(State(D, None, None, No, Yes), Indented(4, name, version))
      BY <2>2, <2>3
    <3> QED
      BY <2>0, <2>b, <3>1, GemAdds DEF E
  <2>5. f[m + 2] = State(F, None, None, No, Yes)
    BY <1>n, <2>3, <2>4, <2>b, GemAdds DEF F
  <2>6. f[m + 3] = State(F, None, None, No, Yes)
    BY <2>3, <2>5, <2>b, GemIgnores
  <2> QED
    <3>1. f[m + 3] = after[k]
      BY <2>6, <2>7, <2>a
    <3>2. 3 + 3 * k = m + 3
      BY <2>0, <2>1
    <3> QED
      BY <3>1, <3>2
<1>10. f[3 + 3 * L] = after[L]
  <2>1. 3 \in {2, 3, 4} /\ 3 \in Nat
    OBVIOUS
  <2>2. \A k \in 1..L : f[3 + 3 * (k - 1)] = after[k - 1] => f[3 + 3 * k] = after[k]
    BY <1>9
  <2>3. Advances(f, after, 3, 3, L)
    BY <1>8, <2>2 DEF Advances
  <2> HIDE DEF after
  <2>4. Arrives(f, after, 3, 3, L)
    BY <1>1, <2>1, <2>3, BlockInduction
  <2> QED
    BY <2>4 DEF Arrives
<1>11. Read("Gemfile.lock", lines).deps = GemDeps(ps, L)
  <2>1. PICK m \in Nat : m = 3 + 3 * L /\ Len(lines) = m + 2
    BY <1>1, <1>5
  <2>2. after[L] = State(GemDeps(ps, L), None, None, No, Yes)
    BY <1>1
  <2>3. f[m] \in Readers /\ f[m].deps = GemDeps(ps, L)
    <3>1. m \in 0..Len(lines)
      BY <2>1
    <3>2. f[m] = State(GemDeps(ps, L), None, None, No, Yes)
      BY <1>10, <2>1, <2>2
    <3> QED
      BY <1>7, <3>1, <3>2 DEF State
  <2>4. /\ f[m + 1] = ReadLine("Gemfile.lock", f[m], Indented(0, "DEPENDENCIES", None))
        /\ f[m + 2] = ReadLine("Gemfile.lock", f[m + 1], Indented(2, first, Constraint))
    <3>1. /\ f[3 + 3 * Len(blocks) + 1] =
                ReadLine("Gemfile.lock", f[3 + 3 * Len(blocks) + 1 - 1],
                         lines[3 + 3 * Len(blocks) + 1])
          /\ f[3 + 3 * Len(blocks) + 2] =
                ReadLine("Gemfile.lock", f[3 + 3 * Len(blocks) + 2 - 1],
                         lines[3 + 3 * Len(blocks) + 2])
      <4>1. 1 \in 1..2 /\ 2 \in 1..2
        OBVIOUS
      <4> QED
        BY <1>7, <4>1
    <3>2. /\ 3 + 3 * Len(blocks) + 1 = m + 1 /\ 3 + 3 * Len(blocks) + 1 - 1 = m
          /\ 3 + 3 * Len(blocks) + 2 = m + 2 /\ 3 + 3 * Len(blocks) + 2 - 1 = m + 1
      BY <1>1, <2>1
    <3>3. /\ lines[3 + 3 * Len(blocks) + 1] = tail[1]
          /\ lines[3 + 3 * Len(blocks) + 2] = tail[2]
      <4>1. 1 \in 1..2 /\ 2 \in 1..2
        OBVIOUS
      <4> QED
        BY <1>5, <4>1
    <3> QED
      BY <1>t, <3>1, <3>2, <3>3
  <2>5. 0 \in {0, 2} /\ 2 \in {0, 2}
    OBVIOUS
  <2>6. f[m + 1] \in Readers /\ f[m + 1].deps = GemDeps(ps, L)
    BY <2>3, <2>4, <2>5, GemOutside
  <2>7. f[m + 2].deps = GemDeps(ps, L)
    BY <2>4, <2>5, <2>6, GemOutside
  <2> QED
    BY <1>7, <2>1, <2>7
<1> QED
  BY <1>11 DEF ParseGemfileLock, lines, L

\* poetry.lock: a package is there when the next one begins.
PoetryDep(p) == Dep("pip", <<p.name>>, p.version, p.dev)
PoetryDeps(ps, k) == {PoetryDep(ps[i]) : i \in 1..k}

Groups(dev) == IF dev THEN {"dev"} ELSE {"main", "dev"}

LEMMA PoetryHeader ==
  ASSUME NEW r, NEW x
  PROVE  PoetryLine(r, Line("[[package]]", x)) = State(PoetryPackage(r), None, None, No, No)
<1> DEFINE l == Line("[[package]]", x)
<1>1. l.key = "[[package]]"
  BY DEF Line
<1> HIDE DEF l
<1>2. PoetryLine(r, l) = [Reader EXCEPT !.deps = PoetryPackage(r)]
  BY <1>1 DEF PoetryLine
<1>r. Reader = State({}, None, None, No, No)
  BY ReaderIsReader DEF No
<1>s. \A D : [State({}, None, None, No, No) EXCEPT !.deps = D] = State(D, None, None, No, No)
  BY DEF State
<1>3. \A D : [Reader EXCEPT !.deps = D] = State(D, None, None, No, No)
  BY <1>r, <1>s
<1>4. PoetryLine(r, l) = State(PoetryPackage(r), None, None, No, No)
  BY <1>2, <1>3
<1> QED
  BY <1>4 DEF l

LEMMA PoetryName ==
  ASSUME NEW D, NEW name, NEW version, NEW dev, NEW b, NEW x
  PROVE  PoetryLine(State(D, name, version, dev, b), Line("name", x)) =
            State(D, x, version, dev, b)
<1> DEFINE l == Line("name", x)
           s == State(D, name, version, dev, b)
<1>1. l.key = "name" /\ l.value = x
  BY DEF Line
<1>2. \A y : [s EXCEPT !.name = y] = State(D, y, version, dev, b)
  BY DEF State
<1> HIDE DEF l, s
<1>3. PoetryLine(s, l) = [s EXCEPT !.name = x]
  BY <1>1 DEF PoetryLine
<1>4. PoetryLine(s, l) = State(D, x, version, dev, b)
  BY <1>2, <1>3
<1> QED
  BY <1>4 DEF l, s

LEMMA PoetryVersion ==
  ASSUME NEW D, NEW name, NEW version, NEW dev, NEW b, NEW x
  PROVE  PoetryLine(State(D, name, version, dev, b), Line("version", x)) =
            State(D, name, x, dev, b)
<1> DEFINE l == Line("version", x)
           s == State(D, name, version, dev, b)
<1>1. l.key = "version" /\ l.value = x
  BY DEF Line
<1>2. \A y : [s EXCEPT !.version = y] = State(D, name, y, dev, b)
  BY DEF State
<1> HIDE DEF l, s
<1>3. PoetryLine(s, l) = [s EXCEPT !.version = x]
  BY <1>1 DEF PoetryLine
<1>4. PoetryLine(s, l) = State(D, name, x, dev, b)
  BY <1>2, <1>3
<1> QED
  BY <1>4 DEF l, s

LEMMA PoetryGroups ==
  ASSUME NEW D, NEW name, NEW version, NEW dev, NEW b, NEW x
  PROVE  PoetryLine(State(D, name, version, dev, b), Line("groups", x)) =
            State(D, name, version, dev \/ ("dev" \in x /\ "main" \notin x), b)
<1> DEFINE l == Line("groups", x)
           s == State(D, name, version, dev, b)
<1>1. l.key = "groups" /\ l.value = x
  BY DEF Line
<1>2. \A y : [s EXCEPT !.dev = y] = State(D, name, version, y, b)
  BY DEF State
<1>3. s.dev = dev
  BY DEF State
<1> HIDE DEF l, s
<1>4. PoetryLine(s, l) = [s EXCEPT !.dev = s.dev \/ ("dev" \in l.value /\ "main" \notin l.value)]
  BY <1>1 DEF PoetryLine
<1>5. PoetryLine(s, l) = State(D, name, version, dev \/ ("dev" \in x /\ "main" \notin x), b)
  BY <1>1, <1>2, <1>3, <1>4
<1> QED
  BY <1>5 DEF l, s

LEMMA PoetryPackageOf ==
  ASSUME NEW D, NEW name, NEW version, NEW dev, NEW b
  PROVE  PoetryPackage(State(D, name, version, dev, b)) =
            IF name = None \/ version = None THEN D
            ELSE D \cup {Dep("pip", <<name>>, version, dev)}
BY DEF PoetryPackage, State

\* The line of the groups, read by one who has seen no other.
LEMMA PoetryDev ==
  ASSUME NEW D, NEW name, NEW version, NEW dev, NEW b, dev \in BOOLEAN
  PROVE  PoetryLine(State(D, name, version, No, b), Line("groups", Groups(dev))) =
            State(D, name, version, dev, b)
<1> DEFINE x == Groups(dev)
<1>1. (No \/ ("dev" \in x /\ "main" \notin x)) = dev
  <2>1. CASE dev = TRUE
    BY <2>1 DEF No, Groups
  <2>2. CASE dev = FALSE
    BY <2>2 DEF No, Groups
  <2> QED
    BY <2>1, <2>2
<1>2. PoetryLine(State(D, name, version, No, b), Line("groups", x)) =
         State(D, name, version, No \/ ("dev" \in x /\ "main" \notin x), b)
  BY PoetryGroups
<1> HIDE DEF x
<1>3. PoetryLine(State(D, name, version, No, b), Line("groups", x)) =
         State(D, name, version, dev, b)
  BY <1>1, <1>2
<1> QED
  BY <1>3 DEF x

LEMMA PoetryReader ==
  ASSUME NEW r \in Readers, NEW l, NEW name, NEW version, NEW x,
         name \in Names, version \in Versions,
         \/ l = Line("[[package]]", None) \/ l = Line("name", name)
         \/ l = Line("version", version) \/ l = Line("groups", x)
  PROVE  ReadLine("poetry.lock", r, l) \in Readers
<1>1. ReadLine("poetry.lock", r, l) = PoetryLine(r, l)
  BY DEF ReadLine
<1>2. PICK D \in SUBSET Deps, nm \in Names \cup {None}, v \in Versions \cup {Constraint, None},
           dev \in BOOLEAN, b \in BOOLEAN : r = State(D, nm, v, dev, b)
  BY ReaderState
<1>3. CASE l = Line("[[package]]", None)
  <2>1. PoetryLine(r, l) = State(PoetryPackage(r), None, None, No, No)
    BY <1>3, PoetryHeader
  <2>2. PoetryPackage(r) \subseteq Deps
    <3>1. CASE nm = None \/ v = None
      <4>1. PoetryPackage(r) = D
        BY <1>2, <3>1 DEF PoetryPackage, State
      <4> QED
        BY <4>1
    <3>2. CASE ~(nm = None \/ v = None)
      <4>1. PoetryPackage(r) = D \cup {Dep("pip", <<nm>>, v, dev)}
        BY <1>2, <3>2, PoetryPackageOf
      <4>2. Dep("pip", <<nm>>, v, dev) \in Deps
        BY <3>2, DepIsDep
      <4> QED
        BY <4>1, <4>2
    <3> QED
      BY <3>1, <3>2
  <2>3. No \in BOOLEAN
    BY DEF No
  <2>4. State(PoetryPackage(r), None, None, No, No) \in Readers
    BY <2>2, <2>3, StateReader
  <2> QED
    BY <1>1, <2>1, <2>4
<1>4. CASE l = Line("name", name)
  <2>1. PoetryLine(r, l) = State(D, name, v, dev, b)
    BY <1>2, <1>4, PoetryName
  <2> QED
    BY <1>1, <2>1, StateReader
<1>5. CASE l = Line("version", version)
  <2>1. PoetryLine(r, l) = State(D, nm, version, dev, b)
    BY <1>2, <1>5, PoetryVersion
  <2> QED
    BY <1>1, <2>1, StateReader
<1>6. CASE l = Line("groups", x)
  <2>1. PICK y \in BOOLEAN : y = (dev \/ ("dev" \in x /\ "main" \notin x))
    OBVIOUS
  <2>2. PoetryLine(r, l) = State(D, nm, v, y, b)
    BY <1>2, <1>6, <2>1, PoetryGroups
  <2> QED
    BY <1>1, <2>2, StateReader
<1> QED
  BY <1>3, <1>4, <1>5, <1>6

\* What is read of poetry.lock, up to package k and with it.
LEMMA PoetryPackages ==
  ASSUME NEW ps \in Seq(Packages(Versions)), NEW k \in 1..Len(ps)
  PROVE  PoetryPackage(State(PoetryDeps(ps, k - 1), ps[k].name, ps[k].version, ps[k].dev, No)) =
            PoetryDeps(ps, k)
<1> DEFINE D == PoetryDeps(ps, k - 1)
           name == ps[k].name
           version == ps[k].version
           dev == ps[k].dev
<1>1. name # None /\ version # None /\ Len(ps) \in Nat
  BY PackageOf
<1>2. PoetryDeps(ps, k) = D \cup {Dep("pip", <<name>>, version, dev)}
  <2>1. 1..k = (1..(k - 1)) \cup {k}
    BY <1>1
  <2> QED
    BY <2>1 DEF PoetryDeps, PoetryDep
<1> HIDE DEF D, name, version, dev
<1>3. PoetryPackage(State(D, name, version, dev, No)) =
         D \cup {Dep("pip", <<name>>, version, dev)}
  BY <1>1 DEF PoetryPackage, State
<1> QED
  BY <1>2, <1>3 DEF D, name, version, dev

LEMMA PoetryReads ==
  ASSUME NEW ps \in Seq(Packages(Versions))
  PROVE  ParsePoetryLock(WritePoetryLock(ps)) = PoetryDeps(ps, Len(ps))
<1> DEFINE L == Len(ps)
           blocks == [k \in 1..L |->
               << Line("[[package]]", None), Line("name", ps[k].name),
                  Line("version", ps[k].version),
                  Line("groups", IF ps[k].dev THEN {"dev"} ELSE {"main", "dev"}) >>]
           lines == WritePoetryLock(ps)
           after == [k \in 0..L |->
               IF k = 0 THEN State({}, None, None, No, No)
               ELSE State(PoetryDeps(ps, k - 1), ps[k].name, ps[k].version, ps[k].dev, No)]
<1>1. L \in Nat /\ Len(blocks) = L
  BY PackageOf
<1>2. lines = Flattened(4, blocks)
  BY DEF WritePoetryLock
<1>3. \A k \in 1..L : /\ blocks[k][1] = Line("[[package]]", None)
                      /\ blocks[k][2] = Line("name", ps[k].name)
                      /\ blocks[k][3] = Line("version", ps[k].version)
                      /\ blocks[k][4] = Line("groups", Groups(ps[k].dev))
  BY DEF Groups
<1>4. \A k \in 1..L : /\ ps[k].name \in Names /\ ps[k].version \in Versions
                      /\ ps[k].dev \in BOOLEAN
  BY PackageOf
<1>p. \A k \in 1..L :
         PoetryPackage(State(PoetryDeps(ps, k - 1), ps[k].name, ps[k].version, ps[k].dev, No)) =
            PoetryDeps(ps, k)
  BY PoetryPackages
<1>a. /\ after[0] = State({}, None, None, No, No)
      /\ \A k \in 1..L : after[k] =
            State(PoetryDeps(ps, k - 1), ps[k].name, ps[k].version, ps[k].dev, No)
  BY <1>1
<1>q. \A k \in 0..L : PoetryPackage(after[k]) = PoetryDeps(ps, k)
  <2>1. PoetryPackage(after[0]) = PoetryDeps(ps, 0)
    <3>1. PoetryPackage(after[0]) = {}
      BY <1>a DEF PoetryPackage, State
    <3>2. 1..0 = {}
      OBVIOUS
    <3> QED
      BY <3>1, <3>2 DEF PoetryDeps
  <2>2. ASSUME NEW k \in 1..L PROVE PoetryPackage(after[k]) = PoetryDeps(ps, k)
    BY <1>a, <1>p
  <2> HIDE DEF after
  <2>3. \A k \in 0..L : k = 0 \/ k \in 1..L
    BY <1>1
  <2> QED
    BY <2>1, <2>2, <2>3
<1> HIDE DEF blocks, lines, L, after
<1>5. Len(lines) = 0 + 4 * Len(blocks) + 0
  BY <1>1, <1>2, FlattenedLines
<1>6. ASSUME NEW r \in Readers, NEW k \in 1..Len(blocks), NEW j \in 1..4
      PROVE  ReadLine("poetry.lock", r, blocks[k][j]) \in Readers
  <2>1. k \in 1..L /\ (j = 1 \/ j = 2 \/ j = 3 \/ j = 4)
    BY <1>1
  <2>2. \/ blocks[k][j] = Line("[[package]]", None) \/ blocks[k][j] = Line("name", ps[k].name)
        \/ blocks[k][j] = Line("version", ps[k].version)
        \/ blocks[k][j] = Line("groups", Groups(ps[k].dev))
    BY <1>3, <2>1
  <2>3. ps[k].name \in Names /\ ps[k].version \in Versions
    BY <1>4, <2>1
  <2> QED
    BY <2>2, <2>3, PoetryReader
<1>7. PICK f \in [0..Len(lines) -> Readers] :
         /\ f[0] = Reader
         /\ \A k \in 1..Len(blocks), j \in 1..4 :
               f[0 + 4 * (k - 1) + j] =
                  ReadLine("poetry.lock", f[0 + 4 * (k - 1) + j - 1], blocks[k][j])
         /\ Read("poetry.lock", lines) = f[Len(lines)]
  <2>2. 0 \in Nat /\ Len(blocks) \in Nat /\ 4 \in {2, 3, 4}
    BY <1>1
  <2>3. \A i \in 1..0 : FALSE
    OBVIOUS
  <2>4. \A i \in 1..(4 * Len(blocks)) : lines[0 + i] = Flattened(4, blocks)[i]
    BY <1>1, <1>2
  <2>5. ReadsBlocks("poetry.lock", 4, blocks, 0, 0, lines)
    BY <1>5, <1>6, <2>2, <2>3, <2>4, ReadBlocks
  <2> QED
    BY <2>5 DEF ReadsBlocks
<1>r. \A r, l : ReadLine("poetry.lock", r, l) = PoetryLine(r, l)
  BY DEF ReadLine
<1>8. f[0] = after[0]
  BY <1>7, <1>a, ReaderIsReader DEF No
<1>9. ASSUME NEW k \in 1..L, f[0 + 4 * (k - 1)] = after[k - 1]
      PROVE  f[0 + 4 * k] = after[k]
  <2> DEFINE D == PoetryDeps(ps, k - 1)
             name == ps[k].name
             version == ps[k].version
             dev == ps[k].dev
  <2>0. k \in 1..Len(blocks) /\ k - 1 \in 0..L /\ dev \in BOOLEAN
    BY <1>1, <1>4
  <2>1. PICK m \in Nat : m = 0 + 4 * (k - 1) /\ m + 4 = 0 + 4 * k
    BY <1>1
  <2>2. PoetryPackage(f[m]) = D
    BY <1>9, <1>q, <2>0, <2>1
  <2>3. /\ f[m + 1] = PoetryLine(f[m], Line("[[package]]", None))
        /\ f[m + 2] = PoetryLine(f[m + 1], Line("name", name))
        /\ f[m + 3] = PoetryLine(f[m + 2], Line("version", version))
        /\ f[m + 4] = PoetryLine(f[m + 3], Line("groups", Groups(dev)))
    <3>1. /\ f[0 + 4 * (k - 1) + 1] =
                ReadLine("poetry.lock", f[0 + 4 * (k - 1) + 1 - 1], blocks[k][1])
          /\ f[0 + 4 * (k - 1) + 2] =
                ReadLine("poetry.lock", f[0 + 4 * (k - 1) + 2 - 1], blocks[k][2])
          /\ f[0 + 4 * (k - 1) + 3] =
                ReadLine("poetry.lock", f[0 + 4 * (k - 1) + 3 - 1], blocks[k][3])
          /\ f[0 + 4 * (k - 1) + 4] =
                ReadLine("poetry.lock", f[0 + 4 * (k - 1) + 4 - 1], blocks[k][4])
      <4>1. 1 \in 1..4 /\ 2 \in 1..4 /\ 3 \in 1..4 /\ 4 \in 1..4
        OBVIOUS
      <4> QED
        BY <1>7, <2>0, <4>1
    <3>2. /\ 0 + 4 * (k - 1) + 1 = m + 1 /\ 0 + 4 * (k - 1) + 1 - 1 = m
          /\ 0 + 4 * (k - 1) + 2 = m + 2 /\ 0 + 4 * (k - 1) + 2 - 1 = m + 1
          /\ 0 + 4 * (k - 1) + 3 = m + 3 /\ 0 + 4 * (k - 1) + 3 - 1 = m + 2
          /\ 0 + 4 * (k - 1) + 4 = m + 4 /\ 0 + 4 * (k - 1) + 4 - 1 = m + 3
      BY <2>0, <2>1
    <3>3. /\ f[m + 1] = ReadLine("poetry.lock", f[m], blocks[k][1])
          /\ f[m + 2] = ReadLine("poetry.lock", f[m + 1], blocks[k][2])
          /\ f[m + 3] = ReadLine("poetry.lock", f[m + 2], blocks[k][3])
          /\ f[m + 4] = ReadLine("poetry.lock", f[m + 3], blocks[k][4])
      BY <3>1, <3>2
    <3> HIDE DEF name, version, dev
    <3>4. /\ blocks[k][1] = Line("[[package]]", None) /\ blocks[k][2] = Line("name", name)
          /\ blocks[k][3] = Line("version", version)
          /\ blocks[k][4] = Line("groups", Groups(dev))
      BY <1>3 DEF name, version, dev
    <3> QED
      BY <1>r, <3>3, <3>4
  <2>a. after[k] = State(D, name, version, dev, No)
    BY <1>a
  <2> HIDE DEF D, name, version, dev
  <2>4. f[m + 1] = State(D, None, None, No, No)
    BY <2>2, <2>3, PoetryHeader
  <2>5. f[m + 2] = State(D, name, None, No, No)
    BY <2>3, <2>4, PoetryName
  <2>6. f[m + 3] = State(D, name, version, No, No)
    BY <2>3, <2>5, PoetryVersion
  <2>7. f[m + 4] = State(D, name, version, dev, No)
    <3>1. f[m + 4] = PoetryLine(State(D, name, version, No, No), Line("groups", Groups(dev)))
      BY <2>3, <2>6
    <3> QED
      BY <2>0, <3>1, PoetryDev
  <2> QED
    <3>1. f[m + 4] = after[k]
      BY <2>7, <2>a
    <3>2. 0 + 4 * k = m + 4
      BY <2>0, <2>1
    <3> QED
      BY <3>1, <3>2
<1>10. f[0 + 4 * L] = after[L]
  <2>1. 4 \in {2, 3, 4} /\ 0 \in Nat
    OBVIOUS
  <2>2. \A k \in 1..L : f[0 + 4 * (k - 1)] = after[k - 1] => f[0 + 4 * k] = after[k]
    BY <1>9
  <2>3. Advances(f, after, 4, 0, L)
    BY <1>8, <2>2 DEF Advances
  <2>4. Arrives(f, after, 4, 0, L)
    BY <1>1, <2>1, <2>3, BlockInduction
  <2> QED
    BY <2>4 DEF Arrives
<1>11. PoetryPackage(Read("poetry.lock", lines)) = PoetryDeps(ps, L)
  <2>1. Len(lines) = 0 + 4 * L
    BY <1>1, <1>5
  <2>2. PoetryPackage(after[L]) = PoetryDeps(ps, L)
    BY <1>1, <1>q
  <2> QED
    BY <1>7, <1>10, <2>1, <2>2
<1> QED
  BY <1>11 DEF ParsePoetryLock, lines, L

-----------------------------------------------------------------------------
(* What comes out of a file that was written for some packages *)

Ecosystem(format) ==
    CASE format \in {"requirements.txt", "Pipfile.lock", "poetry.lock"} -> "pip"
      [] format = "composer.lock" -> "composer"
      [] format = "Cargo.lock"    -> "cargo"
      [] format = "go.sum"        -> "go"
      [] format = "Gemfile.lock"  -> "gem"
      [] OTHER                    -> "npm"

\* The dependency that a package is to be read as.
PlainDep(p, format) == Dep(Ecosystem(format), <<p.name>>, p.version, ~IsProduction(p, format))

\* d stands for p, perhaps below another package.
StandsFor(d, p, format) ==
    /\ Last(d.name) = p.name /\ d.version = p.version
    /\ d.ecosystem = Ecosystem(format) /\ d.dev = ~IsProduction(p, format)

\* Every dependency read stands for a package, or is known to be misread; and every
\* package that is legible is read.
Faithful(format, ps) ==
    /\ \A d \in Parsed(format, Written(format, ps)) :
          /\ d \in Deps
          /\ Misread(d) \/ \E p \in ToSet(ps) : StandsFor(d, p, format)
    /\ \A p \in ToSet(ps) : Legible(p, format) =>
          PlainDep(p, format) \in Parsed(format, Written(format, ps))

Ecosystems == {"npm", "pip", "composer", "cargo", "go", "gem"}

LEMMA EcosystemOf ==
  ASSUME NEW format \in Formats
  PROVE  Ecosystem(format) \in Ecosystems
BY DEF Formats, Ecosystem, Ecosystems

LEMMA DepFields ==
  ASSUME NEW ecosystem, NEW name, NEW version, NEW dev
  PROVE  LET d == Dep(ecosystem, name, version, dev)
         IN  d.ecosystem = ecosystem /\ d.name = name /\ d.version = version /\ d.dev = dev
BY DEF Dep

LEMMA LastOfOne == ASSUME NEW x PROVE Last(<<x>>) = x
BY DEF Last

LEMMA LastOfTwo == ASSUME NEW x, NEW y PROVE Last(<<x, y>>) = y
BY DEF Last

LEMMA SetOf ==
  ASSUME NEW ps \in Seq(Packages(Versions))
  PROVE  /\ \A k \in 1..Len(ps) : ps[k] \in ToSet(ps)
         /\ \A p \in ToSet(ps) : \E k \in 1..Len(ps) : p = ps[k]
         /\ ToSet(ps) \subseteq Packages(Versions)
<1>1. DOMAIN ps = 1..Len(ps) /\ \A k \in 1..Len(ps) : ps[k] \in Packages(Versions)
  BY PackageOf
<1> QED
  BY <1>1 DEF ToSet

\* The fields of a package.
LEMMA OnePackage ==
  ASSUME NEW p \in Packages(Versions)
  PROVE  /\ p.name \in Names /\ p.version \in Versions
         /\ p.dev \in BOOLEAN /\ p.nested \in BOOLEAN /\ p.url \in BOOLEAN
         /\ p.name # None /\ p.version # None /\ p.version # Constraint
<1>1. /\ p.name \in Names /\ p.version \in Versions
      /\ p.dev \in BOOLEAN /\ p.nested \in BOOLEAN /\ p.url \in BOOLEAN
  BY DEF Packages
<1> QED
  BY <1>1, LockFilesAssumption, VersionsAssumption

LEMMA PlainStands ==
  ASSUME NEW format \in Formats, NEW p \in Packages(Versions)
  PROVE  PlainDep(p, format) \in Deps /\ StandsFor(PlainDep(p, format), p, format)
<1>1. p.name \in Names /\ p.version \in Versions
  BY OnePackage
<1>2. PICK dev \in BOOLEAN : dev = ~IsProduction(p, format)
  OBVIOUS
<1>3. Ecosystem(format) \in {"npm", "pip", "composer", "cargo", "go", "gem"}
  BY EcosystemOf DEF Ecosystems
<1>4. PlainDep(p, format) = Dep(Ecosystem(format), <<p.name>>, p.version, dev)
  BY <1>2 DEF PlainDep
<1>5. PlainDep(p, format) \in Deps
  BY <1>1, <1>3, <1>4, DepIsDep
<1>6. PICK d : d = PlainDep(p, format)
  OBVIOUS
<1>7. d.name = <<p.name>> /\ d.version = p.version /\ d.ecosystem = Ecosystem(format) /\ d.dev = dev
  BY <1>4, <1>6, DepFields
<1>8. Last(d.name) = p.name
  BY <1>7, LastOfOne
<1>9. StandsFor(d, p, format)
  BY <1>2, <1>7, <1>8 DEF StandsFor
<1> QED
  BY <1>5, <1>6, <1>9

\* Most of the readers make a plain dependency of each package.
Plainly(format, ps) ==
    Parsed(format, Written(format, ps)) = {PlainDep(p, format) : p \in ToSet(ps)}

LEMMA PlainlyFaithful ==
  ASSUME NEW format \in Formats, NEW ps \in Seq(Packages(Versions)), Plainly(format, ps)
  PROVE  Faithful(format, ps)
<1>1. \A p \in ToSet(ps) : /\ PlainDep(p, format) \in Deps
                            /\ StandsFor(PlainDep(p, format), p, format)
  BY SetOf, PlainStands
<1> QED
  BY <1>1 DEF Faithful, Plainly

\* Where a URL stands in place of the version, other text is read.
OneDep(p, format) ==
    Dep(Ecosystem(format), <<p.name>>, VersionOrUrl(p), ~IsProduction(p, format))

LEMMA OneDepIs ==
  ASSUME NEW format \in Formats, NEW p \in Packages(Versions),
         Ecosystem(format) \in {"npm", "pip"}
  PROVE  /\ ~p.url => OneDep(p, format) = PlainDep(p, format)
         /\ p.url => OneDep(p, format) \in Deps /\ Misread(OneDep(p, format))
<1>1. p.name \in Names
  BY OnePackage
<1>2. PICK dev \in BOOLEAN : dev = ~IsProduction(p, format)
  OBVIOUS
<1>3. OneDep(p, format) = Dep(Ecosystem(format), <<p.name>>, VersionOrUrl(p), dev)
  BY <1>2 DEF OneDep
<1>4. ASSUME ~p.url PROVE OneDep(p, format) = PlainDep(p, format)
  <2>1. VersionOrUrl(p) = p.version
    BY <1>4 DEF VersionOrUrl
  <2> QED
    BY <1>2, <1>3, <2>1 DEF PlainDep
<1>5. ASSUME p.url PROVE OneDep(p, format) \in Deps /\ Misread(OneDep(p, format))
  <2>1. VersionOrUrl(p) = OtherText
    BY <1>5 DEF VersionOrUrl
  <2>2. PICK d : d = OneDep(p, format)
    OBVIOUS
  <2>3. d.ecosystem = Ecosystem(format) /\ d.version = OtherText
    BY <1>3, <2>1, <2>2, DepFields
  <2>4. Misread(d)
    BY <2>3 DEF Misread
  <2>5. Dep(Ecosystem(format), <<p.name>>, OtherText, dev) \in Deps
    BY <1>1, DepIsDep
  <2> QED
    BY <1>3, <2>1, <2>2, <2>4, <2>5
<1> QED
  BY <1>4, <1>5

LEMMA UrlsFaithful ==
  ASSUME NEW format \in Formats, NEW ps \in Seq(Packages(Versions)),
         Ecosystem(format) \in {"npm", "pip"}, NEW S \in SUBSET ToSet(ps),
         Parsed(format, Written(format, ps)) = {OneDep(p, format) : p \in S},
         \A p \in ToSet(ps) : Legible(p, format) => p \in S /\ ~p.url
  PROVE  Faithful(format, ps)
<1>1. ToSet(ps) \subseteq Packages(Versions)
  BY SetOf
<1>2. ASSUME NEW p \in S
      PROVE  /\ OneDep(p, format) \in Deps
             /\ Misread(OneDep(p, format)) \/ StandsFor(OneDep(p, format), p, format)
  <2>1. p \in Packages(Versions)
    BY <1>1
  <2>2. PlainDep(p, format) \in Deps /\ StandsFor(PlainDep(p, format), p, format)
    BY <2>1, PlainStands
  <2> QED
    BY <2>1, <2>2, OneDepIs
<1>3. ASSUME NEW p \in ToSet(ps), Legible(p, format)
      PROVE  p \in S /\ PlainDep(p, format) = OneDep(p, format)
  BY <1>1, <1>3, OneDepIs
<1> QED
  BY <1>2, <1>3 DEF Faithful

\* A reader that does not tell what is for development.
LEMMA FirstIsPlain ==
  ASSUME NEW format, NEW ps \in Seq(Packages(Versions)), format \notin TellsDev
  PROVE  FirstDeps(Ecosystem(format), ps, Len(ps)) = {PlainDep(p, format) : p \in ToSet(ps)}
<1>1. \A p : PlainDep(p, format) = Dep(Ecosystem(format), <<p.name>>, p.version, FALSE)
  BY DEF PlainDep, IsProduction
<1>2. FirstDeps(Ecosystem(format), ps, Len(ps)) = {PlainDep(ps[k], format) : k \in 1..Len(ps)}
  BY <1>1 DEF FirstDeps
<1> QED
  BY <1>2, SetOf

LEMMA YarnFaithful ==
  ASSUME NEW ps \in Seq(Packages(Versions)) PROVE Faithful("yarn.lock", ps)
<1>1. "yarn.lock" \in Formats /\ "yarn.lock" \notin TellsDev /\ Ecosystem("yarn.lock") = "npm"
  BY DEF Formats, TellsDev, Ecosystem
<1>2. Parsed("yarn.lock", Written("yarn.lock", ps)) = ParseYarnLock(WriteYarnLock(ps))
  BY DEF Parsed, Written
<1>3. Plainly("yarn.lock", ps)
  BY <1>1, <1>2, YarnReads, FirstIsPlain DEF Plainly
<1> QED
  BY <1>1, <1>3, PlainlyFaithful

LEMMA CargoFaithful ==
  ASSUME NEW ps \in Seq(Packages(Versions)) PROVE Faithful("Cargo.lock", ps)
<1>1. "Cargo.lock" \in Formats /\ "Cargo.lock" \notin TellsDev /\ Ecosystem("Cargo.lock") = "cargo"
  BY DEF Formats, TellsDev, Ecosystem
<1>2. Parsed("Cargo.lock", Written("Cargo.lock", ps)) = ParseCargoLock(WriteCargoLock(ps))
  BY DEF Parsed, Written
<1>3. Plainly("Cargo.lock", ps)
  BY <1>1, <1>2, CargoReads, FirstIsPlain DEF Plainly
<1> QED
  BY <1>1, <1>3, PlainlyFaithful

LEMMA PoetryFaithful ==
  ASSUME NEW ps \in Seq(Packages(Versions)) PROVE Faithful("poetry.lock", ps)
<1>1. "poetry.lock" \in Formats /\ "poetry.lock" \in TellsDev /\ Ecosystem("poetry.lock") = "pip"
  BY DEF Formats, TellsDev, Ecosystem
<1>2. Parsed("poetry.lock", Written("poetry.lock", ps)) = ParsePoetryLock(WritePoetryLock(ps))
  BY DEF Parsed, Written
<1>3. \A p \in Packages(Versions) : PlainDep(p, "poetry.lock") = PoetryDep(p)
  <2>1. ASSUME NEW p \in Packages(Versions) PROVE PlainDep(p, "poetry.lock") = PoetryDep(p)
    <3>1. PICK dev \in BOOLEAN : dev = p.dev /\ (~IsProduction(p, "poetry.lock")) = dev
      BY <1>1, OnePackage DEF IsProduction
    <3> QED
      BY <1>1, <3>1 DEF PlainDep, PoetryDep
  <2> QED
    BY <2>1
<1>4. PoetryDeps(ps, Len(ps)) = {PlainDep(p, "poetry.lock") : p \in ToSet(ps)}
  <2>1. \A k \in 1..Len(ps) : PoetryDep(ps[k]) = PlainDep(ps[k], "poetry.lock")
    BY <1>3, PackageOf
  <2>2. PoetryDeps(ps, Len(ps)) = {PlainDep(ps[k], "poetry.lock") : k \in 1..Len(ps)}
    BY <2>1 DEF PoetryDeps
  <2> QED
    BY <2>2, SetOf
<1>5. Plainly("poetry.lock", ps)
  BY <1>2, <1>4, PoetryReads DEF Plainly
<1> QED
  BY <1>1, <1>5, PlainlyFaithful

\* What a gem depends on is misread, and nothing else.
LEMMA GemFaithful ==
  ASSUME NEW ps \in Seq(Packages(Versions)) PROVE Faithful("Gemfile.lock", ps)
<1> DEFINE format == "Gemfile.lock"
           read == Parsed("Gemfile.lock", Written("Gemfile.lock", ps))
<1>1. /\ "Gemfile.lock" \in Formats /\ "Gemfile.lock" \notin TellsDev
      /\ Ecosystem("Gemfile.lock") = "gem"
  BY DEF Formats, TellsDev, Ecosystem
<1>2. read = ParseGemfileLock(WriteGemfileLock(ps))
  BY DEF Parsed, Written
<1>3. FirstDeps("gem", ps, Len(ps)) = {PlainDep(p, format) : p \in ToSet(ps)}
  BY <1>1, FirstIsPlain
<1>4. read = {PlainDep(p, format) : p \in ToSet(ps)}
             \cup {Dep("gem", <<ps[1].name>>, Constraint, FALSE) : i \in 1..Len(ps)}
  BY <1>2, <1>3, GemReads DEF GemDeps
<1> HIDE DEF read
<1>5. ASSUME NEW d \in read
      PROVE  d \in Deps /\ (Misread(d) \/ \E p \in ToSet(ps) : StandsFor(d, p, format))
  <2>1. CASE d \in {PlainDep(p, format) : p \in ToSet(ps)}
    <3>1. PICK p \in ToSet(ps) : d = PlainDep(p, format)
      BY <2>1
    <3> QED
      BY <1>1, <3>1, SetOf, PlainStands
  <2>2. CASE \E i \in 1..Len(ps) : d = Dep("gem", <<ps[1].name>>, Constraint, FALSE)
    <3>1. PICK i \in 1..Len(ps) : d = Dep("gem", <<ps[1].name>>, Constraint, FALSE)
      BY <2>2
    <3>2. 1 \in 1..Len(ps)
      BY <3>1, PackageOf
    <3>3. ps[1].name \in Names
      BY <3>2, PackageOf
    <3>4. d \in Deps
      BY <3>1, <3>3, DepIsDep
    <3>5. d.ecosystem = "gem" /\ d.version = Constraint
      BY <3>1 DEF Dep
    <3> QED
      BY <3>4, <3>5 DEF Misread
  <2> QED
    BY <1>4, <2>1, <2>2
<1>6. \A p \in ToSet(ps) : PlainDep(p, format) \in read
  BY <1>4
<1> QED
  BY <1>5, <1>6 DEF Faithful, read

\* What stands on the lines of two parts.
LEMMA SetOfJoined ==
  ASSUME NEW s, NEW t, NEW u, IsSequence(s), IsSequence(t), Joined(s, t, u)
  PROVE  ToSet(u) = {s[i] : i \in 1..Len(s)} \cup {t[i] : i \in 1..Len(t)}
<1>1. /\ Len(s) \in Nat /\ Len(t) \in Nat /\ Len(u) = Len(s) + Len(t)
      /\ \A i \in 1..Len(s) : u[i] = s[i]
      /\ \A i \in 1..Len(t) : u[Len(s) + i] = t[i]
  BY DEF Joined, IsSequence
<1>2. DOMAIN u = 1..Len(u)
  <2>1. u = [i \in 1..Len(u) |-> u[i]]
    BY DEF Joined, IsSequence
  <2> QED
    BY <2>1
<1>3. PICK m \in Nat, n \in Nat : m = Len(s) /\ n = Len(t) /\ DOMAIN u = 1..(m + n)
  BY <1>1, <1>2
<1>4. ASSUME NEW x \in ToSet(u)
      PROVE  x \in {s[i] : i \in 1..Len(s)} \cup {t[i] : i \in 1..Len(t)}
  <2>1. PICK i \in 1..(m + n) : x = u[i]
    BY <1>3 DEF ToSet
  <2>2. CASE i <= m
    BY <1>1, <1>3, <2>1, <2>2
  <2>3. CASE i > m
    <3>1. PICK j \in 1..n : i = m + j
      <4>1. i - m \in 1..n /\ i = m + (i - m)
        BY <2>3
      <4> QED
        BY <4>1
    <3> QED
      BY <1>1, <1>3, <2>1, <3>1
  <2> QED
    BY <2>2, <2>3
<1>5. ASSUME NEW x \in {s[i] : i \in 1..Len(s)} \cup {t[i] : i \in 1..Len(t)}
      PROVE  x \in ToSet(u)
  <2>1. CASE \E i \in 1..m : x = s[i]
    <3>1. PICK i \in 1..m : x = s[i]
      BY <2>1
    <3>2. i \in DOMAIN u /\ u[i] = x
      BY <1>1, <1>3, <3>1
    <3> QED
      BY <3>2 DEF ToSet
  <2>2. CASE \E i \in 1..n : x = t[i]
    <3>1. PICK i \in 1..n : x = t[i]
      BY <2>2
    <3>2. m + i \in DOMAIN u /\ u[m + i] = x
      BY <1>1, <1>3, <3>1
    <3> QED
      BY <3>2 DEF ToSet
  <2> QED
    BY <1>3, <2>1, <2>2
<1> QED
  BY <1>4, <1>5

Requirement(p) ==
    [kind |-> "requirement", name |-> p.name, operator |-> IF p.url THEN "@" ELSE "==",
     version |-> VersionOrUrl(p)]

LEMMA RequirementsRead ==
  ASSUME NEW ps \in Seq(Packages(Versions))
  PROVE  ParseRequirements(WriteRequirements(ps)) =
            {Dep("pip", <<ps[k].name>>, VersionOrUrl(ps[k]), FALSE) : k \in 1..Len(ps)}
<1> DEFINE L == Len(ps)
           head == << [kind |-> "comment"], [kind |-> "option"] >>
           body == [k \in 1..L |-> Requirement(ps[k])]
           last == [kind |-> "requirement", name |-> ps[1].name, operator |-> ";",
                    version |-> None]
           tail == << last >>
           lines == WriteRequirements(ps)
           useful(x) == /\ x.kind = "requirement"
                        /\ x.operator \notin {"", ";"} /\ x.version # None
           plain(k) == Dep("pip", <<ps[k].name>>, VersionOrUrl(ps[k]), FALSE)
<1>1. L \in Nat
  BY PackageOf
<1>2. lines = (head \o body) \o tail
  BY DEF WriteRequirements, Requirement
<1>h. /\ IsSequence(head) /\ Len(head) = 2
      /\ head[1] = [kind |-> "comment"] /\ head[2] = [kind |-> "option"]
  BY DEF IsSequence
<1>t. IsSequence(tail) /\ Len(tail) = 1 /\ tail[1] = last
  BY DEF IsSequence
<1>b. IsSequence(body) /\ Len(body) = L /\ \A k \in 1..L : body[k] = Requirement(ps[k])
  BY <1>1 DEF IsSequence
<1>n. \A k \in 1..L : VersionOrUrl(ps[k]) # None
  BY PackageOf, VersionsAssumption DEF VersionOrUrl
<1>u. /\ ~useful(head[1]) /\ ~useful(head[2]) /\ ~useful(last)
      /\ \A k \in 1..L : useful(Requirement(ps[k]))
  <2>1. ASSUME NEW k \in 1..L PROVE useful(Requirement(ps[k]))
    <3>1. PICK operator \in {"==", "@"} : operator = IF ps[k].url THEN "@" ELSE "=="
      OBVIOUS
    <3>2. Requirement(ps[k]) = [kind |-> "requirement", name |-> ps[k].name,
                                operator |-> operator, version |-> VersionOrUrl(ps[k])]
      BY <3>1 DEF Requirement
    <3>3. PICK r : r = Requirement(ps[k])
      OBVIOUS
    <3>4. r.kind = "requirement" /\ r.operator = operator /\ r.version # None
      BY <1>n, <3>2, <3>3
    <3>5. useful(r)
      BY <3>1, <3>4
    <3> QED
      BY <3>3, <3>5
  <2> QED
    BY <2>1
<1>f. \A k \in 1..L :
         Dep("pip", <<Requirement(ps[k]).name>>, Requirement(ps[k]).version, FALSE) = plain(k)
  BY DEF Requirement
<1>p. ParseRequirements(lines) =
         {Dep("pip", <<l.name>>, l.version, FALSE) : l \in {x \in ToSet(lines) : useful(x)}}
  BY DEF ParseRequirements
<1> HIDE DEF L, head, body, tail, last, lines, useful
<1>3. Joined(head, body, head \o body)
  BY <1>h, <1>b, ConcatLines
<1>4. PICK u : u = head \o body
  OBVIOUS
<1>5. IsSequence(u)
  BY <1>3, <1>4 DEF Joined
<1>6. Joined(u, tail, lines)
  BY <1>2, <1>4, <1>5, <1>t, ConcatLines
<1>7. /\ ToSet(u) = {head[i] : i \in 1..Len(head)} \cup {body[i] : i \in 1..Len(body)}
      /\ ToSet(lines) = {u[i] : i \in 1..Len(u)} \cup {tail[i] : i \in 1..Len(tail)}
  <2>1. Joined(head, body, u)
    BY <1>3, <1>4
  <2>2. ToSet(u) = {head[i] : i \in 1..Len(head)} \cup {body[i] : i \in 1..Len(body)}
    <3>1. IsSequence(head) /\ IsSequence(body)
      BY <1>h, <1>b
    <3> QED
      BY <2>1, <3>1, SetOfJoined
  <2>3. ToSet(lines) = {u[i] : i \in 1..Len(u)} \cup {tail[i] : i \in 1..Len(tail)}
    BY <1>5, <1>6, <1>t, SetOfJoined
  <2> QED
    BY <2>2, <2>3
<1>8. ToSet(u) = {u[i] : i \in 1..Len(u)}
  <2>1. DOMAIN u = 1..Len(u)
    <3>1. u = [i \in 1..Len(u) |-> u[i]]
      BY <1>5 DEF IsSequence
    <3> QED
      BY <3>1
  <2> QED
    BY <2>1 DEF ToSet
<1>9. ToSet(lines) = {head[1], head[2], last} \cup {Requirement(ps[k]) : k \in 1..L}
  <2>1. {head[i] : i \in 1..Len(head)} = {head[1], head[2]}
    BY <1>h
  <2>2. {tail[i] : i \in 1..Len(tail)} = {last}
    BY <1>t
  <2>3. {body[i] : i \in 1..Len(body)} = {Requirement(ps[k]) : k \in 1..L}
    BY <1>b
  <2> QED
    BY <1>7, <1>8, <2>1, <2>2, <2>3
<1>10. {x \in ToSet(lines) : useful(x)} = {Requirement(ps[k]) : k \in 1..L}
  BY <1>9, <1>u
<1>11. ParseRequirements(lines) = {plain(k) : k \in 1..L}
  <2> DEFINE dep(l) == Dep("pip", <<l.name>>, l.version, FALSE)
  <2>1. ParseRequirements(lines) = {dep(l) : l \in {Requirement(ps[k]) : k \in 1..L}}
    BY <1>10, <1>p
  <2>2. \A k \in 1..L : dep(Requirement(ps[k])) = plain(k)
    BY <1>f
  <2> HIDE DEF dep, plain
  <2> QED
    BY <2>1, <2>2
<1> QED
  BY <1>11 DEF L, lines

LEMMA RequirementsFaithful ==
  ASSUME NEW ps \in Seq(Packages(Versions)) PROVE Faithful("requirements.txt", ps)
<1> DEFINE format == "requirements.txt"
<1>1. format \in Formats /\ format \notin TellsDev /\ Ecosystem(format) = "pip"
  BY DEF Formats, TellsDev, Ecosystem
<1>2. Parsed(format, Written(format, ps)) = ParseRequirements(WriteRequirements(ps))
  BY DEF Parsed, Written
<1>3. \A p \in ToSet(ps) : Legible(p, format) => ~p.url
  BY DEF Legible
<1> HIDE DEF format
<1>4. \A p : OneDep(p, format) = Dep("pip", <<p.name>>, VersionOrUrl(p), FALSE)
  BY <1>1 DEF OneDep, IsProduction
<1>5. Parsed(format, Written(format, ps)) = {OneDep(ps[k], format) : k \in 1..Len(ps)}
  BY <1>2, <1>4, RequirementsRead
<1>6. Parsed(format, Written(format, ps)) = {OneDep(p, format) : p \in ToSet(ps)}
  BY <1>5, SetOf
<1>7. Faithful(format, ps)
  BY <1>1, <1>3, <1>6, UrlsFaithful
<1> QED
  BY <1>7 DEF format

LEMMA FlattenedSet ==
  ASSUME NEW n \in {2, 3, 4}, NEW lines, Len(lines) \in Nat
  PROVE  ToSet(Flattened(n, lines)) = {lines[k][j] : k \in 1..Len(lines), j \in 1..n}
<1> DEFINE flat == Flattened(n, lines)
           N == n * Len(lines)
<1>1. /\ DOMAIN flat = 1..N
      /\ \A k \in 1..Len(lines), j \in 1..n :
            n * (k - 1) + j \in 1..N /\ flat[n * (k - 1) + j] = lines[k][j]
      /\ \A i \in 1..N : \E k \in 1..Len(lines), j \in 1..n : i = n * (k - 1) + j
  <2>1. OneAfterTheOther(n, lines)
    BY FlattenedLines
  <2> QED
    BY <2>1 DEF OneAfterTheOther
<1>2. ToSet(flat) = {flat[i] : i \in DOMAIN flat}
  BY DEF ToSet
<1> HIDE DEF flat, N
<1>3. \A i \in DOMAIN flat : \E k \in 1..Len(lines), j \in 1..n : flat[i] = lines[k][j]
  <2>1. ASSUME NEW i \in DOMAIN flat
        PROVE  \E k \in 1..Len(lines), j \in 1..n : flat[i] = lines[k][j]
    <3>1. PICK k \in 1..Len(lines), j \in 1..n : i = n * (k - 1) + j
      BY <1>1
    <3>2. flat[i] = lines[k][j]
      BY <1>1, <3>1
    <3> QED
      BY <3>2
  <2> QED
    BY <2>1
<1>4. \A k \in 1..Len(lines), j \in 1..n : \E i \in DOMAIN flat : flat[i] = lines[k][j]
  <2>1. ASSUME NEW k \in 1..Len(lines), NEW j \in 1..n
        PROVE  \E i \in DOMAIN flat : flat[i] = lines[k][j]
    <3>1. PICK i \in DOMAIN flat : i = n * (k - 1) + j
      BY <1>1
    <3>2. flat[i] = lines[k][j]
      BY <1>1, <3>1
    <3> QED
      BY <3>2
  <2> QED
    BY <2>1
<1> DEFINE A == {flat[i] : i \in DOMAIN flat}
           B == {lines[k][j] : k \in 1..Len(lines), j \in 1..n}
<1>5. \A x \in A : x \in B
  BY <1>3
<1>6. \A x \in B : x \in A
  BY <1>4
<1>7. A = B
  <2> HIDE DEF A, B
  <2> QED
    BY <1>5, <1>6
<1> QED
  <2> HIDE DEF A, B
  <2>1. ToSet(flat) = A
    BY <1>2 DEF A
  <2>2. ToSet(flat) = B
    BY <1>7, <2>1
  <2> QED
    BY <2>2 DEF B, flat

\* go.sum: the lines for go.mod are left aside.
LEMMA GoFaithful ==
  ASSUME NEW ps \in Seq(Packages(Versions)) PROVE Faithful("go.sum", ps)
<1> DEFINE L == Len(ps)
           sum(k, j) == [name |-> ps[k].name, version |-> ps[k].version, gomod |-> j = 2]
           blocks == [k \in 1..L |-> [j \in 1..2 |-> sum(k, j)]]
           lines == WriteGoSum(ps)
           dep(l) == Dep("go", <<l.name>>, l.version, FALSE)
           plain(k) == Dep("go", <<ps[k].name>>, ps[k].version, FALSE)
<1>1. L \in Nat /\ Len(blocks) = L
  BY PackageOf
<1>2. lines = Flattened(2, blocks)
  BY DEF WriteGoSum
<1>3. \A k \in 1..L, j \in 1..2 : blocks[k][j] = sum(k, j)
  OBVIOUS
<1>4. ASSUME NEW k \in 1..L
      PROVE  ~sum(k, 1).gomod /\ sum(k, 2).gomod /\ dep(sum(k, 1)) = plain(k)
  <2>1. sum(k, 1).gomod = (1 = 2) /\ sum(k, 2).gomod = (2 = 2)
    OBVIOUS
  <2>2. sum(k, 1).name = ps[k].name /\ sum(k, 1).version = ps[k].version
    OBVIOUS
  <2> HIDE DEF sum
  <2>3. dep(sum(k, 1)) = plain(k)
    BY <2>2
  <2>4. ~sum(k, 1).gomod
    <3>1. (1 = 2) = FALSE
      OBVIOUS
    <3>2. sum(k, 1).gomod = FALSE
      BY <2>1, <3>1
    <3> QED
      BY <3>2
  <2>5. sum(k, 2).gomod
    BY <2>1
  <2> HIDE DEF dep, plain
  <2> QED
    BY <2>3, <2>4, <2>5
<1>p. ParseGoSum(lines) = {dep(l) : l \in {x \in ToSet(lines) : ~x.gomod}}
  BY DEF ParseGoSum
<1>q. FirstDeps("go", ps, L) = {plain(k) : k \in 1..L}
  BY DEF FirstDeps
<1> HIDE DEF L, sum, blocks, lines, dep, plain
<1>5. ToSet(lines) = {sum(k, j) : k \in 1..L, j \in 1..2}
  <2>0. 2 \in {2, 3, 4} /\ Len(blocks) \in Nat
    BY <1>1
  <2>1. ToSet(lines) = {blocks[k][j] : k \in 1..Len(blocks), j \in 1..2}
    BY <1>2, <2>0, FlattenedSet
  <2> QED
    BY <1>1, <1>3, <2>1
<1>6. {x \in ToSet(lines) : ~x.gomod} = {sum(k, 1) : k \in 1..L}
  <2>1. \A x \in ToSet(lines) : \E k \in 1..L : x = sum(k, 1) \/ x = sum(k, 2)
    BY <1>5
  <2>2. \A k \in 1..L : sum(k, 1) \in ToSet(lines)
    <3>1. 1 \in 1..2
      OBVIOUS
    <3> QED
      BY <1>5, <3>1
  <2> QED
    BY <1>4, <2>1, <2>2
<1>7. ParseGoSum(lines) = {plain(k) : k \in 1..L}
  BY <1>4, <1>6, <1>p
<1>8. /\ "go.sum" \in Formats /\ "go.sum" \notin TellsDev
      /\ Ecosystem("go.sum") = "go"
  BY DEF Formats, TellsDev, Ecosystem
<1>9. Parsed("go.sum", Written("go.sum", ps)) = ParseGoSum(WriteGoSum(ps))
  BY DEF Parsed, Written
<1>10. Plainly("go.sum", ps)
  <2>1. Parsed("go.sum", Written("go.sum", ps)) = FirstDeps("go", ps, Len(ps))
    BY <1>7, <1>9, <1>q DEF lines, L
  <2> QED
    BY <1>8, <2>1, FirstIsPlain DEF Plainly
<1> QED
  BY <1>8, <1>10, PlainlyFaithful

PnpmFormat(v6, format) == format = IF v6 THEN "pnpm-lock.yaml v6" ELSE "pnpm-lock.yaml v5"

\* What is read of the parts of a key.
PnpmDep(key) == Dep("npm", <<key[1]>>, Last(key), FALSE)

LEMMA PnpmParts ==
  ASSUME NEW a, NEW b, NEW c
  PROVE  /\ Len(<<a, b>>) >= 2 /\ PnpmDep(<<a, b>>) = Dep("npm", <<a>>, b, FALSE)
         /\ Len(<<a, c, b>>) >= 2 /\ PnpmDep(<<a, c, b>>) = Dep("npm", <<a>>, b, FALSE)
<1>1. Last(<<a, b>>) = b /\ Last(<<a, c, b>>) = b
  BY DEF Last
<1> QED
  BY <1>1 DEF PnpmDep

PnpmReads(p, key) ==
    \E name \in {None, p.name}, version \in {p.version, OtherText} :
        PnpmDep(key) = Dep("npm", <<name>>, version, FALSE)

LEMMA PnpmRead ==
  ASSUME NEW p \in Packages(Versions), NEW v6 \in BOOLEAN, NEW key, key = PnpmKey(p, v6)
  PROVE  /\ p.url => ~(Len(key) >= 2)
         /\ ~p.url => Len(key) >= 2 /\ PnpmReads(p, key)
         /\ ~p.url /\ p.name \notin Scoped /\ p.peers = 0 =>
               PnpmDep(key) = Dep("npm", <<p.name>>, p.version, FALSE)
<1>0. PICK last \in {p.version, OtherText} : last = IF p.peers = 0 THEN p.version ELSE OtherText
  OBVIOUS
<1>1. CASE p.url
  <2>1. key = << >>
    BY <1>1 DEF PnpmKey
  <2>2. Len(key) = 0
    BY <2>1
  <2> QED
    BY <1>1, <2>2
<1>2. CASE ~p.url /\ ~v6 /\ (p.name \in Scoped \/ p.peers = 1)
  <2>1. key = <<None, OtherText>>
    BY <1>2 DEF PnpmKey
  <2>2. Len(key) >= 2 /\ PnpmDep(key) = Dep("npm", <<None>>, OtherText, FALSE)
    BY <2>1, PnpmParts
  <2>3. PnpmReads(p, key)
    BY <2>2 DEF PnpmReads
  <2>4. p.name \in Scoped \/ p.peers # 0
    BY <1>2
  <2> QED
    BY <1>2, <2>2, <2>3, <2>4, Zenon
<1>3. CASE ~p.url /\ v6 /\ p.name \in Scoped
  <2>1. key = <<None, p.name, last>>
    BY <1>0, <1>3 DEF PnpmKey
  <2>2. Len(key) >= 2 /\ PnpmDep(key) = Dep("npm", <<None>>, last, FALSE)
    BY <2>1, PnpmParts
  <2>3. PnpmReads(p, key)
    BY <2>2 DEF PnpmReads
  <2> QED
    BY <1>3, <2>2, <2>3
<1>4. CASE ~p.url /\ p.name \notin Scoped /\ (v6 \/ p.peers # 1)
  <2>1. key = <<p.name, last>>
    BY <1>0, <1>4 DEF PnpmKey
  <2>2. Len(key) >= 2 /\ PnpmDep(key) = Dep("npm", <<p.name>>, last, FALSE)
    BY <2>1, PnpmParts
  <2>3. PnpmReads(p, key)
    BY <2>2 DEF PnpmReads
  <2> QED
    BY <1>0, <1>4, <2>2, <2>3
<1> QED
  BY <1>1, <1>2, <1>3, <1>4

\* pnpm-lock.yaml: another text is read of scoped names and of keys with peers.
LEMMA PnpmFaithful ==
  ASSUME NEW ps \in Seq(Packages(Versions)), NEW v6 \in BOOLEAN, NEW format,
         PnpmFormat(v6, format)
  PROVE  Faithful(format, ps)
<1> DEFINE L == Len(ps)
           lines == WritePnpmLock(ps, v6)
           read == Parsed(format, Written(format, ps))
<1>1. /\ format \in Formats /\ format \notin TellsDev /\ Ecosystem(format) = "npm"
      /\ format \in {"pnpm-lock.yaml v5", "pnpm-lock.yaml v6"}
  BY DEF Formats, TellsDev, Ecosystem, PnpmFormat
<1>2. read = ParsePnpmLock(lines)
  <2>1. CASE v6
    BY <2>1 DEF Parsed, Written, PnpmFormat
  <2>2. CASE ~v6
    BY <2>2 DEF Parsed, Written, PnpmFormat
  <2> QED
    BY <2>1, <2>2
<1>3. ToSet(lines) = {PnpmKey(ps[k], v6) : k \in 1..L}
  <2>1. DOMAIN lines = 1..L /\ \A k \in 1..L : lines[k] = PnpmKey(ps[k], v6)
    BY DEF WritePnpmLock
  <2> QED
    BY <2>1 DEF ToSet
<1>4. read = {PnpmDep(x) : x \in {y \in ToSet(lines) : Len(y) >= 2}}
  BY <1>2 DEF ParsePnpmLock, PnpmDep
<1>5. \A p : PlainDep(p, format) = Dep("npm", <<p.name>>, p.version, FALSE)
  BY <1>1 DEF PlainDep, IsProduction
<1> HIDE DEF read, lines, L
<1>7. ASSUME NEW d \in read
      PROVE  d \in Deps /\ (Misread(d) \/ \E p \in ToSet(ps) : StandsFor(d, p, format))
  <2>1. PICK k \in 1..Len(ps) : Len(PnpmKey(ps[k], v6)) >= 2 /\ d = PnpmDep(PnpmKey(ps[k], v6))
    BY <1>3, <1>4 DEF L
  <2>2. PICK p \in ToSet(ps) : p = ps[k] /\ p \in Packages(Versions)
    BY PackageOf, SetOf
  <2>3. PICK key : key = PnpmKey(p, v6)
    OBVIOUS
  <2>4. PnpmReads(p, key) /\ d = PnpmDep(key)
    BY <2>1, <2>2, <2>3, PnpmRead, OnePackage
  <2>5. PICK name \in {None, p.name}, version \in {p.version, OtherText} :
           d = Dep("npm", <<name>>, version, FALSE)
    BY <2>4 DEF PnpmReads
  <2>6. name \in Names \cup {None} /\ version \in Versions \cup {Constraint, OtherText}
    BY <2>2, OnePackage
  <2>7. d \in Deps
    BY <2>5, <2>6, DepIsDep
  <2>8. d.ecosystem = "npm" /\ d.name = <<name>> /\ d.version = version
    BY <2>5 DEF Dep
  <2>9. CASE name = None \/ version = OtherText
    BY <2>7, <2>8, <2>9 DEF Misread
  <2>10. CASE name = p.name /\ version = p.version
    <3>1. d = PlainDep(p, format)
      BY <1>5, <2>5, <2>10
    <3> QED
      BY <1>1, <2>2, <3>1, PlainStands
  <2> QED
    BY <2>9, <2>10
<1>8. ASSUME NEW p \in ToSet(ps), Legible(p, format) PROVE PlainDep(p, format) \in read
  <2>1. PICK k \in 1..L : p = ps[k]
    BY SetOf DEF L
  <2>2. p \in Packages(Versions)
    BY SetOf
  <2>3. ~p.url /\ p.name \notin Scoped /\ p.peers = 0
    BY <1>1, <1>8 DEF Legible
  <2>4. PICK key : key = PnpmKey(p, v6)
    OBVIOUS
  <2>5. Len(key) >= 2 /\ PnpmDep(key) = PlainDep(p, format)
    BY <1>5, <2>2, <2>3, <2>4, PnpmRead
  <2>6. key \in ToSet(lines)
    BY <1>3, <2>1, <2>4
  <2> QED
    BY <1>4, <2>5, <2>6
<1> QED
  BY <1>7, <1>8 DEF Faithful, read

\* npm's first format says nothing of packages, and the others nothing of dependencies.
NpmDeps(entries) == {Dep("npm", e.path, e.version, e.dev) : e \in entries}

LEMMA NpmRead ==
  ASSUME NEW entries
  PROVE  /\ ParsePackageLock([dependencies |-> entries]) = NpmDeps(WithVersion(entries))
         /\ ParsePackageLock([packages |-> entries]) =
               NpmDeps({e \in WithVersion(entries) : e.path # << >>})
<1>1. /\ Section([dependencies |-> entries], "dependencies") = entries
      /\ Section([dependencies |-> entries], "packages") = {}
      /\ Section([packages |-> entries], "packages") = entries
      /\ Section([packages |-> entries], "dependencies") = {}
  BY DEF Section
<1>2. WithVersion({}) = {} /\ {e \in WithVersion({}) : e.path # << >>} = {}
  BY DEF WithVersion
<1> QED
  BY <1>1, <1>2 DEF ParsePackageLock, NpmDeps

LEMMA PathsAreSequences ==
  ASSUME NEW N, NEW x \in N, NEW y \in N
  PROVE  <<x>> \in Seq(N) /\ <<x, y>> \in Seq(N)
OBVIOUS

NpmPath(p) == IF p.nested THEN <<"parent", p.name>> ELSE <<p.name>>
NpmEntry(p) == Entry(NpmPath(p), p.version, p.dev)
NpmDep(p) == Dep("npm", NpmPath(p), p.version, p.dev)

LEMMA DepStands ==
  ASSUME NEW format, NEW p, NEW path, NEW dev, Last(path) = p.name,
         (~IsProduction(p, format)) = dev
  PROVE  StandsFor(Dep(Ecosystem(format), path, p.version, dev), p, format)
<1>1. PICK d : d = Dep(Ecosystem(format), path, p.version, dev)
  OBVIOUS
<1>2. d.name = path /\ d.version = p.version /\ d.ecosystem = Ecosystem(format) /\ d.dev = dev
  BY <1>1, DepFields
<1>3. StandsFor(d, p, format)
  BY <1>2 DEF StandsFor
<1> QED
  BY <1>1, <1>3

LEMMA NpmDepOf ==
  ASSUME NEW format \in {"package-lock.json v1", "package-lock.json v3"},
         NEW p \in Packages(Versions)
  PROVE  /\ NpmDep(p) \in Deps /\ StandsFor(NpmDep(p), p, format)
         /\ ~p.nested => NpmDep(p) = PlainDep(p, format)
         /\ NpmPath(p) # << >>
         /\ NpmEntry(p).path = NpmPath(p) /\ NpmEntry(p).version = p.version
         /\ NpmEntry(p).dev = p.dev
<1>1. /\ format \in TellsDev /\ Ecosystem(format) = "npm"
  BY DEF TellsDev, Ecosystem
<1>2. PICK dev \in BOOLEAN : dev = p.dev /\ (~IsProduction(p, format)) = dev
  BY <1>1, OnePackage DEF IsProduction
<1>3. p.name \in Names /\ p.version \in Versions /\ p.nested \in BOOLEAN
  BY OnePackage
<1>4. PICK path : path = NpmPath(p)
  OBVIOUS
<1>5. path \in Seq(Names \cup {None, "parent"}) /\ Last(path) = p.name /\ path # << >>
  <2>1. CASE p.nested
    <3>1. path = <<"parent", p.name>>
      BY <1>4, <2>1 DEF NpmPath
    <3>2. "parent" \in Names \cup {None, "parent"} /\ p.name \in Names \cup {None, "parent"}
      BY <1>3
    <3>3. path \in Seq(Names \cup {None, "parent"})
      BY <3>1, <3>2, PathsAreSequences
    <3>4. path # << >>
      BY <3>1
    <3>5. Last(path) = p.name
      BY <3>1, LastOfTwo
    <3> QED
      BY <3>3, <3>4, <3>5
  <2>2. CASE ~p.nested
    <3>1. path = <<p.name>>
      BY <1>4, <2>2 DEF NpmPath
    <3>2. p.name \in Names \cup {None, "parent"}
      BY <1>3
    <3>3. path \in Seq(Names \cup {None, "parent"})
      BY <3>1, <3>2, PathsAreSequences
    <3>4. path # << >>
      BY <3>1
    <3>5. Last(path) = p.name
      BY <3>1, LastOfOne
    <3> QED
      BY <3>3, <3>4, <3>5
  <2> QED
    BY <2>1, <2>2
<1>6. NpmDep(p) = Dep("npm", path, p.version, dev)
  <2>1. dev = p.dev
    BY <1>2
  <2> QED
    BY <1>4, <2>1, Zenon DEF NpmDep
<1>7. NpmDep(p) \in Deps
  <2>1. Dep("npm", path, p.version, dev) \in Deps
    BY <1>3, <1>5 DEF Deps, Dep
  <2> QED
    BY <1>6, <2>1
<1>8. StandsFor(NpmDep(p), p, format)
  <2>1. NpmDep(p) = Dep(Ecosystem(format), path, p.version, dev)
    BY <1>1, <1>6
  <2>2. StandsFor(Dep(Ecosystem(format), path, p.version, dev), p, format)
    BY <1>2, <1>5, DepStands
  <2> QED
    BY <2>1, <2>2
<1>9. ~p.nested => NpmDep(p) = PlainDep(p, format)
  <2>1. ASSUME ~p.nested PROVE NpmDep(p) = PlainDep(p, format)
    <3>1. path = <<p.name>>
      BY <1>4, <2>1 DEF NpmPath
    <3>2. PlainDep(p, format) = Dep("npm", <<p.name>>, p.version, dev)
      BY <1>1, <1>2 DEF PlainDep
    <3> QED
      BY <1>6, <3>1, <3>2
  <2> QED
    BY <2>1
<1>10. NpmEntry(p).path = NpmPath(p) /\ NpmEntry(p).version = p.version /\ NpmEntry(p).dev = p.dev
  BY DEF NpmEntry, Entry
<1> QED
  BY <1>4, <1>5, <1>7, <1>8, <1>9, <1>10

\* The packages of some entries.
LEMMA NpmEntries ==
  ASSUME NEW S \in SUBSET Packages(Versions)
  PROVE  /\ WithVersion({NpmEntry(p) : p \in S}) = {NpmEntry(p) : p \in S}
         /\ \A e \in {NpmEntry(p) : p \in S} : e.path # << >>
         /\ NpmDeps({NpmEntry(p) : p \in S}) = {NpmDep(p) : p \in S}
<1>1. \A p \in S : /\ NpmPath(p) # << >> /\ p.version # None
                   /\ NpmEntry(p).path = NpmPath(p) /\ NpmEntry(p).version = p.version
                   /\ NpmEntry(p).dev = p.dev
  BY NpmDepOf, OnePackage
<1>2. WithVersion({NpmEntry(p) : p \in S}) = {NpmEntry(p) : p \in S}
  BY <1>1 DEF WithVersion
<1>3. \A p \in S : Dep("npm", NpmEntry(p).path, NpmEntry(p).version, NpmEntry(p).dev) = NpmDep(p)
  BY <1>1 DEF NpmDep
<1>4. NpmDeps({NpmEntry(p) : p \in S}) = {NpmDep(p) : p \in S}
  <2>1. NpmDeps({NpmEntry(p) : p \in S}) =
           {Dep("npm", NpmEntry(p).path, NpmEntry(p).version, NpmEntry(p).dev) : p \in S}
    BY DEF NpmDeps
  <2> QED
    BY <1>3, <2>1
<1>5. \A e \in {NpmEntry(p) : p \in S} : e.path # << >>
  BY <1>1
<1> QED
  BY <1>2, <1>4, <1>5

LEMMA Npm1Faithful ==
  ASSUME NEW ps \in Seq(Packages(Versions)) PROVE Faithful("package-lock.json v1", ps)
<1> DEFINE format == "package-lock.json v1"
           S == {q \in ToSet(ps) : ~q.nested}
           entry(p) == Entry(<<p.name>>, VersionOrUrl(p), p.dev)
           E == {entry(p) : p \in S}
           read == Parsed(format, Written(format, ps))
<1>1. S \in SUBSET ToSet(ps) /\ S \subseteq Packages(Versions)
  BY SetOf
<1>2. format \in Formats /\ format \in TellsDev /\ Ecosystem(format) = "npm"
  BY DEF Formats, TellsDev, Ecosystem
<1>3. read = ParsePackageLock([dependencies |-> E])
  BY DEF Parsed, Written, WritePackageLock1
<1>4. \A p \in ToSet(ps) : Legible(p, format) => p \in S /\ ~p.url
  BY DEF Legible
<1>5. \A p \in S : /\ entry(p).version # None /\ entry(p).path = <<p.name>>
                   /\ entry(p).version = VersionOrUrl(p) /\ entry(p).dev = p.dev
  BY <1>1, OnePackage, VersionsAssumption DEF Entry, VersionOrUrl
<1> HIDE DEF format, S, read, entry
<1>6. WithVersion(E) = E
  BY <1>5 DEF WithVersion
<1>7. read = NpmDeps(E)
  BY <1>3, <1>6, NpmRead
<1>8. ASSUME NEW p \in S
      PROVE  Dep("npm", entry(p).path, entry(p).version, entry(p).dev) = OneDep(p, format)
  <2>1. p.dev \in BOOLEAN
    BY <1>1, OnePackage
  <2>2. (~IsProduction(p, format)) = p.dev
    BY <1>2, <2>1 DEF IsProduction
  <2>3. OneDep(p, format) = Dep("npm", <<p.name>>, VersionOrUrl(p), p.dev)
    BY <1>2, <2>2, Zenon DEF OneDep
  <2> QED
    BY <1>5, <2>3
<1>9. read = {OneDep(p, format) : p \in S}
  <2>1. NpmDeps(E) = {Dep("npm", entry(p).path, entry(p).version, entry(p).dev) : p \in S}
    BY DEF NpmDeps
  <2> QED
    BY <1>7, <1>8, <2>1
<1>10. Faithful(format, ps)
  BY <1>1, <1>2, <1>4, <1>9, UrlsFaithful DEF read
<1> QED
  BY <1>10 DEF format

LEMMA Npm3Faithful ==
  ASSUME NEW ps \in Seq(Packages(Versions)) PROVE Faithful("package-lock.json v3", ps)
<1> DEFINE format == "package-lock.json v3"
           S == ToSet(ps)
           read == Parsed("package-lock.json v3", Written("package-lock.json v3", ps))
<1>1. S \in SUBSET Packages(Versions)
  BY SetOf
<1>2. PICK E : E = {NpmEntry(p) : p \in S}
  OBVIOUS
<1>3. read = ParsePackageLock([packages |-> {Root} \cup E])
  <2>1. read = ParsePackageLock(WritePackageLock3(S))
    BY DEF Parsed, Written
  <2>2. WritePackageLock3(S) = [packages |-> {Root} \cup E]
    BY <1>2 DEF WritePackageLock3, NpmEntry, NpmPath
  <2> QED
    BY <2>1, <2>2
<1> HIDE DEF S, read
<1>4. WithVersion(E) = E /\ (\A e \in E : e.path # << >>) /\ NpmDeps(E) = {NpmDep(p) : p \in S}
  BY <1>1, <1>2, NpmEntries
<1>5. {e \in WithVersion({Root} \cup E) : e.path # << >>} = E
  <2>1. Root.path = << >>
    BY DEF Root, Entry
  <2>2. \A e \in E : e.version # None
    BY <1>4 DEF WithVersion
  <2> QED
    BY <1>4, <2>1, <2>2 DEF WithVersion
<1>6. read = {NpmDep(p) : p \in S}
  BY <1>3, <1>4, <1>5, NpmRead
<1>7. \A p \in S : NpmDep(p) \in Deps /\ StandsFor(NpmDep(p), p, format)
                   /\ (~p.nested => NpmDep(p) = PlainDep(p, format))
  <2>1. format \in {"package-lock.json v1", "package-lock.json v3"}
    OBVIOUS
  <2> HIDE DEF format
  <2> QED
    BY <1>1, <2>1, NpmDepOf
<1>8. \A p \in S : Legible(p, format) => ~p.nested
  BY DEF Legible
<1> QED
  BY <1>6, <1>7, <1>8 DEF Faithful, read, S

\* The files with a section for production and one for development.
DividedEntry(p) == Entry(<<p.name>>, p.version, FALSE)
DividedDep(ecosystem, p) == Dep(ecosystem, <<p.name>>, p.version, p.dev)

LEMMA DividedReads ==
  ASSUME NEW S, \A p \in S : p.dev \in BOOLEAN, NEW ecosystem, NEW main, NEW dev, main # dev
  PROVE  ParseDivided(ecosystem, WriteDivided(S, main, dev), main, dev) =
            {DividedDep(ecosystem, p) : p \in {q \in S : q.version # None}}
<1> DEFINE json == WriteDivided(S, main, dev)
           Main == {p \in S : ~p.dev}
           Dev == {p \in S : p.dev}
           M == {DividedEntry(p) : p \in Main}
           D == {DividedEntry(p) : p \in Dev}
           MainV == {p \in Main : p.version # None}
           DevV == {p \in Dev : p.version # None}
           MV == {DividedEntry(p) : p \in MainV}
           DV == {DividedEntry(p) : p \in DevV}
<1>1. \A p \in S : p.dev \in BOOLEAN
  OBVIOUS
<1>2. Section(json, main) = M /\ Section(json, dev) = D
  <2>1. DOMAIN json = {main, dev}
    BY DEF WriteDivided
  <2>2. json[main] = {DividedEntry(p) : p \in {q \in S : q.dev = (main = dev)}}
    BY DEF WriteDivided, DividedEntry
  <2>3. json[dev] = {DividedEntry(p) : p \in {q \in S : q.dev = (dev = dev)}}
    BY DEF WriteDivided, DividedEntry
  <2>4. {q \in S : q.dev = (main = dev)} = Main
    <3>1. (main = dev) = FALSE
      OBVIOUS
    <3> QED
      BY <1>1, <3>1
  <2>5. {q \in S : q.dev = (dev = dev)} = Dev
    BY <1>1
  <2> QED
    BY <2>1, <2>2, <2>3, <2>4, <2>5 DEF Section
<1>e. \A p \in S : DividedEntry(p).path = <<p.name>> /\ DividedEntry(p).version = p.version
  BY DEF DividedEntry, Entry
<1>3. WithVersion(M) = MV /\ WithVersion(D) = DV
  <2> HIDE DEF Main, Dev
  <2>1. Main \subseteq S /\ Dev \subseteq S
    BY DEF Main, Dev
  <2>2. WithVersion(M) = MV
    BY <1>e, <2>1 DEF WithVersion
  <2>3. WithVersion(D) = DV
    BY <1>e, <2>1 DEF WithVersion
  <2> QED
    BY <2>2, <2>3
<1>4. /\ {Dep(ecosystem, e.path, e.version, FALSE) : e \in MV} =
            {DividedDep(ecosystem, p) : p \in MainV}
      /\ {Dep(ecosystem, e.path, e.version, TRUE) : e \in DV} =
            {DividedDep(ecosystem, p) : p \in DevV}
  <2>2. \A p \in MainV : Dep(ecosystem, DividedEntry(p).path, DividedEntry(p).version, FALSE)
                           = DividedDep(ecosystem, p)
    BY <1>1, <1>e DEF DividedDep
  <2>3. \A p \in DevV : Dep(ecosystem, DividedEntry(p).path, DividedEntry(p).version, TRUE)
                          = DividedDep(ecosystem, p)
    BY <1>1, <1>e DEF DividedDep
  <2> HIDE DEF MainV, DevV
  <2> QED
    BY <2>2, <2>3
<1>5. ParseDivided(ecosystem, json, main, dev) =
         {DividedDep(ecosystem, p) : p \in MainV} \cup {DividedDep(ecosystem, p) : p \in DevV}
  <2> HIDE DEF json, M, D, MV, DV, MainV, DevV
  <2> QED
    BY <1>2, <1>3, <1>4 DEF ParseDivided
<1>6. MainV \cup DevV = {q \in S : q.version # None}
  BY <1>1
<1> QED
  BY <1>5, <1>6

LEMMA DividedIsPlain ==
  ASSUME NEW format \in {"Pipfile.lock", "composer.lock"}, NEW p \in Packages(Versions)
  PROVE  DividedDep(Ecosystem(format), p) = PlainDep(p, format)
<1>1. format \in TellsDev /\ p.dev \in BOOLEAN
  BY OnePackage DEF TellsDev
<1>2. (~IsProduction(p, format)) = p.dev
  BY <1>1 DEF IsProduction
<1> QED
  BY <1>2, Zenon DEF DividedDep, PlainDep

\* The packages of a URL are without a version in Pipfile.lock, and are not read.
LEMMA PipfileFaithful ==
  ASSUME NEW ps \in Seq(Packages(Versions)) PROVE Faithful("Pipfile.lock", ps)
<1> DEFINE format == "Pipfile.lock"
           bare(p) == IF p.url THEN [p EXCEPT !.version = None] ELSE p
           T == ToSet(ps)
           B == {bare(p) : p \in T}
           S == {p \in T : ~p.url}
           read == Parsed(format, Written(format, ps))
<1>1. T \subseteq Packages(Versions)
  BY SetOf
<1>2. /\ Ecosystem(format) = "pip" /\ format \in Formats /\ "default" # "develop"
      /\ format \in {"Pipfile.lock", "composer.lock"}
  BY DEF Ecosystem, Formats
<1>3. read = ParseDivided("pip", WriteDivided(B, "default", "develop"), "default", "develop")
  BY DEF Parsed, Written, ParsePipfileLock, WritePipfileLock
<1>4. ASSUME NEW p \in T
      PROVE  /\ p.url => bare(p).version = None
             /\ ~p.url => bare(p) = p /\ p.version # None
             /\ bare(p).dev \in BOOLEAN
  <2>1. p \in Packages(Versions) /\ p.version # None /\ p.dev \in BOOLEAN
    BY <1>1, OnePackage
  <2>2. CASE p.url
    <3>1. p \in [name : Names, version : Versions, dev : BOOLEAN, nested : BOOLEAN,
                 url : BOOLEAN, peers : 0..2]
      BY <2>1 DEF Packages
    <3>2. bare(p) = [p EXCEPT !.version = None]
      BY <2>2
    <3>3. bare(p).version = None /\ bare(p).dev = p.dev
      BY <3>1, <3>2
    <3> QED
      BY <2>1, <2>2, <3>3
  <2>3. CASE ~p.url
    BY <2>1, <2>3
  <2> QED
    BY <2>2, <2>3
<1>5. \A p \in T : Legible(p, format) => p \in S /\ ~p.url
  BY DEF Legible
<1> HIDE DEF format, bare, T, read
<1>6. {q \in B : q.version # None} = S
  BY <1>4
<1>7. read = {DividedDep("pip", p) : p \in S}
  <2>1. \A q \in B : q.dev \in BOOLEAN
    BY <1>4
  <2> HIDE DEF B, S
  <2> QED
    BY <1>2, <1>3, <1>6, <2>1, DividedReads
<1>8. ASSUME NEW p \in S PROVE DividedDep("pip", p) = OneDep(p, format)
  <2>1. p \in Packages(Versions) /\ ~p.url
    BY <1>1
  <2>2. DividedDep("pip", p) = PlainDep(p, format)
    BY <1>2, <2>1, DividedIsPlain
  <2> QED
    BY <1>2, <2>1, <2>2, OneDepIs
<1>9. read = {OneDep(p, format) : p \in S}
  <2> HIDE DEF S
  <2> QED
    BY <1>7, <1>8
<1>10. S \in SUBSET ToSet(ps) /\ \A p \in ToSet(ps) : Legible(p, format) => p \in S /\ ~p.url
  BY <1>5 DEF T
<1>11. Faithful(format, ps)
  <2> HIDE DEF S
  <2> QED
    BY <1>2, <1>9, <1>10, UrlsFaithful DEF read
<1> QED
  BY <1>11 DEF format

LEMMA ComposerFaithful ==
  ASSUME NEW ps \in Seq(Packages(Versions)) PROVE Faithful("composer.lock", ps)
<1> DEFINE format == "composer.lock"
           T == ToSet(ps)
<1>1. T \subseteq Packages(Versions)
  BY SetOf
<1>2. /\ Ecosystem(format) = "composer" /\ format \in Formats /\ "packages" # "packages-dev"
      /\ format \in {"Pipfile.lock", "composer.lock"}
  BY DEF Ecosystem, Formats
<1>3. Parsed(format, Written(format, ps)) =
         ParseDivided("composer", WriteDivided(T, "packages", "packages-dev"),
                      "packages", "packages-dev")
  BY DEF Parsed, Written, ParseComposerLock
<1> HIDE DEF format, T
<1>4. \A p \in T : p.dev \in BOOLEAN /\ p.version # None
  BY <1>1, OnePackage
<1>5. {q \in T : q.version # None} = T
  BY <1>4
<1>6. Parsed(format, Written(format, ps)) = {DividedDep("composer", p) : p \in T}
  BY <1>2, <1>3, <1>4, <1>5, DividedReads
<1>7. \A p \in T : DividedDep("composer", p) = PlainDep(p, format)
  BY <1>1, <1>2, DividedIsPlain
<1>8. Plainly(format, ps)
  BY <1>6, <1>7 DEF Plainly, T
<1>9. Faithful(format, ps)
  BY <1>2, <1>8, PlainlyFaithful
<1> QED
  BY <1>9 DEF format

\* Whatever the format, the packages that were written are the packages that are read
\* (the parsers of src/src/scanner.rs that run_scan chooses from).
THEOREM FilesAreReadFaithfully ==
  ASSUME NEW format \in Formats, NEW ps \in Seq(Packages(Versions))
  PROVE  Faithful(format, ps)
<1>1. CASE format = "pnpm-lock.yaml v5"
  <2>1. FALSE \in BOOLEAN /\ PnpmFormat(FALSE, format)
    BY <1>1 DEF PnpmFormat
  <2> QED
    BY <2>1, PnpmFaithful
<1>2. CASE format = "pnpm-lock.yaml v6"
  <2>1. TRUE \in BOOLEAN /\ PnpmFormat(TRUE, format)
    BY <1>2 DEF PnpmFormat
  <2> QED
    BY <2>1, PnpmFaithful
<1>3. CASE format \notin {"pnpm-lock.yaml v5", "pnpm-lock.yaml v6"}
  <2>1. format \in {"package-lock.json v1", "package-lock.json v3", "requirements.txt",
                    "Pipfile.lock", "composer.lock", "poetry.lock", "yarn.lock", "Cargo.lock",
                    "go.sum", "Gemfile.lock"}
    BY <1>3 DEF Formats
  <2> QED
    BY <2>1, Npm1Faithful, Npm3Faithful, RequirementsFaithful, PipfileFaithful,
       ComposerFaithful, PoetryFaithful, YarnFaithful, CargoFaithful, GoFaithful, GemFaithful
<1> QED
  BY <1>1, <1>2, <1>3

-----------------------------------------------------------------------------
(* The alerts of a scan *)

Files == [format : Formats, dir : Seq(STRING), packages : Seq(Packages(Versions))]

\* An alert has a package that was vulnerable, and for production if it is critical.
AboutOne(a, format, S) ==
    /\ a \in [package : Names, version : Versions, severity : {"WARNING", "CRITICAL"}]
    /\ \E p \in S : /\ a.package = p.name /\ a.version = p.version
                    /\ Vulnerable(p, format)
                    /\ a.severity = "CRITICAL" => IsProduction(p, format)

\* The alert that a vulnerable package deserves.
Deserved(p, format) ==
    [package |-> p.name, version |-> p.version,
     severity |-> IF IsProduction(p, format) THEN "CRITICAL" ELSE "WARNING"]

LEMMA OneFile ==
  ASSUME NEW file \in Files
  PROVE  /\ file.format \in Formats /\ file.packages \in Seq(Packages(Versions))
         /\ ToSet(file.packages) \subseteq Packages(Versions)
         /\ Faithful(file.format, file.packages)
<1>1. file.format \in Formats /\ file.packages \in Seq(Packages(Versions))
  BY DEF Files
<1> QED
  BY <1>1, SetOf, FilesAreReadFaithfully

LEMMA EcosystemNames ==
  ASSUME NEW format \in Formats, NEW name
  PROVE  SameEcosystem(Ecosystem(format), name) <=> name \in NamesOf(format)
BY DEF Formats, SameEcosystem, Ecosystem, NamesOf

\* A dependency that is misread is not matched.
LEMMA MisreadIsIgnored ==
  ASSUME NEW d, NEW adv \in Advisories, Matches(d, adv)
  PROVE  ~Misread(d)
<1>1. adv.package \in Names /\ (~adv.range.semver => adv.range.version \in Versions)
  BY VersionsAssumption
<1>2. d.name = <<adv.package>> /\ Affected(d.version, adv.range)
  BY DEF Matches
<1>3. d.name # <<None>>
  <2>1. ASSUME d.name = <<None>> PROVE FALSE
    <3>1. Last(d.name) = adv.package
      BY <1>2, LastOfOne
    <3>2. Last(d.name) = None
      BY <2>1, LastOfOne
    <3> QED
      BY <1>1, <3>1, <3>2, LockFilesAssumption
  <2> QED
    BY <2>1
<1>4. d.version # Constraint /\ d.version # OtherText
  <2>1. ASSUME d.version \in {Constraint, OtherText} PROVE FALSE
    <3>1. ~d.version.semver
      BY <2>1 DEF Constraint, OtherText
    <3>2. ~adv.range.semver /\ d.version = adv.range.version
      BY <1>2, <3>1 DEF Affected
    <3> QED
      BY <1>1, <2>1, <3>2, VersionsAssumption
  <2> QED
    BY <2>1
<1> QED
  BY <1>3, <1>4 DEF Misread

LEMMA AlertOnOne ==
  ASSUME NEW format \in Formats, NEW p \in Packages(Versions), NEW d, NEW adv \in Advisories,
         Matches(d, adv), StandsFor(d, p, format), NEW S, p \in S
  PROVE  AboutOne(AlertOn(d, adv), format, S)
<1>1. d.name = <<adv.package>> /\ SameEcosystem(d.ecosystem, adv.ecosystem)
      /\ Affected(d.version, adv.range)
  BY DEF Matches
<1>2. Last(d.name) = p.name /\ d.version = p.version /\ d.ecosystem = Ecosystem(format)
  BY DEF StandsFor
<1>3. adv.package = p.name
  BY <1>1, <1>2, LastOfOne
<1>4. adv.ecosystem \in NamesOf(format)
  BY <1>1, <1>2, EcosystemNames
<1>5. Vulnerable(p, format)
  BY <1>1, <1>2, <1>3, <1>4 DEF Vulnerable
<1>6. PICK severity : severity = IF d.dev THEN "WARNING" ELSE "CRITICAL"
  OBVIOUS
<1>7. severity \in {"WARNING", "CRITICAL"} /\ (severity = "CRITICAL" => ~d.dev)
  BY <1>6
<1>8. severity = "CRITICAL" => IsProduction(p, format)
  BY <1>7 DEF StandsFor
<1>9. PICK a : a = [package |-> p.name, version |-> p.version, severity |-> severity]
  OBVIOUS
<1>10. AlertOn(d, adv) = a
  BY <1>2, <1>3, <1>6, <1>9 DEF AlertOn
<1>11. p.name \in Names /\ p.version \in Versions
  BY OnePackage
<1>12. a \in [package : Names, version : Versions, severity : {"WARNING", "CRITICAL"}]
  BY <1>7, <1>9, <1>11
<1>13. a.package = p.name /\ a.version = p.version /\ a.severity = severity
  BY <1>9
<1>14. AboutOne(a, format, S)
  BY <1>5, <1>8, <1>12, <1>13 DEF AboutOne
<1> QED
  BY <1>10, <1>14

LEMMA AlertsOf ==
  ASSUME NEW deps
  PROVE  /\ \A a \in AlertsFor(deps) : \E d \in deps, adv \in Advisories :
               Matches(d, adv) /\ a = AlertOn(d, adv)
         /\ \A d \in deps, adv \in Advisories :
               Matches(d, adv) => AlertOn(d, adv) \in AlertsFor(deps)
<1>1. \A a \in AlertsFor(deps) : \E d \in deps, adv \in Advisories :
               Matches(d, adv) /\ a = AlertOn(d, adv)
  BY DEF AlertsFor
<1>2. ASSUME NEW d \in deps, NEW adv \in Advisories, Matches(d, adv)
      PROVE  AlertOn(d, adv) \in AlertsFor(deps)
  <2>1. PICK m \in deps \X Advisories : m[1] = d /\ m[2] = adv
    <3>1. <<d, adv>> \in deps \X Advisories /\ <<d, adv>>[1] = d /\ <<d, adv>>[2] = adv
      OBVIOUS
    <3> QED
      BY <3>1
  <2> QED
    BY <1>2, <2>1 DEF AlertsFor
<1> QED
  BY <1>1, <1>2

LEMMA AlertsAreAbout ==
  ASSUME NEW file \in Files
  PROVE  \A a \in AlertsFor(Installed(file)) : AboutOne(a, file.format, ToSet(file.packages))
<1> SUFFICES ASSUME NEW a \in AlertsFor(Installed(file))
             PROVE  AboutOne(a, file.format, ToSet(file.packages))
  OBVIOUS
<1>1. PICK d \in Installed(file), adv \in Advisories : Matches(d, adv) /\ a = AlertOn(d, adv)
  BY AlertsOf
<1>2. d \in Parsed(file.format, Written(file.format, file.packages))
  BY DEF Installed
<1>3. PICK p \in ToSet(file.packages) : StandsFor(d, p, file.format)
  BY <1>1, <1>2, OneFile, MisreadIsIgnored DEF Faithful
<1>4. file.format \in Formats /\ p \in Packages(Versions)
  BY OneFile
<1> QED
  BY <1>1, <1>3, <1>4, AlertOnOne

LEMMA VulnerableGetTheirs ==
  ASSUME NEW file \in Files, file # None, Found(file), NEW p \in ToSet(file.packages),
         Vulnerable(p, file.format), Legible(p, file.format)
  PROVE  Deserved(p, file.format) \in AlertsFor(Installed(file))
<1>1. PICK format \in Formats : format = file.format
  BY OneFile
<1>2. p \in Packages(Versions)
  BY OneFile
<1>3. PICK d : d = PlainDep(p, format)
  OBVIOUS
<1>4. d \in Installed(file)
  BY <1>1, <1>3, OneFile DEF Faithful, Installed
<1>5. PICK adv \in Advisories : adv.ecosystem \in NamesOf(format) /\ adv.package = p.name
                                /\ Affected(p.version, adv.range)
  BY <1>1 DEF Vulnerable
<1>6. d.name = <<p.name>> /\ d.version = p.version /\ d.ecosystem = Ecosystem(format)
      /\ d.dev = ~IsProduction(p, format)
  <2>1. PICK dev \in BOOLEAN : dev = ~IsProduction(p, format)
    OBVIOUS
  <2>2. d = Dep(Ecosystem(format), <<p.name>>, p.version, dev)
    BY <1>3, <2>1 DEF PlainDep
  <2>3. d.name = <<p.name>> /\ d.version = p.version /\ d.ecosystem = Ecosystem(format)
        /\ d.dev = dev
    BY <2>2, DepFields
  <2> QED
    BY <2>1, <2>3
<1>7. Matches(d, adv)
  <2>1. SameEcosystem(d.ecosystem, adv.ecosystem)
    BY <1>5, <1>6, EcosystemNames
  <2> QED
    BY <1>5, <1>6, <2>1 DEF Matches
<1>8. AlertOn(d, adv) = Deserved(p, format)
  <2>1. PICK severity : severity = IF d.dev THEN "WARNING" ELSE "CRITICAL"
    OBVIOUS
  <2>2. severity = IF IsProduction(p, format) THEN "CRITICAL" ELSE "WARNING"
    BY <1>6, <2>1
  <2> QED
    BY <1>5, <1>6, <2>1, <2>2 DEF AlertOn, Deserved
<1> QED
  BY <1>1, <1>4, <1>7, <1>8, AlertsOf

-----------------------------------------------------------------------------
(* The state of the scanner and of the inventories *)

\* An entry of an inventory is misread, or some package was there in that version.
WasTrue(d) == Misread(d) \/ \E p \in ever : Last(d.name) = p.name /\ d.version = p.version

WereTrue(deps) == deps \subseteq Deps /\ \A d \in deps : WasTrue(d)

LockInv ==
    /\ lock = None \/ (lock \in Files /\ ToSet(lock.packages) \subseteq ever)
    /\ osv \in {"unreadable", "ready"}
    /\ ever \subseteq Packages(Versions) /\ scanned \in BOOLEAN

AlertInv ==
    /\ \A a \in alerts : AboutOne(a, lock.format, ever)
    /\ scanned => Unreported = {}

InventoryInv ==
    /\ \A t \in SyncTasks : syncs[t] \in {Idle, Due}
                            \/ (syncs[t].step = "post" /\ WereTrue(syncs[t].packages))
    /\ inventory = None \/ WereTrue(inventory)

ScanInv == LockInv /\ AlertInv /\ InventoryInv

ConsoleInv ==
    /\ host \in Hosts
    /\ stream = None \/ (stream \in Seq(Commands) /\ Len(stream) <= StreamLimit)
    /\ syncs = [t \in SyncTasks |-> syncs[t]]

LEMMA InitScan == Init => ScanInv /\ ConsoleInv
<1> SUFFICES ASSUME Init PROVE ScanInv /\ ConsoleInv
  OBVIOUS
<1>1. host \in Hosts /\ lock = host.lock
  BY DEF Init, ScannerInit
<1>2. lock = None \/ lock \in Files
  BY <1>1, HostsAssumption DEF Files
<1>3. ever = IF lock = None THEN {} ELSE ToSet(lock.packages)
  BY <1>1 DEF Init, ScannerInit
<1>4. LockInv
  BY <1>2, <1>3, OneFile DEF LockInv, Init, ScannerInit
<1>5. AlertInv
  BY DEF AlertInv, Init, ScannerInit
<1>6. syncs = [t \in SyncTasks |-> IF t = "boot" /\ host.endpoint THEN Due ELSE Idle]
  BY DEF Init, Started
<1>7. \A t \in SyncTasks : syncs[t] \in {Idle, Due}
  BY <1>6
<1>8. syncs = [t \in SyncTasks |-> syncs[t]]
  BY <1>6
<1>9. stream = None /\ inventory = None
  BY DEF Init
<1> QED
  BY <1>1, <1>4, <1>5, <1>7, <1>8, <1>9 DEF ScanInv, InventoryInv, ConsoleInv

LEMMA InstalledIsTrue == LockInv => WereTrue(Installed(lock))
<1> SUFFICES ASSUME LockInv, NEW d \in Installed(lock) PROVE d \in Deps /\ WasTrue(d)
  BY DEF WereTrue
<1>1. lock # None
  BY DEF Installed
<1>2. lock \in Files /\ ToSet(lock.packages) \subseteq ever
  BY <1>1 DEF LockInv
<1>3. d \in Parsed(lock.format, Written(lock.format, lock.packages))
  BY DEF Installed
<1>4. d \in Deps /\ (Misread(d) \/ \E p \in ToSet(lock.packages) : StandsFor(d, p, lock.format))
  BY <1>2, <1>3, OneFile DEF Faithful
<1> QED
  BY <1>2, <1>4 DEF WasTrue, StandsFor

LEMMA ScanKeeps == LockInv /\ AlertInv /\ RunScan => (LockInv /\ AlertInv)'
<1> SUFFICES ASSUME LockInv, AlertInv, RunScan PROVE (LockInv /\ AlertInv)'
  OBVIOUS
<1>1. lock' = lock /\ osv' = osv /\ ever' = ever /\ scanned' \in BOOLEAN
  BY DEF RunScan, LockInv
<1>2. LockInv'
  BY <1>1 DEF LockInv
<1>3. CASE osv # "ready"
  <2>1. alerts' = alerts /\ scanned' = scanned
    BY <1>3 DEF RunScan, LockInv
  <2> QED
    BY <1>1, <1>2, <2>1 DEF AlertInv, Unreported
<1>4. CASE osv = "ready"
  <2>1. alerts' = alerts \cup AlertsFor(Installed(lock))
    BY <1>4 DEF RunScan
  <2>2. CASE lock = None
    <3>1. AlertsFor(Installed(lock)) = {}
      BY <2>2, AlertsOf DEF Installed
    <3> QED
      BY <1>1, <1>2, <2>1, <2>2, <3>1 DEF AlertInv, Unreported
  <2>3. CASE lock # None
    <3>1. lock \in Files /\ ToSet(lock.packages) \subseteq ever
      BY <2>3 DEF LockInv
    <3>2. \A a \in AlertsFor(Installed(lock)) : AboutOne(a, lock.format, ToSet(lock.packages))
      BY <3>1, AlertsAreAbout
    <3>3. \A a \in AlertsFor(Installed(lock)) : AboutOne(a, lock.format, ever)
      BY <3>1, <3>2 DEF AboutOne
    <3>4. \A a \in alerts' : AboutOne(a, lock'.format, ever')
      BY <1>1, <2>1, <2>3, <3>3 DEF AlertInv
    <3>5. ASSUME NEW p \in ToSet(lock.packages), Found(lock), Vulnerable(p, lock.format),
                 Legible(p, lock.format)
          PROVE  Deserved(p, lock.format) \in alerts'
      BY <2>1, <2>3, <3>1, <3>5, VulnerableGetTheirs
    <3>6. Unreported' = {}
      BY <1>1, <2>3, <3>5 DEF Unreported, Deserved
    <3>7. \A a \in alerts' : AboutOne(a, lock.format, ever)'
      BY <3>4
    <3> QED
      BY <1>2, <3>6, <3>7 DEF AlertInv
  <2> QED
    BY <2>2, <2>3
<1> QED
  BY <1>3, <1>4, <1>2

LEMMA InstallKeeps ==
  ASSUME LockInv, AlertInv, NEW packages \in Upgrades, Install(packages)
  PROVE  (LockInv /\ AlertInv)'
<1>1. lock # None /\ lock \in Files /\ ToSet(lock.packages) \subseteq ever
  BY DEF Install, LockInv
<1>2. packages \in Seq(Packages(Versions)) /\ ToSet(packages) \subseteq Packages(Versions)
  BY VersionsAssumption, SetOf
<1>3. /\ lock' = [lock EXCEPT !.packages = packages]
      /\ ever' = ever \cup ToSet(packages) /\ scanned' = FALSE
      /\ osv' = osv /\ alerts' = alerts
  BY DEF Install
<1>4. lock' \in Files /\ lock'.packages = packages /\ lock'.format = lock.format
  BY <1>1, <1>2, <1>3 DEF Files
<1>6. LockInv'
  BY <1>2, <1>3, <1>4 DEF LockInv
<1>7. ASSUME NEW a \in alerts PROVE AboutOne(a, lock.format, ever')
  BY <1>3 DEF AboutOne, AlertInv
<1> QED
  BY <1>3, <1>4, <1>6, <1>7 DEF AlertInv

\* What was true of a package stays true.
LEMMA TruthStays ==
  ASSUME ever \subseteq ever', NEW deps, WereTrue(deps)
  PROVE  WereTrue(deps)'
BY DEF WereTrue, WasTrue

LEMMA ScanStep == ScanInv /\ ConsoleInv /\ [Next]_vars => ScanInv' /\ ConsoleInv'
<1> SUFFICES ASSUME ScanInv, ConsoleInv, [Next]_vars  PROVE ScanInv' /\ ConsoleInv'
  OBVIOUS
<1>1. CASE UNCHANGED << scannerVars, cloudVars >>
  <2>1. ScanInv'
    BY <1>1 DEF scannerVars, cloudVars, ScanInv, LockInv, AlertInv, InventoryInv, Unreported,
       WereTrue, WasTrue
  <2> QED
    BY <1>1, <2>1 DEF cloudVars, ConsoleInv
<1>2. CASE UNCHANGED << scannerVars, syncs, inventory >> /\ ConsoleInv'
  BY <1>2 DEF scannerVars, ScanInv, LockInv, AlertInv, InventoryInv, Unreported,
     WereTrue, WasTrue
<1>3. CASE RunScan /\ UNCHANGED << syncs, inventory >> /\ ConsoleInv'
  <2>1. LockInv' /\ AlertInv'
    BY <1>3, ScanKeeps DEF ScanInv
  <2>2. ever' = ever
    BY <1>3 DEF RunScan
  <2>3. InventoryInv'
    BY <1>3, <2>2 DEF ScanInv, InventoryInv, WereTrue, WasTrue
  <2> QED
    BY <1>3, <2>1, <2>3 DEF ScanInv
<1>4. CASE Connect \/ Disconnect \/ \E command \in Commands : ConsoleSends(command)
  <2>1. UNCHANGED << scannerVars, syncs, inventory, host >>
    BY <1>4 DEF Connect, Disconnect, ConsoleSends
  <2>2. stream' = None \/ (stream' \in Seq(Commands) /\ Len(stream') <= StreamLimit)
    <3>1. CASE Connect
      <4>1. stream' = << >>
        BY <3>1 DEF Connect
      <4>2. << >> \in Seq(Commands) /\ Len(<< >>) = 0 /\ 0 <= StreamLimit
        BY CloudAssumption
      <4> QED
        BY <4>1, <4>2
    <3>2. CASE Disconnect
      BY <3>2 DEF Disconnect
    <3>3. ASSUME NEW command \in Commands, ConsoleSends(command)
          PROVE  stream' \in Seq(Commands) /\ Len(stream') <= StreamLimit
      <4>1. stream \in Seq(Commands) /\ Len(stream) < StreamLimit
            /\ stream' = Append(stream, command)
        BY <3>3 DEF ConsoleSends, ConsoleInv
      <4>2. stream' \in Seq(Commands) /\ Len(stream') = Len(stream) + 1 /\ Len(stream) \in Nat
        BY <4>1
      <4> QED
        BY <4>1, <4>2, CloudAssumption
    <3> QED
      BY <1>4, <3>1, <3>2, <3>3
  <2> QED
    BY <1>2, <2>1, <2>2 DEF ConsoleInv
<1>5. ASSUME stream \notin {None, << >>}, stream' = Tail(stream)
      PROVE  stream' \in Seq(Commands) /\ Len(stream') <= StreamLimit
  <2>1. stream \in Seq(Commands) /\ Len(stream) <= StreamLimit /\ stream # << >>
    BY <1>5 DEF ConsoleInv
  <2>2. stream' \in Seq(Commands) /\ Len(stream') = Len(stream) - 1 /\ Len(stream) \in Nat
    BY <1>5, <2>1
  <2> QED
    BY <2>1, <2>2, CloudAssumption
<1>6. CASE TriggerScan
  BY <1>3, <1>5, <1>6 DEF TriggerScan, ConsoleInv
<1>7. CASE SyncInventory
  <2>1. syncs' = [syncs EXCEPT !["asked"] = Due]
    BY <1>7 DEF SyncInventory
  <2>2. \A t \in SyncTasks : syncs'[t] = syncs[t] \/ syncs'[t] = Due
    BY <2>1 DEF ConsoleInv
  <2>3. UNCHANGED << scannerVars, host, inventory >>
    BY <1>7 DEF SyncInventory
  <2>4. ScanInv'
    BY <2>2, <2>3 DEF scannerVars, ScanInv, LockInv, AlertInv, InventoryInv, Unreported,
       WereTrue, WasTrue
  <2>5. ConsoleInv'
    BY <1>5, <1>7, <2>1, <2>3 DEF SyncInventory, ConsoleInv
  <2> QED
    BY <2>4, <2>5
<1>8. CASE Scan
  BY <1>3, <1>8 DEF Scan, cloudVars, ConsoleInv
<1>9. ASSUME NEW t \in SyncTasks, CollectInventory(t)
      PROVE  ScanInv' /\ ConsoleInv'
  <2>1. PICK posted : posted = [step |-> "post", packages |-> Installed(lock)]
    OBVIOUS
  <2>2. posted.step = "post" /\ WereTrue(posted.packages)
    BY <2>1, InstalledIsTrue DEF ScanInv
  <2>3. syncs' = [syncs EXCEPT ![t] = posted]
    BY <1>9, <2>1 DEF CollectInventory
  <2>4. \A u \in SyncTasks : syncs'[u] = syncs[u] \/ syncs'[u] = posted
    BY <2>3 DEF ConsoleInv
  <2>5. UNCHANGED << scannerVars, host, stream, inventory >>
    BY <1>9 DEF CollectInventory
  <2>6. ScanInv'
    BY <2>2, <2>4, <2>5 DEF scannerVars, ScanInv, LockInv, AlertInv, InventoryInv, Unreported,
       WereTrue, WasTrue
  <2> QED
    BY <2>3, <2>5, <2>6 DEF ConsoleInv
<1>10. ASSUME NEW t \in SyncTasks, PostInventory(t)
      PROVE  ScanInv' /\ ConsoleInv'
  <2>1. syncs[t].step = "post"
    BY <1>10 DEF PostInventory
  <2>2. WereTrue(syncs[t].packages)
    BY <2>1 DEF ScanInv, InventoryInv, Idle, Due
  <2>3. inventory' = inventory \/ inventory' = syncs[t].packages
    BY <1>10 DEF PostInventory
  <2>4. inventory' = None \/ WereTrue(inventory')
    BY <2>2, <2>3 DEF ScanInv, InventoryInv
  <2>5. \A u \in SyncTasks : syncs'[u] = syncs[u] \/ syncs'[u] = Idle
    BY <1>10 DEF PostInventory, ConsoleInv
  <2>6. UNCHANGED << scannerVars, host, stream >>
    BY <1>10 DEF PostInventory
  <2>7. ScanInv'
    BY <2>4, <2>5, <2>6 DEF scannerVars, ScanInv, LockInv, AlertInv, InventoryInv, Unreported,
       WereTrue, WasTrue
  <2> QED
    BY <1>10, <2>6, <2>7 DEF ConsoleInv, PostInventory
<1>11. CASE Restart
  <2>1. /\ UNCHANGED << scannerVars, host, inventory >> /\ stream' = None
        /\ syncs' = [t \in SyncTasks |-> IF t = "boot" /\ host.endpoint THEN Due ELSE Idle]
    BY <1>11 DEF Restart, Started
  <2>2. \A t \in SyncTasks : syncs'[t] \in {Idle, Due}
    BY <2>1
  <2>3. ScanInv'
    BY <2>1, <2>2 DEF scannerVars, ScanInv, LockInv, AlertInv, InventoryInv, Unreported,
       WereTrue, WasTrue
  <2> QED
    BY <2>1, <2>3 DEF ConsoleInv
<1>12. CASE HostChanges /\ UNCHANGED cloudVars
  <2>0. ConsoleInv'
    BY <1>12 DEF ConsoleInv, cloudVars
  <2>1. ASSUME NEW packages \in Upgrades, Install(packages) PROVE ScanInv'
    <3>1. LockInv' /\ AlertInv'
      BY <2>1, InstallKeeps DEF ScanInv
    <3>2. ever \subseteq ever'
      BY <2>1 DEF Install
    <3>3. InventoryInv'
      BY <1>12, <3>2, TruthStays DEF ScanInv, InventoryInv, cloudVars, WereTrue, WasTrue
    <3> QED
      BY <3>1, <3>3 DEF ScanInv
  <2>2. ASSUME NEW file \in {"unreadable", "ready"}, ReplaceDatabase(file) PROVE ScanInv'
    BY <1>12, <2>2 DEF ReplaceDatabase, cloudVars, ScanInv, LockInv, AlertInv, InventoryInv,
       Unreported, WereTrue, WasTrue
  <2> QED
    BY <1>12, <2>0, <2>1, <2>2 DEF HostChanges
<1>13. CASE CollectEvidence \/ Uploader \/ \E a \in Evidence : FlushTask(a)
  BY <1>1, <1>13 DEF CollectEvidence, Uploader, FlushTask
<1> QED
  BY <1>1, <1>4, <1>6, <1>7, <1>8, <1>9, <1>10, <1>11, <1>12, <1>13
  DEF Next, Listener, Console, vars

-----------------------------------------------------------------------------
(* The scanner and the console *)

LEMMA CloudTypes == UploadInv /\ ScanInv /\ ConsoleInv => TypeOK
<1> SUFFICES ASSUME UploadInv, ScanInv, ConsoleInv PROVE TypeOK
  OBVIOUS
<1>1. ForensicTypeOK
  BY DEF ForensicTypeOK, UploadInv, Shapes, UploaderStates
<1>2. ScannerTypeOK
  <2>1. lock # None => lock.format \in Formats /\ lock.packages \in Seq(Packages(Versions))
    BY OneFile DEF ScanInv, LockInv
  <2>2. \A a \in alerts : a \in [package : Names, version : Versions,
                                 severity : {"WARNING", "CRITICAL"}]
    BY DEF ScanInv, AlertInv, AboutOne
  <2> QED
    BY <2>1, <2>2 DEF ScannerTypeOK, ScanInv, LockInv
<1>3. \A t \in SyncTasks : /\ syncs[t].step \in {"idle", "due", "post"}
                           /\ syncs[t].step = "post" => syncs[t].packages \subseteq Deps
  BY DEF ScanInv, InventoryInv, WereTrue, Idle, Due
<1>4. inventory = None \/ inventory \subseteq Deps
  BY DEF ScanInv, InventoryInv, WereTrue
<1> QED
  BY <1>1, <1>2, <1>3, <1>4 DEF TypeOK, ConsoleInv

\* Every variable of the cloud services and of the scanner keeps its shape, for any
\* hosts, packages, versions and advisories (src/src/cloud.rs, src/src/scanner.rs).
THEOREM TypeCorrect == Spec => []TypeOK
<1> QED
  BY InitUpload, UploadStep, InitScan, ScanStep, CloudTypes, PTL DEF Spec

\* An alert is about a package that was installed in that version and is vulnerable in
\* it (run_scan), for every format, advisory database and history of installations.
THEOREM AlertsAreTrue == Spec => []NoPhantoms
<1>1. ScanInv => NoPhantoms
  BY DEF ScanInv, AlertInv, AboutOne, NoPhantoms
<1> QED
  BY <1>1, InitScan, ScanStep, PTL DEF Spec

\* Only a package for production raises an alert with the advisory's severity (run_scan).
THEOREM DevelopmentOnlyWarns == Spec => []DevOnlyWarns
<1>1. ScanInv => DevOnlyWarns
  BY DEF ScanInv, AlertInv, AboutOne, DevOnlyWarns
<1> QED
  BY <1>1, InitScan, ScanStep, PTL DEF Spec

\* After a scan that had a database, every vulnerable package of the lock file has its
\* alert (run_scan), for every format and any number of packages.
THEOREM TheVulnerableAreReported == Spec => []VulnerableIsReported
<1>1. ScanInv => VulnerableIsReported
  BY DEF ScanInv, AlertInv, VulnerableIsReported
<1> QED
  BY <1>1, InitScan, ScanStep, PTL DEF Spec

\* The cloud's inventory names nothing that was never installed (send_inventory_sync).
THEOREM TheInventoryWasTrue == Spec => []InventoryWasTrue
<1>1. ScanInv => InventoryWasTrue
  BY DEF ScanInv, InventoryInv, WereTrue, WasTrue, InventoryWasTrue
<1> QED
  BY <1>1, InitScan, ScanStep, PTL DEF Spec
=============================================================================
