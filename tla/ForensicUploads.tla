--------------------------- MODULE ForensicUploads ---------------------------
(***************************************************************************)
(* What becomes of the evidence of an alert once flush_on_alert            *)
(* (src/src/tls_buffer.rs) has collected it; TlsBuffer ends there.  The    *)
(* task writes a file and sends its contents, the uploader                 *)
(* (src/src/cloud.rs) sends what is still called forensic_*, and both mark *)
(* the file by renaming it when the cloud has answered.                    *)
(*                                                                         *)
(* A full disk keeps the task from creating the file, or cuts it short;    *)
(* the task sends the evidence from memory all the same.                   *)
(***************************************************************************)
EXTENDS Integers, FiniteSets

CONSTANT Evidence    \* the alerts with evidence

VARIABLES
    flush,           \* by alert, the step of its task
    label,            \* the name of its file: "none", "forensic", "uploaded"
    content,         \* how much of the evidence is in it: "nothing", "part", "whole"
    uploader,        \* the step of the uploader and the alerts left of its listing
    cloud,           \* by alert, what the cloud has stored
    torn             \* ghost: alerts whose file was read, or left behind by a
                     \* crash, between its creation and the write, or cut short

forensicVars == << flush, label, content, uploader, cloud, torn >>

Amounts == {"nothing", "part", "whole"}

UploaderRests == [step |-> "asleep", left |-> {}]

-----------------------------------------------------------------------------
(* The task of an alert, and send_forensic_payload as it calls it *)

Collected(a) ==
    /\ flush[a] = "none"
    /\ flush' = [flush EXCEPT ![a] = "collected"]
    /\ UNCHANGED << label, content, uploader, cloud, torn >>

\* Without a file there is nothing to write.
CreateFile(a) ==
    /\ flush[a] = "collected"
    /\ \/ /\ flush' = [flush EXCEPT ![a] = "created"]
          /\ label' = [label EXCEPT ![a] = "forensic"]
       \/ /\ flush' = [flush EXCEPT ![a] = "sending"]
          /\ UNCHANGED label
    /\ UNCHANGED << content, uploader, cloud, torn >>

\* The open file is written, whatever its name is by now, as far as the disk takes it.
WriteEvidence(a) ==
    /\ flush[a] = "created"
    /\ flush' = [flush EXCEPT ![a] = "sending"]
    /\ \E written \in Amounts :
          /\ content' = [content EXCEPT ![a] = written]
          /\ torn' = IF written = "whole" THEN torn ELSE torn \cup {a}
    /\ UNCHANGED << label, uploader, cloud >>

Stored(a, bytes) == cloud' = [cloud EXCEPT ![a] = @ \cup {bytes}]

\* The rename fails without a word when the file has another name already.
MarkUploaded(a) ==
    label' = [label EXCEPT ![a] = IF @ = "forensic" THEN "uploaded" ELSE @]

\* The cloud stores it and answers.
SendArrives(a) ==
    /\ flush[a] = "sending"
    /\ flush' = [flush EXCEPT ![a] = "stored"] /\ Stored(a, "whole")
    /\ UNCHANGED << label, content, uploader, torn >>

SendAnswered(a) ==
    /\ flush[a] = "stored"
    /\ flush' = [flush EXCEPT ![a] = "done"] /\ MarkUploaded(a)
    /\ UNCHANGED << content, uploader, cloud, torn >>

\* (Variant: the file is marked whatever the answer.)
SendFails_Marks(a) ==
    /\ flush[a] \in {"sending", "stored"}
    /\ flush' = [flush EXCEPT ![a] = "done"] /\ MarkUploaded(a)
    /\ UNCHANGED << content, uploader, cloud, torn >>

\* The request or its answer is lost, or the answer is not success.
SendFails(a) ==
    /\ flush[a] \in {"sending", "stored"}
    /\ flush' = [flush EXCEPT ![a] = "done"]
    /\ UNCHANGED << label, content, uploader, cloud, torn >>

\* Without an endpoint the sending fails.
Flush(a, endpoint) ==
    \/ CreateFile(a) \/ WriteEvidence(a) \/ SendFails(a)
    \/ endpoint /\ (SendArrives(a) \/ SendAnswered(a))

-----------------------------------------------------------------------------
(* start_forensic_uploader, and send_forensic_payload as it calls it *)

\* Every five minutes: the directory is listed once.
ListFiles ==
    /\ uploader = UploaderRests
    /\ \E a \in Evidence : label[a] = "forensic"
    /\ uploader' = [step |-> "next", left |-> {a \in Evidence : label[a] = "forensic"}]
    /\ UNCHANGED << flush, label, content, cloud, torn >>

NextFile(left) == IF left = {} THEN UploaderRests ELSE [step |-> "next", left |-> left]

\* A file that was renamed since the listing cannot be read.
ReadFile(a) ==
    /\ uploader.step = "next" /\ a \in uploader.left
    /\ uploader' = IF label[a] = "forensic"
                   THEN [step |-> "sending", left |-> uploader.left \ {a}, alert |-> a,
                         bytes |-> content[a]]
                   ELSE NextFile(uploader.left \ {a})
    /\ torn' = IF label[a] = "forensic" /\ flush[a] = "created" THEN torn \cup {a} ELSE torn
    /\ UNCHANGED << flush, label, content, cloud >>

RetryArrives(a) ==
    /\ uploader.step = "sending" /\ uploader.alert = a
    /\ uploader' = [uploader EXCEPT !.step = "stored"]
    /\ Stored(a, uploader.bytes)
    /\ UNCHANGED << flush, label, content, torn >>

RetryAnswered ==
    /\ uploader.step = "stored"
    /\ uploader' = NextFile(uploader.left) /\ MarkUploaded(uploader.alert)
    /\ UNCHANGED << flush, content, cloud, torn >>

\* (Variant: the uploader gives up when an upload fails.)
RetryFails_Stops ==
    /\ uploader.step \in {"sending", "stored"}
    /\ uploader' = [step |-> "next", left |-> {}]
    /\ UNCHANGED << flush, label, content, cloud, torn >>

RetryFails ==
    /\ uploader.step \in {"sending", "stored"}
    /\ uploader' = NextFile(uploader.left)
    /\ UNCHANGED << flush, label, content, cloud, torn >>

UploaderStep == \/ ListFiles \/ RetryAnswered \/ RetryFails
                \/ \E a \in Evidence : ReadFile(a) \/ RetryArrives(a)

-----------------------------------------------------------------------------

ForensicInit ==
    /\ flush = [a \in Evidence |-> "none"]
    /\ label = [a \in Evidence |-> "none"] /\ content = [a \in Evidence |-> "nothing"]
    /\ uploader = UploaderRests /\ cloud = [a \in Evidence |-> {}] /\ torn = {}

\* The daemon is killed and started again: the files stay.
ForensicRestart ==
    /\ flush' = [a \in Evidence |-> IF flush[a] = "none" THEN "none" ELSE "done"]
    /\ torn' = torn \cup {a \in Evidence : flush[a] = "created"}
    /\ uploader' = UploaderRests
    /\ UNCHANGED << label, content, cloud >>

-----------------------------------------------------------------------------
(* Properties *)

\* Every variable keeps its shape.
ForensicTypeOK ==
    /\ flush \in [Evidence -> {"none", "collected", "created", "sending", "stored", "done"}]
    /\ label \in [Evidence -> {"none", "forensic", "uploaded"}]
    /\ content \in [Evidence -> Amounts]
    /\ uploader.step \in {"asleep", "next", "sending", "stored"}
    /\ uploader.left \subseteq Evidence
    /\ uploader.step \in {"sending", "stored"} =>
          uploader.alert \in Evidence /\ uploader.bytes \in Amounts
    /\ cloud \in [Evidence -> SUBSET Amounts]
    /\ torn \subseteq Evidence

\* "Mark local file as uploaded" (send_forensic_payload): a file is called uploaded_*
\* only when the cloud has all of the evidence, through lost answers, retries and
\* restarts, unless it was caught between its creation and the write, or cut short.
UploadedIsInCloud ==
    \A a \in Evidence \ torn : label[a] = "uploaded" => "whole" \in cloud[a]
=============================================================================
