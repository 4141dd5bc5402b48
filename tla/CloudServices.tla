---------------------------- MODULE CloudServices ----------------------------
(***************************************************************************)
(* The services of src/src/cloud.rs together: the console's command        *)
(* stream, the inventory and the forensic uploader, with the scanner that  *)
(* the timer, the API and the console start.  The daemon is killed and     *)
(* started again; requests to the cloud and their answers are lost.        *)
(*                                                                         *)
(* The console's other commands are actions of the modules that have what  *)
(* they change: ProcessTracker, Containment, SshFirewall, TlsBuffer and    *)
(* WebRoots.  The log streamer is in AlertPipeline.                        *)
(***************************************************************************)
EXTENDS Scanner, ForensicUploads

CONSTANTS
    Hosts,           \* [lock, endpoint: whether the configuration names a cloud,
                     \*  licensed: whether it has a license]
    StreamLimit,     \* bound: commands under way from the console
    MaxRestarts      \* bound

ASSUME CloudAssumption == {StreamLimit, MaxRestarts} \subseteq Nat
ASSUME HostsAssumption ==
    \A h \in Hosts :
        h.lock = None \/ h.lock \in [format : Formats, dir : Seq(STRING),
                                    packages : Seq(Packages(Versions))]

VARIABLES
    host,
    stream,          \* the commands under way, None when not connected
    syncs,           \* send_inventory_sync, by who asked
    inventory,       \* what the cloud was told last
    restarts

cloudVars == << host, stream, syncs, inventory, restarts >>
vars == << scannerVars, forensicVars, cloudVars >>

Commands  == {"trigger_scan", "sync_inventory"}
SyncTasks == {"boot", "asked"}
Idle      == [step |-> "idle"]
Due       == [step |-> "due"]

-----------------------------------------------------------------------------
(* start_command_listener and process_cloud_command *)

Connect ==
    /\ host.endpoint /\ stream = None
    /\ stream' = << >>
    /\ UNCHANGED << scannerVars, forensicVars, host, syncs, inventory, restarts >>

\* What was on its way is gone.
Disconnect ==
    /\ stream # None
    /\ stream' = None
    /\ UNCHANGED << scannerVars, forensicVars, host, syncs, inventory, restarts >>

ConsoleSends(command) ==
    /\ stream # None /\ Len(stream) < StreamLimit
    /\ stream' = Append(stream, command)
    /\ UNCHANGED << scannerVars, forensicVars, host, syncs, inventory, restarts >>

\* The commands are taken in order; the scan is a task of its own.
TriggerScan ==
    /\ stream \notin {None, << >>} /\ Head(stream) = "trigger_scan"
    /\ stream' = Tail(stream)
    /\ RunScan
    /\ UNCHANGED << forensicVars, host, syncs, inventory, restarts >>

\* So is the inventory; one that was asked for is under way at a time (a bound).
SyncInventory ==
    /\ stream \notin {None, << >>} /\ Head(stream) = "sync_inventory"
    /\ syncs["asked"] = Idle
    /\ stream' = Tail(stream)
    /\ syncs' = [syncs EXCEPT !["asked"] = Due]
    /\ UNCHANGED << scannerVars, forensicVars, host, inventory, restarts >>

\* The timer of start_scanner, or scan/trigger of the API.
Scan ==
    /\ RunScan
    /\ UNCHANGED << forensicVars, cloudVars >>

-----------------------------------------------------------------------------
(* send_inventory_sync *)

CollectInventory(t) ==
    /\ syncs[t] = Due
    /\ syncs' = [syncs EXCEPT ![t] = [step |-> "post", packages |-> Installed(lock)]]
    /\ UNCHANGED << scannerVars, forensicVars, host, stream, inventory, restarts >>

\* The request arrives, or it does not: there is no second attempt.
PostInventory(t) ==
    /\ syncs[t].step = "post"
    /\ inventory' \in {inventory, syncs[t].packages}
    /\ syncs' = [syncs EXCEPT ![t] = Idle]
    /\ UNCHANGED << scannerVars, forensicVars, host, stream, restarts >>

-----------------------------------------------------------------------------

\* The services of a daemon that has just started; it sends an inventory once.
Started == [t \in SyncTasks |-> IF t = "boot" /\ host.endpoint THEN Due ELSE Idle]

Init ==
    /\ host \in Hosts
    /\ ScannerInit(host.lock) /\ ForensicInit
    /\ stream = None /\ syncs = Started /\ inventory = None /\ restarts = 0

Restart ==
    /\ restarts < MaxRestarts /\ restarts' = restarts + 1
    /\ stream' = None /\ syncs' = Started
    /\ ForensicRestart
    /\ UNCHANGED << scannerVars, host, inventory >>

\* flush_on_alert does nothing without a license.
CollectEvidence ==
    /\ host.licensed /\ \E a \in Evidence : Collected(a)
    /\ UNCHANGED << scannerVars, cloudVars >>

FlushTask(a) == Flush(a, host.endpoint) /\ UNCHANGED << scannerVars, cloudVars >>

Uploader == host.endpoint /\ UploaderStep /\ UNCHANGED << scannerVars, cloudVars >>

Listener == TriggerScan \/ SyncInventory
Console  == Connect \/ Disconnect \/ \E command \in Commands : ConsoleSends(command)

Next ==
    \/ Listener \/ Console \/ Scan \/ CollectEvidence \/ Uploader \/ Restart
    \/ \E a \in Evidence : FlushTask(a)
    \/ \E t \in SyncTasks : CollectInventory(t) \/ PostInventory(t)
    \/ HostChanges /\ UNCHANGED << forensicVars, cloudVars >>

Spec == Init /\ [][Next]_vars

\* The tasks go on, and of the uploads of a file that are tried again and again one
\* arrives.
FairSpec ==
    /\ Spec /\ WF_vars(Uploader)
    /\ \A a \in Evidence : WF_vars(FlushTask(a)) /\ SF_vars(Uploader /\ RetryArrives(a))

-----------------------------------------------------------------------------
(* Properties *)

\* Every variable keeps its shape.
TypeOK ==
    /\ ScannerTypeOK /\ ForensicTypeOK
    /\ host \in Hosts
    /\ stream = None \/ (stream \in Seq(Commands) /\ Len(stream) <= StreamLimit)
    /\ \A t \in SyncTasks :
          /\ syncs[t].step \in {"idle", "due", "post"}
          /\ syncs[t].step = "post" => syncs[t].packages \subseteq Deps
    /\ inventory = None \/ inventory \subseteq Deps

\* Entries that stand for no package: what a gem depends on, with a constraint for a
\* version; a URL, or the peers of pnpm's file, in place of one; and names of pnpm's
\* file, scoped or with a peer, of which another text is read.
Misread(d) ==
    \/ d.ecosystem = "gem" /\ d.version = Constraint
    \/ d.ecosystem \in {"npm", "pip"} /\ d.version = OtherText
    \/ d.name = << None >>

\* Every package in the inventory that the cloud has was installed in that version
\* at some time, entries that are misread aside, whichever of the inventories under way
\* came last.
InventoryWasTrue ==
    inventory # None => \A d \in inventory :
        \/ Misread(d)
        \/ \E p \in ever : Last(d.name) = p.name /\ d.version = p.version

\* "Offline recovery" (start_forensic_uploader): evidence that is on disk reaches
\* the cloud in the end, whoever sends it and however often the daemon is killed,
\* unless it was caught between its creation and the write.
EvidenceArrives ==
    \A a \in Evidence :
        host.endpoint /\ content[a] = "whole" ~> ("whole" \in cloud[a] \/ a \in torn)
=============================================================================
