----------------------------- MODULE MCWebRoots -----------------------------
(* An instance of WebRoots for TLC: c1 has a volume of its own, a repository with a
   file that git does not track; c2 mounts the web root of the host, and both mount
   one configuration directory. *)
EXTENDS WebRoots, TLC

CONSTANTS c1, c2, root, vol, conf, index, deployed, late, data, stray

MCWebMounts  == [c \in Containers |-> IF c = c1 THEN {vol} ELSE {root}]
MCConfMounts == [c \in Containers |-> {conf}]
MCDirOf      == [f \in Files |-> IF f \in {data, stray} THEN vol ELSE root]
=============================================================================
