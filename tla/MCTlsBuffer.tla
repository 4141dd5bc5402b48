----------------------------- MODULE MCTlsBuffer -----------------------------
(* Instances of TlsBuffer for TLC; tls_buffer.cfg fixes the rest. *)
EXTENDS TlsBuffer, TLC

CONSTANTS p1, p2, c1, c2

PidOrder == <<p1, p2>>

\* Connections are alike; the pids are told apart by the order of the map.
ConnSymmetry == Permutations({c1, c2})
=============================================================================
