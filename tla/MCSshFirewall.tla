--------------------------- MODULE MCSshFirewall ----------------------------
(* Instances of SshFirewall for TLC; ssh_firewall.cfg fixes the constants. *)
EXTENDS SshFirewall
=============================================================================
