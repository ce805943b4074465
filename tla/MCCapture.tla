----------------------------- MODULE MCCapture -----------------------------
(* A small instance of Capture: the uplink and the loopback, under systemd *)
(* and on Windows.                                                         *)
EXTENDS Capture

MCIfaces == <<"uplink", "lo">>
MCSites == {[nt |-> FALSE, notify |-> TRUE], [nt |-> TRUE, notify |-> FALSE]}

=============================================================================
