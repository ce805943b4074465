----------------------------- MODULE MCService -----------------------------
(* A small instance of Service: a Linux host and a Windows host that start,*)
(* and two that must not.                                                  *)
EXTENDS Service, TLC

Linux == [windows |-> FALSE, root |-> FALSE, raw |-> TRUE, uplink |-> TRUE, iface |-> ""]
MCHosts == {Linux, [Linux EXCEPT !.windows = TRUE, !.root = TRUE, !.uplink = FALSE, !.iface = "auto"],
            [Linux EXCEPT !.raw = FALSE], [Linux EXCEPT !.uplink = FALSE, !.iface = "auto"]}

=============================================================================
