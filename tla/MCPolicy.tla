------------------------------ MODULE MCPolicy ------------------------------
(* A small instance of Policy: this host, two remote sources of which one  *)
(* may be an IPv6 address, and one tunnel domain; a Linux host beside the  *)
(* named namespace, and the Windows service.                               *)
EXTENDS Policy

Lab == [windows |-> FALSE, elevated |-> TRUE, mine |-> "ns0", initial |-> "ns0", named |-> "nsA"]
Desk == [Lab EXCEPT !.windows = TRUE]

CONSTANTS me, r1, r2, evil, a1, reaper, none

(* A host without a default route: its interface has an address, its name  *)
(* resolves to a link-local one only.  And one that is asked in vain.      *)
NoRoute == [connect |-> {}, hostname |-> {r2}, ioctl |-> {me}]
Silent == [w \in {"connect", "hostname", "ioctl"} |-> {}]

=============================================================================
