---------------------------- MODULE MCSinkhole ----------------------------
(* A small instance of Sinkhole: one tunnel domain with two labels under   *)
(* it, a popular domain with one label and a name that would inject a line.*)
EXTENDS Sinkhole

CONSTANTS evil, l1, l2, goo, g1, inj, a1, reaper

MCNames == {evil, l1, l2, goo, g1, inj}
OneLabel == {evil, l1, g1, goo, inj}
Lean == {evil, l1}
Two == {evil, l1, l2}

MCBase(n) == CASE n \in {evil, l1, l2} -> evil
               [] n \in {goo, g1} -> goo
               [] OTHER -> n
MCBaseOf == [n \in Names |-> MCBase(n)]

=============================================================================
