----------------------------- MODULE MCConsole -----------------------------
(* A small instance of Console: one console, one purge at a time, and two  *)
(* polls of the statistics.  A batch holds one event or two queries.       *)
EXTENDS Console

CONSTANTS s1, p1, w1

MCLimit == [t \in Tables |-> IF t = "events" THEN 1 ELSE 2]
MCMaxRows == [t \in Tables |-> 2]

=============================================================================
