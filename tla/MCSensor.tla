------------------------------ MODULE MCSensor ------------------------------
(* A small instance of Sensor: one question asked twice from one port,     *)
(* another name, and the two answers of one lookup.                        *)
EXTENDS Sensor, TLC

MCPackets ==
  [q1 |-> [form |-> "query", key |-> "www A", port |-> 1],
   q2 |-> [form |-> "query", key |-> "www A", port |-> 1],
   a4 |-> [form |-> "response", key |-> "www", port |-> 0],
   a6 |-> [form |-> "response", key |-> "www", port |-> 0],
   junk |-> [form |-> "junk", key |-> "", port |-> 0]]
MCPacket == [m \in Ids |-> MCPackets[m]]
MCIds == {"q1", "q2", "a4"}
MCAnswers == {"a4", "a6", "junk"}
MCCopies == [m \in Ids |-> IF m = "q1" THEN 2 ELSE 1]
Alike == Permutations(Ifaces)

=============================================================================
