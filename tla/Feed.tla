------------------------------- MODULE Feed --------------------------------
(***************************************************************************)
(* What a console is promised of a live feed over one table: from the      *)
(* moment it opens, every row that is inserted and not purged reaches it   *)
(* once, in the order of insertion.  How the rows are fetched, in how many *)
(* reads and with which cursor, is not said here: module Console does it.  *)
(***************************************************************************)
EXTENDS Integers

VARIABLES
  table,  (* the rows that are in the table, named by their number         *)
  last,   (* the number of the last row ever inserted                      *)
  pos,    (* the feed is done with every row up to this one                *)
  sent    (* the rows this connection has received                         *)

feed == <<table, last, pos, sent>>

Init == table = {} /\ last = 0 /\ pos = 0 /\ sent = {}

Insert ==
  /\ last' = last + 1
  /\ table' = table \cup {last'}
  /\ UNCHANGED <<pos, sent>>

Purge == table' = {} /\ UNCHANGED <<last, pos, sent>>

(* A new connection starts behind the rows that are there.                 *)
Open ==
  /\ sent = {}
  /\ pos' \in 0 .. last
  /\ \A i \in table : i <= pos'
  /\ UNCHANGED <<table, last, sent>>

Close == pos' = 0 /\ sent' = {} /\ UNCHANGED <<table, last>>

(* A batch: nothing that is in the table is passed over, and nothing is    *)
(* sent that has been sent, or passed over, before.                        *)
Deliver ==
  /\ pos' \in (pos + 1) .. last
  /\ \E D \in SUBSET ((pos + 1) .. pos') :
       /\ table \cap ((pos + 1) .. pos') \subseteq D
       /\ sent' = sent \cup D
  /\ UNCHANGED <<table, last>>

Next == Insert \/ Purge \/ Open \/ Close \/ Deliver

Spec == Init /\ [][Next]_feed

=============================================================================
