------------------------------ MODULE MCEngine ------------------------------
(* A small instance of Engine: a name asked under two letter cases with    *)
(* another name between, a tunnel and a download of the same source, a     *)
(* canary with a query whose payload decodes, and two sessions started     *)
(* from the command line.                                                  *)
EXTENDS Engine, TLC

Foreign == [e \in Encodings |-> "foreign"]
Plain == [kind |-> "query", src |-> "pc", name |-> "www", base |-> "www", case |-> 0,
          canary |-> FALSE, prob |-> 0, drip |-> FALSE, below |-> FALSE, plain |-> Foreign,
          floor |-> LOW, dst |-> "loopback"]
Up == [Plain EXCEPT !.case = 1]
Down == [Plain EXCEPT !.case = 2]
Other == [Plain EXCEPT !.name = "other", !.case = 1, !.dst = "known"]
Tunnel == [Plain EXCEPT !.name = "tun", !.floor = HIGH]
Scored == [Plain EXCEPT !.name = "tun", !.prob = 3, !.below = TRUE,
                        !.plain = [Foreign EXCEPT !["base64"] = "noise", !["base64url"] = "text"]]
Canary == [Plain EXCEPT !.name = "trap", !.canary = TRUE]
Drip == [Plain EXCEPT !.name = "tun", !.drip = TRUE, !.below = TRUE,
                      !.plain = [Foreign EXCEPT !["base32"] = "short", !["hex"] = "file"]]
Mass == [kind |-> "response", src |-> "pc", name |-> "tun", base |-> "tun", flag |-> TRUE]
Cdn == [Mass EXCEPT !.name = "img", !.base = "cdn"]

Host == [live |-> FALSE, rf |-> FALSE, syslog |-> TRUE, socket |-> TRUE,
         resolvers |-> {"loopback"}, resolvable |-> TRUE, ranked |-> {"cdn"}, rankable |-> TRUE,
         events |-> <<>>]
Sensor(events) == [Host EXCEPT !.events = events]
CommandLine(rf, events) == [Sensor(events) EXCEPT !.live = TRUE, !.rf = rf, !.syslog = FALSE]

MCSessions == {Sensor(<<Up, Other, Down, Mass, Tunnel>>), Sensor(<<Tunnel, Mass, Scored, Cdn, Up>>),
               Sensor(<<Mass, Canary, Drip, Mass, Canary>>),
               [Sensor(<<Canary, Cdn, Other>>) EXCEPT !.socket = FALSE, !.rankable = FALSE,
                                                      !.resolvable = FALSE],
               CommandLine(FALSE, <<Tunnel, Canary, Mass, Drip>>),
               CommandLine(TRUE, <<Scored, Plain, Mass>>)}

=============================================================================
