---------------------------- MODULE MCDetection ----------------------------
(* A small instance of Detection: two sources, an ordinary query and one   *)
(* of a tunnel, suspected by the classifier and then decoded.              *)
EXTENDS Detection, TLC

CONSTANTS s1, s2

Plain == [mass |-> 1, prob |-> "LOW", decodes |-> FALSE, tunnel |-> FALSE,
          odd |-> FALSE, bypass |-> FALSE, popular |-> TRUE, muted |-> FALSE]

MCKinds == {Plain, [Plain EXCEPT !.mass = 3, !.prob = "SUSPECT",
                          !.decodes = TRUE, !.popular = FALSE]}

SourceSymmetry == Permutations({s1, s2})

=============================================================================
