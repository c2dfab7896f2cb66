----------------------------- MODULE MCStanding -----------------------------
(* An instance of Standing for TLC. *)
EXTENDS Standing, TLC

CONSTANT elsewhere   \* the challenge that only the path is about

VARIABLE scene   \* what this behaviour is about, never changed

\* A failure that ranks high and a pass that ranks low: thresholds differ.
SomeVerdicts == {[stars |-> 0, merit |-> 1], [stars |-> 1, merit |-> 0]}

\* A path of two challenges that are released, withdrawn and moved under the
\* requests of players; or one challenge whose leaderboard and profiles are
\* read while it is played, released and withdrawn, after another was withdrawn.
MCInit ==
  /\ Init /\ scene \in {"path", "answers"}
  /\ scene = "answers" => \A c \in Challenges : order[c] = IF c = elsewhere THEN 2 ELSE 1

MCNext ==
  /\ Next
  /\ UNCHANGED scene
  /\ scene = "path" => UNCHANGED <<board, profile>>
  /\ scene = "answers" =>
       UNCHANGED order /\ current'[elsewhere] = None

MCSpec == MCInit /\ [][MCNext]_<<vars, scene>>

Symmetry == Permutations(Users)
=============================================================================
