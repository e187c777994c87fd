--------------------------- MODULE MCMatchPipeline ---------------------------
(***************************************************************************)
(* The instance of MatchPipeline for TLC: two matches with a worker each,  *)
(* every buffer as small as can be, and enough events of m1 to fill its    *)
(* worker's channel with one being applied and another being sent.         *)
(***************************************************************************)
EXTENDS MatchPipeline

CONSTANTS m1, m2, w1, w2, names

MCMatches == {m1, m2}
MCTeamNames == {names}
MCWorkers == {w1, w2}
MCWorkerIndex == [m \in MCMatches |-> IF m = m1 THEN w1 ELSE w2]

Ev(m, n, type, team, minute, teams) ==
  [match |-> m, sequence |-> n, type |-> type, team |-> team, minute |-> minute, teams |-> teams]

Kickoff(m) == Ev(m, 1, "kickoff", "none", NoMinute, names)

Goal(m, n) == Ev(m, n, "goal", "home", n, NoTeams)

MCFeed == [m \in MCMatches |-> IF m = m1 THEN << Kickoff(m1), Goal(m1, 4), Goal(m1, 5) >>
                                         ELSE << Kickoff(m) >>]

MCEvents == UNION {ToSet(MCFeed[m]) : m \in MCMatches}
=============================================================================
