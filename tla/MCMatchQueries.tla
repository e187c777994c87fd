--------------------------- MODULE MCMatchQueries ---------------------------
(***************************************************************************)
(* Instances of MatchQueries for TLC. A second writer of match m1 restarts *)
(* its numbering, so m1 has two different events for a number, and a late  *)
(* replay of a low one may arrive after a high one.                        *)
(***************************************************************************)
EXTENDS MatchQueries

CONSTANTS m1, m2, names

MCMatches == {m1, m2}
MCTeamNames == {names}

Ev(m, n, type, team, minute, teams) ==
  [match |-> m, sequence |-> n, type |-> type, team |-> team, minute |-> minute, teams |-> teams]

MCEvents == { Ev(m1, 1, "kickoff",   "none", NoMinute, names),
              Ev(m1, 2, "goal",      "home", 1,        NoTeams),
              Ev(m1, 3, "goal",      "home", 2,        NoTeams),
              Ev(m1, 3, "goal",      "away", NoMinute, NoTeams),
              Ev(m1, 4, "half_time", "none", NoMinute, NoTeams),
              Ev(m1, 5, "card",      "away", 3,        NoTeams),
              Ev(m1, 6, "full_time", "none", NoMinute, NoTeams),
              Ev(m2, 1, "kickoff",   "none", NoMinute, names),
              Ev(m2, 2, "unrecognised", "none", NoMinute, NoTeams) }
=============================================================================
