---------------------------- MODULE MCMatchStore ----------------------------
(***************************************************************************)
(* Instances of MatchStore and MatchQueries for TLC: one match busy with a *)
(* goal for each side, a status change, a replay of another process with   *)
(* the same number, an event without a number the row can reach (0), and a *)
(* second match that only gets a kickoff.                                  *)
(***************************************************************************)
EXTENDS MatchStore

CONSTANTS m1, m2, names, s1, s2

MCMatches == {m1, m2}
MCTeamNames == {names}

Ev(m, n, type, team, minute, teams) ==
  [match |-> m, sequence |-> n, type |-> type, team |-> team, minute |-> minute, teams |-> teams]

MCEvents == { Ev(m1, 0, "kickoff",   "none", NoMinute, names),
              Ev(m1, 1, "kickoff",   "none", NoMinute, names),
              Ev(m1, 2, "goal",      "home", 1,        NoTeams),
              Ev(m1, 3, "goal",      "home", 2,        NoTeams),
              Ev(m1, 3, "goal",      "away", NoMinute, NoTeams),
              Ev(m1, 4, "full_time", "none", NoMinute, NoTeams),
              Ev(m2, 1, "kickoff",   "none", NoMinute, names) }
=============================================================================
