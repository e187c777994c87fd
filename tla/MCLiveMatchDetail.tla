-------------------------- MODULE MCLiveMatchDetail -------------------------
(* The events of one match that LiveMatchDetail is checked with. *)
EXTENDS LiveMatchDetail

CONSTANTS m1, names

MCMatches == {m1}
MCTeamNames == {names}

Ev(n, type, team, minute, teams) ==
  [match |-> m1, sequence |-> n, type |-> type, team |-> team, minute |-> minute, teams |-> teams]

MCEvents == { Ev(1, "kickoff",     "none", NoMinute, names),
              Ev(2, "goal",        "home", 1,        NoTeams),
              Ev(3, "odds_update", "none", NoMinute, NoTeams),
              Ev(3, "goal",        "away", NoMinute, NoTeams),
              Ev(4, "full_time",   "none", NoMinute, NoTeams) }
=============================================================================
