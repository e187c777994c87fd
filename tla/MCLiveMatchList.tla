--------------------------- MODULE MCLiveMatchList ---------------------------
(* The events of two matches that LiveMatchList is checked with: the page has *)
(* missed the beginning of m1, whose numbers are ahead of those of m2.        *)
EXTENDS LiveMatchList

CONSTANTS m1, m2, names

MCMatches == {m1, m2}
MCTeamNames == {names}

Ev(m, n, type, team, minute, teams) ==
  [match |-> m, sequence |-> n, type |-> type, team |-> team, minute |-> minute, teams |-> teams]

MCEvents == { Ev(m1, 3, "goal",    "home", 2,        NoTeams),
              Ev(m2, 1, "kickoff", "none", NoMinute, names),
              Ev(m2, 2, "goal",    "away", 1,        NoTeams) }
=============================================================================
