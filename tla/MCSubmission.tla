---------------------------- MODULE MCSubmission ----------------------------
(* The events and the scripts of one match that Submission is checked with. *)
EXTENDS Submission, TLC

CONSTANTS m1, names, noNames

MCMatches == {m1}
MCTeamNames == {names}

Ev(n, type, team, minute, teams) ==
  [match |-> m1, sequence |-> n, type |-> type, team |-> team, minute |-> minute, teams |-> teams]

Kickoff == Ev(1, "kickoff", "none", NoMinute, names)
Goal(n, team) == Ev(n, "goal", team, n, noNames)
Odds(n) == Ev(n, "odds_update", "none", NoMinute, noNames)

MCEvents == {Kickoff, Goal(2, "home"), Odds(2)}

\* The second life gets further than the first, as far, or less far; its events go
\* to either provider.
MCScripts == m1 :> {<<Kickoff>>, <<Kickoff, Goal(2, "home")>>, <<Kickoff, Odds(2)>>}
=============================================================================
