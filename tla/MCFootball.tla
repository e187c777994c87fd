----------------------------- MODULE MCFootball -----------------------------
(***************************************************************************)
(* Template directories for TLC: one file of each kind, an unsorted script *)
(* without full_time and with two entries at one minute, a script that     *)
(* goes on past its full_time, one name in two files, and directories that *)
(* do not load because of one of their files.                              *)
(***************************************************************************)
EXTENDS Football

Exactly(n) == [min |-> n, max |-> n]
Range(a, b) == [min |-> a, max |-> b]

Tmpl(name, kind, events, home, away, yellow, red) ==
  [name |-> name, kind |-> kind, events |-> events,
   homeGoals |-> home, awayGoals |-> away, yellowCards |-> yellow, redCards |-> red]

None == Exactly(0)
Script(name, events) == Tmpl(name, "literal", events, None, None, None, None)
Bound(name, home, away, yellow, red) == Tmpl(name, "bounded", <<>>, home, away, yellow, red)

At(minute, type, team) == [type |-> type, team |-> team, minute |-> minute]

Draw  == Bound("a", None, None, None, None)
Goals == Bound("a", Exactly(1), Range(0, 1), None, None)
Cards == Bound("a", None, None, Range(0, 1), Exactly(1))

\* Out of order, with two entries at one minute, beyond the end, and no end.
Loose == Script("b", <<At(5, "goal", "home"), At(1, "yellow", "away"),
                       At(5, "half_time", "none"), At(7, "goal", "away")>>)
\* full_time shares its minute with a goal, and something follows it.
Late  == Script("b", <<At(3, "full_time", "none"), At(-2, "red", "home"),
                       At(3, "goal", "away"), At(4, "goal", "home")>>)

Empty    == Script("b", <<>>)
Nameless == Bound("", None, None, None, None)
Negative == Bound("a", [min |-> -1, max |-> 1], None, None, None)
Reversed == Bound("a", Range(2, 1), None, None, None)
Unknown  == Tmpl("b", "recorded", <<>>, None, None, None, None)
Kickoffs == Script("b", <<At(2, "kickoff", "none"), At(4, "full_time", "none")>>)

MCDirectories == { <<Draw>>, <<Goals, Loose>>, <<Cards, Late>>, <<Late, Draw, Loose>>,
                   <<Goals, Empty>>, <<Nameless, Draw>>, <<Negative>>, <<Reversed, Late>>,
                   <<Unknown, Draw>>, <<Kickoffs>> }
MCTemplateNames == {"", "a", "b", "c"}
=============================================================================
