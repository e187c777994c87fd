----------------------------- MODULE MatchFeed -----------------------------
(***************************************************************************)
(* What the consumer of a simulated match may rely on, whatever mode or    *)
(* template plays it: the events that MatchEngine.Run hands over on its    *)
(* channel, and the channel's end. Football implements this with a clock,  *)
(* a schedule and two flags; Submission takes it as the source of events.  *)
(***************************************************************************)
EXTENDS Integers, Sequences

VARIABLES sent,    \* the events taken from the channel so far
          closed   \* the channel is closed

feedVars == <<sent, closed>>

NoMinute == -1

FeedInit == sent = <<>> /\ closed = FALSE

\* The kickoff comes first, numbered 1, and only once.
Opens(e) == e.type = "kickoff" /\ e.sequence = 1

\* Numbers go up; full_time is the last event; the minutes that payloads name
\* never go back, and are never ahead of the number, which is the clock's.
Continues(e) ==
  LET last == sent[Len(sent)]
  IN  /\ e.type # "kickoff"
      /\ e.sequence > last.sequence
      /\ last.type # "full_time"
      /\ e.minute <= e.sequence
      /\ e.minute # NoMinute =>
           \A i \in DOMAIN sent : sent[i].minute = NoMinute \/ sent[i].minute <= e.minute

Deliver(e) == /\ ~ closed
              /\ IF sent = <<>> THEN Opens(e) ELSE Continues(e)
              /\ sent' = Append(sent, e)
              /\ UNCHANGED closed

Close == /\ ~ closed
         /\ closed' = TRUE
         /\ UNCHANGED sent

\* One more event, which is then the last of sent, or the end.
FeedNext == \/ sent' # sent /\ Deliver(sent'[Len(sent')])
            \/ Close

FeedSpec == FeedInit /\ [][FeedNext]_feedVars
=============================================================================
