------------------------------ MODULE CoverageWatch ------------------------------
(***************************************************************************)
(* Following a brief's coverage gaps to their close (coverage.py), with    *)
(* the fetch it repeats (collectors/base.py), the consumer that drives it  *)
(* (Automation.follow_coverage in actions/runtime.py) and the sources,     *)
(* which report a change up to a lag after it was made.                    *)
(*                                                                         *)
(* One unit of time is a second.  A poll is three kinds of step: it begins *)
(* and settles whether it is the last, every source answers with what it   *)
(* has been delivered by then, and the answers are ranked.                 *)
(***************************************************************************)
EXTENDS Integers, FiniteSets

CONSTANTS
  Sources,    \* the lagging sources
  Lag,        \* delivery_lag of each
  Events,     \* the changes inside the brief's radius and window
  SourceOf, OccursAt,
  Score,      \* their scores, all different
  NoEvent,    \* an empty ranking has no first
  WindowEnd,  \* when the alert fired
  Poll, Margin, Tolerance, \* POLL_SECONDS, SETTLE_MARGIN_SECONDS, _WAKE_TOLERANCE
  Early,      \* how early a timer may wake
  Malformed,  \* whether a payload can be one that normalisation raises on
  EditsFail,  \* whether Slack can refuse an edit, which `on_update` raises
  Horizon     \* bound on the clock

ASSUME WatchAssumption ==
  /\ Lag \in [Sources -> Nat] /\ SourceOf \in [Events -> Sources]
  /\ WindowEnd \in Nat /\ OccursAt \in [Events -> 0..WindowEnd]
  /\ Score \in [Events -> Int] /\ NoEvent \notin Events
  /\ Poll \in Nat \ {0} /\ Margin \in Nat /\ Tolerance \in Nat
  /\ Early \in 0..Tolerance /\ Tolerance < Margin
  /\ Malformed \in BOOLEAN /\ EditsFail \in BOOLEAN
  /\ Horizon \in Nat /\ \A s \in Sources : WindowEnd + Lag[s] + Margin <= Horizon

VARIABLES
  clock,     \* the time
  delivered, \* the changes their sources report by now
  pc,        \* "due", "brief", "asking", "asleep", "over" or "raised"
  brief,     \* the current brief
  first,     \* the brief as it was posted
  final,     \* whether the poll under way is the last
  answers,   \* what the sources asked have answered
  wakeAt,    \* when the sleep ends
  recorded   \* late changes the durable ledger took

watch == <<pc, brief, first, final, answers, wakeAt, recorded>>
watchVars == <<clock, delivered, watch>>

-----------------------------------------------------------------------------
Of(s) == {e \in Events : SourceOf[e] = s}

Statuses == {"none", "open", "caught_up", "unreachable"}
Briefs ==
  [candidates : SUBSET Events, narrative : BOOLEAN, degraded : BOOLEAN,
   gaps : [Sources -> Statuses], late : [Sources -> 0..Cardinality(Events)],
   ranked_first_from : Events \cup {NoEvent}]
Answers == [events : SUBSET Events, ok : BOOLEAN]

WatchTypeOK ==
  /\ clock \in 0..Horizon /\ delivered \subseteq Events
  /\ pc \in {"due", "brief", "asking", "asleep", "over", "raised"}
  /\ brief \in Briefs /\ first \in Briefs /\ final \in BOOLEAN
  /\ DOMAIN answers \subseteq Sources /\ \A s \in DOMAIN answers : answers[s] \in Answers
  /\ wakeAt \in 0..Horizon + Poll /\ recorded \subseteq Events

Unwritten ==
  [candidates |-> {}, narrative |-> FALSE, degraded |-> FALSE,
   gaps |-> [s \in Sources |-> "none"], late |-> [s \in Sources |-> 0],
   ranked_first_from |-> NoEvent]

WatchInit ==
  /\ clock = WindowEnd
  /\ delivered \in SUBSET Events
  /\ \A e \in Events : OccursAt[e] + Lag[SourceOf[e]] < clock => e \in delivered
  /\ pc = "due" /\ brief = Unwritten /\ first = Unwritten
  /\ final = FALSE /\ answers = <<>> /\ wakeAt = clock /\ recorded = {}

(* A change is reported by the time its lag has passed. *)
Overdue(t) == {e \in Events \ delivered : OccursAt[e] + Lag[SourceOf[e]] < t}

SourceDelivers(e) ==
  /\ e \notin delivered
  /\ delivered' = delivered \cup {e}
  /\ UNCHANGED <<clock, watch>>

ClockTick ==
  /\ clock < Horizon /\ Overdue(clock + 1) = {}
  /\ clock' = clock + 1
  /\ UNCHANGED <<delivered, watch>>

-----------------------------------------------------------------------------
(* Collector.fetch: all a source reports, what was read before a listing was *)
(* cut off, or nothing.                                                      *)

Fetched(s) ==
  {[events |-> delivered \cap Of(s), ok |-> TRUE], [events |-> {}, ok |-> FALSE]}
    \cup [events : SUBSET (delivered \cap Of(s)), ok : {FALSE}]

(* `_coverage_gap`: the end of the window had not settled when it was asked. *)
HasGap(s) == clock - Lag[s] < WindowEnd

Ranked(es) == IF es = {} THEN NoEvent
              ELSE CHOOSE e \in es : \A other \in es : Score[other] <= Score[e]

(* The investigation, at the instant of its fetch.  A source that raised has no *)
(* gap; one that was cut off has.                                               *)
Investigate ==
  /\ pc = "due"
  /\ \E found \in [Sources -> Answers], raised \in SUBSET Sources :
       /\ \A s \in Sources : found[s] \in Fetched(s)
       /\ \A s \in raised : ~found[s].ok /\ found[s].events = {}
       /\ brief' =
            [Unwritten EXCEPT
               !.candidates = UNION {found[s].events : s \in Sources},
               !.narrative = TRUE,
               !.degraded = \E s \in Sources : ~found[s].ok,
               !.gaps = [s \in Sources |-> IF s \notin raised /\ HasGap(s) THEN "open" ELSE "none"]]
  /\ first' = brief' /\ pc' = "brief"
  /\ UNCHANGED <<clock, delivered, final, answers, wakeAt, recorded>>

-----------------------------------------------------------------------------
(* watch_coverage *)

OpenGaps == {s \in Sources : first.gaps[s] = "open"}
Settles(s) == WindowEnd + Lag[s]

\* Mutant: the close is the settle point itself.
ClosesAtSettling(s) == Settles(s)
Closing(s) == Settles(s) + Margin
ClosesAt == CHOOSE t \in {Closing(s) : s \in OpenGaps} : \A s \in OpenGaps : Closing(s) <= t

IsFinal(t) == \A s \in OpenGaps : Closing(s) - Tolerance <= t

NothingToFollow ==
  /\ pc = "brief" /\ OpenGaps = {}
  /\ pc' = "over"
  /\ UNCHANGED <<clock, delivered, brief, first, final, answers, wakeAt, recorded>>

BeginPoll ==
  /\ \/ pc = "brief" /\ OpenGaps # {}
     \/ pc = "asleep" /\ clock >= wakeAt - Early
  /\ final' = IsFinal(clock)
  /\ answers' = <<>> /\ pc' = "asking"
  /\ UNCHANGED <<clock, delivered, brief, first, wakeAt, recorded>>

SourceAnswers(s) ==
  /\ pc = "asking" /\ s \in OpenGaps \ DOMAIN answers
  /\ \E a \in Fetched(s) :
       answers' = [q \in DOMAIN answers \cup {s} |-> IF q = s THEN a ELSE answers[q]]
  /\ UNCHANGED <<clock, delivered, pc, brief, first, final, wakeAt, recorded>>

(* Normalisation is outside fetch()'s try: what it raises ends the watch. *)
AnswerRaises(s) ==
  /\ Malformed
  /\ pc = "asking" /\ s \in OpenGaps \ DOMAIN answers
  /\ pc' = "raised"
  /\ UNCHANGED <<clock, delivered, brief, first, final, answers, wakeAt, recorded>>

Late == (UNION {answers[s].events : s \in DOMAIN answers}) \ brief.candidates
Failed == {s \in DOMAIN answers : ~answers[s].ok}

Counted(late) == [s \in Sources |-> brief.late[s] + Cardinality(late \cap Of(s))]

\* Mutant: a gap whose source failed stays open.
ClosedIfReached(s) == IF s \in Failed THEN "open" ELSE "caught_up"
Closed(s) == IF s \in Failed THEN "unreachable" ELSE "caught_up"

Narrative(late) == brief.narrative /\ late = {}

MovedFrom(candidates) ==
  IF Ranked(candidates) = Ranked(first.candidates) THEN NoEvent ELSE Ranked(first.candidates)

(* `late_by_source`, a variable of the watch that only the close puts on the gaps, *)
(* is the brief's `late` here.                                                     *)
Revise(late) ==
  LET candidates == brief.candidates \cup late
  IN [candidates |-> candidates,
      narrative |-> Narrative(late),
      degraded |-> brief.degraded \/ (final /\ Failed # {}),
      gaps |-> [s \in Sources |-> IF final /\ brief.gaps[s] = "open" THEN Closed(s) ELSE brief.gaps[s]],
      late |-> Counted(late),
      ranked_first_from |-> MovedFrom(candidates)]

(* follow_coverage: the ledger takes the late changes, or refuses them and the *)
(* watch goes on; an edit that raises ends it.                                 *)

Record(late) ==
  \/ recorded' = recorded \cup late
  \/ late # {} /\ recorded' = recorded

Sleep == wakeAt' = IF ClosesAt <= clock THEN clock
                   ELSE IF Poll <= ClosesAt - clock THEN clock + Poll ELSE ClosesAt

EndPoll ==
  /\ pc = "asking" /\ DOMAIN answers = OpenGaps
  /\ LET late == Late
     IN IF late # {} \/ final
        THEN brief' = Revise(late) /\ Record(late)
        ELSE UNCHANGED <<brief, recorded>>
  /\ \/ IF final THEN pc' = "over" /\ UNCHANGED wakeAt ELSE pc' = "asleep" /\ Sleep
     \/ EditsFail /\ brief' # brief /\ pc' = "raised" /\ UNCHANGED wakeAt
  /\ UNCHANGED <<clock, delivered, first, final, answers>>

Watch ==
  \/ Investigate \/ NothingToFollow \/ BeginPoll \/ EndPoll
  \/ \E s \in Sources : SourceAnswers(s) \/ AnswerRaises(s)

WatchNext == ClockTick \/ (\E e \in Events : SourceDelivers(e)) \/ Watch

WatchSpec == WatchInit /\ [][WatchNext]_watchVars

(* The clock runs, sources report within their lag, timers fire and calls return. *)
FairWatch == WatchSpec /\ WF_watchVars(ClockTick) /\ WF_watchVars(\E e \in Events : SourceDelivers(e)) /\ WF_watchVars(Watch)

-----------------------------------------------------------------------------
(* Properties *)

(* A gap closed as caught up hides nothing: every change the source made in   *)
(* the window is in the brief, however late it came, wherever the polls fell  *)
(* and however early the last timer woke.                                     *)
CaughtUpMeansComplete ==
  \A s \in Sources : brief.gaps[s] = "caught_up" => Of(s) \subseteq brief.candidates

(* Every gap is followed to its close and the watch ends, unless a step of it *)
(* raises: failed and cut-off answers, early timers and a ledger that refuses *)
(* do not keep one open.                                                      *)
EveryGapCloses ==
  <>(pc = "raised") \/ <>[](pc = "over" /\ \A s \in Sources : brief.gaps[s] # "open")

=============================================================================
