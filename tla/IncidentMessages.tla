----------------------------- MODULE IncidentMessages -----------------------------
(***************************************************************************)
(* The two messages of one incident, its brief and its approval card, and  *)
(* everyone who edits them: the event loop that posted them and follows    *)
(* the brief's coverage (actions/server.py), the Slack thread of each      *)
(* click (slack/handlers.py) and the thread that closes every message of a *)
(* decision (decision_closer).  The session store (record/store.py) is     *)
(* appended to when the investigation is posted and again when its action  *)
(* is decided, each from a thread of its own.                              *)
(*                                                                         *)
(* An edit is rendered from what its editor reads and lands in Slack       *)
(* later, as a step of its own.                                            *)
(***************************************************************************)
EXTENDS Integers, Sequences, SequencesExt

CONSTANTS
  Clicks,     \* interactions with the card, each once
  OneShots,   \* whether the card is a one-shot's: a subset of BOOLEAN
  MaxUpdates, \* bound on the coverage updates of the brief
  Decisions,  \* how a decided action ends: a subset of Endings
  NoSession   \* a session not built yet

Endings == {"rejected", "executed", "execution_failed"}

ASSUME ConstantsAssumption ==
  /\ Decisions \subseteq Endings /\ Decisions # {}
  /\ OneShots \subseteq BOOLEAN /\ OneShots # {} /\ MaxUpdates \in Nat

VARIABLES
  oneShot,  \* the card is a one-shot's, which the brief does not name
  brief,    \* automation.briefs: the newest brief, and the note a card of it bears
  known,    \* the messages in automation.threads and automation.cards
  loop,     \* where the event loop is
  closing,  \* the update being shown is the last
  sending,  \* what the event loop's edit under way was rendered as
  noted,    \* the note the follow-up believes on the card
  screen,   \* what Slack shows: the brief's version and outcome line, the card's note and buttons
  decided,  \* the gateway has an outcome
  click,    \* where each click is
  edits,    \* what the closing thread has still to send
  held,     \* automation.briefs still holds the brief
  session,  \* the session each writer has still to save
  stored,   \* the session store: the sessions of this incident, in the order of their sort keys
  raced,    \* history: the edit of the event loop under way when the decision was made
  unclosed, \* history: the decision's hook ran before its messages were known
  early,    \* history: the decision was made before the investigated stage was stored
  failed    \* history: edits Slack refused, stages the store may not have

follower == <<brief, loop, closing, sending, noted>>
record == <<held, session, stored>>
history == <<raced, unclosed, early, failed>>
vars == <<oneShot, known, follower, screen, decided, click, edits, record, history>>

-----------------------------------------------------------------------------
Briefs == [version : 0..MaxUpdates, note : 0..MaxUpdates]
BriefShown == [message : {"brief"}, version : 0..MaxUpdates, decided : BOOLEAN]
CardShown == [message : {"card"}, note : 0..MaxUpdates, open : BOOLEAN]
Messages == {"brief", "card"}

(* The investigated stage, and the stage of the decision. *)
Writers == {"investigated", "decided"}

(* IncidentSession: the brief it was built from, the proposal, the approval and *)
(* the execution.  Its stage is derived from what it holds.                     *)
Sessions == [version : 0..MaxUpdates, proposal : BOOLEAN, decision : Endings \cup {"none"}]
Stage(s) ==
  IF s.decision # "none" THEN s.decision ELSE IF s.proposal THEN "proposed" ELSE "investigated"

ASSUME SessionAssumption == NoSession \notin Sessions

(* What is not posted yet. *)
NoBrief == [message |-> "brief", version |-> 0, decided |-> FALSE]
NoCard == [message |-> "card", note |-> 0, open |-> FALSE]

TypeOK ==
  /\ oneShot \in BOOLEAN /\ brief \in Briefs /\ known \subseteq Messages
  /\ loop \in {"brief", "card", "thread", "handle", "waiting", "rendering", "editing brief",
               "checking", "editing card", "over"}
  /\ closing \in BOOLEAN /\ sending \in BriefShown \cup CardShown /\ noted \in 0..MaxUpdates
  /\ DOMAIN screen = Messages /\ screen["brief"] \in BriefShown /\ screen["card"] \in CardShown
  /\ decided \in BOOLEAN
  /\ click \in [Clicks -> {"none", "deciding", "hook", "replying", "done"}]
  /\ edits \in Seq(BriefShown \cup CardShown) /\ Len(edits) <= 2
  /\ held \in BOOLEAN
  /\ session \in [Writers -> Sessions \cup {NoSession}] /\ stored \in Seq(Sessions)
  /\ raced \subseteq Messages /\ unclosed \in BOOLEAN /\ early \in BOOLEAN
  /\ failed \subseteq {"follow-up", "brief", "card", "reply"} \cup Writers

Init ==
  /\ oneShot \in OneShots
  /\ brief = [version |-> 0, note |-> 0] /\ known = {}
  /\ loop = "brief" /\ closing = FALSE /\ sending = NoBrief /\ noted = 0
  /\ screen = [m \in Messages |-> IF m = "brief" THEN NoBrief ELSE NoCard]
  /\ decided = FALSE /\ click = [c \in Clicks |-> "none"] /\ edits = <<>>
  /\ held = TRUE
  /\ session = [w \in Writers |-> NoSession] /\ stored = <<>>
  /\ raced = {} /\ unclosed = FALSE /\ early = FALSE /\ failed = {}

Show(shown) == screen' = [screen EXCEPT ![shown.message] = shown]

-----------------------------------------------------------------------------
(* The /alerts handler: it posts the brief, then the card, and then notes where *)
(* each went.  The card can be clicked from the moment it is posted.            *)

PostBrief ==
  /\ loop = "brief" /\ loop' = "card"
  /\ Show(NoBrief)
  /\ UNCHANGED <<oneShot, known, brief, closing, sending, noted, decided, click, edits, record, history>>

PostCard ==
  /\ loop = "card" /\ loop' = "thread"
  /\ Show([NoCard EXCEPT !.open = TRUE])
  /\ UNCHANGED <<oneShot, known, brief, closing, sending, noted, decided, click, edits, record, history>>

NoteThread ==
  /\ loop = "thread" /\ loop' = "handle"
  /\ known' = known \cup {"brief"}
  /\ UNCHANGED <<oneShot, brief, closing, sending, noted, screen, decided, click, edits, record, history>>

InvestigatedSession == [version |-> 0, proposal |-> ~oneShot, decision |-> "none"]

(* With no open gap there is nothing to follow.  The investigated stage is saved *)
(* on a pool thread, off the request path.                                       *)
NoteCard ==
  /\ loop = "handle" /\ loop' \in {"waiting", "over"}
  /\ known' = known \cup {"card"}
  /\ session' = [session EXCEPT !["investigated"] = InvestigatedSession]
  /\ UNCHANGED <<oneShot, brief, closing, sending, noted, screen, decided, click, edits>>
  /\ UNCHANGED <<held, stored, history>>

(* _remember keeps MAX_REMEMBERED briefs: enough other incidents, and the oldest *)
(* is dropped.  Nothing reads it after the hooks.                                *)
Forget ==
  /\ loop \in {"waiting", "over"}
  /\ \A c \in Clicks : click[c] \in {"none", "deciding", "hook"}
  /\ held /\ held' = FALSE
  /\ UNCHANGED <<oneShot, known, follower, screen, decided, click, edits, session, stored, history>>

-----------------------------------------------------------------------------
(* _follow_coverage: each update of the watch is rendered and sent, first the *)
(* brief and then the card, in one call on the event loop.                    *)

(* `approval_card_note` may change, stay, or be again what it was. *)
Update ==
  /\ loop = "waiting" /\ brief.version < MaxUpdates
  /\ \E note \in 0..brief.version + 1 :
       brief' = [version |-> brief.version + 1, note |-> note]
  /\ closing' \in BOOLEAN
  /\ loop' = "rendering" /\ held' = TRUE
  /\ UNCHANGED <<oneShot, known, sending, noted, screen, decided, click, edits, session, stored, history>>

DecidedLine == decided /\ ~oneShot

RenderBrief ==
  /\ loop = "rendering" /\ loop' = "editing brief"
  /\ sending' = [message |-> "brief", version |-> brief.version, decided |-> DecidedLine]
  /\ UNCHANGED <<oneShot, known, brief, closing, noted, screen, decided, click, edits, record, history>>

AfterUpdate == IF closing THEN "over" ELSE "waiting"

EditBrief ==
  /\ loop = "editing brief" /\ loop' = "checking"
  /\ Show(sending)
  /\ IF sending.decided
     THEN raced' = raced \ {"brief"} /\ unclosed' = FALSE /\ failed' = failed \ {"brief"}
     ELSE UNCHANGED <<raced, unclosed, failed>>
  /\ UNCHANGED <<oneShot, known, brief, closing, sending, noted, decided, click, edits, record, early>>

\* Mutant: a decided card is re-rendered.
NeverSkips == FALSE
\* A decided card was closed by its click.
SkipsCard == decided

CheckCard ==
  /\ loop = "checking"
  /\ IF SkipsCard \/ brief.note = noted
     THEN loop' = AfterUpdate /\ UNCHANGED sending
     ELSE /\ loop' = "editing card"
          /\ sending' = [message |-> "card", note |-> brief.note, open |-> TRUE]
  /\ UNCHANGED <<oneShot, known, brief, closing, noted, screen, decided, click, edits, record, history>>

\* Mutant: the note is compared with the posted card's.
NotedAsPosted == noted
Noted == brief.note

EditCard ==
  /\ loop = "editing card" /\ loop' = AfterUpdate
  /\ Show(sending) /\ noted' = Noted
  /\ UNCHANGED <<oneShot, known, brief, closing, sending, decided, click, edits, record, history>>

(* An edit that raises ends the follow-up, whether it landed or not. *)
EditRaises ==
  /\ loop \in {"editing brief", "editing card"} /\ loop' = "over"
  /\ Show(sending) \/ UNCHANGED screen
  /\ failed' = failed \cup {"follow-up"}
  /\ UNCHANGED <<oneShot, known, brief, closing, sending, noted, decided, click, edits, raced, unclosed, early, record>>

-----------------------------------------------------------------------------
(* A click: the gateway decides or replays, the decided hooks run inside the  *)
(* call that recorded, and the clicked card is closed with the reply.         *)

Click(c) ==
  /\ click[c] = "none" /\ screen["card"].open
  /\ click' = [click EXCEPT ![c] = "deciding"]
  /\ UNCHANGED <<oneShot, known, follower, screen, decided, edits, record, history>>

UnderWay == IF loop = "editing brief" THEN {"brief"} ELSE IF loop = "editing card" THEN {"card"} ELSE {}

Decide(c) ==
  /\ click[c] = "deciding"
  /\ click' = [click EXCEPT ![c] = IF decided THEN "replying" ELSE "hook"]
  /\ decided' = TRUE
  /\ raced' = IF decided THEN raced ELSE UnderWay
  /\ early' = IF decided THEN early ELSE (loop \in {"thread", "handle"} \/ session["investigated"] # NoSession)
  /\ UNCHANGED <<oneShot, known, follower, screen, edits, record, unclosed, failed>>

(* decision_closer: what is edited, and as what, is settled here and sent later. *)
ClosedCard ==
  IF "card" \in known THEN <<[message |-> "card", note |-> 0, open |-> FALSE]>> ELSE <<>>
DecidedBrief ==
  IF "brief" \in known /\ held /\ ~oneShot
  THEN <<[message |-> "brief", version |-> brief.version, decided |-> TRUE]>> ELSE <<>>

\* Mutant: only the card is closed.
OnlyTheCard == ClosedCard
EditsOfDecision == ClosedCard \o DecidedBrief

(* incident_session: from_brief, with_approval and, when something ran, with_execution. *)
DecidedSession(decision) ==
  [version |-> brief.version, proposal |-> ~oneShot, decision |-> decision]

(* The hooks of a recorded decision, decision_closer and session_persister; the *)
(* second needs the brief to build the session from.                            *)
Hook(c) ==
  /\ click[c] = "hook"
  /\ click' = [click EXCEPT ![c] = "replying"]
  /\ edits' = EditsOfDecision
  /\ unclosed' = (known # Messages \/ ~held)
  /\ IF held
     THEN /\ \E decision \in Decisions :
               session' = [session EXCEPT !["decided"] = DecidedSession(decision)]
          /\ UNCHANGED failed
     ELSE UNCHANGED session /\ failed' = failed \cup {"decided"}
  /\ UNCHANGED <<oneShot, known, follower, screen, decided, held, stored, raced, early>>

SendEdit ==
  /\ edits # <<>> /\ edits' = Tail(edits)
  /\ \/ Show(Head(edits)) /\ UNCHANGED failed
     \/ failed' = failed \cup {Head(edits).message} /\ UNCHANGED screen
  /\ UNCHANGED <<oneShot, known, follower, decided, click, raced, unclosed, early, record>>

(* `_deliver` rebuilds the card from the blocks that were clicked. *)
Reply(c) ==
  /\ click[c] = "replying"
  /\ click' = [click EXCEPT ![c] = "done"]
  /\ \/ /\ \E note \in 0..brief.version : Show([message |-> "card", note |-> note, open |-> FALSE])
        /\ UNCHANGED failed
     \/ failed' = failed \cup {"reply"} /\ UNCHANGED screen
  /\ UNCHANGED <<oneShot, known, follower, decided, edits, raced, unclosed, early, record>>

-----------------------------------------------------------------------------
(* Saving a session: DynamoSessionStore.save puts an item whose sort key is the *)
(* time and a random suffix, which is new; _save_quietly drops what it raises.  *)

\* Mutant: a session replaces the one stored before it.
Overwritten(s) == {<<s>>}
(* Two saves under way together take their keys in either order. *)
Appended(s) ==
  {Append(stored, s)} \cup (IF early /\ stored # <<>> THEN {InsertAt(stored, Len(stored), s)} ELSE {})

(* A save that raises was too large or refused by the store. *)
Save(w) ==
  /\ session[w] # NoSession
  /\ session' = [session EXCEPT ![w] = NoSession]
  /\ \/ /\ stored' \in Appended(session[w])
        /\ UNCHANGED failed
     \/ failed' = failed \cup {w} /\ UNCHANGED stored
  /\ UNCHANGED <<oneShot, known, follower, screen, decided, click, edits, held, raced, unclosed, early>>

(* What the store answers of an incident: history, and load. *)
History == [i \in DOMAIN stored |-> Stage(stored[i])]
Load == Last(stored)

Follow ==
  \/ PostBrief \/ PostCard \/ NoteThread \/ NoteCard
  \/ Update \/ RenderBrief \/ EditBrief \/ CheckCard \/ EditCard \/ EditRaises

Next ==
  \/ Follow \/ SendEdit \/ Forget
  \/ \E w \in Writers : Save(w)
  \/ \E c \in Clicks : Click(c) \/ Decide(c) \/ Hook(c) \/ Reply(c)

Spec == Init /\ [][Next]_vars

-----------------------------------------------------------------------------
(* Properties *)

Settled == edits = <<>> /\ \A c \in Clicks : click[c] \in {"none", "done"}

(* A decided card never offers its buttons again, unless the follow-up's edit *)
(* of it was already under way when the decision was made.                    *)
ReopensOnlyInFlight ==
  [][decided /\ ~screen["card"].open /\ screen'["card"].open => "card" \in raced]_vars

(* Once a decision's calls are done the brief says what was decided, unless   *)
(* Slack refused that edit, the messages were not known yet or an edit of the *)
(* brief was under way, and no update of the brief has been shown since.      *)
DecisionReachesTheBrief ==
  /\ Settled /\ decided /\ ~oneShot /\ loop \in {"waiting", "over"}
  /\ "brief" \notin failed /\ ~unclosed /\ "brief" \notin raced
  => screen["brief"].decided

(* While nobody has decided, a person who opens the messages between two      *)
(* updates reads the current brief, and a card that says what it must of it.  *)
MessagesAreCurrent ==
  loop \in {"waiting", "over"} /\ failed = {} /\ ~decided
    => /\ screen["brief"].version = brief.version
       /\ screen["card"].note = brief.note

(* Once the saves are done, every stage the store was given is in the         *)
(* incident's history, and what load returns carries the decision, unless the *)
(* decision was made while the investigated stage was still to be saved.      *)
DecisionIsOnRecord ==
  /\ Settled /\ loop \in {"waiting", "over"} /\ \A w \in Writers : session[w] = NoSession
  /\ Writers \cap failed = {}
  => LET investigated == Stage(InvestigatedSession)
     IN IF ~decided THEN History = <<investigated>>
        ELSE /\ Len(History) = 2 /\ Range(History) \subseteq Decisions \cup {investigated}
             /\ \E i \in DOMAIN History : History[i] \in Decisions
             /\ ~early => Stage(Load) \in Decisions

=============================================================================
