-------------------------- MODULE IncidentMessagesProofs --------------------------
(***************************************************************************)
(* What a person reads of an incident, for any number of clicks and of     *)
(* coverage updates: the messages are current until someone decides, the   *)
(* decision reaches the brief, and a decided card stays closed.            *)
(*                                                                         *)
(* The argument follows the edits.  The event loop has at most one under   *)
(* way, and what it says of the decision can only be out of date if the    *)
(* decision was made meanwhile, which `raced` remembers; the closing       *)
(* thread's edits all say that it was made.                                *)
(***************************************************************************)
EXTENDS IncidentMessages, TLAPS

Showing(shown) == shown \in BriefShown \cup CardShown

Typed ==
  /\ brief \in Briefs /\ noted \in 0..MaxUpdates /\ decided \in BOOLEAN /\ oneShot \in BOOLEAN
  /\ Showing(sending) /\ DOMAIN screen = Messages
  /\ screen["brief"] \in BriefShown /\ screen["card"] \in CardShown
  /\ click \in [Clicks -> {"none", "deciding", "hook", "replying", "done"}]
  /\ edits \in Seq(BriefShown \cup CardShown)
  /\ loop \in {"brief", "card", "thread", "handle", "waiting", "rendering", "editing brief",
               "checking", "editing card", "over"}

(* The loop's edit is of the message it is editing; nobody clicks a card that is not posted. *)
Posted ==
  /\ loop = "editing brief" => sending \in BriefShown /\ (sending.decided => decided)
  /\ loop = "editing card" => sending \in CardShown
  /\ loop \in {"brief", "card"} => ~screen["card"].open /\ ~decided /\ \A c \in Clicks : click[c] = "none"
  /\ loop \in {"brief", "card", "thread", "handle"} => brief.version = 0 /\ brief.note = 0 /\ noted = 0

(* One click decides, and its hook's edits say so. *)
Closing ==
  /\ ~decided => edits = <<>> /\ \A c \in Clicks : click[c] \in {"none", "deciding"}
  /\ \A c \in Clicks : click[c] = "hook" => edits = <<>> /\ \A d \in Clicks : click[d] = "hook" => d = c
  /\ \A i \in DOMAIN edits : /\ edits[i] \in CardShown => ~edits[i].open
                             /\ edits[i] \in BriefShown => edits[i].decided

(* The edit under way is of before the decision only if the decision raced it. *)
Races ==
  /\ decided /\ loop = "editing card" => "card" \in raced
  /\ decided /\ ~oneShot /\ loop = "editing brief" /\ ~sending.decided => "brief" \in raced

(* The brief's line is there, or on its way. *)
Reaches ==
  decided /\ ~oneShot /\ "brief" \notin failed /\ ~unclosed /\ "brief" \notin raced =>
    \/ \E c \in Clicks : click[c] = "hook"
    \/ \E i \in DOMAIN edits : edits[i] \in BriefShown
    \/ screen["brief"].decided

(* What was sent is what is on screen. *)
Current ==
  ~decided /\ failed = {} =>
    /\ loop \notin {"rendering", "editing brief"} => screen["brief"].version = brief.version
    /\ loop = "editing brief" => sending.version = brief.version
    /\ screen["card"].note = noted
    /\ loop = "editing card" => sending.note = brief.note
    /\ loop \notin {"rendering", "editing brief", "checking", "editing card"} => noted = brief.note

IInv == Typed /\ Posted /\ Closing /\ Races /\ Reaches /\ Current

USE DEF follower, record, history

-----------------------------------------------------------------------------
LEMMA Shown ==
  /\ \A v \in 0..MaxUpdates, d \in BOOLEAN : [message |-> "brief", version |-> v, decided |-> d] \in BriefShown
  /\ \A n \in 0..MaxUpdates, o \in BOOLEAN : [message |-> "card", note |-> n, open |-> o] \in CardShown
  /\ \A x \in BriefShown : x.message = "brief" /\ x \notin CardShown /\ x.version \in 0..MaxUpdates /\ x.decided \in BOOLEAN
  /\ \A x \in CardShown : x.message = "card" /\ x \notin BriefShown /\ x.note \in 0..MaxUpdates /\ x.open \in BOOLEAN
  /\ 0 \in 0..MaxUpdates
<1>1. /\ \A v \in 0..MaxUpdates, d \in BOOLEAN : [message |-> "brief", version |-> v, decided |-> d] \in BriefShown
      /\ \A x \in BriefShown : x.message = "brief" /\ x.version \in 0..MaxUpdates /\ x.decided \in BOOLEAN
  BY DEF BriefShown
<1>2. /\ \A n \in 0..MaxUpdates, o \in BOOLEAN : [message |-> "card", note |-> n, open |-> o] \in CardShown
      /\ \A x \in CardShown : x.message = "card" /\ x.note \in 0..MaxUpdates /\ x.open \in BOOLEAN
  BY DEF CardShown
<1> QED
  BY <1>1, <1>2, ConstantsAssumption

LEMMA Unposted ==
  /\ NoBrief \in BriefShown /\ NoBrief.version = 0 /\ ~NoBrief.decided
  /\ NoCard \in CardShown /\ NoCard.note = 0 /\ ~NoCard.open
BY Shown DEF NoBrief, NoCard

(* Showing one message leaves the other. *)
LEMMA Screen ==
  ASSUME Typed, NEW shown, Showing(shown), Show(shown)
  PROVE  /\ DOMAIN screen' = Messages
         /\ shown \in BriefShown => screen'["brief"] = shown /\ screen'["card"] = screen["card"]
         /\ shown \in CardShown => screen'["card"] = shown /\ screen'["brief"] = screen["brief"]
BY Shown DEF Typed, Showing, Show, Messages

LEMMA Start == Init => IInv
<1> SUFFICES ASSUME Init PROVE IInv
  OBVIOUS
<1>1. screen["brief"] = NoBrief /\ screen["card"] = NoCard /\ DOMAIN screen = Messages
  BY DEF Init, Messages
<1>2. brief \in Briefs /\ brief.version = 0 /\ brief.note = 0
  BY ConstantsAssumption DEF Init, Briefs
<1>3. Typed
  <2>1. edits \in Seq(BriefShown \cup CardShown) /\ oneShot \in BOOLEAN /\ noted \in 0..MaxUpdates
    BY ConstantsAssumption, Shown DEF Init
  <2>2. click \in [Clicks -> {"none", "deciding", "hook", "replying", "done"}]
    BY DEF Init
  <2> QED
    BY <1>1, <1>2, <2>1, <2>2, Unposted DEF Init, Typed, Showing
<1>4. Posted /\ Closing
  BY <1>1, <1>2, Unposted DEF Init, Posted, Closing
<1>5. Races /\ Reaches
  BY DEF Init, Races, Reaches
<1>6. Current
  BY <1>1, <1>2, Unposted DEF Init, Current
<1> QED
  BY <1>3, <1>4, <1>5, <1>6 DEF IInv

(* The event loop's steps before it follows the brief. *)
LEMMA Posting ==
  ASSUME IInv, PostBrief \/ PostCard \/ NoteThread \/ NoteCard
  PROVE  IInv'
<1>0. Typed /\ Posted /\ Closing /\ Races /\ Reaches /\ Current
  BY DEF IInv
<1>1. CASE PostBrief
  <2>1. /\ screen'["brief"] = NoBrief /\ screen'["card"] = screen["card"] /\ DOMAIN screen' = Messages
    BY <1>0, <1>1, Screen, Unposted DEF PostBrief, Showing
  <2>2. Typed'
    BY <1>0, <1>1, <2>1, Unposted DEF PostBrief, Typed
  <2>3. Posted' /\ Closing' /\ Races' /\ Reaches'
    BY <1>0, <1>1, <2>1, Unposted DEF PostBrief, Posted, Closing, Races, Reaches
  <2>4. Current'
    BY <1>0, <1>1, <2>1, Unposted DEF PostBrief, Posted, Current
  <2> QED
    BY <2>2, <2>3, <2>4 DEF IInv
<1>2. CASE PostCard
  <2>1. PICK c : c = [NoCard EXCEPT !.open = TRUE]
    OBVIOUS
  <2>2. c \in CardShown /\ c.note = 0
    BY <2>1, Shown DEF NoCard
  <2>3. /\ screen'["card"] = c /\ screen'["brief"] = screen["brief"] /\ DOMAIN screen' = Messages
    BY <1>0, <1>2, <2>1, <2>2, Screen DEF PostCard, Showing
  <2>4. Typed'
    BY <1>0, <1>2, <2>2, <2>3 DEF PostCard, Typed
  <2>5. Posted' /\ Closing' /\ Races' /\ Reaches'
    BY <1>0, <1>2, <2>3 DEF PostCard, Posted, Closing, Races, Reaches
  <2>6. Current'
    BY <1>0, <1>2, <2>2, <2>3 DEF PostCard, Posted, Current
  <2> QED
    BY <2>4, <2>5, <2>6 DEF IInv
<1>3. CASE NoteThread \/ NoteCard
  <2>1. /\ UNCHANGED <<oneShot, brief, closing, sending, noted, screen, decided, click, edits, history>>
        /\ loop \in {"thread", "handle"} /\ loop' \in {"handle", "waiting", "over"}
    BY <1>3 DEF NoteThread, NoteCard
  <2>2. Typed' /\ Posted'
    BY <1>0, <2>1 DEF Typed, Posted
  <2>3. Closing' /\ Races' /\ Reaches'
    BY <1>0, <2>1 DEF Closing, Races, Reaches
  <2>4. Current'
    BY <1>0, <2>1 DEF Current
  <2> QED
    BY <2>2, <2>3, <2>4 DEF IInv
<1> QED
  BY <1>1, <1>2, <1>3

(* An update of the brief, from the watch to the card. *)
LEMMA Following ==
  ASSUME IInv, Update \/ RenderBrief \/ EditBrief \/ CheckCard \/ EditCard \/ EditRaises
  PROVE  IInv'
<1>0. Typed /\ Posted /\ Closing /\ Races /\ Reaches /\ Current
  BY DEF IInv
<1>1. CASE Update
  <2>1. PICK note \in 0..brief.version + 1 : brief' = [version |-> brief.version + 1, note |-> note]
    BY <1>1 DEF Update
  <2>2. brief' \in Briefs
    BY <1>0, <1>1, <2>1, ConstantsAssumption DEF Update, Typed, Briefs
  <2>3. Typed' /\ Posted'
    BY <1>0, <1>1, <2>2 DEF Update, Typed, Posted
  <2>4. Closing' /\ Races' /\ Reaches'
    BY <1>0, <1>1 DEF Update, Closing, Races, Reaches
  <2>5. Current'
    BY <1>0, <1>1 DEF Update, Current
  <2> QED
    BY <2>3, <2>4, <2>5 DEF IInv
<1>2. CASE RenderBrief
  <2>1. sending' \in BriefShown /\ sending'.version = brief.version /\ sending'.decided = (decided /\ ~oneShot)
    BY <1>0, <1>2, Shown DEF RenderBrief, DecidedLine, Typed, Briefs
  <2>2. Typed' /\ Posted'
    BY <1>0, <1>2, <2>1 DEF RenderBrief, Typed, Posted, Showing
  <2>3. Closing' /\ Reaches'
    BY <1>0, <1>2 DEF RenderBrief, Closing, Reaches
  <2>4. Races'
    BY <1>2, <2>1 DEF RenderBrief, Races
  <2>5. Current'
    BY <1>0, <1>2, <2>1 DEF RenderBrief, Current
  <2> QED
    BY <2>2, <2>3, <2>4, <2>5 DEF IInv
<1>3. CASE EditBrief
  <2>1. sending \in BriefShown /\ (sending.decided => decided)
    BY <1>0, <1>3 DEF EditBrief, Posted
  <2>2. /\ screen'["brief"] = sending /\ screen'["card"] = screen["card"] /\ DOMAIN screen' = Messages
    BY <1>0, <1>3, <2>1, Screen DEF EditBrief, Showing
  <2>3. Typed' /\ Posted' /\ Closing' /\ Races'
    BY <1>0, <1>3, <2>1, <2>2 DEF EditBrief, Typed, Posted, Closing, Races
  <2>4. Reaches'
    BY <1>0, <1>3, <2>2 DEF EditBrief, Races, Reaches
  <2>5. Current'
    BY <1>0, <1>3, <2>1, <2>2 DEF EditBrief, Current
  <2> QED
    BY <2>3, <2>4, <2>5 DEF IInv
<1>4. CASE CheckCard
  <2>1. /\ UNCHANGED <<oneShot, brief, noted, screen, decided, click, edits, history>>
        /\ \/ loop' \in {"waiting", "over"} /\ UNCHANGED sending /\ (decided \/ brief.note = noted)
           \/ /\ loop' = "editing card" /\ ~decided
              /\ sending' = [message |-> "card", note |-> brief.note, open |-> TRUE]
    BY <1>4 DEF CheckCard, SkipsCard, AfterUpdate
  <2>2. loop' = "editing card" => sending' \in CardShown /\ sending'.note = brief.note
    <3>1. PICK c : c = [message |-> "card", note |-> brief.note, open |-> TRUE]
      OBVIOUS
    <3>2. brief.note \in 0..MaxUpdates
      BY <1>0 DEF Typed, Briefs
    <3>3. c \in CardShown /\ c.note = brief.note
      BY <3>1, <3>2, Shown
    <3>4. loop' = "editing card" => sending' = c
      BY <2>1, <3>1
    <3> QED
      BY <3>3, <3>4
  <2>3. Typed' /\ Posted'
    BY <1>0, <2>1, <2>2 DEF Typed, Posted, Showing
  <2>4. Closing' /\ Races' /\ Reaches'
    BY <1>0, <2>1 DEF Closing, Races, Reaches
  <2>5. loop = "checking"
    BY <1>4 DEF CheckCard
  <2>6. Current'
    BY <1>0, <2>1, <2>2, <2>5 DEF Current
  <2> QED
    BY <2>3, <2>4, <2>6 DEF IInv
<1>5. CASE EditCard
  <2>1. sending \in CardShown /\ loop' \in {"waiting", "over"} /\ brief.note \in 0..MaxUpdates
    BY <1>0, <1>5 DEF EditCard, Posted, AfterUpdate, Typed, Briefs
  <2>2. /\ screen'["card"] = sending /\ screen'["brief"] = screen["brief"] /\ DOMAIN screen' = Messages
    BY <1>0, <1>5, <2>1, Screen DEF EditCard, Showing
  <2>3. Typed' /\ Posted' /\ Closing' /\ Races' /\ Reaches'
    BY <1>0, <1>5, <2>1, <2>2 DEF EditCard, Noted, Typed, Posted, Closing, Races, Reaches
  <2>4. Current'
    BY <1>0, <1>5, <2>1, <2>2 DEF EditCard, Noted, Current
  <2> QED
    BY <2>3, <2>4 DEF IInv
<1>6. CASE EditRaises
  <2>1. /\ UNCHANGED <<oneShot, brief, noted, sending, decided, click, edits, raced, unclosed>>
        /\ loop \in {"editing brief", "editing card"} /\ loop' = "over"
        /\ failed' = failed \cup {"follow-up"}
    BY <1>6 DEF EditRaises
  <2>2. \/ UNCHANGED screen
        \/ /\ sending \in BriefShown /\ loop = "editing brief" /\ screen'["brief"] = sending
           /\ screen'["card"] = screen["card"] /\ DOMAIN screen' = Messages
        \/ /\ sending \in CardShown /\ screen'["card"] = sending
           /\ screen'["brief"] = screen["brief"] /\ DOMAIN screen' = Messages
    BY <1>0, <1>6, Screen DEF EditRaises, Posted, Showing
  <2>3. Typed'
    BY <1>0, <2>1, <2>2 DEF Typed
  <2>4. Posted' /\ Closing' /\ Races' /\ Current'
    BY <1>0, <2>1 DEF Posted, Closing, Races, Current
  <2>5. Reaches'
    BY <1>0, <2>1, <2>2 DEF Races, Reaches
  <2> QED
    BY <2>3, <2>4, <2>5 DEF IInv
<1> QED
  BY <1>1, <1>2, <1>3, <1>4, <1>5, <1>6

LEMMA Joined ==
  ASSUME NEW a, NEW b
  PROVE  /\ <<>> \o <<>> = <<>> /\ <<a>> \o <<>> = <<a>>
         /\ <<>> \o <<b>> = <<b>> /\ <<a>> \o <<b>> = <<a, b>>
<1>1. <<>> \o <<>> = <<>>
  OBVIOUS
<1>2. <<a>> \o <<>> = <<a>>
  OBVIOUS
<1>3. <<>> \o <<b>> = <<b>>
  OBVIOUS
<1>4. <<a>> \o <<b>> = <<a, b>>
  <2>1. PICK s : s = <<a>> \o <<b>>
    OBVIOUS
  <2>2. <<a>> \in Seq({a, b}) /\ <<b>> \in Seq({a, b}) /\ <<a, b>> \in Seq({a, b})
    OBVIOUS
  <2>3. s \in Seq({a, b}) /\ Len(s) = 2 /\ s[1] = a /\ s[2] = b
    BY <2>1, <2>2
  <2>4. s = <<a, b>>
    BY <2>2, <2>3
  <2> QED
    BY <2>1, <2>4
<1> QED
  BY <1>1, <1>2, <1>3, <1>4

(* Clicking and deciding; the hook settles the edits and they are sent. *)
LEMMA Deciding ==
  ASSUME IInv, NEW c \in Clicks, Click(c) \/ Decide(c) \/ Hook(c) \/ Reply(c)
  PROVE  IInv'
<1>0. Typed /\ Posted /\ Closing /\ Races /\ Reaches /\ Current
  BY DEF IInv
<1>1. CASE Click(c)
  <2>1. Typed'
    BY <1>0, <1>1 DEF Click, Typed
  <2>2. loop \notin {"brief", "card"}
    BY <1>0, <1>1 DEF Click, Posted
  <2>3. Posted' /\ Races' /\ Current'
    BY <1>0, <1>1, <2>2 DEF Click, Posted, Races, Current
  <2>4. \A d \in Clicks : click'[d] = IF d = c THEN "deciding" ELSE click[d]
    BY <1>0, <1>1 DEF Click, Typed
  <2>5. Closing'
    BY <1>0, <1>1, <2>4 DEF Click, Closing
  <2>6. Reaches'
    BY <1>0, <1>1, <2>4 DEF Click, Reaches
  <2> QED
    BY <2>1, <2>3, <2>5, <2>6 DEF IInv
<1>2. CASE Decide(c)
  <2>1. /\ UNCHANGED <<oneShot, brief, loop, sending, noted, screen, edits, unclosed, failed>>
        /\ decided' = TRUE /\ raced' = IF decided THEN raced ELSE UnderWay
        /\ loop \notin {"brief", "card"}
    BY <1>0, <1>2 DEF Decide, Posted
  <2>2. \A d \in Clicks : click'[d] = IF d = c THEN (IF decided THEN "replying" ELSE "hook") ELSE click[d]
    BY <1>0, <1>2 DEF Decide, Typed
  <2>3. Typed'
    BY <1>0, <1>2 DEF Decide, Typed
  <2>4. Posted' /\ Current'
    BY <1>0, <2>1 DEF Posted, Current
  <2>5. Closing'
    BY <1>0, <1>2, <2>1, <2>2 DEF Closing, Decide
  <2>6. Races'
    BY <1>0, <2>1 DEF Races, UnderWay
  <2>7. Reaches'
    <3>1. CASE decided
      BY <1>0, <1>2, <2>1, <2>2, <3>1 DEF Reaches, Decide
    <3>2. CASE ~decided
      BY <2>1, <2>2, <3>2 DEF Reaches
    <3> QED
      BY <3>1, <3>2
  <2> QED
    BY <2>3, <2>4, <2>5, <2>6, <2>7 DEF IInv
<1>3. CASE Hook(c)
  <2>1. /\ UNCHANGED <<oneShot, brief, loop, sending, noted, screen, decided, raced>>
        /\ decided /\ edits' = EditsOfDecision /\ unclosed' = (known # Messages \/ ~held)
        /\ failed \subseteq failed'
    BY <1>0, <1>3 DEF Hook, Closing
  <2>2. \A d \in Clicks : click'[d] = IF d = c THEN "replying" ELSE click[d]
    BY <1>0, <1>3 DEF Hook, Typed
  <2>3. PICK card, line : /\ card = [message |-> "card", note |-> 0, open |-> FALSE]
                          /\ line = [message |-> "brief", version |-> brief.version, decided |-> TRUE]
    OBVIOUS
  <2>4. card \in CardShown /\ ~card.open /\ line \in BriefShown /\ line.decided
    BY <1>0, <2>3, Shown DEF Typed, Briefs
  <2>5. /\ EditsOfDecision \in {<<>>, <<card>>, <<line>>, <<card, line>>}
        /\ "brief" \in known /\ held /\ ~oneShot => EditsOfDecision \in {<<line>>, <<card, line>>}
    <3>1. ClosedCard = (IF "card" \in known THEN <<card>> ELSE <<>>)
      BY <2>3 DEF ClosedCard
    <3>2. DecidedBrief = (IF "brief" \in known /\ held /\ ~oneShot THEN <<line>> ELSE <<>>)
      BY <2>3 DEF DecidedBrief
    <3>3. /\ <<>> \o <<>> = <<>> /\ <<card>> \o <<>> = <<card>>
          /\ <<>> \o <<line>> = <<line>> /\ <<card>> \o <<line>> = <<card, line>>
      BY Joined
    <3> QED
      BY <3>1, <3>2, <3>3, Zenon DEF EditsOfDecision
  <2>6. /\ edits' \in Seq(BriefShown \cup CardShown)
        /\ \A i \in DOMAIN edits' : edits'[i] \in {card, line}
    <3>1. CASE EditsOfDecision = <<>>
      BY <2>1, <3>1
    <3>2. CASE EditsOfDecision = <<card>>
      BY <2>1, <2>4, <3>2
    <3>3. CASE EditsOfDecision = <<line>>
      BY <2>1, <2>4, <3>3
    <3>4. CASE EditsOfDecision = <<card, line>>
      BY <2>1, <2>4, <3>4
    <3> QED
      BY <2>5, <3>1, <3>2, <3>3, <3>4
  <2>7. Typed'
    BY <1>0, <1>3, <2>1, <2>6 DEF Hook, Typed
  <2>8. Posted' /\ Races' /\ Current'
    BY <1>0, <2>1 DEF Posted, Races, Current
  <2>9. Closing'
    BY <1>0, <1>3, <2>1, <2>2, <2>4, <2>6, Shown DEF Hook, Closing
  <2>10. Reaches'
    <3>1. "brief" \in known /\ held /\ ~oneShot => \E i \in DOMAIN edits' : edits'[i] = line
      BY <2>1, <2>5
    <3> QED
      BY <2>1, <2>4, <3>1 DEF Reaches, Messages
  <2> QED
    BY <2>7, <2>8, <2>9, <2>10 DEF IInv
<1>4. CASE Reply(c)
  <2>1. /\ UNCHANGED <<oneShot, brief, loop, sending, noted, decided, edits, raced, unclosed>>
        /\ decided /\ failed \subseteq failed' /\ loop \notin {"brief", "card"}
    BY <1>0, <1>4 DEF Reply, Closing, Posted
  <2>2. \A d \in Clicks : click'[d] = IF d = c THEN "done" ELSE click[d]
    BY <1>0, <1>4 DEF Reply, Typed
  <2>3. \/ UNCHANGED screen
        \/ /\ screen'["card"] \in CardShown /\ DOMAIN screen' = Messages
           /\ screen'["brief"] = screen["brief"]
    <3>1. CASE UNCHANGED screen
      BY <3>1
    <3>2. CASE \E note \in 0..brief.version : Show([message |-> "card", note |-> note, open |-> FALSE])
      <4>1. PICK note \in 0..brief.version : Show([message |-> "card", note |-> note, open |-> FALSE])
        BY <3>2
      <4>2. PICK shown : shown = [message |-> "card", note |-> note, open |-> FALSE]
        OBVIOUS
      <4>3. note \in 0..MaxUpdates
        <5>1. brief.version \in 0..MaxUpdates
          BY <1>0 DEF Typed, Briefs
        <5> QED
          BY <4>1, <5>1, ConstantsAssumption
      <4>4. shown \in CardShown /\ Show(shown)
        BY <4>1, <4>2, <4>3, Shown
      <4> QED
        BY <1>0, <4>4, Screen DEF Showing
    <3> QED
      BY <1>4, <3>1, <3>2 DEF Reply
  <2>4. Typed'
    BY <1>0, <1>4, <2>1, <2>3 DEF Reply, Typed
  <2>5. Posted' /\ Races' /\ Current'
    BY <1>0, <2>1 DEF Posted, Races, Current
  <2>6. Closing'
    BY <1>0, <2>1, <2>2 DEF Closing
  <2>7. Reaches'
    BY <1>0, <1>4, <2>1, <2>2, <2>3 DEF Reply, Reaches
  <2> QED
    BY <2>4, <2>5, <2>6, <2>7 DEF IInv
<1> QED
  BY <1>1, <1>2, <1>3, <1>4

LEMMA FirstEdit ==
  ASSUME NEW S, NEW s \in Seq(S), s # <<>>
  PROVE  /\ 1 \in DOMAIN s /\ Head(s) = s[1] /\ Head(s) \in S
         /\ Tail(s) \in Seq(S)
         /\ \A i \in DOMAIN Tail(s) : i + 1 \in DOMAIN s /\ Tail(s)[i] = s[i + 1]
         /\ \A i \in DOMAIN s : i # 1 => i - 1 \in DOMAIN Tail(s) /\ Tail(s)[i - 1] = s[i]
OBVIOUS

LEMMA Sending == ASSUME IInv, SendEdit PROVE IInv'
<1>0. Typed /\ Posted /\ Closing /\ Races /\ Reaches /\ Current
  BY DEF IInv
<1>1. PICK first : first = Head(edits)
  OBVIOUS
<1>2. /\ edits # <<>> /\ edits' = Tail(edits) /\ decided /\ failed \subseteq failed'
      /\ UNCHANGED <<oneShot, brief, loop, sending, noted, decided, click, raced, unclosed>>
      /\ loop \notin {"brief", "card"}
  BY <1>0 DEF SendEdit, Closing, Posted
<1>3. /\ first \in BriefShown \cup CardShown /\ first = edits[1] /\ 1 \in DOMAIN edits
      /\ Tail(edits) \in Seq(BriefShown \cup CardShown)
      /\ \A i \in DOMAIN Tail(edits) : i + 1 \in DOMAIN edits /\ Tail(edits)[i] = edits[i + 1]
      /\ \A i \in DOMAIN edits : i # 1 => i - 1 \in DOMAIN Tail(edits) /\ Tail(edits)[i - 1] = edits[i]
  BY <1>0, <1>1, <1>2, FirstEdit DEF Typed
<1>4. \/ UNCHANGED screen /\ first.message \in failed'
      \/ first \in BriefShown /\ screen'["brief"] = first /\ screen'["card"] = screen["card"] /\ DOMAIN screen' = Messages
      \/ first \in CardShown /\ screen'["card"] = first /\ screen'["brief"] = screen["brief"] /\ DOMAIN screen' = Messages
  BY <1>0, <1>1, <1>3, Screen DEF SendEdit, Showing
<1>5. Typed'
  BY <1>0, <1>2, <1>3, <1>4 DEF Typed
<1>6. Posted' /\ Races' /\ Current'
  BY <1>0, <1>2 DEF Posted, Races, Current
<1>7. Closing'
  BY <1>0, <1>2, <1>3 DEF Closing
<1>8. Reaches'
  <2>1. SUFFICES ASSUME decided /\ ~oneShot /\ "brief" \notin failed' /\ ~unclosed /\ "brief" \notin raced
                 PROVE  \/ \E i \in DOMAIN edits' : edits'[i] \in BriefShown
                        \/ screen'["brief"].decided
    BY <1>2 DEF Reaches
  <2>2. \/ \E i \in DOMAIN edits : edits[i] \in BriefShown
        \/ screen["brief"].decided
    BY <1>0, <1>2, <2>1 DEF Reaches, Closing
  <2>3. CASE first \in BriefShown
    BY <1>0, <1>3, <1>4, <2>1, <2>3, Shown DEF Closing
  <2>4. CASE first \notin BriefShown
    BY <1>2, <1>3, <1>4, <2>2, <2>4
  <2> QED
    BY <2>3, <2>4
<1> QED
  BY <1>5, <1>6, <1>7, <1>8 DEF IInv

(* The store and the memory of briefs are not read by the messages after the hook. *)
LEMMA Elsewhere ==
  ASSUME IInv,
         UNCHANGED <<oneShot, brief, loop, sending, noted, screen, decided, click, edits, raced, unclosed>>,
         failed \subseteq failed'
  PROVE  IInv'
<1>1. Typed' /\ Posted' /\ Closing' /\ Races'
  BY DEF IInv, Typed, Posted, Closing, Races
<1>2. Reaches' /\ Current'
  BY DEF IInv, Reaches, Current
<1> QED
  BY <1>1, <1>2 DEF IInv

LEMMA Step == IInv /\ [Next]_vars => IInv'
<1> SUFFICES ASSUME IInv, [Next]_vars PROVE IInv'
  OBVIOUS
<1>1. CASE PostBrief \/ PostCard \/ NoteThread \/ NoteCard
  BY <1>1, Posting
<1>2. CASE Update \/ RenderBrief \/ EditBrief \/ CheckCard \/ EditCard \/ EditRaises
  BY <1>2, Following
<1>3. CASE SendEdit
  BY <1>3, Sending
<1>4. CASE Forget
  BY <1>4, Elsewhere DEF Forget
<1>5. ASSUME NEW w \in Writers, Save(w) PROVE IInv'
  BY <1>5, Elsewhere DEF Save
<1>6. ASSUME NEW c \in Clicks, Click(c) \/ Decide(c) \/ Hook(c) \/ Reply(c) PROVE IInv'
  BY <1>6, Deciding
<1>7. CASE UNCHANGED vars
  BY <1>7, Elsewhere DEF vars
<1> QED
  BY <1>1, <1>2, <1>3, <1>4, <1>5, <1>6, <1>7 DEF Next, Follow

(* The edits under way and the messages on screen agree with what was decided. *)
THEOREM Invariant == Spec => []IInv
BY Start, Step, PTL DEF Spec

(* Once a decision's calls are done the brief says so, but for a refused edit, an *)
(* unknown message or an edit the decision raced (decision_closer).               *)
THEOREM BriefIsTold == Spec => []DecisionReachesTheBrief
<1>1. IInv => DecisionReachesTheBrief
  <2> SUFFICES ASSUME IInv, Settled, decided, ~oneShot, "brief" \notin failed, ~unclosed, "brief" \notin raced
               PROVE  screen["brief"].decided
    BY DEF DecisionReachesTheBrief
  <2>1. DOMAIN edits = {} /\ \A c \in Clicks : click[c] # "hook"
    BY DEF Settled
  <2> QED
    BY <2>1 DEF IInv, Reaches
<1> QED
  BY Invariant, <1>1, PTL

(* While nobody has decided, what is on screen between two updates is the current *)
(* brief and its note (_follow_coverage).                                         *)
THEOREM WhatIsRead == Spec => []MessagesAreCurrent
<1>1. IInv => MessagesAreCurrent
  BY DEF IInv, Current, MessagesAreCurrent
<1> QED
  BY Invariant, <1>1, PTL

(* A decided card offers its buttons again only by an edit of the follow-up that *)
(* was under way when the decision was made (on_update's check and its edit).    *)
THEOREM StaysClosed == Spec => ReopensOnlyInFlight
<1>1. IInv /\ [Next]_vars => [decided /\ ~screen["card"].open /\ screen'["card"].open => "card" \in raced]_vars
  <2> SUFFICES ASSUME IInv, [Next]_vars, decided, ~screen["card"].open, screen'["card"].open
               PROVE  "card" \in raced
    OBVIOUS
  <2>0. Typed /\ Posted /\ Closing /\ Races
    BY DEF IInv
  <2>1. loop \notin {"brief", "card"}
    BY <2>0 DEF Posted
  <2>2. CASE EditBrief \/ (EditRaises /\ loop = "editing brief")
    BY <2>0, <2>2, Screen DEF EditBrief, EditRaises, Posted, Showing
  <2>3. CASE EditCard \/ (EditRaises /\ loop = "editing card")
    BY <2>0, <2>3 DEF EditCard, EditRaises, Races
  <2>4. CASE SendEdit
    <3>1. PICK first : first = Head(edits)
      OBVIOUS
    <3>2. first \in BriefShown \cup CardShown /\ first = edits[1] /\ 1 \in DOMAIN edits /\ Show(first)
      BY <2>0, <2>4, <3>1, FirstEdit DEF SendEdit, Typed
    <3> QED
      BY <2>0, <3>2, Screen DEF Closing, Showing
  <2>5. ASSUME NEW c \in Clicks, Reply(c) PROVE FALSE
    <3>1. PICK note \in 0..brief.version : Show([message |-> "card", note |-> note, open |-> FALSE])
      BY <2>5 DEF Reply
    <3>2. PICK shown : shown = [message |-> "card", note |-> note, open |-> FALSE]
      OBVIOUS
    <3>3. note \in 0..MaxUpdates
      <4>1. brief.version \in 0..MaxUpdates
        BY <2>0 DEF Typed, Briefs
      <4> QED
        BY <3>1, <4>1, ConstantsAssumption
    <3>4. shown \in CardShown /\ Show(shown) /\ ~shown.open
      BY <3>1, <3>2, <3>3, Shown
    <3> QED
      BY <2>0, <3>4, Screen DEF Showing
  <2>6. CASE UNCHANGED screen
    BY <2>6
  <2> QED
    BY <2>1, <2>2, <2>3, <2>4, <2>5, <2>6
       DEF Next, Follow, vars, PostBrief, PostCard, NoteThread, NoteCard, Update, RenderBrief, CheckCard,
           EditRaises, Forget, Save, Click, Decide, Hook
<1> QED
  BY Invariant, <1>1, PTL DEF Spec, ReopensOnlyInFlight

-----------------------------------------------------------------------------
(* The record *)

BeforeHandled == {"brief", "card", "thread", "handle"}
Investigated == Stage(InvestigatedSession)

(* What has been given to the store, and is no longer on its way. *)
InvestigatedFiled == loop \notin BeforeHandled /\ session["investigated"] = NoSession
DecisionFiled ==
  decided /\ (\A c \in Clicks : click[c] # "hook") /\ session["decided"] = NoSession

(* Each writer holds the stage it was given, and only after it was given. *)
OnTheirWay ==
  /\ session["investigated"] # NoSession =>
       loop \notin BeforeHandled /\ Stage(session["investigated"]) = Investigated
  /\ session["decided"] # NoSession =>
       /\ decided /\ \A c \in Clicks : click[c] # "hook"
       /\ Stage(session["decided"]) \in Decisions
  /\ decided /\ ~early => InvestigatedFiled

(* What is stored, if nothing was refused: what was given, in its order but for *)
(* a decision made early.                                                       *)
OnFile ==
  /\ ~InvestigatedFiled /\ ~DecisionFiled => stored = <<>>
  /\ InvestigatedFiled /\ ~DecisionFiled => Len(stored) = 1 /\ Stage(stored[1]) = Investigated
  /\ ~InvestigatedFiled /\ DecisionFiled => Len(stored) = 1 /\ Stage(stored[1]) \in Decisions
  /\ InvestigatedFiled /\ DecisionFiled =>
       /\ Len(stored) = 2
       /\ \/ Stage(stored[1]) = Investigated /\ Stage(stored[2]) \in Decisions
          \/ early /\ Stage(stored[1]) \in Decisions /\ Stage(stored[2]) = Investigated

Filed ==
  /\ session \in [Writers -> Sessions \cup {NoSession}] /\ stored \in Seq(Sessions)
  /\ OnTheirWay
  /\ Writers \cap failed = {} => OnFile

(* The stages of the sessions the program builds. *)
LEMMA SessionsBuilt ==
  ASSUME Typed
  PROVE  /\ InvestigatedSession \in Sessions /\ InvestigatedSession # NoSession
         /\ \A d \in Decisions : /\ DecidedSession(d) \in Sessions /\ DecidedSession(d) # NoSession
                                 /\ Stage(DecidedSession(d)) = d
<1>1. InvestigatedSession \in Sessions
  <2>1. PICK b \in BOOLEAN : b = ~oneShot
    BY DEF Typed
  <2>2. [version |-> 0, proposal |-> b, decision |-> "none"] \in Sessions
    BY ConstantsAssumption DEF Sessions
  <2> QED
    BY <2>1, <2>2 DEF InvestigatedSession
<1>2. ASSUME NEW d \in Decisions
      PROVE  DecidedSession(d) \in Sessions /\ Stage(DecidedSession(d)) = d
  <2>1. d \in Endings /\ d # "none" /\ brief.version \in 0..MaxUpdates
    BY ConstantsAssumption DEF Typed, Briefs, Endings
  <2> QED
    BY <2>1 DEF Typed, DecidedSession, Sessions, Stage
<1> QED
  BY <1>1, <1>2, SessionAssumption

(* A step that gives the store nothing and decides nothing keeps the record. *)
LEMMA FiledFrame ==
  ASSUME Filed, UNCHANGED <<oneShot, session, stored, decided, early>>,
         loop' \in BeforeHandled <=> loop \in BeforeHandled,
         \A c \in Clicks : click'[c] = "hook" <=> click[c] = "hook",
         Writers \cap failed \subseteq failed'
  PROVE  Filed'
<1>1. /\ InvestigatedFiled' <=> InvestigatedFiled
      /\ DecisionFiled' <=> DecisionFiled
      /\ Investigated' = Investigated
  BY DEF InvestigatedFiled, DecisionFiled, Investigated, InvestigatedSession, Stage
<1>2. OnTheirWay'
  BY <1>1 DEF Filed, OnTheirWay
<1>3. Writers \cap failed' = {} => OnFile'
  BY <1>1 DEF Filed, OnFile
<1> QED
  BY <1>2, <1>3 DEF Filed

(* The request path gives the investigated stage to the store. *)
LEMMA GivesInvestigated == ASSUME IInv, Filed, NoteCard PROVE Filed'
<1>1. /\ UNCHANGED <<oneShot, decided, click, stored, early, failed>>
      /\ loop \in BeforeHandled /\ loop' \notin BeforeHandled
      /\ session' = [session EXCEPT !["investigated"] = InvestigatedSession]
  BY DEF NoteCard, BeforeHandled
<1>2. InvestigatedSession \in Sessions /\ InvestigatedSession # NoSession
  BY SessionsBuilt DEF IInv
<1>3. /\ session' \in [Writers -> Sessions \cup {NoSession}]
      /\ session'["investigated"] = InvestigatedSession
      /\ session'["decided"] = session["decided"]
  BY <1>1, <1>2 DEF Filed, Writers
<1>4. /\ ~InvestigatedFiled /\ ~InvestigatedFiled'
      /\ DecisionFiled' <=> DecisionFiled
      /\ Investigated' = Investigated
  BY <1>1, <1>2, <1>3 DEF InvestigatedFiled, DecisionFiled, Investigated, InvestigatedSession, Stage
<1>5. decided => early
  BY <1>4 DEF Filed, OnTheirWay
<1>6. OnTheirWay'
  BY <1>1, <1>2, <1>3, <1>4, <1>5 DEF Filed, OnTheirWay, Investigated
<1>7. Writers \cap failed' = {} => OnFile'
  BY <1>1, <1>4 DEF Filed, OnFile
<1> QED
  BY <1>1, <1>3, <1>6, <1>7 DEF Filed

(* The first decision notes whether it came before the investigated stage was stored. *)
LEMMA DecisionIsNoted == ASSUME IInv, Filed, NEW c \in Clicks, Decide(c) PROVE Filed'
<1>0. Typed /\ Posted /\ Closing
  BY DEF IInv
<1>1. UNCHANGED <<oneShot, loop, session, stored, failed>>
  BY DEF Decide
<1>2. \A d \in Clicks : click'[d] = IF d = c THEN (IF decided THEN "replying" ELSE "hook") ELSE click[d]
  BY <1>0 DEF Decide, Typed
<1>3. CASE decided
  <2>1. UNCHANGED <<decided, early>> /\ click[c] # "hook"
    BY <1>0, <1>3 DEF Decide
  <2> QED
    BY <1>1, <1>2, <1>3, <2>1, FiledFrame
<1>4. CASE ~decided
  <2>1. /\ decided' /\ click'[c] = "hook" /\ session["decided"] = NoSession
        /\ early' = (loop \in {"thread", "handle"} \/ session["investigated"] # NoSession)
        /\ loop \notin {"brief", "card"}
    BY <1>0, <1>2, <1>4 DEF Decide, Filed, OnTheirWay, Posted
  <2>2. /\ InvestigatedFiled' <=> InvestigatedFiled
        /\ ~DecisionFiled /\ ~DecisionFiled'
        /\ Investigated' = Investigated
    BY <1>1, <1>4, <2>1 DEF InvestigatedFiled, DecisionFiled, Investigated, InvestigatedSession, Stage
  <2>3. OnTheirWay'
    BY <1>1, <2>1, <2>2 DEF Filed, OnTheirWay, InvestigatedFiled, BeforeHandled
  <2>4. Writers \cap failed' = {} => OnFile'
    BY <1>1, <2>2 DEF Filed, OnFile
  <2> QED
    BY <1>1, <2>3, <2>4 DEF Filed
<1> QED
  BY <1>3, <1>4

(* The hook of the decision gives its stage to the store, or counts it as refused. *)
LEMMA GivesDecision == ASSUME IInv, Filed, NEW c \in Clicks, Hook(c) PROVE Filed'
<1>0. Typed /\ Closing
  BY DEF IInv
<1>1. /\ UNCHANGED <<oneShot, loop, decided, stored, early>> /\ click[c] = "hook" /\ decided
      /\ session["decided"] = NoSession
  BY <1>0 DEF Hook, Closing, Filed, OnTheirWay
<1>2. \A d \in Clicks : click'[d] = IF d = c THEN "replying" ELSE click[d]
  BY <1>0 DEF Hook, Typed
<1>3. \A d \in Clicks : click'[d] # "hook"
  BY <1>0, <1>1, <1>2 DEF Closing
<1>4. ~DecisionFiled /\ Investigated' = Investigated
  BY <1>1 DEF DecisionFiled, Investigated, InvestigatedSession, Stage
<1>5. CASE held
  <2>1. PICK decision \in Decisions :
          session' = [session EXCEPT !["decided"] = DecidedSession(decision)]
    BY <1>5 DEF Hook
  <2>2. UNCHANGED failed
    BY <1>5 DEF Hook
  <2>3. PICK s : s = DecidedSession(decision)
    OBVIOUS
  <2>4. s \in Sessions /\ s # NoSession /\ Stage(s) \in Decisions
    BY <1>0, <2>3, SessionsBuilt
  <2>5. /\ session' \in [Writers -> Sessions \cup {NoSession}]
        /\ session'["decided"] = s /\ session'["investigated"] = session["investigated"]
    BY <2>1, <2>3, <2>4 DEF Filed, Writers
  <2>6. ~DecisionFiled' /\ (InvestigatedFiled' <=> InvestigatedFiled)
    BY <1>1, <2>4, <2>5 DEF InvestigatedFiled, DecisionFiled
  <2>7. OnTheirWay'
    BY <1>1, <1>3, <1>4, <2>4, <2>5, <2>6 DEF Filed, OnTheirWay
  <2>8. Writers \cap failed' = {} => OnFile'
    BY <1>1, <1>4, <2>2, <2>6 DEF Filed, OnFile
  <2> QED
    BY <1>1, <2>5, <2>7, <2>8 DEF Filed
<1>6. CASE ~held
  <2>1. UNCHANGED session /\ "decided" \in failed'
    BY <1>6 DEF Hook
  <2>2. OnTheirWay'
    BY <1>1, <1>4, <2>1 DEF Filed, OnTheirWay, InvestigatedFiled
  <2> QED
    BY <1>1, <2>1, <2>2 DEF Filed, Writers
<1> QED
  BY <1>5, <1>6

(* What a save leaves in the store: its stage last, or before the last if the *)
(* decision came early.                                                       *)
LEMMA Stored ==
  ASSUME NEW s \in Sessions, stored \in Seq(Sessions), Len(stored) <= 1,
         NEW t \in Appended(s)
  PROVE  /\ t \in Seq(Sessions) /\ Len(t) = Len(stored) + 1
         /\ stored = <<>> => t[1] = s
         /\ Len(stored) = 1 => \/ t[1] = stored[1] /\ t[2] = s
                               \/ early /\ t[1] = s /\ t[2] = stored[1]
<1>1. CASE t = Append(stored, s)
  BY <1>1
<1>2. CASE early /\ stored # <<>> /\ t = InsertAt(stored, Len(stored), s)
  <2>1. Len(stored) = 1 /\ stored[1] \in Sessions
    BY <1>2
  <2>2. PICK a : a = stored[1]
    OBVIOUS
  <2>3. stored = <<a>>
    BY <2>1, <2>2
  <2>4. SubSeq(stored, 1, 0) = <<>> /\ SubSeq(stored, 1, 1) = <<a>>
    <3>1. SubSeq(stored, 1, 0) = <<>>
      OBVIOUS
    <3>2. PICK u : u = SubSeq(stored, 1, 1)
      OBVIOUS
    <3>3. u \in Seq(Sessions) /\ Len(u) = 1 /\ u[1] = stored[1]
      BY <2>1, <3>2
    <3>4. a \in Sessions /\ <<a>> \in Seq(Sessions)
      BY <2>1, <2>2
    <3>5. u = <<a>>
      BY <2>2, <3>3, <3>4
    <3> QED
      BY <3>1, <3>2, <3>5
  <2>5. t = (<<>> \o <<s>>) \o <<a>>
    <3>1. t = SubSeq(stored, 1, 1 - 1) \o <<s>> \o SubSeq(stored, 1, 1)
      BY <1>2, <2>1, Zenon DEF InsertAt
    <3>2. 1 - 1 = 0
      OBVIOUS
    <3> QED
      BY <2>4, <3>1, <3>2, Zenon
  <2>6. t = <<s, a>>
    BY <2>5, Joined, Zenon
  <2> QED
    BY <1>2, <2>1, <2>2, <2>6
<1> QED
  BY <1>1, <1>2 DEF Appended

(* A save moves the stage of its writer into the store, or is refused. *)
LEMMA Saving == ASSUME IInv, Filed, NEW w \in Writers, Save(w) PROVE Filed'
<1>1. /\ UNCHANGED <<oneShot, loop, decided, click, early>> /\ session[w] # NoSession
      /\ session' = [session EXCEPT ![w] = NoSession]
  BY DEF Save
<1>2. /\ session' \in [Writers -> Sessions \cup {NoSession}] /\ session[w] \in Sessions
      /\ session'[w] = NoSession
      /\ \A v \in Writers : v # w => session'[v] = session[v]
  BY <1>1 DEF Filed
<1>3. Investigated' = Investigated
  BY <1>1 DEF Investigated, InvestigatedSession, Stage
<1>4. OnTheirWay'
  BY <1>1, <1>2, <1>3 DEF Filed, OnTheirWay, InvestigatedFiled, Writers
<1>5. CASE w \in failed' /\ UNCHANGED stored
  BY <1>2, <1>4, <1>5 DEF Filed
<1>6. CASE stored' \in Appended(session[w]) /\ UNCHANGED failed
  <2>1. CASE Writers \cap failed # {} 
    <3>1. stored' \in Seq(Sessions)
      <4>1. /\ Append(stored, session[w]) \in Seq(Sessions)
            /\ stored # <<>> => InsertAt(stored, Len(stored), session[w]) \in Seq(Sessions)
        BY <1>2 DEF Filed, InsertAt
      <4> QED
        BY <1>6, <4>1 DEF Appended
    <3> QED
      BY <1>2, <1>4, <1>6, <2>1, <3>1 DEF Filed
  <2>2. CASE Writers \cap failed = {}
    <3>0. OnFile /\ OnTheirWay /\ stored \in Seq(Sessions)
      BY <2>2 DEF Filed
    <3>1. CASE w = "investigated"
      <4>1. /\ ~InvestigatedFiled /\ InvestigatedFiled' /\ (DecisionFiled' <=> DecisionFiled)
            /\ Stage(session[w]) = Investigated
        BY <1>1, <1>2, <3>0, <3>1 DEF OnTheirWay, InvestigatedFiled, DecisionFiled, Writers
      <4>2. CASE DecisionFiled
        <5>1. Len(stored) = 1 /\ Stage(stored[1]) \in Decisions /\ early
          BY <3>0, <4>1, <4>2 DEF OnFile, OnTheirWay, DecisionFiled
        <5> QED
          BY <1>1, <1>2, <1>3, <1>4, <1>6, <3>0, <4>1, <4>2, <5>1, Stored DEF Filed, OnFile
      <4>3. CASE ~DecisionFiled
        <5>1. stored = <<>>
          BY <3>0, <4>1, <4>3 DEF OnFile
        <5> QED
          BY <1>1, <1>2, <1>3, <1>4, <1>6, <3>0, <4>1, <4>3, <5>1, Stored DEF Filed, OnFile
      <4> QED
        BY <4>2, <4>3
    <3>2. CASE w = "decided"
      <4>1. /\ ~DecisionFiled /\ DecisionFiled' /\ (InvestigatedFiled' <=> InvestigatedFiled)
            /\ Stage(session[w]) \in Decisions /\ decided
        BY <1>1, <1>2, <3>0, <3>2 DEF OnTheirWay, InvestigatedFiled, DecisionFiled, Writers
      <4>2. CASE InvestigatedFiled
        <5>1. Len(stored) = 1 /\ Stage(stored[1]) = Investigated
          BY <3>0, <4>1, <4>2 DEF OnFile
        <5> QED
          BY <1>1, <1>2, <1>3, <1>4, <1>6, <3>0, <4>1, <4>2, <5>1, Stored DEF Filed, OnFile
      <4>3. CASE ~InvestigatedFiled
        <5>1. stored = <<>>
          BY <3>0, <4>1, <4>3 DEF OnFile
        <5> QED
          BY <1>1, <1>2, <1>3, <1>4, <1>6, <3>0, <4>1, <4>3, <5>1, Stored DEF Filed, OnFile
      <4> QED
        BY <4>2, <4>3
    <3> QED
      BY <3>1, <3>2 DEF Writers
  <2> QED
    BY <2>1, <2>2
<1> QED
  BY <1>5, <1>6 DEF Save

LEMMA FiledStep == ASSUME IInv, Filed, [Next]_vars PROVE Filed'
<1>0. Typed /\ Closing
  BY DEF IInv
<1>1. CASE PostBrief \/ PostCard \/ NoteThread \/ Update \/ RenderBrief \/ EditBrief \/ CheckCard
           \/ EditCard \/ EditRaises \/ SendEdit \/ Forget
  <2>1. UNCHANGED <<oneShot, session, stored, decided, early, click>>
    BY <1>1 DEF PostBrief, PostCard, NoteThread, Update, RenderBrief, EditBrief, CheckCard, EditCard,
                EditRaises, SendEdit, Forget
  <2>2. loop' \in BeforeHandled <=> loop \in BeforeHandled
    BY <1>1 DEF PostBrief, PostCard, NoteThread, Update, RenderBrief, EditBrief, CheckCard, EditCard,
                EditRaises, SendEdit, Forget, BeforeHandled, AfterUpdate
  <2>3. Writers \cap failed \subseteq failed'
    BY <1>1 DEF PostBrief, PostCard, NoteThread, Update, RenderBrief, EditBrief, CheckCard, EditCard,
                EditRaises, SendEdit, Forget, Writers
  <2> QED
    BY <2>1, <2>2, <2>3, FiledFrame
<1>2. CASE NoteCard
  BY <1>2, GivesInvestigated
<1>3. ASSUME NEW w \in Writers, Save(w) PROVE Filed'
  BY <1>3, Saving
<1>4. ASSUME NEW c \in Clicks, Click(c) \/ Reply(c) PROVE Filed'
  <2>1. /\ UNCHANGED <<oneShot, loop, session, stored, decided, early>> /\ failed \subseteq failed'
        /\ \A d \in Clicks : click'[d] = "hook" <=> click[d] = "hook"
    BY <1>0, <1>4 DEF Click, Reply, Typed
  <2> QED
    BY <2>1, FiledFrame
<1>5. ASSUME NEW c \in Clicks, Decide(c) \/ Hook(c) PROVE Filed'
  BY <1>5, DecisionIsNoted, GivesDecision
<1>6. CASE UNCHANGED vars
  BY <1>6, FiledFrame DEF vars
<1> QED
  BY <1>1, <1>2, <1>3, <1>4, <1>5, <1>6 DEF Next, Follow

(* Every stage the store accepted is in the incident's history, once, and load *)
(* answers with the decision unless it was made before the investigated stage  *)
(* was stored (session_persister, DynamoSessionStore.save and load).           *)
THEOREM RecordIsKept == Spec => []DecisionIsOnRecord
<1>1. Init => Filed
  <2> SUFFICES ASSUME Init PROVE Filed
    OBVIOUS
  <2>1. /\ session["investigated"] = NoSession /\ session["decided"] = NoSession
        /\ session \in [Writers -> Sessions \cup {NoSession}]
    BY DEF Init, Writers
  <2>2. stored = <<>> /\ stored \in Seq(Sessions) /\ ~decided /\ loop \in BeforeHandled
    BY DEF Init, BeforeHandled
  <2> QED
    BY <2>1, <2>2 DEF Filed, OnTheirWay, OnFile, InvestigatedFiled, DecisionFiled
<1>2. Filed => DecisionIsOnRecord
  <2> SUFFICES ASSUME Filed, Settled, loop \in {"waiting", "over"},
                      \A w \in Writers : session[w] = NoSession, Writers \cap failed = {}
               PROVE  IF ~decided THEN History = <<Investigated>>
                      ELSE /\ Len(History) = 2 /\ Range(History) \subseteq Decisions \cup {Investigated}
                           /\ \E i \in DOMAIN History : History[i] \in Decisions
                           /\ ~early => Stage(Load) \in Decisions
    BY Zenon DEF DecisionIsOnRecord, Investigated
  <2>1. InvestigatedFiled /\ (DecisionFiled <=> decided) /\ OnFile /\ stored \in Seq(Sessions)
    BY DEF Filed, Settled, InvestigatedFiled, DecisionFiled, BeforeHandled, Writers
  <2>2. CASE ~decided
    <3>1. DOMAIN stored = {1} /\ Stage(stored[1]) = Investigated
      BY <2>1, <2>2 DEF OnFile
    <3>2. History = [i \in 1..1 |-> Investigated]
      BY <3>1 DEF History
    <3>3. History = <<Investigated>>
      BY <3>2
    <3> QED
      BY <2>2, <3>3
  <2>3. CASE decided
    <3>1. /\ DOMAIN stored = 1..2 /\ Len(stored) = 2
          /\ \/ Stage(stored[1]) = Investigated /\ Stage(stored[2]) \in Decisions
             \/ early /\ Stage(stored[1]) \in Decisions /\ Stage(stored[2]) = Investigated
      BY <2>1, <2>3 DEF OnFile
    <3>2. DOMAIN History = 1..2 /\ \A i \in 1..2 : History[i] = Stage(stored[i])
      BY <3>1 DEF History
    <3>3. Len(History) = 2
      BY <3>2
    <3>4. Range(History) \subseteq Decisions \cup {Investigated}
      BY <3>1, <3>2 DEF Range
    <3>5. Load = stored[2]
      BY <3>1 DEF Load, Last
    <3> QED
      BY <2>3, <3>1, <3>2, <3>3, <3>4, <3>5
  <2> QED
    BY <2>2, <2>3
<1> QED
  BY <1>1, <1>2, FiledStep, Invariant, PTL DEF Spec

=============================================================================
