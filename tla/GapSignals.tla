------------------------------- MODULE GapSignals -------------------------------
(***************************************************************************)
(* The evidence catalog growth mines (actions/growth/signals.py, miner.py, *)
(* lifecycle.py and generate.corroborate): signals of one class of change  *)
(* on one resource, the demonstrations of how people undid it, and the     *)
(* verdicts read off them.                                                 *)
(*                                                                         *)
(* Three writers meet here.  The automation server records a decline when  *)
(* it briefs an incident and a rejection or an execution when a card is    *)
(* decided, about each change the card cites; after a restart it may brief *)
(* the same incident again and offer a card that cites others.  The growth *)
(* job mines with the files it loaded when its cycle began, and may die    *)
(* between two writes.  Collectors deliver changes late, out of order, and *)
(* sometimes again with a corrected actor.                                 *)
(***************************************************************************)
EXTENDS Integers, FiniteSets

CONSTANTS
  Incidents,   \* the incidents about it
  NoIncident,  \* none
  Changes,     \* every change to the resource
  FiredAt,     \* when each incident's alert fired
  OccurredAt,  \* when each change occurred
  Place,       \* the place of each change's id in the order of ids
  ActorKind,   \* who made each change, as first resolved: "human", "unknown" or "service_account"
  Corrected,   \* the changes whose actor is resolved anew, to the kind given here
  Window,      \* remediation_window_minutes
  Quiet,       \* quiet_minutes
  Widest,      \* the widest window of an investigation
  MaxNow,      \* bound on the clock
  MaxRestarts  \* bound on the server's restarts

ASSUME ConstantsAssumption ==
  /\ NoIncident \notin Incidents
  /\ FiredAt \in [Incidents -> Nat] /\ OccurredAt \in [Changes -> Nat]
  /\ Place \in [Changes -> Nat] /\ \A c, d \in Changes : Place[c] = Place[d] => c = d
  /\ Window \in Nat \ {0} /\ Quiet \in Nat \ {0} /\ Widest \in Nat /\ MaxNow \in Nat /\ MaxRestarts \in Nat
  /\ ActorKind \in [Changes -> {"human", "unknown", "service_account"}]
  /\ DOMAIN Corrected \subseteq Changes

VARIABLES
  now,
  ledger,    \* the changes in the ledger
  corrected, \* those whose record was replaced by one with another actor
  alerts,    \* the firings in the ledger's alert history
  card,      \* each incident in the running server: unseen, briefed, with an open card, or decided
  cited,     \* the changes each briefed incident's card is about
  restarts,
  signals,   \* the signal store
  demos,     \* the corpus of demonstrations
  pc,        \* where the job's cycle is
  todo,      \* the anchors it has not reached
  at_hand,   \* the demonstration it has just recorded, and the signal it records next
  loaded     \* the ledger and the anchors it loaded

server == <<alerts, card, cited, restarts>>
job == <<pc, todo, at_hand, loaded>>
vars == <<now, ledger, corrected, server, signals, demos, job>>

-----------------------------------------------------------------------------
Kinds == {"decline", "rejected", "executed", "human_remediation"}
Anchors == {"decline", "rejected"}
Times == 0..MaxNow

(* A signal describes its change as the ledger had it: `again` once it was corrected. *)
Signals == [kind : Kinds, incident : Incidents, change : Changes,
            at : Times, again : BOOLEAN]
Demos == [incident : Incidents, anchor : Changes, fix : Changes]
NoDemo == [incident |-> NoIncident]
NoMining == [anchors |-> {}, ledger |-> {}]

TypeOK ==
  /\ now \in Times /\ ledger \subseteq Changes /\ corrected \subseteq ledger
  /\ alerts \subseteq Incidents
  /\ card \in [Incidents -> {"unseen", "briefed", "open", "decided"}]
  /\ cited \in [Incidents -> SUBSET Changes] /\ restarts \in 0..MaxRestarts
  /\ signals \subseteq Signals /\ demos \subseteq Demos
  /\ pc \in {"idle", "mining", "signalling"} /\ todo \subseteq Signals
  /\ at_hand \in [anchor : Signals, fix : Changes] \cup {NoDemo}
  /\ (pc = "signalling" => at_hand # NoDemo)
  /\ loaded \in [anchors : SUBSET Signals, ledger : SUBSET Changes]

Init ==
  /\ now = 0 /\ ledger = {} /\ corrected = {} /\ alerts = {}
  /\ card = [i \in Incidents |-> "unseen"] /\ cited = [i \in Incidents |-> {}]
  /\ restarts = 0 /\ signals = {} /\ demos = {}
  /\ pc = "idle" /\ todo = {} /\ at_hand = NoDemo /\ loaded = NoMining

Who(c) == IF c \in corrected THEN Corrected[c] ELSE ActorKind[c]

-----------------------------------------------------------------------------
(* The store: first write wins, by kind, incident, change and action. *)

SignalId(s) == <<s.kind, s.incident, s.change>>

\* Mutant: the last observation wins.
LastWriteWins(S) == {r \in signals : \A s \in S : SignalId(r) # SignalId(s)} \cup S

Recorded(S) == signals \cup {s \in S : \A r \in signals : SignalId(r) # SignalId(s)}

SignalFor(kind, i, c, t) ==
  [kind |-> kind, incident |-> i, change |-> c, at |-> t, again |-> c \in corrected]

-----------------------------------------------------------------------------
(* Time, and the sources. *)

Tick == now < MaxNow /\ now' = now + 1
        /\ UNCHANGED <<ledger, corrected, server, signals, demos, job>>

(* A change reaches the ledger, at any time after it occurred. *)
Deliver(c) ==
  /\ c \notin ledger /\ OccurredAt[c] <= now /\ ledger' = ledger \cup {c}
  /\ UNCHANGED <<now, corrected, server, signals, demos, job>>

(* It is recorded again with its actor resolved, in place of the record it was. *)
Correct(c) ==
  /\ c \in ledger \cap DOMAIN Corrected /\ c \notin corrected /\ corrected' = corrected \cup {c}
  /\ UNCHANGED <<now, ledger, server, signals, demos, job>>

-----------------------------------------------------------------------------
(* The server. *)

(* The changes a brief may rank: those of its own window. *)
Ranked(i) == {c \in Changes : FiredAt[i] - Widest <= OccurredAt[c] /\ OccurredAt[c] < FiredAt[i]}

(* The proposer declines: the signal, and a one-shot, are about the change ranked first. *)
Decline(i) ==
  /\ card[i] = "unseen" /\ FiredAt[i] <= now
  /\ \E c \in Ranked(i) :
       /\ signals' = Recorded({SignalFor("decline", i, c, FiredAt[i])})
       /\ cited' = [cited EXCEPT ![i] = {c}]
  /\ card' = [card EXCEPT ![i] = "briefed"]
  /\ UNCHANGED <<now, ledger, corrected, alerts, restarts, demos, job>>

(* The brief's changes join the ledger and its firing the alert history, and a card is offered: *)
(* a proposal's, which cites some of them, or a one-shot's, after a decline.                    *)
RecordFiring(i) ==
  /\ FiredAt[i] <= now
  /\ \/ card[i] = "unseen" /\ \E E \in SUBSET Ranked(i) \ {{}} : cited' = [cited EXCEPT ![i] = E]
     \/ card[i] = "briefed" /\ UNCHANGED cited
  /\ ledger' = ledger \cup cited'[i] /\ alerts' = alerts \cup {i}
  /\ card' = [card EXCEPT ![i] = "open"]
  /\ UNCHANGED <<now, corrected, restarts, signals, demos, job>>

(* The gateway's observer: what was decided on the card, about each change it cites, at the time *)
(* of the decision.  It records none of them when an approval failed, and stops where it dies.   *)
Decide(i) ==
  /\ card[i] = "open" /\ card' = [card EXCEPT ![i] = "decided"]
  /\ \E kind \in {"rejected", "executed"}, reached \in SUBSET (cited[i] \cap ledger) :
       signals' = Recorded({SignalFor(kind, i, c, now) : c \in reached})
  /\ UNCHANGED <<now, ledger, corrected, alerts, cited, restarts, demos, job>>

(* A new process remembers no claim and no card: a re-delivered webhook briefs the incident again. *)
Restart ==
  /\ restarts < MaxRestarts /\ restarts' = restarts + 1
  /\ card' = [i \in Incidents |-> "unseen"] /\ cited' = [i \in Incidents |-> {}]
  /\ UNCHANGED <<now, ledger, corrected, alerts, signals, demos, job>>

-----------------------------------------------------------------------------
(* The job: mine_history. *)

AnchorsOf(S) == {s \in S : s.kind \in Anchors}

(* It loads the ledger and the signals. *)
StartMining ==
  /\ pc = "idle" /\ pc' = "mining"
  /\ todo' = AnchorsOf(signals) /\ loaded' = [anchors |-> todo', ledger |-> ledger]
  /\ UNCHANGED <<now, ledger, corrected, server, signals, demos, at_hand>>

Within(c, a, span) == a.at <= OccurredAt[c] /\ OccurredAt[c] < a.at + span

(* The order in which the ledger answers a query: ties on the time break on the id. *)
NoLater(c, d) ==
  OccurredAt[c] < OccurredAt[d] \/ (OccurredAt[c] = OccurredAt[d] /\ Place[c] <= Place[d])

(* find_remediations: the first change by a named human in the anchor's window. *)
Fixes(a, L) ==
  LET candidates == {c \in L : c # a.change /\ Within(c, a, Window) /\ Who(c) = "human"}
  IN {c \in candidates : \A d \in candidates : NoLater(c, d)}

DemoId(d) == <<d.incident, d.fix>>

Earliest(a) == a \in todo /\ \A b \in todo : a.at <= b.at

\* Mutant: a demonstration the store has already needs no signal.
SkipsKnown(a) ==
  /\ pc = "mining" /\ Earliest(a) /\ a.change \in loaded.ledger
  /\ \E c \in Fixes(a, loaded.ledger) :
       LET d == [incident |-> a.incident, anchor |-> a.change, fix |-> c]
           new == \A e \in demos : DemoId(e) # DemoId(d)
       IN /\ demos' = IF new THEN demos \cup {d} ELSE demos
          /\ pc' = IF new THEN "signalling" ELSE "mining"
          /\ at_hand' = IF new THEN [anchor |-> a, fix |-> c] ELSE NoDemo
  /\ todo' = todo \ {a}
  /\ UNCHANGED <<now, ledger, corrected, server, signals, loaded>>

(* The demonstration first, then its signal. *)
Demonstrate(a) ==
  /\ pc = "mining" /\ Earliest(a) /\ a.change \in loaded.ledger
  /\ \E c \in Fixes(a, loaded.ledger) :
       /\ LET d == [incident |-> a.incident, anchor |-> a.change, fix |-> c]
          IN demos' = IF \E e \in demos : DemoId(e) = DemoId(d) THEN demos ELSE demos \cup {d}
       /\ at_hand' = [anchor |-> a, fix |-> c]
  /\ pc' = "signalling" /\ todo' = todo \ {a}
  /\ UNCHANGED <<now, ledger, corrected, server, signals, loaded>>

NothingToDemonstrate(a) ==
  /\ pc = "mining" /\ Earliest(a) /\ (a.change \notin loaded.ledger \/ Fixes(a, loaded.ledger) = {})
  /\ todo' = todo \ {a}
  /\ UNCHANGED <<now, ledger, corrected, server, signals, demos, pc, at_hand, loaded>>

(* remediation_signal: the anchor's own signal, with the time of the fix. *)
RemediationSignal(a, c) == [a EXCEPT !.kind = "human_remediation", !.at = OccurredAt[c]]

RecordRemediation ==
  /\ pc = "signalling" /\ pc' = "mining" /\ at_hand' = NoDemo
  /\ signals' = Recorded({RemediationSignal(at_hand.anchor, at_hand.fix)})
  /\ UNCHANGED <<now, ledger, corrected, server, demos, todo, loaded>>

EndMining ==
  /\ pc = "mining" /\ todo = {} /\ pc' = "idle" /\ loaded' = NoMining
  /\ UNCHANGED <<now, ledger, corrected, server, signals, demos, todo, at_hand>>

JobDies ==
  /\ pc # "idle" /\ pc' = "idle" /\ todo' = {} /\ at_hand' = NoDemo /\ loaded' = NoMining
  /\ UNCHANGED <<now, ledger, corrected, server, signals, demos>>

-----------------------------------------------------------------------------
Next ==
  \/ Tick \/ Restart
  \/ \E c \in Changes : Deliver(c) \/ Correct(c)
  \/ \E i \in Incidents : Decline(i) \/ RecordFiring(i) \/ Decide(i)
  \/ StartMining \/ RecordRemediation \/ EndMining \/ JobDies
  \/ \E a \in todo : Demonstrate(a) \/ NothingToDemonstrate(a)

Spec == Init /\ [][Next]_vars

-----------------------------------------------------------------------------
(* The verdicts. *)

(* find_contesting_changes: anyone but automation changed the resource in the quiet period. *)
Contests(a, c) == c # a.change /\ Within(c, a, Quiet) /\ Who(c) # "service_account"

Executions(i) == {s \in signals : s.kind = "executed" /\ s.incident = i}

(* graduation_status, per incident; an execution of a change the ledger lacks is passed over. *)
Contested(i) ==
  \E a \in Executions(i) : a.change \in ledger /\ \E c \in ledger : Contests(a, c)
Confirmed(i) ==
  /\ Executions(i) # {} /\ ~Contested(i)
  /\ \A a \in Executions(i) : now >= a.at + Quiet

\* Mutant: a rejection is made after its firing, not with it.
StrictlyAfter(s) ==
  /\ s.incident \in alerts /\ s.change \in Ranked(s.incident)
  /\ IF s.kind = "decline" THEN s.at = FiredAt[s.incident] ELSE s.at > FiredAt[s.incident]

(* _incident_holds: the signal fits a firing of the alert history. *)
IncidentHolds(s) ==
  /\ s.incident \in alerts /\ s.change \in Ranked(s.incident)
  /\ IF s.kind = "decline" THEN s.at = FiredAt[s.incident] ELSE s.at >= FiredAt[s.incident]

(* corroborate: what the ledger vouches for, and a remediation only with its anchor. *)
DescribesLedger(s) == s.change \in ledger /\ s.again = (s.change \in corrected)
VouchedAlone(s) == DescribesLedger(s) /\ IncidentHolds(s)
Vouched ==
  {s \in signals :
     /\ VouchedAlone(s)
     /\ s.kind = "human_remediation" =>
          \E a \in AnchorsOf(signals) :
            a.incident = s.incident /\ a.change = s.change /\ VouchedAlone(a)}

-----------------------------------------------------------------------------
(* Verdicts stand, whatever is delivered late or decided again after a restart: a contested   *)
(* incident stays contested unless a change in it is resolved anew to automation, and a        *)
(* confirmed one gives way only to a contest, or to a decision taken now that executes on a    *)
(* change no execution of it was about; to decide the same again does not reopen it.           *)
VerdictsStand ==
  [][\A i \in Incidents :
       /\ Contested(i) => Contested(i)' \/ "service_account" \in {Corrected[c] : c \in corrected' \ corrected}
       /\ Confirmed(i) =>
            \/ Confirmed(i)' \/ Contested(i)'
            \/ \E s \in Executions(i)' : s.at = now /\ \A r \in Executions(i) : r.change # s.change]_vars

(* "Idempotent: re-running it records nothing new" (miner.py): a cycle that ends leaves nothing *)
(* to record in what it loaded, although it may have met demonstrations without their signals   *)
(* of a cycle that died between the two, and signals of a server that went on.                  *)
MiningIsIdempotent ==
  [][EndMining /\ corrected = {} =>
       \A a \in {a \in loaded.anchors : a.change \in loaded.ledger} :
         \A c \in Fixes(a, loaded.ledger) :
           /\ <<a.incident, c>> \in {DemoId(d) : d \in demos}
           /\ Recorded({RemediationSignal(a, c)}) = signals]_vars

(* What honest processes recorded is vouched for, as soon as the firing is in the alert history *)
(* and for as long as the ledger describes its change as it did.                                *)
HonestSignalsAreVouched ==
  \A s \in signals :
    DescribesLedger(s) /\ s.incident \in alerts => s \in Vouched
=============================================================================
