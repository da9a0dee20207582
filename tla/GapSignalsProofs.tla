---------------------------- MODULE GapSignalsProofs ----------------------------
(***************************************************************************)
(* The verdicts of catalog growth, for every set of incidents, changes and *)
(* windows: they stand, and honest evidence is vouched for.                *)
(*                                                                         *)
(* The argument follows a signal from the process that recorded it.  The   *)
(* store never replaces one and gets none like one it has; an incident's   *)
(* own signals are about changes its briefs may rank and are timed by its  *)
(* firing, and a remediation's has its anchor beside it.                   *)
(***************************************************************************)
EXTENDS GapSignals, TLAPS

(* What is recorded has happened. *)
Past ==
  /\ \A c \in ledger : OccurredAt[c] <= now
  /\ \A i \in Incidents : (card[i] = "open" => FiredAt[i] <= now) /\ cited[i] \subseteq Ranked(i)

(* An incident's own signals. *)
OfItsBrief(s) ==
  /\ s.change \in Ranked(s.incident) /\ FiredAt[s.incident] <= s.at
  /\ s.kind = "decline" => s.at = FiredAt[s.incident]

(* A remediation's anchor. *)
AnchorOf(a, s) ==
  /\ a.kind \in Anchors /\ a.incident = s.incident /\ a.change = s.change /\ a.again = s.again
  /\ a.at <= s.at

Grounded(s) ==
  IF s.kind = "human_remediation" THEN \E a \in signals : AnchorOf(a, s) ELSE OfItsBrief(s)

(* The job's state is of its stores. *)
Mined ==
  /\ todo \subseteq AnchorsOf(signals) /\ loaded.ledger \subseteq ledger
  /\ pc = "signalling" => /\ at_hand.anchor \in AnchorsOf(signals) /\ at_hand.fix \in ledger
                          /\ at_hand.anchor.at <= OccurredAt[at_hand.fix]

IInv == TypeOK /\ Past /\ (\A s \in signals : Grounded(s)) /\ Mined

USE DEF server, job

-----------------------------------------------------------------------------
(* First write wins: the store grows by what is new to it, and by none like one it has. *)
LEMMA Store ==
  ASSUME NEW S
  PROVE  /\ signals \subseteq Recorded(S) /\ Recorded(S) \subseteq signals \cup S
         /\ \A s \in Recorded(S) \ signals : \A r \in signals : SignalId(r) # SignalId(s)
BY DEF Recorded

LEMMA AlreadyStored ==
  ASSUME NEW s, NEW r \in signals, SignalId(r) = SignalId(s)
  PROVE  Recorded({s}) = signals
BY DEF Recorded

(* A window's changes have occurred when its alert fires. *)
LEMMA RankedOccurred ==
  ASSUME NEW i \in Incidents, NEW c \in Ranked(i)
  PROVE  /\ c \in Changes /\ OccurredAt[c] \in Nat /\ FiredAt[i] \in Nat /\ OccurredAt[c] < FiredAt[i]
BY ConstantsAssumption DEF Ranked

LEMMA SignalFields ==
  ASSUME NEW kind \in Kinds, NEW i \in Incidents, NEW c \in Changes, NEW t \in Times
  PROVE  /\ SignalFor(kind, i, c, t) \in Signals
         /\ SignalFor(kind, i, c, t).kind = kind /\ SignalFor(kind, i, c, t).incident = i
         /\ SignalFor(kind, i, c, t).change = c /\ SignalFor(kind, i, c, t).at = t
BY DEF SignalFor, Signals

LEMMA RemediationFields ==
  ASSUME NEW a \in Signals, NEW c \in Changes, OccurredAt[c] \in Times
  PROVE  /\ RemediationSignal(a, c) \in Signals /\ RemediationSignal(a, c).kind = "human_remediation"
         /\ RemediationSignal(a, c).incident = a.incident /\ RemediationSignal(a, c).change = a.change
         /\ RemediationSignal(a, c).at = OccurredAt[c] /\ RemediationSignal(a, c).again = a.again
BY DEF RemediationSignal, Signals, Kinds

LEMMA Start == Init => IInv
BY ConstantsAssumption DEF Init, IInv, TypeOK, Past, Mined, AnchorsOf, Times, NoMining, NoDemo

(* What a larger store, ledger and clock keep. *)
LEMMA Kept ==
  ASSUME IInv, signals \subseteq signals', ledger \subseteq ledger', now' \in Times, now <= now'
  PROVE  /\ \A s : Grounded(s) => Grounded(s)'
         /\ AnchorsOf(signals) \subseteq AnchorsOf(signals')
BY DEF Grounded, AnchorsOf, OfItsBrief, AnchorOf

LEMMA Time ==
  ASSUME TypeOK
  PROVE  now \in Nat /\ MaxNow \in Nat /\ now <= MaxNow
BY ConstantsAssumption DEF TypeOK, Times

LEMMA StepKeeps == IInv /\ [Next]_vars => IInv'
<1> SUFFICES ASSUME IInv, [Next]_vars PROVE IInv'
  OBVIOUS
<1>0. TypeOK /\ Past /\ Mined /\ now \in Times /\ now \in Nat /\ now <= MaxNow
  BY Time DEF IInv, TypeOK
<1>1. CASE Tick
  <2>1. now' \in Times /\ now <= now' /\ now' = now + 1
    BY <1>0, <1>1, ConstantsAssumption DEF Tick, Times
  <2>2. TypeOK'
    BY <1>0, <1>1, <2>1 DEF Tick, TypeOK
  <2>3. Past'
    BY <1>0, <1>1, <2>1, ConstantsAssumption DEF Tick, Past, TypeOK
  <2>4. (\A s \in signals : Grounded(s))' /\ Mined'
    BY <1>1, <2>1, Kept DEF Tick, IInv, Mined
  <2> QED
    BY <2>2, <2>3, <2>4 DEF IInv
<1>2. CASE Restart
  BY <1>0, <1>2, Kept, ConstantsAssumption DEF Restart, IInv, TypeOK, Past, Mined
<1>3. ASSUME NEW c \in Changes, Deliver(c)
      PROVE  IInv'
  BY <1>0, <1>3, Kept, ConstantsAssumption DEF Deliver, IInv, TypeOK, Past, Mined
<1>4. ASSUME NEW c \in Changes, Correct(c)
      PROVE  IInv'
  BY <1>0, <1>4, Kept, ConstantsAssumption DEF Correct, IInv, TypeOK, Past, Mined
<1>5. ASSUME NEW i \in Incidents, Decline(i)
      PROVE  IInv'
  <2>1. PICK c \in Ranked(i) : /\ signals' = Recorded({SignalFor("decline", i, c, FiredAt[i])})
                               /\ cited' = [cited EXCEPT ![i] = {c}]
    BY <1>5 DEF Decline
  <2>2. PICK s : /\ s = SignalFor("decline", i, c, FiredAt[i])
                 /\ signals' = Recorded({s}) /\ cited' = [cited EXCEPT ![i] = {c}]
    BY <2>1
  <2>3. FiredAt[i] \in Times /\ c \in Changes
    BY <1>0, <1>5, RankedOccurred, ConstantsAssumption DEF Decline, Times
  <2>4. /\ s \in Signals /\ s.kind = "decline" /\ s.incident = i /\ s.change = c /\ s.at = FiredAt[i]
    BY <2>2, <2>3, SignalFields DEF Kinds
  <2>5. signals \subseteq signals' /\ signals' \subseteq signals \cup {s}
    BY <2>2, Store
  <2>6. TypeOK'
    BY <1>0, <1>5, <2>2, <2>3, <2>4, <2>5 DEF Decline, TypeOK
  <2>7. Grounded(s)'
    BY <1>0, <2>3, <2>4 DEF Grounded, OfItsBrief, Times
  <2>8. (\A r \in signals : Grounded(r))' /\ AnchorsOf(signals) \subseteq AnchorsOf(signals')
    BY <1>0, <1>5, <2>5, <2>7, Kept DEF Decline, IInv
  <2>9. Past'
    BY <1>0, <1>5, <2>2 DEF Decline, Past, TypeOK, Ranked
  <2>10. Mined'
    BY <1>0, <1>5, <2>8 DEF Decline, Mined
  <2> QED
    BY <2>6, <2>8, <2>9, <2>10 DEF IInv
<1>6. ASSUME NEW i \in Incidents, RecordFiring(i)
      PROVE  IInv'
  <2>0. cited' \in [Incidents -> SUBSET Changes] /\ (\A j \in Incidents : cited'[j] \subseteq Ranked(j))
    BY <1>0, <1>6 DEF RecordFiring, Past, TypeOK, Ranked
  <2>1. \A c \in cited'[i] : c \in Changes /\ OccurredAt[c] <= now
    BY <1>0, <1>6, <2>0, RankedOccurred DEF RecordFiring
  <2>2. TypeOK' /\ Past'
    BY <1>0, <1>6, <2>0, <2>1 DEF RecordFiring, TypeOK, Past, Ranked
  <2>3. (\A s \in signals : Grounded(s))' /\ Mined'
    BY <1>0, <1>6, Kept DEF RecordFiring, IInv, Mined
  <2> QED
    BY <2>2, <2>3 DEF IInv
<1>7. ASSUME NEW i \in Incidents, Decide(i)
      PROVE  IInv'
  <2>1. card[i] = "open" /\ card' = [card EXCEPT ![i] = "decided"] /\ FiredAt[i] <= now
        /\ UNCHANGED <<now, ledger, corrected, alerts, cited, restarts, demos, job>>
    BY <1>0, <1>7 DEF Decide, Past
  <2>2. /\ signals \subseteq signals' /\ signals' \subseteq Signals
        /\ \A s \in signals' \ signals : Grounded(s)'
    <3> PICK kind \in {"rejected", "executed"}, reached \in SUBSET (cited[i] \cap ledger) :
            signals' = Recorded({SignalFor(kind, i, c, now) : c \in reached})
      BY <1>7 DEF Decide
    <3> DEFINE S == {SignalFor(kind, i, c, now) : c \in reached}
    <3>1. signals' = Recorded(S) /\ \A s \in S : \E c \in cited[i] : s = SignalFor(kind, i, c, now)
      OBVIOUS
    <3> HIDE DEF S
    <3>2. ASSUME NEW s \in S
          PROVE  s \in Signals /\ Grounded(s)'
      <4>0. PICK c \in cited[i] : s = SignalFor(kind, i, c, now)
        BY <3>1
      <4>1. c \in Ranked(i) /\ c \in Changes
        BY <1>0 DEF Past, TypeOK
      <4>2. s \in Signals /\ s.kind = kind /\ s.incident = i /\ s.change = c /\ s.at = now
        BY <1>0, <4>0, <4>1, SignalFields DEF Kinds
      <4>3. Grounded(s)'
        BY <2>1, <4>1, <4>2 DEF Grounded, OfItsBrief, Ranked
      <4> QED
        BY <4>2, <4>3
    <3>3. signals \subseteq signals' /\ signals' \subseteq signals \cup S
      BY <3>1, Store
    <3> QED
      BY <1>0, <3>2, <3>3 DEF TypeOK
  <2>3. TypeOK'
    BY <1>0, <2>1, <2>2 DEF TypeOK
  <2>4. (\A r \in signals : Grounded(r))' /\ AnchorsOf(signals) \subseteq AnchorsOf(signals')
    BY <1>0, <2>1, <2>2, Kept DEF IInv
  <2>5. Past' /\ Mined'
    BY <1>0, <2>1, <2>4 DEF Past, Mined, TypeOK, Ranked
  <2> QED
    BY <2>3, <2>4, <2>5 DEF IInv
<1>8. CASE StartMining
  BY <1>0, <1>8, Kept DEF StartMining, IInv, TypeOK, Past, Mined, AnchorsOf
<1>9. CASE EndMining \/ JobDies
  BY <1>0, <1>9, Kept DEF EndMining, JobDies, IInv, TypeOK, Past, Mined, NoMining
<1>10. CASE RecordRemediation
  <2>0. PICK a, s : a = at_hand.anchor /\ s = RemediationSignal(a, at_hand.fix)
    OBVIOUS
  <2>1. a \in AnchorsOf(signals) /\ a \in Signals /\ at_hand.fix \in ledger /\ at_hand.fix \in Changes
        /\ a.at <= OccurredAt[at_hand.fix]
    BY <1>0, <1>10, <2>0 DEF RecordRemediation, Mined, AnchorsOf, TypeOK
  <2>2. OccurredAt[at_hand.fix] \in Times
    BY <1>0, <2>1, ConstantsAssumption DEF Past, Times
  <2>3. /\ s \in Signals /\ s.kind = "human_remediation" /\ s.incident = a.incident
        /\ s.change = a.change /\ s.at = OccurredAt[at_hand.fix] /\ s.again = a.again
    BY <2>0, <2>1, <2>2, RemediationFields
  <2>4. signals \subseteq signals' /\ signals' \subseteq signals \cup {s}
    BY <1>10, <2>0, Store DEF RecordRemediation
  <2>5. Grounded(s)'
    BY <2>1, <2>3, <2>4 DEF Grounded, AnchorOf, AnchorsOf
  <2>6. TypeOK'
    BY <1>0, <1>10, <2>3, <2>4 DEF RecordRemediation, TypeOK
  <2>7. (\A r \in signals : Grounded(r))' /\ AnchorsOf(signals) \subseteq AnchorsOf(signals')
    BY <1>0, <1>10, <2>4, <2>5, Kept DEF RecordRemediation, IInv
  <2>8. Past' /\ Mined'
    BY <1>0, <1>10, <2>7 DEF RecordRemediation, Past, Mined
  <2> QED
    BY <2>6, <2>7, <2>8 DEF IInv
<1>11. ASSUME NEW a \in todo, Demonstrate(a)
       PROVE  IInv'
  <2>1. a \in AnchorsOf(signals) /\ a \in Signals
    BY <1>0 DEF Mined, AnchorsOf, TypeOK
  <2>2. PICK c \in Fixes(a, loaded.ledger) :
          /\ demos' \subseteq demos \cup {[incident |-> a.incident, anchor |-> a.change, fix |-> c]}
          /\ at_hand' = [anchor |-> a, fix |-> c]
    BY <1>11 DEF Demonstrate
  <2>3. c \in ledger /\ c \in Changes /\ a.at <= OccurredAt[c]
    BY <1>0, <2>2 DEF Fixes, Within, Mined, TypeOK
  <2>4. /\ UNCHANGED <<now, ledger, corrected, server, signals, loaded>>
        /\ pc' = "signalling" /\ todo' = todo \ {a}
    BY <1>11 DEF Demonstrate
  <2>5. demos' \subseteq Demos
    BY <1>0, <2>1, <2>2, <2>3 DEF TypeOK, Demos, Signals
  <2>6. TypeOK'
    BY <1>0, <2>1, <2>2, <2>3, <2>4, <2>5 DEF TypeOK, NoDemo
  <2>7. Past' /\ Mined' /\ (\A r \in signals : Grounded(r))'
    BY <1>0, <2>1, <2>2, <2>3, <2>4, Kept DEF Past, Mined, IInv
  <2> QED
    BY <2>6, <2>7 DEF IInv
<1>12. ASSUME NEW a \in todo, NothingToDemonstrate(a)
       PROVE  IInv'
  BY <1>0, <1>12, Kept DEF NothingToDemonstrate, IInv, TypeOK, Past, Mined
<1>13. CASE UNCHANGED vars
  BY <1>0, <1>13, Kept DEF vars, IInv, TypeOK, Past, Mined
<1> QED
  BY <1>1, <1>2, <1>3, <1>4, <1>5, <1>6, <1>7, <1>8, <1>9, <1>10, <1>11, <1>12, <1>13 DEF Next

(* In every reachable state the stores are well typed and each signal is grounded. *)
THEOREM Invariant == Spec => []IInv
BY Start, StepKeeps, PTL DEF Spec

-----------------------------------------------------------------------------
(* An incident's own signal fits its firing, and so does what is derived from it. *)
LEMMA Holds ==
  ASSUME IInv, NEW s \in signals, s.incident \in alerts
  PROVE  IncidentHolds(s)
<1>1. /\ s \in Signals /\ Grounded(s) /\ s.at \in Nat /\ s.incident \in Incidents
      /\ FiredAt[s.incident] \in Nat
  BY ConstantsAssumption DEF IInv, TypeOK, Signals, Times
<1>2. s.change \in Ranked(s.incident) /\ FiredAt[s.incident] <= s.at
      /\ (s.kind = "decline" => s.at = FiredAt[s.incident])
  <2>1. CASE s.kind # "human_remediation"
    BY <1>1, <2>1 DEF Grounded, OfItsBrief
  <2>2. CASE s.kind = "human_remediation"
    <3>1. PICK a \in signals : AnchorOf(a, s)
      BY <1>1, <2>2 DEF Grounded
    <3>2. OfItsBrief(a) /\ a.at \in Nat
      BY <3>1, ConstantsAssumption DEF IInv, Grounded, AnchorOf, Anchors, TypeOK, Signals, Times
    <3> QED
      BY <1>1, <2>2, <3>1, <3>2 DEF AnchorOf, OfItsBrief
  <2> QED
    BY <2>1, <2>2
<1> QED
  BY <1>1, <1>2, ConstantsAssumption DEF IncidentHolds

(* corroborate refuses nothing an honest server and an honest job recorded, once the firing is   *)
(* in the alert history and while the ledger describes the change as it did.                     *)
THEOREM HonestEvidence == Spec => []HonestSignalsAreVouched
<1>1. IInv => HonestSignalsAreVouched
  <2> SUFFICES ASSUME IInv, NEW s \in signals, DescribesLedger(s), s.incident \in alerts
               PROVE  s \in Vouched
    BY DEF HonestSignalsAreVouched
  <2>1. VouchedAlone(s)
    BY Holds DEF VouchedAlone
  <2>2. ASSUME s.kind = "human_remediation"
        PROVE  \E a \in AnchorsOf(signals) :
                 a.incident = s.incident /\ a.change = s.change /\ VouchedAlone(a)
    <3>1. PICK a \in signals : AnchorOf(a, s)
      BY <2>2 DEF IInv, Grounded
    <3>2. VouchedAlone(a)
      BY <3>1, Holds DEF VouchedAlone, DescribesLedger, AnchorOf
    <3> QED
      BY <3>1, <3>2 DEF AnchorsOf, AnchorOf
  <2> QED
    BY <2>1, <2>2 DEF Vouched
<1> QED
  BY <1>1, Invariant, PTL

(* What a step does to the store, the ledger and the clock. *)
New(s) == (s.kind = "executed" => s.at = now) /\ \A r \in signals : SignalId(r) # SignalId(s)

LEMMA Monotone ==
  ASSUME IInv, Next
  PROVE  /\ signals \subseteq signals' /\ ledger \subseteq ledger' /\ corrected \subseteq corrected'
         /\ now' >= now /\ now \in Nat /\ now' \in Nat
         /\ \A s \in signals' \ signals : New(s)
<1>0. now \in Nat
  BY Time DEF IInv
<1>1. CASE Tick \/ Restart
  BY <1>0, <1>1 DEF Tick, Restart
<1>2. CASE \E c \in Changes : Deliver(c) \/ Correct(c)
  BY <1>0, <1>2 DEF Deliver, Correct
<1>3. ASSUME NEW i \in Incidents, Decline(i) \/ RecordFiring(i)
      PROVE  /\ signals \subseteq signals' /\ ledger \subseteq ledger' /\ corrected' = corrected /\ now' = now
             /\ \A s \in signals' \ signals : New(s)
  <2>1. CASE RecordFiring(i)
    BY <2>1 DEF RecordFiring
  <2>2. CASE Decline(i)
    <3>1. PICK s : s.kind = "decline" /\ signals' = Recorded({s})
      BY <2>2 DEF Decline, SignalFor
    <3> QED
      BY <2>2, <3>1, Store DEF Decline, New
  <2> QED
    BY <1>3, <2>1, <2>2
<1>4. ASSUME NEW i \in Incidents, Decide(i)
      PROVE  /\ signals \subseteq signals' /\ ledger \subseteq ledger' /\ corrected' = corrected /\ now' = now
             /\ \A s \in signals' \ signals : New(s)
  <2>1. PICK S : signals' = Recorded(S) /\ \A s \in S : s.at = now
    BY <1>4 DEF Decide, SignalFor
  <2> QED
    BY <1>4, <2>1, Store DEF Decide, New
<1>5. CASE StartMining \/ EndMining \/ JobDies
  BY <1>0, <1>5 DEF StartMining, EndMining, JobDies
<1>6. CASE RecordRemediation
  <2>1. PICK s : s = RemediationSignal(at_hand.anchor, at_hand.fix)
    OBVIOUS
  <2>2. at_hand.anchor \in Signals
    BY <1>6 DEF RecordRemediation, IInv, Mined, AnchorsOf, TypeOK
  <2>3. s.kind = "human_remediation"
    BY <2>1, <2>2 DEF RemediationSignal, Signals
  <2> QED
    BY <1>0, <1>6, <2>1, <2>3, Store DEF RecordRemediation, New
<1>7. CASE \E a \in todo : Demonstrate(a) \/ NothingToDemonstrate(a)
  BY <1>0, <1>7 DEF Demonstrate, NothingToDemonstrate
<1> QED
  BY <1>0, <1>1, <1>2, <1>3, <1>4, <1>5, <1>6, <1>7 DEF Next

(* graduation_status: whatever comes late, a contest is lost only where someone in it turns out  *)
(* to be automation, and a confirmation only to a contest or to a decision taken now on a change *)
(* no execution was about: the store's first write decides for those that were.                  *)
THEOREM VerdictsAreFinal == Spec => VerdictsStand
<1> DEFINE Stands(i) ==
      /\ Contested(i) => Contested(i)' \/ "service_account" \in {Corrected[c] : c \in corrected' \ corrected}
      /\ Confirmed(i) =>
           \/ Confirmed(i)' \/ Contested(i)'
           \/ \E s \in Executions(i)' : s.at = now /\ \A r \in Executions(i) : r.change # s.change
<1>1. ASSUME IInv, Next, NEW i \in Incidents
      PROVE  Stands(i)
  <2>0. /\ signals \subseteq signals' /\ ledger \subseteq ledger' /\ corrected \subseteq corrected'
        /\ now' >= now /\ now \in Nat /\ now' \in Nat
    BY <1>1, Monotone
  <2>1. ASSUME Contested(i), ~("service_account" \in {Corrected[c] : c \in corrected' \ corrected})
        PROVE  Contested(i)'
    <3>1. PICK a \in Executions(i), c \in ledger : a.change \in ledger /\ Contests(a, c)
      BY <2>1 DEF Contested
    <3>2. a \in Executions(i)' /\ a.change \in ledger' /\ c \in ledger'
      BY <2>0, <3>1 DEF Executions
    <3>3. Contests(a, c)'
      <4>1. \/ Who(c)' = Who(c)
            \/ c \in corrected' \ corrected /\ Who(c)' = Corrected[c]
        BY <2>0, Zenon DEF Who
      <4>2. Who(c)' # "service_account"
        BY <2>1, <3>1, <4>1 DEF Contests
      <4> QED
        BY <3>1, <4>2 DEF Contests, Within
    <3> QED
      BY <3>2, <3>3 DEF Contested
  <2>2. ASSUME Confirmed(i)
        PROVE  \/ Confirmed(i)' \/ Contested(i)'
               \/ \E s \in Executions(i)' : s.at = now /\ \A r \in Executions(i) : r.change # s.change
    <3>1. Executions(i) \subseteq Executions(i)'
      BY <2>0 DEF Executions
    <3>2. ASSUME NEW s \in Executions(i)', s \notin Executions(i)
          PROVE  s.at = now /\ \A r \in Executions(i) : r.change # s.change
      <4>1. New(s) /\ s.kind = "executed" /\ s.incident = i
        BY <1>1, <3>2, Monotone DEF Executions
      <4>2. ASSUME NEW r \in Executions(i)
            PROVE  r.change # s.change
        BY <4>1, <4>2 DEF New, Executions, SignalId
      <4> QED
        BY <4>1, <4>2 DEF New
    <3>4. \A b \in Executions(i) : b.at \in Nat /\ now >= b.at + Quiet
      BY <1>1, <2>2, ConstantsAssumption DEF Confirmed, Executions, IInv, TypeOK, Signals, Times
    <3>5. \A b \in Executions(i) : now' >= b.at + Quiet
      BY <2>0, <3>4, ConstantsAssumption
    <3>6. CASE Executions(i)' = Executions(i)
      BY <2>2, <3>5, <3>6 DEF Confirmed
    <3> QED
      BY <3>1, <3>2, <3>6
  <2> QED
    BY <2>1, <2>2
<1>2. ASSUME UNCHANGED vars, NEW i \in Incidents
      PROVE  Stands(i)
  BY <1>2 DEF vars, Contested, Confirmed, Executions, Contests, Within, Who
<1>3. IInv /\ [Next]_vars => [\A i \in Incidents : Stands(i)]_vars
  BY <1>1
<1> QED
  BY <1>3, Invariant, PTL DEF Spec, VerdictsStand

-----------------------------------------------------------------------------
(* Mining *)

(* Two changes are never both first. *)
LEMMA OneFix ==
  ASSUME NEW L, L \subseteq Changes, NEW a, NEW c \in Fixes(a, L), NEW d \in Fixes(a, L)
  PROVE  c = d
<1>1. c \in Changes /\ d \in Changes /\ NoLater(c, d) /\ NoLater(d, c)
  BY DEF Fixes
<1>2. OccurredAt[c] \in Nat /\ OccurredAt[d] \in Nat /\ Place[c] \in Nat /\ Place[d] \in Nat
  BY <1>1, ConstantsAssumption
<1>3. Place[c] = Place[d]
  BY <1>1, <1>2 DEF NoLater
<1> QED
  BY <1>1, <1>3, ConstantsAssumption

(* The demonstration and the signal of a reached anchor. *)
Shown(a) ==
  a.change \in loaded.ledger =>
    \A c \in Fixes(a, loaded.ledger) :
      /\ \E d \in demos : DemoId(d) = <<a.incident, c>>
      /\ \/ \E r \in signals : SignalId(r) = <<"human_remediation", a.incident, a.change>>
         \/ pc = "signalling" /\ at_hand.anchor = a

(* While no actor was corrected, every anchor the job is past has both, but for the  *)
(* signal it has in hand.                                                             *)
Reached == corrected = {} => \A a \in loaded.anchors \ todo : Shown(a)

(* A larger store and corpus take nothing from what was shown. *)
LEMMA ShownKept ==
  ASSUME NEW a, Shown(a), UNCHANGED <<corrected, loaded>>,
         signals \subseteq signals', demos \subseteq demos',
         (pc = "signalling" /\ at_hand.anchor = a) =>
           (pc = "signalling" /\ at_hand.anchor = a)'
  PROVE  Shown(a)'
<1>1. Fixes(a, loaded.ledger)' = Fixes(a, loaded.ledger)
  BY DEF Fixes, Who
<1> QED
  BY <1>1 DEF Shown

LEMMA ReachedStep == ASSUME IInv, Reached, [Next]_vars PROVE Reached'
<1> SUFFICES ASSUME corrected' = {}, NEW a \in (loaded.anchors \ todo)' PROVE Shown(a)'
  BY DEF Reached
<1>0. TypeOK /\ loaded.ledger \subseteq Changes
  BY DEF IInv, TypeOK
<1>1. signals \subseteq signals' /\ corrected = {}
  <2>1. CASE Next
    BY <2>1, Monotone
  <2>2. CASE UNCHANGED vars
    BY <2>2 DEF vars
  <2> QED
    BY <2>1, <2>2
<1>2. \A b \in loaded.anchors \ todo : Shown(b)
  BY <1>1 DEF Reached
<1>3. CASE UNCHANGED <<job, demos>>
  BY <1>1, <1>2, <1>3, ShownKept
<1>4. CASE StartMining
  BY <1>4 DEF StartMining
<1>5. CASE EndMining \/ JobDies
  BY <1>5 DEF EndMining, JobDies, NoMining
<1>6. CASE RecordRemediation
  <2>1. UNCHANGED <<demos, loaded, todo>> /\ a \in loaded.anchors \ todo
    BY <1>6 DEF RecordRemediation
  <2>2. CASE at_hand.anchor # a
    BY <1>1, <1>2, <2>1, <2>2, ShownKept
  <2>3. CASE at_hand.anchor = a
    <3>1. Fixes(a, loaded.ledger)' = Fixes(a, loaded.ledger)
      BY <1>1, <2>1 DEF Fixes, Who
    <3>2. PICK s : s = RemediationSignal(a, at_hand.fix)
      OBVIOUS
    <3>3. SignalId(s) = <<"human_remediation", a.incident, a.change>>
      <4>1. at_hand.anchor \in Signals
        BY <1>6 DEF RecordRemediation, IInv, Mined, AnchorsOf, TypeOK
      <4> QED
        BY <2>3, <3>2, <4>1 DEF RemediationSignal, Signals, SignalId
    <3>4. signals' = Recorded({s})
      BY <1>6, <2>3, <3>2 DEF RecordRemediation
    <3>5. \E r \in signals' : SignalId(r) = SignalId(s)
      BY <3>4 DEF Recorded, SignalId
    <3> QED
      BY <1>2, <2>1, <3>1, <3>3, <3>5 DEF Shown
  <2> QED
    BY <2>2, <2>3
<1>7. ASSUME NEW b \in todo, Demonstrate(b)
      PROVE  Shown(a)'
  <2>1. UNCHANGED <<signals, loaded, corrected>> /\ todo' = todo \ {b} /\ pc = "mining" /\ pc' = "signalling"
    BY <1>7 DEF Demonstrate
  <2>2. PICK c \in Fixes(b, loaded.ledger) :
          /\ demos \subseteq demos' /\ \E d \in demos' : DemoId(d) = <<b.incident, c>>
          /\ at_hand' = [anchor |-> b, fix |-> c]
    <3>1. PICK c \in Fixes(b, loaded.ledger) :
            /\ LET d == [incident |-> b.incident, anchor |-> b.change, fix |-> c]
               IN demos' = IF \E e \in demos : DemoId(e) = DemoId(d) THEN demos ELSE demos \cup {d}
            /\ at_hand' = [anchor |-> b, fix |-> c]
      BY <1>7 DEF Demonstrate
    <3>2. PICK d : d = [incident |-> b.incident, anchor |-> b.change, fix |-> c]
      OBVIOUS
    <3>3. demos' = (IF \E e \in demos : DemoId(e) = DemoId(d) THEN demos ELSE demos \cup {d})
      BY <3>1, <3>2
    <3>4. DemoId(d) = <<b.incident, c>>
      BY <3>2 DEF DemoId
    <3>5. demos \subseteq demos' /\ \E e \in demos' : DemoId(e) = DemoId(d)
      BY <3>3
    <3> QED
      BY <3>1, <3>4, <3>5
  <2>3. CASE a # b
    BY <1>1, <1>2, <2>1, <2>2, <2>3, ShownKept
  <2>4. CASE a = b
    <3>1. Fixes(a, loaded.ledger)' = Fixes(a, loaded.ledger)
      BY <2>1 DEF Fixes, Who
    <3>2. \A d \in Fixes(a, loaded.ledger) : d = c
      BY <1>0, <2>2, <2>4, OneFix
    <3> QED
      BY <2>1, <2>2, <2>4, <3>1, <3>2 DEF Shown
  <2> QED
    BY <2>3, <2>4
<1>8. ASSUME NEW b \in todo, NothingToDemonstrate(b)
      PROVE  Shown(a)'
  <2>1. /\ UNCHANGED <<signals, demos, loaded, corrected, pc, at_hand>> /\ todo' = todo \ {b}
        /\ b.change \notin loaded.ledger \/ Fixes(b, loaded.ledger) = {}
    BY <1>8 DEF NothingToDemonstrate
  <2>2. CASE a # b
    BY <1>1, <1>2, <2>1, <2>2, ShownKept
  <2>3. CASE a = b
    BY <2>1, <2>3 DEF Shown, Fixes, Who
  <2> QED
    BY <2>2, <2>3
<1> QED
  BY <1>3, <1>4, <1>5, <1>6, <1>7, <1>8
     DEF Next, vars, Tick, Restart, Deliver, Correct, Decline, RecordFiring, Decide

(* A cycle that ends leaves nothing to record in what it loaded, whatever died before it and *)
(* whatever else wrote the store meanwhile (mine_history), while no actor is resolved anew.   *)
THEOREM MiningEndsDone == Spec => MiningIsIdempotent
<1>1. Init => Reached
  BY DEF Init, Reached, NoMining
<1>2. ASSUME IInv, Reached, EndMining, corrected = {},
             NEW a \in loaded.anchors, a.change \in loaded.ledger,
             NEW c \in Fixes(a, loaded.ledger)
      PROVE  /\ <<a.incident, c>> \in {DemoId(d) : d \in demos}
             /\ Recorded({RemediationSignal(a, c)}) = signals
  <2>1. Shown(a) /\ pc # "signalling"
    BY <1>2 DEF Reached, EndMining
  <2>2. \E d \in demos : DemoId(d) = <<a.incident, c>>
    BY <1>2, <2>1 DEF Shown
  <2>3. \E r \in signals : SignalId(r) = <<"human_remediation", a.incident, a.change>>
    BY <1>2, <2>1 DEF Shown
  <2>4. SignalId(RemediationSignal(a, c)) = <<"human_remediation", a.incident, a.change>>
    <3>1. a \in Signals
      BY <1>2 DEF IInv, TypeOK
    <3> QED
      BY <3>1 DEF RemediationSignal, Signals, SignalId
  <2>5. Recorded({RemediationSignal(a, c)}) = signals
    BY <2>3, <2>4, AlreadyStored
  <2> QED
    BY <2>2, <2>5
<1>3. IInv /\ Reached /\ [Next]_vars =>
        [EndMining /\ corrected = {} =>
           \A a \in {a \in loaded.anchors : a.change \in loaded.ledger} :
             \A c \in Fixes(a, loaded.ledger) :
               /\ <<a.incident, c>> \in {DemoId(d) : d \in demos}
               /\ Recorded({RemediationSignal(a, c)}) = signals]_vars
  BY <1>2
<1> QED
  BY <1>1, <1>3, ReachedStep, Invariant, PTL DEF Spec, MiningIsIdempotent

=============================================================================
