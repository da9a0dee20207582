---------------------------- MODULE InvestigationProofs ----------------------------
(***************************************************************************)
(* What a brief, its narrative, its proposal and the book of one-shots may *)
(* be relied on for, for every set of investigations, sources and changes, *)
(* and for any answer of the model.                                        *)
(*                                                                         *)
(* The argument follows an investigation through its nodes.  What a batch  *)
(* collected is complete or says that it is not, source by source; what is *)
(* cited stays among what was collected, which only grows; a gap is on     *)
(* record before anything else is offered for it; and whoever builds a     *)
(* writer holds the lock of a key that has no outcome yet.                 *)
(***************************************************************************)
EXTENDS Investigation, TLAPS

(* What is known of a source: it is awaited, it failed, or it answered; and what it answered. *)
Scoped(r) ==
  /\ at[r] = "orchestrator" => results[r] = {}
  /\ at[r] \notin {"orchestrator", "collectors"} => waiting[r] = {}
  /\ \A s \in Sources : s \in waiting[r] \/ s \in errors[r] \/ \E a \in results[r] : a.source = s
  /\ \A a \in results[r] : a.found \subseteq Radius(r) /\ (a.ok => a.found = Reported(r, a.source))

(* What rests on what. *)
Follows(r) ==
  /\ at[r] # "done" => proposal[r] = NoProposal
  /\ narrative[r].cites \subseteq Candidates(r)
  /\ proposal[r] # NoProposal =>
       /\ Executable(proposal[r]) /\ proposal[r].cites \subseteq Candidates(r)
       /\ narrative[r] # NoNarrative => proposal[r].cites \subseteq narrative[r].cites

(* A gap is on record once nothing was proposed that could run. *)
OnRecord(r) ==
  /\ at[r] \in {"offer", "author", "sandbox"} /\ IsGap(Top(r)) => Top(r) \in declines
  /\ Done(r) /\ "proposer" \notin errors[r] /\ IsGap(Top(r)) =>
       proposal[r].undoes \in Closed \/ Top(r) \in declines

(* A writer is built under the lock of a key without an outcome. *)
Locked(r) ==
  at[r] \in {"author", "sandbox"} =>
    Top(r) \in Events /\ holder[Key(r)] = r /\ book[Key(r)] = NoOutcome

IInv == TypeOK /\ \A r \in Runs : Scoped(r) /\ Follows(r) /\ OnRecord(r) /\ Locked(r)

USE DEF scoping, agents, rest, Before

-----------------------------------------------------------------------------
(* The top candidate is one of the changes, or none. *)
LEMMA TopType ==
  ASSUME NEW r \in Runs, Top(r) # Ghost
  PROVE  Top(r) \in Events /\ Key(r) \in Keys
<1>1. Top(r) \in Events
  BY ConstantsAssumption DEF Top
<1> QED
  BY <1>1, ConstantsAssumption DEF Key

(* It is a matter of what was collected. *)
LEMMA SameTop ==
  ASSUME NEW r \in Runs, results'[r] = results[r]
  PROVE  Candidates(r)' = Candidates(r) /\ Top(r)' = Top(r) /\ Key(r)' = Key(r)
<1>1. Candidates(r)' = Candidates(r)
  BY DEF Candidates
<1>2. Top(r)' = Top(r)
  BY <1>1 DEF Top, RankedFirst
<1> QED
  BY <1>1, <1>2 DEF Key

LEMMA Shapes ==
  /\ NoNarrative \in [claims : BOOLEAN, cites : SUBSET Events] /\ NoNarrative.cites = {}
  /\ NoProposal \in [undoes : Ids, cites : SUBSET Ids]
  /\ NoSession \in Sessions
BY ConstantsAssumption DEF NoNarrative, NoProposal, NoSession, Ids, Sessions

(* What the orchestrator's tools were told is a scope. *)
LEMMA PlanType ==
  ASSUME NEW s \in Sessions
  PROVE  RequirePlan(s) \in [scope : Scopes, chosen : BOOLEAN]
<1>1. s.radii # <<>> => s.radii[Len(s.radii)] \in Services
  BY DEF Sessions
<1>2. FallbackPlan(s) \in [scope : Scopes, chosen : BOOLEAN]
  BY <1>1 DEF FallbackPlan, Scopes, Last, Sessions
<1> QED
  BY <1>2 DEF RequirePlan, Scopes, Sessions

-----------------------------------------------------------------------------
LEMMA Start == Init => IInv
<1> SUFFICES ASSUME Init PROVE IInv
  OBVIOUS
<1>1. TypeOK
  BY Shapes DEF Init, TypeOK, Steps, Outcomes
<1>2. ASSUME NEW r \in Runs
      PROVE  Scoped(r) /\ Follows(r) /\ OnRecord(r) /\ Locked(r)
  BY Shapes DEF Init, Scoped, Follows, OnRecord, Locked, Done
<1> QED
  BY <1>1, <1>2 DEF IInv

(* Nothing of an investigation is lost where another one's step leaves its own state alone. *)
LEMMA Bystander ==
  ASSUME IInv, NEW q \in Runs,
         at'[q] = at[q], plan'[q] = plan[q], waiting'[q] = waiting[q], results'[q] = results[q],
         errors'[q] = errors[q], narrative'[q] = narrative[q], proposal'[q] = proposal[q],
         declines \subseteq declines'
  PROVE  Scoped(q)' /\ Follows(q)' /\ OnRecord(q)'
<1>1. Candidates(q)' = Candidates(q) /\ Top(q)' = Top(q)
  BY SameTop
<1>2. Scoped(q)'
  BY DEF IInv, Scoped, Radius, Reported
<1>3. Follows(q)'
  BY <1>1 DEF IInv, Follows, Executable
<1>4. OnRecord(q)'
  BY <1>1 DEF IInv, OnRecord, IsGap, Done
<1> QED
  BY <1>2, <1>3, <1>4

LEMMA StillLocked ==
  ASSUME IInv, NEW q \in Runs, at'[q] = at[q], results'[q] = results[q],
         UNCHANGED <<holder, book>>
  PROVE  Locked(q)'
BY SameTop DEF IInv, Locked

-----------------------------------------------------------------------------
(* The steps of an investigation, node by node. *)

LEMMA Budget ==
  ASSUME TypeOK, NEW r \in Runs, NEW o \in OverNow(r)
  PROVE  o \subseteq Runs
BY DEF OverNow, TypeOK

LEMMA Scoping ==
  ASSUME IInv, NEW r \in Runs,
         \/ ResolveBlastRadius(r) \/ ComputeWindow(r) \/ DispatchCollectors(r)
         \/ Orchestrate(r) \/ OrchestratorTimesOut(r)
  PROVE  IInv'
<1>0. TypeOK
  BY DEF IInv
<1>a. ASSUME NEW s \in Sessions, Turn(r, s), s.turns = session[r].turns
      PROVE  IInv'
  <2>0. [s EXCEPT !.turns = @ + 1] \in Sessions
    <3>1. session[r].turns < MaxTurns
      BY <1>a DEF Turn
    <3>2. s.turns + 1 \in 0..MaxTurns
      BY <1>a, <3>1, ConstantsAssumption DEF Sessions
    <3> QED
      BY <1>a, <3>2 DEF Sessions
  <2>1. TypeOK'
    BY <1>a, <1>0, <2>0 DEF Turn, TypeOK
  <2>2. ASSUME NEW q \in Runs
        PROVE  Scoped(q)' /\ Follows(q)' /\ OnRecord(q)' /\ Locked(q)'
    BY <1>a, Bystander, StillLocked DEF Turn
  <2> QED
    BY <2>1, <2>2 DEF IInv
<1>1. CASE ResolveBlastRadius(r)
  <2>1. PICK s \in Services : Turn(r, [session[r] EXCEPT !.radii = Append(@, s)])
    BY <1>1 DEF ResolveBlastRadius
  <2>2. session[r] \in Sessions
    BY <1>0 DEF TypeOK
  <2>3. [session[r] EXCEPT !.radii = Append(@, s)] \in Sessions
    <3>1. Append(session[r].radii, s) \in Seq(Services)
      BY <2>2 DEF Sessions
    <3> QED
      BY <2>2, <3>1 DEF Sessions
  <2>4. [session[r] EXCEPT !.radii = Append(@, s)].turns = session[r].turns
    BY <2>2 DEF Sessions
  <2> QED
    BY <1>a, <2>1, <2>3, <2>4
<1>2. CASE ComputeWindow(r)
  <2>1. session[r] \in Sessions
    BY <1>0 DEF TypeOK
  <2>2. [session[r] EXCEPT !.windowed = TRUE] \in Sessions
    BY <2>1 DEF Sessions
  <2>3. [session[r] EXCEPT !.windowed = TRUE].turns = session[r].turns
    BY <2>1 DEF Sessions
  <2> QED
    BY <1>a, <1>2, <2>2, <2>3 DEF ComputeWindow
<1>3. CASE DispatchCollectors(r)
  <2>1. PICK s \in ToSet(session[r].radii) : Turn(r, [session[r] EXCEPT !.dispatched = s])
    BY <1>3 DEF DispatchCollectors
  <2>2. session[r] \in Sessions
    BY <1>0 DEF TypeOK
  <2>3. s \in Services
    BY <2>2 DEF ToSet, Sessions
  <2>4. [session[r] EXCEPT !.dispatched = s] \in Sessions
    BY <2>2, <2>3 DEF Sessions
  <2>5. [session[r] EXCEPT !.dispatched = s].turns = session[r].turns
    BY <2>2 DEF Sessions
  <2> QED
    BY <1>a, <2>1, <2>4, <2>5
<1>b. ASSUME NEW failed \in SUBSET Nodes, EndScope(r, failed), over' \subseteq Runs
      PROVE  IInv'
  <2>1. TypeOK'
    BY <1>b, <1>0, PlanType, Shapes DEF EndScope, TypeOK, Steps
  <2>2. ASSUME NEW q \in Runs
        PROVE  Scoped(q)' /\ Follows(q)' /\ OnRecord(q)' /\ Locked(q)'
    <3>1. CASE q # r
      <4>1. /\ at'[q] = at[q] /\ plan'[q] = plan[q] /\ waiting'[q] = waiting[q] /\ results'[q] = results[q]
            /\ errors'[q] = errors[q] /\ narrative'[q] = narrative[q] /\ proposal'[q] = proposal[q]
            /\ declines \subseteq declines' /\ UNCHANGED <<holder, book>>
        BY <1>b, <1>0, <3>1 DEF EndScope, TypeOK
      <4> QED
        BY <4>1, Bystander, StillLocked
    <3>2. CASE q = r
      <4>1. /\ at[q] = "orchestrator" /\ at'[q] = "collectors" /\ errors[q] \subseteq errors'[q]
            /\ UNCHANGED <<waiting, results, narrative, proposal, declines>>
        BY <1>b, <1>0, <3>2 DEF EndScope, TypeOK
      <4>2. results'[q] = {} /\ Candidates(q)' = Candidates(q)
        BY <4>1, SameTop DEF IInv, Scoped
      <4>3. Scoped(q)'
        BY <4>1, <4>2 DEF IInv, Scoped
      <4>4. Follows(q)'
        BY <4>1, <4>2 DEF IInv, Follows
      <4> QED
        BY <4>1, <4>3, <4>4 DEF OnRecord, Locked, Done
    <3> QED
      BY <3>1, <3>2
  <2> QED
    BY <2>1, <2>2 DEF IInv
<1>4. CASE Orchestrate(r)
  BY <1>0, <1>b, <1>4, Budget DEF Orchestrate, Nodes
<1>5. CASE OrchestratorTimesOut(r)
  BY <1>0, <1>b, <1>5, Budget DEF OrchestratorTimesOut, Nodes
<1> QED
  BY <1>1, <1>2, <1>3, <1>4, <1>5

(* Every source is accounted for as its collector retires. *)
LEMMA Collecting ==
  ASSUME IInv, NEW r \in Runs,
         \/ \E s \in Sources : Fetch(r, s) \/ CollectorRaises(r, s)
         \/ BatchRetires(r)
  PROVE  IInv'
<1>0. TypeOK /\ Scoped(r) /\ Follows(r)
  BY DEF IInv
<1>a. ASSUME NEW q \in Runs, q # r, UNCHANGED <<plan, narrative, proposal, declines, holder, book>>,
             at'[q] = at[q], waiting'[q] = waiting[q], results'[q] = results[q], errors'[q] = errors[q]
      PROVE  Scoped(q)' /\ Follows(q)' /\ OnRecord(q)' /\ Locked(q)'
  BY <1>a, Bystander, StillLocked
<1>1. ASSUME NEW s \in Sources, Fetch(r, s)
      PROVE  IInv'
  <2>1. PICK answer \in {ReadToItsEnd(r, s)} \cup CutOff(r, s) :
          results' = [results EXCEPT ![r] = @ \cup {answer}]
    BY <1>1 DEF Fetch
  <2>2. /\ at[r] = "collectors" /\ waiting' = [waiting EXCEPT ![r] = @ \ {s}]
        /\ UNCHANGED <<at, session, plan, over, errors, agents>>
    BY <1>1 DEF Fetch, Retire
  <2>3. /\ answer \in [source : Sources, ok : BOOLEAN, found : SUBSET Events] /\ answer.source = s
        /\ answer.found \subseteq Reported(r, s) /\ (answer.ok => answer.found = Reported(r, s))
    <3>1. Reported(r, s) \subseteq Events
      BY ConstantsAssumption DEF Reported, Radius
    <3>2. CASE answer = ReadToItsEnd(r, s)
      BY <3>1, <3>2 DEF ReadToItsEnd
    <3>3. CASE answer \in CutOff(r, s)
      BY <3>1, <3>3 DEF CutOff
    <3> QED
      BY <2>1, <3>2, <3>3
  <2>4. TypeOK'
    BY <1>0, <2>1, <2>2, <2>3 DEF TypeOK
  <2>5. results'[r] = results[r] \cup {answer} /\ waiting'[r] = waiting[r] \ {s}
    BY <1>0, <2>1, <2>2 DEF TypeOK
  <2>6. Candidates(r) \subseteq Candidates(r)'
    BY <2>5 DEF Candidates
  <2>7. Scoped(r)'
    <3>1. \A a \in results'[r] : a.found \subseteq Radius(r)' /\ (a.ok => a.found = Reported(r, a.source)')
      <4>1. Radius(r)' = Radius(r) /\ \A x \in Sources : Reported(r, x)' = Reported(r, x)
        BY <2>2 DEF Radius, Reported
      <4>2. Reported(r, s) \subseteq Radius(r)
        BY DEF Reported
      <4>3. \A a \in results'[r] : a.source \in Sources
        BY <2>4 DEF TypeOK
      <4> QED
        BY <1>0, <2>3, <2>5, <4>1, <4>2, <4>3 DEF Scoped
    <3> QED
      BY <1>0, <2>2, <2>3, <2>5, <3>1 DEF Scoped
  <2>8. Follows(r)' /\ OnRecord(r)' /\ Locked(r)'
    BY <1>0, <2>2, <2>6 DEF Follows, OnRecord, Locked, Executable, Done
  <2> QED
    BY <1>0, <1>a, <2>1, <2>2, <2>4, <2>7, <2>8 DEF IInv, TypeOK
<1>2. ASSUME NEW s \in Sources, CollectorRaises(r, s)
      PROVE  IInv'
  <2>1. /\ at[r] = "collectors" /\ waiting' = [waiting EXCEPT ![r] = @ \ {s}]
        /\ errors' = [errors EXCEPT ![r] = @ \cup {s}]
        /\ UNCHANGED <<at, session, plan, over, results, agents>>
    BY <1>2 DEF CollectorRaises, Retire
  <2>2. TypeOK'
    BY <1>0, <2>1 DEF TypeOK, Nodes
  <2>3. Scoped(r)'
    BY <1>0, <2>1 DEF Scoped, Radius, Reported, TypeOK
  <2>4. Follows(r)' /\ OnRecord(r)' /\ Locked(r)'
    BY <1>0, <2>1, SameTop DEF Follows, OnRecord, Locked, Executable, Done
  <2> QED
    BY <1>0, <1>a, <2>1, <2>2, <2>3, <2>4 DEF IInv, TypeOK
<1>3. CASE BatchRetires(r)
  <2>1. /\ at[r] = "collectors" /\ waiting[r] = {} /\ at' = [at EXCEPT ![r] = "correlator"]
        /\ UNCHANGED <<session, plan, waiting, results, errors, over, agents>>
    BY <1>3 DEF BatchRetires
  <2>2. TypeOK'
    BY <1>0, <2>1 DEF TypeOK, Steps
  <2>3. Scoped(r)'
    BY <1>0, <2>1 DEF Scoped, Radius, Reported, TypeOK
  <2>4. Follows(r)' /\ OnRecord(r)' /\ Locked(r)'
    BY <1>0, <2>1, SameTop DEF Follows, OnRecord, Locked, Executable, Done, TypeOK
  <2> QED
    BY <1>0, <1>a, <2>1, <2>2, <2>3, <2>4 DEF IInv, TypeOK
<1> QED
  BY <1>1, <1>2, <1>3

(* What stands of a narrative cites what was collected. *)
LEMMA Correlating ==
  ASSUME IInv, NEW r \in Runs, Correlate(r) \/ CorrelatorTimesOut(r)
  PROVE  IInv'
<1>0. TypeOK /\ Scoped(r) /\ Follows(r)
  BY DEF IInv
<1>1. /\ at[r] = "correlator" /\ at' = [at EXCEPT ![r] = "proposer"]
      /\ UNCHANGED <<session, plan, waiting, results, proposal, one_shot, declines, book, holder, boxes>>
      /\ errors' = errors \/ errors' = [errors EXCEPT ![r] = @ \cup {"correlator"}]
  BY DEF Correlate, CorrelatorTimesOut, ToProposer
<1> DEFINE Cites == /\ narrative' \in [Runs -> [claims : BOOLEAN, cites : SUBSET Events]]
                    /\ \A q \in Runs \ {r} : narrative'[q] = narrative[q]
                    /\ narrative'[r].cites \subseteq Candidates(r)
                    /\ over' \subseteq Runs
<1>2. Cites
  <2>1. CASE narrative' = narrative /\ over' \subseteq Runs
    BY <1>0, <2>1 DEF Follows, TypeOK
  <2>2. ASSUME NEW claims \in SUBSET Claims, narrative' = [narrative EXCEPT ![r] = Validated(claims, r)],
               over' \subseteq Runs
        PROVE  Cites
    <3>1. Candidates(r) \subseteq Events
      BY <1>0 DEF Candidates, TypeOK
    <3>2. /\ Validated(claims, r) \in [claims : BOOLEAN, cites : SUBSET Events]
          /\ Validated(claims, r).cites \subseteq Candidates(r)
      BY <3>1 DEF Validated, ClaimStands
    <3> QED
      BY <1>0, <2>2, <3>2 DEF TypeOK
  <2>3. \A o \in OverNow(r) : o \subseteq Runs
    BY <1>0, Budget
  <2> QED
    <3>1. CASE CorrelatorTimesOut(r)
      BY <1>0, <2>1, <3>1 DEF CorrelatorTimesOut, TypeOK
    <3>2. CASE Correlate(r)
      <4>1. PICK o \in OverNow(r) :
              /\ over' = o
              /\ \/ \E claims \in SUBSET Claims : narrative' = [narrative EXCEPT ![r] = Validated(claims, r)]
                 \/ UNCHANGED narrative
        BY <3>2 DEF Correlate
      <4> QED
        BY <2>1, <2>2, <2>3, <4>1
    <3> QED
      BY <3>1, <3>2
<1>3. TypeOK'
  <2>1. errors' \in [Runs -> SUBSET Nodes]
    BY <1>0, <1>1 DEF TypeOK, Nodes
  <2>2. at' \in [Runs -> Steps]
    BY <1>0, <1>1 DEF TypeOK, Steps
  <2> QED
    BY <1>0, <1>1, <1>2, <2>1, <2>2 DEF Cites, TypeOK
<1>4. ASSUME NEW q \in Runs
      PROVE  Scoped(q)' /\ Follows(q)' /\ OnRecord(q)' /\ Locked(q)'
  <2>1. CASE q # r
    <3>1. /\ at'[q] = at[q] /\ errors'[q] = errors[q] /\ narrative'[q] = narrative[q]
      BY <1>0, <1>1, <1>2, <2>1 DEF Cites, TypeOK
    <3> QED
      BY <1>1, <3>1, Bystander, StillLocked
  <2>2. CASE q = r
    <3>1. at'[q] = "proposer" /\ errors[q] \subseteq errors'[q]
      BY <1>0, <1>1, <2>2 DEF TypeOK
    <3>2. Scoped(q)'
      BY <1>0, <1>1, <2>2, <3>1 DEF Scoped, Radius, Reported
    <3>3. Follows(q)'
      BY <1>0, <1>1, <1>2, <2>2, <3>1, SameTop DEF Cites, Follows
    <3> QED
      BY <3>1, <3>2, <3>3 DEF OnRecord, Locked, Done
  <2> QED
    BY <2>1, <2>2
<1> QED
  BY <1>3, <1>4 DEF IInv

(* A proposal stands on the narrative, or the gap it leaves open is recorded. *)
LEMMA Proposing ==
  ASSUME IInv, NEW r \in Runs, Propose(r)
  PROVE  IInv'
<1>0. TypeOK /\ Scoped(r) /\ Follows(r)
  BY DEF IInv
<1>1. /\ at[r] = "proposer" /\ UNCHANGED <<session, plan, waiting, results, narrative, one_shot, book, holder, boxes>>
      /\ over' \subseteq Runs /\ proposal[r] = NoProposal
  BY <1>0, Budget DEF Propose, Follows
<1>a. Top(r)' = Top(r) /\ Candidates(r)' = Candidates(r)
  BY <1>1, SameTop
<1>b. ASSUME NEW q \in Runs, q # r, at'[q] = at[q], errors'[q] = errors[q], proposal'[q] = proposal[q],
             declines \subseteq declines'
      PROVE  Scoped(q)' /\ Follows(q)' /\ OnRecord(q)' /\ Locked(q)'
  BY <1>1, <1>b, Bystander, StillLocked
<1>c. ASSUME at'[r] # "orchestrator", errors[r] \subseteq errors'[r]
      PROVE  Scoped(r)'
  BY <1>0, <1>1, <1>c DEF Scoped, Radius, Reported
<1>2. ASSUME NEW p \in [undoes : Events, cites : SUBSET Ids] \cup {NoProposal},
             p = NoProposal \/ Grounded(p, r), Stands(p),
             proposal' = [proposal EXCEPT ![r] = p], UNCHANGED <<errors, declines>>,
             at' = [at EXCEPT ![r] = "done"]
      PROVE  IInv'
  <2>1. p \in [undoes : Ids, cites : SUBSET Ids]
    BY <1>2, Shapes DEF Ids
  <2>2. TypeOK'
    BY <1>0, <1>1, <1>2, <2>1 DEF TypeOK, Steps
  <2>3. p # NoProposal /\ Executable(p) /\ p.cites \subseteq Candidates(r) /\ p.cites \subseteq Cited(r)
    BY <1>2 DEF Stands, Grounded, Known
  <2>4. Follows(r)'
    BY <1>0, <1>1, <1>2, <1>a, <2>3 DEF Follows, Executable, Cited, TypeOK
  <2>5. OnRecord(r)' /\ Locked(r)'
    BY <1>0, <1>2, <2>3 DEF OnRecord, Locked, Executable, TypeOK
  <2> QED
    BY <1>0, <1>2, <1>b, <1>c, <2>2, <2>4, <2>5 DEF IInv, TypeOK
<1>3. ASSUME declines' = declines \cup {e \in {Top(r)} : IsGap(e)}, UNCHANGED <<errors, proposal>>,
             at' = [at EXCEPT ![r] = "offer"]
      PROVE  IInv'
  <2>1. declines' \subseteq Events
    <3>1. Top(r) \in Events \/ ~IsGap(Top(r))
      BY TopType, ConstantsAssumption DEF IsGap
    <3> QED
      BY <1>0, <1>3, <3>1 DEF TypeOK
  <2>2. TypeOK'
    BY <1>0, <1>1, <1>3, <2>1 DEF TypeOK, Steps
  <2>3. Follows(r)' /\ Locked(r)'
    BY <1>0, <1>1, <1>3, <1>a DEF Follows, Locked, Executable, TypeOK
  <2>4. OnRecord(r)'
    BY <1>0, <1>3, <1>a DEF OnRecord, IsGap, Done, TypeOK
  <2> QED
    BY <1>0, <1>3, <1>b, <1>c, <2>2, <2>3, <2>4 DEF IInv, TypeOK
<1>4. ASSUME errors' = [errors EXCEPT ![r] = @ \cup {"proposer"}], at' = [at EXCEPT ![r] = "done"],
             UNCHANGED <<proposal, declines>>
      PROVE  IInv'
  <2>1. TypeOK'
    BY <1>0, <1>1, <1>4 DEF TypeOK, Steps, Nodes
  <2>2. Follows(r)' /\ Locked(r)' /\ OnRecord(r)'
    BY <1>0, <1>1, <1>4, <1>a DEF Follows, Locked, OnRecord, Executable, TypeOK
  <2> QED
    BY <1>0, <1>4, <1>b, <1>c, <2>1, <2>2 DEF IInv, TypeOK
<1> QED
  BY <1>2, <1>3, <1>4 DEF Propose

(* The steps of an offer and of the proposer's clock leave what a brief is made of alone. *)
LEMMA Offering ==
  ASSUME IInv, NEW r \in Runs,
         UNCHANGED <<session, plan, waiting, results, narrative, proposal, declines>>, over' \subseteq Runs,
         at[r] \in {"proposer", "offer", "author", "sandbox"},
         at'[r] \in {"done", "author", "sandbox"}, at' = [at EXCEPT ![r] = at'[r]],
         \/ errors' = errors /\ at[r] # "proposer"
         \/ errors' = [errors EXCEPT ![r] = @ \cup {"proposer"}] /\ at'[r] = "done",
         one_shot' \in [Runs -> Outcomes \cup {NoOutcome}], book' \in [Keys -> Outcomes \cup {NoOutcome}],
         holder' \in [Keys -> Runs \cup {NoRun}], boxes' \in [Keys -> Nat],
         \A q \in Runs : Locked(q)'
  PROVE  IInv'
<1>0. TypeOK /\ Scoped(r) /\ Follows(r) /\ OnRecord(r)
  BY DEF IInv
<1>1. TypeOK'
  <2>1. at' \in [Runs -> Steps]
    <3>1. at'[r] \in Steps /\ at \in [Runs -> Steps]
      BY <1>0 DEF TypeOK, Steps
    <3> QED
      BY <3>1
  <2>2. errors' \in [Runs -> SUBSET Nodes]
    <3>1. errors \in [Runs -> SUBSET Nodes] /\ "proposer" \in Nodes
      BY <1>0 DEF TypeOK, Nodes
    <3> QED
      BY <3>1
  <2> QED
    BY <1>0, <2>1, <2>2 DEF TypeOK
<1>2. ASSUME NEW q \in Runs, q # r
      PROVE  Scoped(q)' /\ Follows(q)' /\ OnRecord(q)'
  <2>1. at'[q] = at[q] /\ errors'[q] = errors[q]
    BY <1>0, <1>2 DEF TypeOK
  <2> QED
    BY <2>1, Bystander
<1>3. errors[r] \subseteq errors'[r] /\ (at[r] = "proposer" => "proposer" \in errors'[r])
  BY <1>0 DEF TypeOK
<1>4. Scoped(r)'
  BY <1>0, <1>3 DEF Scoped, Radius, Reported
<1>5. Follows(r)' /\ OnRecord(r)'
  BY <1>0, <1>3, SameTop DEF Follows, OnRecord, Executable, IsGap, Done
<1> QED
  BY <1>1, <1>2, <1>4, <1>5 DEF IInv

(* A key is held by one investigation, and has no outcome, for as long as its writer is built. *)
LEMMA BuildingAWriter ==
  ASSUME IInv, NEW r \in Runs, Offer(r) \/ Author(r) \/ Judge(r) \/ ProposerTimesOut(r)
  PROVE  IInv'
<1>0. TypeOK /\ Locked(r)
  BY DEF IInv
<1>1. UNCHANGED <<session, plan, waiting, results, narrative, proposal, declines>>
  BY DEF Offer, NothingToOffer, Answered, Refuse, Build, Author, Judge, ProposerTimesOut
<1>2. \A q \in Runs : Top(q)' = Top(q) /\ Key(q)' = Key(q)
  BY <1>1, SameTop
<1>a. ASSUME NEW q \in Runs, at'[q] \in {"author", "sandbox"} => at[q] \in {"author", "sandbox"},
             \A k \in Keys : holder[k] = q => holder'[k] = q /\ book'[k] = book[k]
      PROVE  Locked(q)'
  BY <1>2, <1>a, TopType, ConstantsAssumption DEF IInv, Locked
<1>b. Unlocked(r) \in [Keys -> Runs \cup {NoRun}]
      /\ \A k \in Keys : \A q \in Runs \ {r} : holder[k] = q => Unlocked(r)[k] = q
  BY <1>0 DEF Unlocked, TypeOK
<1>c. ASSUME at'[r] = "done", at' = [at EXCEPT ![r] = "done"], holder' = Unlocked(r) \/ holder' = holder,
             UNCHANGED book
      PROVE  \A q \in Runs : Locked(q)'
  <2>1. ASSUME NEW q \in Runs, q # r
        PROVE  Locked(q)'
    BY <1>0, <1>a, <1>b, <1>c, <2>1 DEF TypeOK
  <2>2. Locked(r)'
    BY <1>c DEF Locked
  <2> QED
    BY <2>1, <2>2
<1>3. CASE NothingToOffer(r) \/ Answered(r)
  <2>1. Top(r) # Ghost => book[Key(r)] \in Outcomes \cup {NoOutcome}
    BY <1>0, TopType DEF TypeOK
  <2>2. /\ at[r] = "offer" /\ at' = [at EXCEPT ![r] = "done"] /\ UNCHANGED <<errors, over, book, holder, boxes>>
        /\ \E outcome \in Outcomes \cup {NoOutcome} : one_shot' = [one_shot EXCEPT ![r] = outcome]
    BY <1>3, <2>1 DEF NothingToOffer, Answered, Ends, Outcomes, Refusals
  <2>3. one_shot' \in [Runs -> Outcomes \cup {NoOutcome}] /\ at'[r] = "done"
    BY <1>0, <2>2 DEF TypeOK
  <2> QED
    BY <1>0, <1>1, <1>c, <2>2, <2>3, Offering DEF TypeOK
<1>4. CASE Refuse(r)
  <2>1. Key(r) \in Keys /\ holder[Key(r)] = NoRun
    BY <1>4, TopType DEF Refuse, Free
  <2>2. /\ at[r] = "offer" /\ at' = [at EXCEPT ![r] = "done"] /\ UNCHANGED <<errors, over, holder, boxes>>
        /\ book' = [book EXCEPT ![Key(r)] = Refusal(Top(r))]
        /\ one_shot' = [one_shot EXCEPT ![r] = Refusal(Top(r))]
    BY <1>4 DEF Refuse, Stored, Ends
  <2>3. Refusal(Top(r)) \in Outcomes \cup {NoOutcome}
    BY DEF Refusal, Outcomes, Refusals
  <2>4. /\ one_shot' \in [Runs -> Outcomes \cup {NoOutcome}] /\ at'[r] = "done"
        /\ book' \in [Keys -> Outcomes \cup {NoOutcome}]
    BY <1>0, <2>2, <2>3 DEF TypeOK
  <2>5. ASSUME NEW q \in Runs
        PROVE  Locked(q)'
    <3>1. CASE q # r
      <4>1. at'[q] = at[q]
        BY <1>0, <2>2, <3>1 DEF TypeOK
      <4>2. \A k \in Keys : holder[k] = q => k # Key(r)
        BY <2>1, ConstantsAssumption
      <4> QED
        BY <1>0, <1>a, <2>2, <4>1, <4>2 DEF TypeOK
    <3>2. CASE q = r
      BY <2>4, <3>2 DEF Locked
    <3> QED
      BY <3>1, <3>2
  <2> QED
    BY <1>0, <1>1, <2>2, <2>4, <2>5, Offering DEF TypeOK
<1>5. CASE Build(r)
  <2>1. /\ Key(r) \in Keys /\ holder[Key(r)] = NoRun /\ Top(r) \in Events
        /\ holder' = [holder EXCEPT ![Key(r)] = r] /\ book[Key(r)] = NoOutcome
    BY <1>5, TopType DEF Build, Building, Free
  <2>2. /\ at[r] = "offer" /\ UNCHANGED <<errors, over, book, one_shot>>
        /\ \E step \in {"author", "sandbox"} : at' = [at EXCEPT ![r] = step]
        /\ boxes' = boxes \/ boxes' = [boxes EXCEPT ![Key(r)] = @ + 1]
    BY <1>5 DEF Build, Building, OpenBox
  <2>3. /\ holder' \in [Keys -> Runs \cup {NoRun}] /\ boxes' \in [Keys -> Nat]
        /\ at'[r] \in {"author", "sandbox"} /\ at' = [at EXCEPT ![r] = at'[r]]
    BY <1>0, <2>1, <2>2 DEF TypeOK
  <2>4. ASSUME NEW q \in Runs
        PROVE  Locked(q)'
    <3>1. CASE q # r
      <4>1. at'[q] = at[q]
        BY <1>0, <2>2, <3>1 DEF TypeOK
      <4>2. \A k \in Keys : holder[k] = q => k # Key(r)
        BY <2>1, ConstantsAssumption
      <4> QED
        BY <1>0, <1>a, <2>1, <2>2, <4>1, <4>2 DEF TypeOK
    <3>2. CASE q = r
      BY <1>0, <1>2, <2>1, <2>2, <3>2 DEF Locked, TypeOK
    <3> QED
      BY <3>1, <3>2
  <2> QED
    BY <1>0, <1>1, <2>2, <2>3, <2>4, Offering DEF TypeOK
<1>6. CASE Author(r) \/ Judge(r)
  <2>1. /\ at[r] \in {"author", "sandbox"} /\ Top(r) \in Events /\ Key(r) \in Keys
        /\ holder[Key(r)] = r /\ book[Key(r)] = NoOutcome /\ UNCHANGED errors /\ over' \subseteq Runs
    BY <1>0, <1>6, Budget, ConstantsAssumption DEF Author, Judge, Locked, Key, TypeOK
  <2>2. CASE Author(r) /\ OpenBox(r) /\ UNCHANGED <<book, holder, one_shot>>
    <3>1. /\ at' = [at EXCEPT ![r] = "sandbox"] /\ boxes' = [boxes EXCEPT ![Key(r)] = @ + 1]
          /\ UNCHANGED <<book, holder, one_shot>>
      BY <2>2 DEF OpenBox
    <3>2. at'[r] = "sandbox" /\ boxes' \in [Keys -> Nat]
      BY <1>0, <2>1, <3>1 DEF TypeOK
    <3>3. ASSUME NEW q \in Runs
          PROVE  Locked(q)'
      BY <1>0, <1>a, <2>1, <3>1 DEF TypeOK
    <3> QED
      BY <1>0, <1>1, <2>1, <3>1, <3>2, <3>3, Offering DEF TypeOK
  <2>3. ASSUME NEW outcome \in Outcomes, Stored(r, outcome), holder' = Unlocked(r), UNCHANGED boxes
        PROVE  IInv'
    <3>1. /\ at' = [at EXCEPT ![r] = "done"] /\ book' = [book EXCEPT ![Key(r)] = outcome]
          /\ one_shot' = [one_shot EXCEPT ![r] = outcome]
      BY <2>3 DEF Stored, Ends
    <3>2. /\ one_shot' \in [Runs -> Outcomes \cup {NoOutcome}] /\ at'[r] = "done"
          /\ book' \in [Keys -> Outcomes \cup {NoOutcome}]
      BY <1>0, <2>1, <3>1 DEF TypeOK
    <3>3. ASSUME NEW q \in Runs
          PROVE  Locked(q)'
      <4>1. CASE q # r
        <5>1. at'[q] = at[q]
          BY <1>0, <3>1, <4>1 DEF TypeOK
        <5>2. \A k \in Keys : holder[k] = q => k # Key(r)
          BY <2>1, <4>1
        <5> QED
          BY <1>0, <1>a, <1>b, <2>3, <3>1, <4>1, <5>1, <5>2 DEF TypeOK
      <4>2. CASE q = r
        BY <3>2, <4>2 DEF Locked
      <4> QED
        BY <4>1, <4>2
    <3> QED
      BY <1>0, <1>1, <1>b, <2>1, <2>3, <3>1, <3>2, <3>3, Offering DEF TypeOK
  <2>4. CASE Ends(r, NoOutcome) /\ holder' = Unlocked(r) /\ UNCHANGED <<book, boxes>>
    <3>1. at' = [at EXCEPT ![r] = "done"] /\ one_shot' = [one_shot EXCEPT ![r] = NoOutcome]
      BY <2>4 DEF Ends
    <3>2. one_shot' \in [Runs -> Outcomes \cup {NoOutcome}] /\ at'[r] = "done"
      BY <1>0, <3>1 DEF TypeOK
    <3> QED
      BY <1>0, <1>1, <1>b, <1>c, <2>1, <2>4, <3>1, <3>2, Offering DEF TypeOK
  <2> QED
    <3>1. {"writer_rejected", "not_revert_shaped", "offered", "not_contained"} \subseteq Outcomes
      BY DEF Outcomes, Refusals
    <3> QED
      BY <1>6, <2>2, <2>3, <2>4, <3>1 DEF Author, Judge
<1>7. CASE ProposerTimesOut(r)
  <2>1. /\ at[r] \in {"proposer", "offer", "author", "sandbox"} /\ at' = [at EXCEPT ![r] = "done"]
        /\ errors' = [errors EXCEPT ![r] = @ \cup {"proposer"}] /\ holder' = Unlocked(r)
        /\ UNCHANGED <<over, one_shot, book, boxes>>
    BY <1>7 DEF ProposerTimesOut, ProposerSteps
  <2>2. at'[r] = "done"
    BY <1>0, <2>1 DEF TypeOK
  <2> QED
    BY <1>0, <1>1, <1>b, <1>c, <2>1, <2>2, Offering DEF TypeOK
<1> QED
  BY <1>3, <1>4, <1>5, <1>6, <1>7 DEF Offer

-----------------------------------------------------------------------------
LEMMA Stuttering ==
  ASSUME IInv, UNCHANGED vars
  PROVE  IInv'
<1>0. TypeOK
  BY DEF IInv
<1>1. TypeOK'
  BY <1>0 DEF vars, TypeOK
<1>2. ASSUME NEW q \in Runs
      PROVE  Scoped(q)' /\ Follows(q)' /\ OnRecord(q)' /\ Locked(q)'
  BY Bystander, StillLocked DEF vars
<1> QED
  BY <1>1, <1>2 DEF IInv

(* In every reachable state the briefs, the proposals, the record and the locks agree. *)
THEOREM Invariant == Spec => []IInv
<1>1. IInv /\ [Next]_vars => IInv'
  <2> SUFFICES ASSUME IInv, [Next]_vars PROVE IInv'
    OBVIOUS
  <2>1. ASSUME NEW r \in Runs,
               \/ ResolveBlastRadius(r) \/ ComputeWindow(r) \/ DispatchCollectors(r) \/ Orchestrate(r)
               \/ \E s \in Sources : Fetch(r, s) \/ CollectorRaises(r, s)
               \/ BatchRetires(r) \/ Correlate(r) \/ Propose(r) \/ Offer(r) \/ Author(r) \/ Judge(r)
               \/ NodeTimesOut(r)
        PROVE  IInv'
    BY <2>1, Scoping, Collecting, Correlating, Proposing, BuildingAWriter DEF NodeTimesOut, CollectorTimesOut
  <2> QED
    BY <2>1, Stuttering DEF Next, Finished
<1> QED
  BY Start, <1>1, PTL DEF Spec

(* A brief that does not say it is degraded has every change in its scope: a timeout, a failed   *)
(* node, a listing that was cut off and a scope nobody dispatched each show in _brief_from's     *)
(* degraded flag.                                                                                *)
THEOREM CompleteBriefs == Spec => []UndegradedBriefIsComplete
<1>1. IInv => UndegradedBriefIsComplete
  <2> SUFFICES ASSUME IInv, NEW r \in Runs, Done(r), ~Degraded(r)
               PROVE  /\ plan[r].chosen /\ plan[r].scope \in Services
                      /\ Candidates(r) = InRadius[plan[r].scope]
    BY DEF UndegradedBriefIsComplete
  <2>1. /\ plan[r].chosen /\ plan[r].scope \in Services /\ \A a \in results[r] : a.ok
        /\ \A s \in Sources : s \notin errors[r]
    BY ConstantsAssumption DEF Degraded, AnnotationNodes
  <2>2. /\ \A s \in Sources : \E a \in results[r] : a.source = s
        /\ \A a \in results[r] : a.found = Reported(r, a.source) /\ a.found \subseteq Radius(r)
    BY <2>1 DEF IInv, Scoped, Done
  <2>3. Radius(r) = InRadius[plan[r].scope] /\ Radius(r) \subseteq Events
    BY <2>1, ConstantsAssumption DEF Radius
  <2>4. ASSUME NEW e \in Radius(r)
        PROVE  e \in Candidates(r)
    <3>1. PICK a \in results[r] : a.source = SourceOf[e]
      BY <2>2, <2>3, ConstantsAssumption
    <3>2. e \in a.found
      BY <2>2, <3>1 DEF Reported
    <3> QED
      BY <3>2 DEF Candidates
  <2>5. Candidates(r) \subseteq Radius(r)
    BY <2>2 DEF Candidates
  <2> QED
    BY <2>1, <2>3, <2>4, <2>5
<1> QED
  BY <1>1, Invariant, PTL

(* Whatever a model answers, the proposal that validate_proposal lets through cites what the     *)
(* narrative cites, and the narrative what was collected.                                        *)
THEOREM ProposalsFollow == Spec => []ProposalFollowsTheNarrative
<1>1. IInv => ProposalFollowsTheNarrative
  BY DEF IInv, Follows, Executable, ProposalFollowsTheNarrative
<1> QED
  BY <1>1, Invariant, PTL

(* proposer_node's decline records the gap before anything is offered for it, and a proposal     *)
(* that could never run is a decline.                                                            *)
THEOREM GapsAreKept == Spec => []GapsAreNotLost
<1>1. IInv => GapsAreNotLost
  BY DEF IInv, OnRecord, GapsAreNotLost
<1> QED
  BY <1>1, Invariant, PTL

(* OneShotBook: an outcome is stored once, under its key's lock, and nothing is built for a key  *)
(* that has one.                                                                                 *)
THEOREM OutcomesStand == Spec => OneOutcomePerKey
<1>1. ASSUME IInv, [Next]_vars, NEW k \in Keys, book[k] # NoOutcome
      PROVE  book'[k] = book[k] /\ boxes'[k] = boxes[k]
  <2>0. TypeOK
    BY <1>1 DEF IInv
  <2>1. CASE UNCHANGED <<book, boxes>>
    BY <2>1
  <2>2. ASSUME NEW r \in Runs, Refuse(r) \/ Build(r) \/ Author(r) \/ Judge(r)
        PROVE  book'[k] = book[k] /\ boxes'[k] = boxes[k]
    <3>1. book[Key(r)] = NoOutcome
      BY <1>1, <2>2 DEF Refuse, Build, Building, Author, Judge, IInv, Locked
    <3>2. k # Key(r)
      BY <1>1, <3>1
    <3> QED
      BY <2>0, <2>2, <3>2 DEF Refuse, Build, Building, Author, Judge, Stored, OpenBox, TypeOK
  <2>3. ASSUME NEW r \in Runs, ~(Refuse(r) \/ Build(r) \/ Author(r) \/ Judge(r)),
               \/ ResolveBlastRadius(r) \/ ComputeWindow(r) \/ DispatchCollectors(r) \/ Orchestrate(r)
               \/ \E s \in Sources : Fetch(r, s) \/ CollectorRaises(r, s)
               \/ BatchRetires(r) \/ Correlate(r) \/ Propose(r) \/ Offer(r)
               \/ NodeTimesOut(r)
        PROVE  UNCHANGED <<book, boxes>>
    <3>1. CASE \/ ResolveBlastRadius(r) \/ ComputeWindow(r) \/ DispatchCollectors(r) \/ Orchestrate(r)
               \/ \E s \in Sources : Fetch(r, s) \/ CollectorRaises(r, s)
      BY <3>1 DEF ResolveBlastRadius, ComputeWindow, DispatchCollectors, Turn, Orchestrate, EndScope,
                  Fetch, CollectorRaises, Retire
    <3>2. CASE BatchRetires(r) \/ Correlate(r) \/ Propose(r) \/ NothingToOffer(r) \/ Answered(r)
      BY <3>2 DEF BatchRetires, Correlate, Propose, NothingToOffer, Answered
    <3>3. CASE NodeTimesOut(r)
      BY <3>3 DEF NodeTimesOut, OrchestratorTimesOut, EndScope, CorrelatorTimesOut, ProposerTimesOut,
                  CollectorTimesOut, CollectorRaises, Retire
    <3> QED
      BY <2>3, <3>1, <3>2, <3>3 DEF Offer
  <2>4. CASE UNCHANGED vars
    BY <2>4 DEF vars
  <2> QED
    BY <1>1, <2>1, <2>2, <2>3, <2>4 DEF Next, Finished
<1>2. IInv /\ [Next]_vars
        => [\A k \in Keys : book[k] # NoOutcome => book'[k] = book[k] /\ boxes'[k] = boxes[k]]_vars
  BY <1>1
<1> QED
  BY <1>2, Invariant, PTL DEF Spec, OneOutcomePerKey

=============================================================================
