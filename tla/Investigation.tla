----------------------------- MODULE Investigation -----------------------------
(***************************************************************************)
(* Investigations of one incident, each a run of the agent graph           *)
(* (agents/graph.py): an orchestrator chooses the scope with three typed   *)
(* tools, the collectors answer as one batch, a correlator writes the      *)
(* narrative, a proposer names a catalog action or declines, and a decline *)
(* is offered a one-shot (actions/growth/one_shot.py) by way of a sandbox. *)
(*                                                                         *)
(* Every node has its own clock, shorter than the graph's, and absorbs     *)
(* what goes wrong inside it: a failure costs the brief a scope, a source, *)
(* a narrative or an action, and never the brief.  The investigations of   *)
(* one incident share the process's book of one-shot outcomes.             *)
(*                                                                         *)
(* A live mode is modelled: a model may answer anything its response       *)
(* schema admits, be refused by the token meter, raise, or hang.           *)
(***************************************************************************)
EXTENDS Integers, Sequences, FiniteSets, SequencesExt

CONSTANTS
  Runs,         \* the investigations
  NoRun,        \* none
  Sources,      \* the collectors
  Events,       \* the changes there are
  SourceOf,     \* the source that reports each of them
  Ranking,      \* the changes, in the order the scorer gives them
  Ghost,        \* an event id that no change has
  Services,     \* the services of the manifest
  AlertService, \* the service the alert names, in the manifest or not
  InRadius,     \* the changes to the resources of each service
  Claims,       \* the sets of event ids that a claim of the narrative may cite
  Keys,         \* resources with a field
  KeyOf,        \* the one each change is to
  Closed,       \* the changes that some catalog action reverts
  Restorable,   \* the updates whose prior values were recorded
  Observed,     \* those to a resource with an observed sandbox recipe
  Written,      \* those that a human-written writer restores
  Contracted,   \* those with a contract to author a writer from
  MaxTurns      \* MAX_TURNS, of the orchestrator

Ids == Events \cup {Ghost}
Nodes == {"orchestrator", "correlator", "proposer"} \cup Sources
Scopes == Services \cup {AlertService}

ASSUME ConstantsAssumption ==
  /\ NoRun \notin Runs /\ Ghost \notin Events /\ Closed \cup Restorable \subseteq Events
  /\ SourceOf \in [Events -> Sources] /\ KeyOf \in [Events -> Keys]
  /\ Ranking \in Seq(Events) /\ ToSet(Ranking) = Events
  /\ InRadius \in [Services -> SUBSET Events] /\ Claims \subseteq SUBSET Ids
  /\ MaxTurns \in Nat /\ Services # {} /\ Sources \cap {"orchestrator", "correlator", "proposer"} = {}

VARIABLES
  at,        \* the node each investigation is in, or the step of its proposer
  session,   \* the orchestrator's tools: the handles minted, and what was dispatched
  plan,      \* the scope, and whether it is the model's
  waiting,   \* the collectors that have not retired
  results,   \* the answers they appended: the source, whether it is whole, the changes
  errors,    \* node_errors
  over,      \* the investigations that a token cap stops
  narrative, \* the ids the validated narrative cites
  proposal,  \* the change that would be undone, and the ids cited
  one_shot,  \* the outcome left for a human
  declines,  \* history: the changes recorded as gaps
  book,      \* OneShotBook: one outcome for a key
  holder,    \* the investigation that holds a key's lock
  boxes      \* history: how many sandboxes a key's writers were run in

vars == <<at, session, plan, waiting, results, errors, over, narrative, proposal,
          one_shot, declines, book, holder, boxes>>
agents == <<narrative, proposal, one_shot, declines, book, holder, boxes>>
scoping == <<session, plan, waiting, results>>

-----------------------------------------------------------------------------
Steps == {"orchestrator", "collectors", "correlator", "proposer", "offer", "author", "sandbox", "done"}
NoHandle == "none"
NoSession == [turns |-> 0, radii |-> <<>>, windowed |-> FALSE, dispatched |-> NoHandle]
Sessions == [turns : 0..MaxTurns, radii : Seq(Services), windowed : BOOLEAN,
             dispatched : Services \cup {NoHandle}]
NoPlan == [scope |-> NoHandle, chosen |-> FALSE]
NoNarrative == [claims |-> FALSE, cites |-> {}]
NoProposal == [undoes |-> Ghost, cites |-> {}]
NoOutcome == "none"
Refusals == {"no_top_candidate", "catalog_can_revert", "not_revert_shaped", "no_observed_recipe",
             "no_writer_contract", "writer_rejected", "not_contained"}
Outcomes == Refusals \cup {"offered"}

TypeOK ==
  /\ at \in [Runs -> Steps]
  /\ session \in [Runs -> Sessions]
  /\ plan \in [Runs -> [scope : Scopes, chosen : BOOLEAN] \cup {NoPlan}]
  /\ waiting \in [Runs -> SUBSET Sources] /\ errors \in [Runs -> SUBSET Nodes] /\ over \subseteq Runs
  /\ results \in [Runs -> SUBSET [source : Sources, ok : BOOLEAN, found : SUBSET Events]]
  /\ narrative \in [Runs -> [claims : BOOLEAN, cites : SUBSET Events]]
  /\ proposal \in [Runs -> [undoes : Ids, cites : SUBSET Ids]]
  /\ one_shot \in [Runs -> Outcomes \cup {NoOutcome}] /\ declines \subseteq Events
  /\ book \in [Keys -> Outcomes \cup {NoOutcome}] /\ holder \in [Keys -> Runs \cup {NoRun}]
  /\ boxes \in [Keys -> Nat]

Init ==
  /\ at = [r \in Runs |-> "orchestrator"] /\ session = [r \in Runs |-> NoSession]
  /\ plan = [r \in Runs |-> NoPlan] /\ waiting = [r \in Runs |-> Sources]
  /\ results = [r \in Runs |-> {}] /\ errors = [r \in Runs |-> {}] /\ over = {}
  /\ narrative = [r \in Runs |-> NoNarrative] /\ proposal = [r \in Runs |-> NoProposal]
  /\ one_shot = [r \in Runs |-> NoOutcome] /\ declines = {}
  /\ book = [k \in Keys |-> NoOutcome] /\ holder = [k \in Keys |-> NoRun] /\ boxes = [k \in Keys |-> 0]

-----------------------------------------------------------------------------
(* The brief, assembled from whatever there is. *)

Radius(r) == IF plan[r].scope \in Services THEN InRadius[plan[r].scope] ELSE {}
Candidates(r) == UNION {a.found : a \in results[r]}

(* The brief lists them as ranked; its top candidate is the first of them. *)
RankedFirst(i, r) ==
  Ranking[i] \in Candidates(r) /\ \A j \in 1..i - 1 : Ranking[j] \notin Candidates(r)
Top(r) ==
  IF \E i \in DOMAIN Ranking : RankedFirst(i, r)
  THEN Ranking[CHOOSE i \in DOMAIN Ranking : RankedFirst(i, r)] ELSE Ghost

AnnotationNodes == {"correlator", "proposer"}

\* Mutant: only the answers that arrived are looked at.
DegradedByAnswers(r) == (\E a \in results[r] : ~a.ok) \/ ~plan[r].chosen

Degraded(r) ==
  \/ errors[r] \ AnnotationNodes # {}
  \/ \E a \in results[r] : ~a.ok
  \/ ~plan[r].chosen
  \/ plan[r].scope \notin Services

-----------------------------------------------------------------------------
(* The token meter writes the line, then raises if the run or the day is over its cap. *)

\* The investigations over a cap once r's call is recorded: a day's cap stops them all.
OverNow(r) == IF r \in over THEN {over} ELSE {over, over \cup {r}, Runs}

-----------------------------------------------------------------------------
(* The orchestrator: a tool loop of at most MaxTurns turns. *)

Turn(r, s) ==
  /\ at[r] = "orchestrator" /\ session[r].turns < MaxTurns
  /\ session' = [session EXCEPT ![r] = [s EXCEPT !.turns = @ + 1]]
  /\ UNCHANGED <<at, plan, waiting, results, errors, over, agents>>

ResolveBlastRadius(r) ==
  \E s \in Services : Turn(r, [session[r] EXCEPT !.radii = Append(@, s)])

ComputeWindow(r) == Turn(r, [session[r] EXCEPT !.windowed = TRUE])

(* A handle that was never minted is an error the tool reports. *)
DispatchCollectors(r) ==
  /\ session[r].windowed
  /\ \E s \in ToSet(session[r].radii) : Turn(r, [session[r] EXCEPT !.dispatched = s])

FallbackPlan(s) ==
  [scope |-> IF s.radii = <<>> THEN AlertService ELSE Last(s.radii), chosen |-> FALSE]

RequirePlan(s) ==
  IF s.dispatched # NoHandle THEN [scope |-> s.dispatched, chosen |-> TRUE] ELSE FallbackPlan(s)

(* The loop ends, is cut short, or raises: the plan is made of what the tools were told. *)
EndScope(r, failed) ==
  /\ at[r] = "orchestrator" /\ at' = [at EXCEPT ![r] = "collectors"]
  /\ plan' = [plan EXCEPT ![r] = RequirePlan(session[r])]
  /\ session' = [session EXCEPT ![r] = NoSession]
  /\ errors' = [errors EXCEPT ![r] = @ \cup failed]
  /\ UNCHANGED <<waiting, results, agents>>

Orchestrate(r) ==
  \E o \in OverNow(r) :
    over' = o /\ EndScope(r, IF r \in o THEN {"orchestrator"} ELSE {})

-----------------------------------------------------------------------------
(* The collectors. *)

Retire(r, s) ==
  /\ at[r] = "collectors" /\ s \in waiting[r]
  /\ waiting' = [waiting EXCEPT ![r] = @ \ {s}]
  /\ UNCHANGED <<at, session, plan, over, agents>>

\* What a source reports inside the radius.
Reported(r, s) == {e \in Radius(r) : SourceOf[e] = s}

(* A listing is read page by page to its end, or stops at its bound with the rest unread; a
   failure the collector reports leaves nothing read. *)
ReadToItsEnd(r, s) == [source |-> s, ok |-> TRUE, found |-> Reported(r, s)]

CutOff(r, s) == [source : {s}, ok : {FALSE}, found : SUBSET Reported(r, s)]

Fetch(r, s) ==
  /\ Retire(r, s) /\ UNCHANGED errors
  /\ \E answer \in {ReadToItsEnd(r, s)} \cup CutOff(r, s) :
       results' = [results EXCEPT ![r] = @ \cup {answer}]

(* Or it raises where nothing of its own catches it. *)
CollectorRaises(r, s) ==
  Retire(r, s) /\ errors' = [errors EXCEPT ![r] = @ \cup {s}] /\ UNCHANGED results

(* The batch retires with its slowest node. *)
BatchRetires(r) ==
  /\ at[r] = "collectors" /\ waiting[r] = {} /\ at' = [at EXCEPT ![r] = "correlator"]
  /\ UNCHANGED <<scoping, errors, over, agents>>

-----------------------------------------------------------------------------
(* The correlator. *)

\* Mutant: one real id carries the claim.
SomeIdIsReal(claim, r) == claim \cap Candidates(r) # {}

ClaimStands(claim, r) == claim # {} /\ claim \subseteq Candidates(r)

ToProposer(r) == at' = [at EXCEPT ![r] = "proposer"]
rest == <<proposal, one_shot, declines, book, holder, boxes>>

(* A claim that cites an unknown id is dropped, and the others are kept. *)
Validated(claims, r) ==
  [claims |-> TRUE, cites |-> UNION {c \in claims : ClaimStands(c, r)}]

(* A primary cause that is not the first candidate rejects the narrative, as an answer cut off,
   malformed or missing does; the call is metered before its answer is looked at. *)
Correlate(r) ==
  /\ at[r] = "correlator" /\ ToProposer(r) /\ UNCHANGED <<scoping, rest>>
  /\ \E o \in OverNow(r) :
       /\ over' = o
       /\ \/ /\ r \notin o /\ Candidates(r) # {} /\ UNCHANGED errors
             /\ \E claims \in SUBSET Claims :
                  narrative' = [narrative EXCEPT ![r] = Validated(claims, r)]
          \/ errors' = [errors EXCEPT ![r] = @ \cup {"correlator"}] /\ UNCHANGED narrative

-----------------------------------------------------------------------------
(* The proposer. *)

Known(r) == Candidates(r)
Cited(r) == IF narrative[r] = NoNarrative THEN Known(r) ELSE narrative[r].cites

Grounded(p, r) == p.cites # {} /\ p.cites \subseteq Known(r) /\ p.cites \subseteq Cited(r)

\* The gateway would take the hint from the change cited; none is recorded for an open gap.
Executable(p) == p.undoes \in p.cites /\ p.undoes \in Closed

IsGap(e) == e \in Restorable \ Closed

\* Mutant: what could never be approved is proposed all the same.
EveryProposalStands(p) == p # NoProposal

Stands(p) == p # NoProposal /\ Executable(p)

(* A proposal that stands; or a decline, recorded and then offered a one-shot; or a rejection.
   The record is assumed to reach the signal store: what its append raises is only logged. *)
Propose(r) ==
  /\ at[r] = "proposer" /\ UNCHANGED <<scoping, narrative, one_shot, book, holder, boxes>>
  /\ \E o \in OverNow(r) :
       /\ over' = o
       /\ \/ /\ r \notin o /\ UNCHANGED errors
             /\ \E p \in [undoes : Events, cites : SUBSET Ids] \cup {NoProposal} :
                  /\ p = NoProposal \/ Grounded(p, r)
                  /\ IF Stands(p)
                     THEN /\ proposal' = [proposal EXCEPT ![r] = p] /\ UNCHANGED declines
                          /\ at' = [at EXCEPT ![r] = "done"]
                     ELSE /\ declines' = declines \cup {e \in {Top(r)} : IsGap(e)}
                          /\ at' = [at EXCEPT ![r] = "offer"] /\ UNCHANGED proposal
          \/ /\ errors' = [errors EXCEPT ![r] = @ \cup {"proposer"}]
             /\ at' = [at EXCEPT ![r] = "done"] /\ UNCHANGED <<proposal, declines>>

-----------------------------------------------------------------------------
(* The book of one-shots: one outcome for a key, under the key's lock. *)

Key(r) == KeyOf[Top(r)]

Ends(r, outcome) == /\ at' = [at EXCEPT ![r] = "done"]
                    /\ one_shot' = [one_shot EXCEPT ![r] = outcome]

Before == <<scoping, errors, narrative, proposal, declines>>

NothingToOffer(r) ==
  /\ at[r] = "offer" /\ Top(r) = Ghost /\ Ends(r, "no_top_candidate")
  /\ UNCHANGED <<Before, over, book, holder, boxes>>

\* Mutant: two investigations build at once.
NeverHeld(k) == TRUE

Free(k) == holder[k] = NoRun

(* Whatever the book holds is the answer, refusals included. *)
Answered(r) ==
  /\ at[r] = "offer" /\ Top(r) # Ghost /\ Free(Key(r)) /\ book[Key(r)] # NoOutcome
  /\ Ends(r, book[Key(r)]) /\ UNCHANGED <<Before, over, book, holder, boxes>>

\* What is refused before a writer is looked for, or none.
Refusal(e) ==
  IF e \in Closed THEN "catalog_can_revert"
  ELSE IF e \notin Restorable THEN "not_revert_shaped"
  ELSE IF e \notin Observed THEN "no_observed_recipe"
  ELSE IF e \notin Written \cup Contracted THEN "no_writer_contract"
  ELSE NoOutcome

Stored(r, outcome) == book' = [book EXCEPT ![Key(r)] = outcome] /\ Ends(r, outcome)

Refuse(r) ==
  /\ at[r] = "offer" /\ Top(r) # Ghost /\ Free(Key(r)) /\ book[Key(r)] = NoOutcome
  /\ Refusal(Top(r)) # NoOutcome /\ Stored(r, Refusal(Top(r)))
  /\ UNCHANGED <<Before, over, holder, boxes>>

Building(r) ==
  /\ at[r] = "offer" /\ Top(r) # Ghost /\ Free(Key(r)) /\ book[Key(r)] = NoOutcome
  /\ Refusal(Top(r)) = NoOutcome /\ holder' = [holder EXCEPT ![Key(r)] = r]

OpenBox(r) == /\ at' = [at EXCEPT ![r] = "sandbox"]
              /\ boxes' = [boxes EXCEPT ![Key(r)] = @ + 1]

(* A human-written writer goes to the sandbox; without one, a writer is authored first. *)
Build(r) ==
  /\ Building(r) /\ UNCHANGED <<Before, over, book, one_shot>>
  /\ IF Top(r) \in Written THEN OpenBox(r)
     ELSE at' = [at EXCEPT ![r] = "author"] /\ UNCHANGED boxes

Unlocked(r) == [k \in Keys |-> IF holder[k] = r THEN NoRun ELSE holder[k]]

(* Its author's answer passes the gates, is rejected by them or by the inverse that cannot be
   computed with it, or never comes to them: a raise leaves no outcome, and the next offer
   starts over. *)
Author(r) ==
  /\ at[r] = "author" /\ UNCHANGED Before
  /\ \E o \in OverNow(r) :
       /\ over' = o
       /\ \/ r \notin o /\ OpenBox(r) /\ UNCHANGED <<book, holder, one_shot>>
          \/ /\ r \notin o
             /\ \E outcome \in {"writer_rejected", "not_revert_shaped"} : Stored(r, outcome)
             /\ holder' = Unlocked(r) /\ UNCHANGED boxes
          \/ /\ Ends(r, NoOutcome) /\ holder' = Unlocked(r) /\ UNCHANGED <<book, boxes>>

(* The sandbox's verdict; or it raises, and the one-shot path fails without an outcome. *)
Judge(r) ==
  /\ at[r] = "sandbox" /\ holder' = Unlocked(r) /\ UNCHANGED <<Before, over, boxes>>
  /\ \/ \E outcome \in {"offered", "not_contained"} : Stored(r, outcome)
     \/ Ends(r, NoOutcome) /\ UNCHANGED book

-----------------------------------------------------------------------------
(* The nodes' clocks: whatever is running is cancelled, a held lock is released, a sandbox
   thread goes on unheard.  An orchestrator that is cancelled is still metered. *)

OrchestratorTimesOut(r) == EndScope(r, {"orchestrator"}) /\ over' \in OverNow(r)

CollectorTimesOut(r, s) == CollectorRaises(r, s)

CorrelatorTimesOut(r) ==
  /\ at[r] = "correlator" /\ ToProposer(r)
  /\ errors' = [errors EXCEPT ![r] = @ \cup {"correlator"}]
  /\ UNCHANGED <<scoping, over, narrative, rest>>

\* Mutant: the proposer's clock is the model call's alone.
BoundedProposer == {"proposer"}

ProposerSteps == {"proposer", "offer", "author", "sandbox"}

ProposerTimesOut(r) ==
  /\ at[r] \in ProposerSteps /\ at' = [at EXCEPT ![r] = "done"]
  /\ errors' = [errors EXCEPT ![r] = @ \cup {"proposer"}] /\ holder' = Unlocked(r)
  /\ UNCHANGED <<scoping, over, narrative, proposal, one_shot, declines, book, boxes>>

NodeTimesOut(r) ==
  \/ OrchestratorTimesOut(r) \/ CorrelatorTimesOut(r) \/ ProposerTimesOut(r)
  \/ \E s \in Sources : CollectorTimesOut(r, s)

-----------------------------------------------------------------------------
Offer(r) == NothingToOffer(r) \/ Answered(r) \/ Refuse(r) \/ Build(r)

Finished == (\A r \in Runs : at[r] = "done") /\ UNCHANGED vars

Next ==
  \/ \E r \in Runs :
       \/ ResolveBlastRadius(r) \/ ComputeWindow(r) \/ DispatchCollectors(r) \/ Orchestrate(r)
       \/ \E s \in Sources : Fetch(r, s) \/ CollectorRaises(r, s)
       \/ BatchRetires(r) \/ Correlate(r) \/ Propose(r) \/ Offer(r) \/ Author(r) \/ Judge(r)
       \/ NodeTimesOut(r)
  \/ Finished

Spec == Init /\ [][Next]_vars

(* A node's clock runs whatever hangs inside it, and the graph runs the next batch: no answer of
   a model, a source or a sandbox is assumed. *)
FairSpec == Spec /\ \A r \in Runs : WF_vars(NodeTimesOut(r)) /\ WF_vars(BatchRetires(r))

-----------------------------------------------------------------------------
Done(r) == at[r] = "done"

(* A brief that does not say it is degraded lists every change of every source in the scope
   that the model dispatched: no timeout, failure, cut-off listing or default scope reads as
   "nothing changed". *)
UndegradedBriefIsComplete ==
  \A r \in Runs : Done(r) /\ ~Degraded(r) =>
    plan[r].chosen /\ plan[r].scope \in Services /\ Candidates(r) = InRadius[plan[r].scope]

(* What is proposed rests on changes the brief lists and, when there is a narrative, on changes
   the narrative cites; and the change it would undo is among them. *)
ProposalFollowsTheNarrative ==
  \A r \in Runs : proposal[r] # NoProposal =>
    /\ proposal[r].undoes \in proposal[r].cites /\ proposal[r].cites \subseteq Candidates(r)
    /\ narrative[r] # NoNarrative => proposal[r].cites \subseteq narrative[r].cites
    /\ narrative[r] # NoNarrative => narrative[r].cites \subseteq Candidates(r)

(* An investigation whose proposer failed in no way either proposes what can be undone, or has
   recorded the gap its top candidate is: no gap is lost to an answer that could never run. *)
GapsAreNotLost ==
  \A r \in Runs : Done(r) /\ "proposer" \notin errors[r] /\ IsGap(Top(r)) =>
    (proposal[r].undoes \in Closed \/ Top(r) \in declines)

(* Once a key has an outcome, every later offer gets it: it is never replaced, and no other
   writer is run in a sandbox for it. *)
OneOutcomePerKey ==
  [][\A k \in Keys : book[k] # NoOutcome => book'[k] = book[k] /\ boxes'[k] = boxes[k]]_vars

(* Whatever hangs, every alert gets its brief. *)
EveryAlertGetsItsBrief == \A r \in Runs : <>Done(r)
=============================================================================
