--------------------------- MODULE ApprovalGateway ---------------------------
(***************************************************************************)
(* actions/approval.py: the table of open approval cards and the table of  *)
(* outcomes of one automation process.                                     *)
(*                                                                         *)
(* One registrar (the server's event loop, Automation.respond) opens       *)
(* cards.  Deciders are the threads of Slack's Socket Mode pool; each runs *)
(* decide() for one click at a time.  The steps of decide() are separate   *)
(* actions wherever another thread can run between them: only the claim    *)
(* and the release hold the condition's lock, `_open` and `_record` hold   *)
(* none.  A crash of the process empties both tables; the cards in Slack   *)
(* outlive it.                                                             *)
(***************************************************************************)
EXTENDS Integers

CONSTANTS
  Keys,           \* (incident_id, action_id) pairs
  CatalogActions, \* the keys whose action is in the catalog; the others are one-shots
  Declared,       \* the catalog entry of each of them (ActionSpec)
  Digests,        \* the dry runs a card can show
  NoDigest,       \* the None an in-process caller passes
  Deciders,       \* threads that call decide()
  ActorRole,      \* BOOLEAN: an actor role or STS client is configured
  ExpiresAfter,   \* approval.expires_after_seconds, in ticks; 0 stands for null
  CredentialTTL,  \* SESSION_TTL_SECONDS, in ticks
  MaxNow,         \* bound: ticks of the clock
  MaxCalls,       \* bound: calls of decide()
  MaxLives        \* bound: lives of the process, one more than its crashes

Tiers == {0, 1, 2}
ReadOnly == 0
ManagerApproval == 2

ActionSpec == [tier: Tiers, retired: BOOLEAN, provisional: BOOLEAN, aws: BOOLEAN]

ASSUME ConstantsAssumption ==
  /\ Keys # {} /\ CatalogActions \subseteq Keys
  /\ Declared \in [CatalogActions -> ActionSpec]
  /\ NoDigest \notin Digests
  /\ ActorRole \in BOOLEAN
  /\ ExpiresAfter \in Nat
  /\ CredentialTTL \in Nat \ {0}
  /\ MaxNow \in Nat /\ MaxCalls \in Nat /\ MaxLives \in Nat

VARIABLES
  now,       \* the wall clock
  life,      \* which life of the process this is
  calls,     \* how many decide() calls there have been, the source of their ids
  pending,   \* _pending: the open card of each key
  outcomes,  \* _outcomes: the recorded outcome of each key
  deciding,  \* _deciding: the claimed keys
  opening,   \* the registrar's local: the card it built, and for which key
  posted,    \* the cards Slack shows, as <<key, digest>>; nothing removes one
  pc, req, card, cred, res,  \* each decider's program counter and locals
  minted,    \* history: every credential minted
  landed,    \* history: every mutation that reached its target
  announced  \* history: calls whose outcome the observer was told of

tables == <<pending, outcomes, deciding>>
locals == <<pc, req, card, cred, res>>
history == <<minted, landed, announced>>
vars == <<now, life, calls, pending, outcomes, deciding, opening, posted,
          pc, req, card, cred, res, minted, landed, announced>>

-----------------------------------------------------------------------------
Never == -1
Roles == {"engineer", "manager"}
Kinds == {"approve", "reject"}

Card == [digest: Digests \cup {NoDigest}, tier: Tiers, provisional: BOOLEAN,
         expires: Nat \cup {Never}]
NoCard == [digest |-> NoDigest, tier |-> 0, provisional |-> FALSE, expires |-> Never]

Outcome == [decision: {"none", "approved", "rejected"}, executed: BOOLEAN,
            error: BOOLEAN, by: Nat]
NoOutcome == [decision |-> "none", executed |-> FALSE, error |-> FALSE, by |-> 0]

(* Decided by call `id`; an approval that did not execute recorded an error. *)
Approved(id, executed) ==
  [decision |-> "approved", executed |-> executed, error |-> ~executed, by |-> id]
Rejected(id) ==
  [decision |-> "rejected", executed |-> FALSE, error |-> FALSE, by |-> id]

IsOpen(k) == pending[k] # NoCard
IsDecided(k) == outcomes[k] # NoOutcome

(* promote(): a threshold that fired raises the tier to 2 and nothing lowers it. *)
Promote(tier, fired) == IF fired /\ tier < ManagerApproval THEN ManagerApproval ELSE tier

RequiresManager(c) == c.tier = ManagerApproval \/ c.provisional

Expiry(t) == IF ExpiresAfter = 0 THEN Never ELSE t + ExpiresAfter
Expired(c) == c.expires # Never /\ now >= c.expires

-----------------------------------------------------------------------------
TypeOK ==
  /\ now \in Nat /\ life \in Nat /\ calls \in Nat
  /\ pending \in [Keys -> Card]
  /\ outcomes \in [Keys -> Outcome]
  /\ deciding \subseteq Keys
  /\ opening \subseteq [stage: {"check", "put"}, key: Keys, card: Card]
  /\ posted \subseteq Keys \X (Digests \cup {NoDigest})
  /\ pc \in [Deciders -> {"idle", "enter", "waiting", "claimed", "checking", "minting",
                          "running", "writing", "recording", "closing", "notifying",
                          "releasing"}]
  /\ req \in [Deciders -> [id: Nat, key: Keys, digest: Digests \cup {NoDigest},
                           kind: Kinds, role: Roles]]
  /\ card \in [Deciders -> Card]
  /\ cred \in [Deciders -> Nat]
  /\ res \in [Deciders -> Outcome]
  /\ minted \subseteq [call: Nat, key: Keys, life: Nat, role: Roles, manager: BOOLEAN,
                       read: Digests \cup {NoDigest}, runs: Digests \cup {NoDigest}]
  /\ landed \subseteq [call: Nat, key: Keys, life: Nat]
  /\ announced \subseteq Nat

NoRequest(k) == [id |-> 0, key |-> k, digest |-> NoDigest, kind |-> "reject",
                 role |-> "engineer"]
NoRequests == [d \in Deciders |-> NoRequest(CHOOSE k \in Keys : TRUE)]

Init ==
  /\ now = 0 /\ life = 1 /\ calls = 0
  /\ pending = [k \in Keys |-> NoCard]
  /\ outcomes = [k \in Keys |-> NoOutcome]
  /\ deciding = {} /\ opening = {} /\ posted = {}
  /\ pc = [d \in Deciders |-> "idle"]
  /\ req = NoRequests
  /\ card = [d \in Deciders |-> NoCard]
  /\ cred = [d \in Deciders |-> 0]
  /\ res = [d \in Deciders |-> NoOutcome]
  /\ minted = {} /\ landed = {} /\ announced = {}

-----------------------------------------------------------------------------
(* Registration, on the event loop's thread.  A refusal (unknown or retired *)
(* action, tier 0, an AWS action without an actor role, a one-shot that was *)
(* not contained or is keyed on something else) leaves every table alone.   *)

Build(k, digest, tier, provisional) ==
  /\ opening = {}
  /\ opening' = {[stage |-> "check", key |-> k,
                  card |-> [digest |-> digest, tier |-> tier, provisional |-> provisional,
                            expires |-> Expiry(now)]]}
  /\ UNCHANGED <<now, life, calls, posted, tables, locals, history>>

Register(k, digest, fired) ==
  /\ k \in CatalogActions
  /\ LET spec == Declared[k]
     IN /\ ~spec.retired
        /\ Promote(spec.tier, fired) # ReadOnly
        /\ spec.aws => ActorRole
        /\ Build(k, digest, Promote(spec.tier, fired), spec.provisional)

RegisterOneShot(k, digest) ==
  /\ k \notin CatalogActions
  /\ Build(k, digest, ManagerApproval, FALSE)

(* `_open`, up to the read of the outcome table: AlreadyDecided or go on. *)
CheckUndecided(o) ==
  /\ o.stage = "check"
  /\ opening' = IF IsDecided(o.key) THEN opening \ {o}
                ELSE (opening \ {o}) \cup {[o EXCEPT !.stage = "put"]}
  /\ UNCHANGED <<now, life, calls, posted, tables, locals, history>>

SameOpenCard(o) ==
  /\ IsOpen(o.key)
  /\ pending[o.key].digest = o.card.digest
  /\ ~Expired(pending[o.key])

(* `_open`, the rest: an identical unexpired card is returned as it is, any *)
(* other is replaced.  The server then posts the card that was returned.    *)
OpenCard(o) ==
  /\ o.stage = "put"
  /\ opening' = opening \ {o}
  /\ pending' = IF SameOpenCard(o) THEN pending ELSE [pending EXCEPT ![o.key] = o.card]
  /\ posted' = posted \cup {<<o.key, o.card.digest>>}
  /\ UNCHANGED <<now, life, calls, outcomes, deciding, locals, history>>

-----------------------------------------------------------------------------
(* decide().  Goto names the program counter a step moves its thread to. *)

Goto(d, from, to) ==
  /\ pc[d] = from
  /\ pc' = [pc EXCEPT ![d] = to]

Key(d) == req[d].key
Id(d) == req[d].id

\* Mutant: the outcome table is trusted alone; a call in flight is not seen.
NeverInFlight(d) == FALSE
InFlight(d) == Key(d) \in deciding

\* Mutant: the card is read again after the checks.
CardOpenNow(d) == pending[Key(d)]
(* What a call executes is the card it checked. *)
CardToRun(d) == card[d]

\* Mutant: a failed execution stays out of the table so that it can be retried.
RecordedUnlessFailed(d) ==
  IF res[d].error THEN outcomes ELSE [outcomes EXCEPT ![Key(d)] = res[d]]
Recorded(d) == [outcomes EXCEPT ![Key(d)] = res[d]]

\* Mutant: the observer is told of approvals only.
ToldApprovals(d) == IF req[d].kind = "reject" THEN announced ELSE announced \cup {Id(d)}
Told(d) == announced \cup {Id(d)}

\* Mutant: a call that recorded nothing keeps its claim.
UnclaimedIfRecorded(d) == IF res[d] = NoOutcome THEN deciding ELSE deciding \ {Key(d)}
Unclaimed(d) == deciding \ {Key(d)}

\* Mutant: no waiter is notified.
StillWaiting(e) == pc[e]
Notified(e) == IF pc[e] = "waiting" THEN "enter" ELSE pc[e]

(* A call that has ended leaves its answer, and which key it was about. *)
Returned(d) == [req EXCEPT ![d] = NoRequest(Key(d))]

(* A click on a posted card, or the call of an in-process caller that holds *)
(* the pending entry itself.  Slack's retries are further clicks.           *)
Click(d, k, digest, kind, role) ==
  /\ calls < MaxCalls
  /\ digest = NoDigest \/ <<k, digest>> \in posted
  /\ Goto(d, "idle", "enter")
  /\ calls' = calls + 1
  /\ req' = [req EXCEPT ![d] = [id |-> calls + 1, key |-> k, digest |-> digest,
                                kind |-> kind, role |-> role]]
  /\ res' = [res EXCEPT ![d] = NoOutcome]
  /\ UNCHANGED <<now, life, opening, posted, tables, card, cred, history>>

Replay(d) ==
  /\ IsDecided(Key(d))
  /\ Goto(d, "enter", "idle")
  /\ res' = [res EXCEPT ![d] = outcomes[Key(d)]]
  /\ req' = Returned(d)
  /\ UNCHANGED <<now, life, calls, opening, posted, tables, card, cred, history>>

Claim(d) ==
  /\ ~IsDecided(Key(d))
  /\ ~InFlight(d)
  /\ Goto(d, "enter", "claimed")
  /\ deciding' = deciding \cup {Key(d)}
  /\ UNCHANGED <<now, life, calls, opening, posted, pending, outcomes, req, card, cred,
                 res, history>>

Wait(d) ==
  /\ ~IsDecided(Key(d))
  /\ InFlight(d)
  /\ Goto(d, "enter", "waiting")
  /\ UNCHANGED <<now, life, calls, opening, posted, tables, req, card, cred, res, history>>

(* `pending()`: the card this call decides on, whatever replaces it later. *)
Lookup(d) ==
  /\ IsOpen(Key(d))
  /\ Goto(d, "claimed", "checking")
  /\ card' = [card EXCEPT ![d] = pending[Key(d)]]
  /\ UNCHANGED <<now, life, calls, opening, posted, tables, req, cred, res, history>>

NotAwaiting(d) ==
  /\ ~IsOpen(Key(d))
  /\ Goto(d, "claimed", "releasing")
  /\ UNCHANGED <<now, life, calls, opening, posted, tables, req, card, cred, res, history>>

IsStale(d) == req[d].digest \notin {NoDigest, card[d].digest}
NotPermitted(d) == RequiresManager(card[d]) /\ req[d].role # "manager"

(* StaleCard, ApprovalExpired and, for an approval only, ApproverNotPermitted. *)
Refuse(d) ==
  /\ \/ IsStale(d)
     \/ Expired(card[d])
     \/ req[d].kind = "approve" /\ NotPermitted(d)
  /\ Goto(d, "checking", "releasing")
  /\ UNCHANGED <<now, life, calls, opening, posted, tables, req, card, cred, res, history>>

Reject(d) ==
  /\ ~IsStale(d) /\ ~Expired(card[d])
  /\ req[d].kind = "reject"
  /\ Goto(d, "checking", "recording")
  /\ res' = [res EXCEPT ![d] = Rejected(Id(d))]
  /\ UNCHANGED <<now, life, calls, opening, posted, tables, req, card, cred, history>>

Permit(d) ==
  /\ ~IsStale(d) /\ ~Expired(card[d])
  /\ req[d].kind = "approve" /\ ~NotPermitted(d)
  /\ Goto(d, "checking", "minting")
  /\ UNCHANGED <<now, life, calls, opening, posted, tables, req, card, cred, res, history>>

Mint(d) ==
  /\ Goto(d, "minting", "running")
  /\ cred' = [cred EXCEPT ![d] = now + CredentialTTL]
  /\ minted' = minted \cup
       {[call |-> Id(d), key |-> Key(d), life |-> life, role |-> req[d].role,
         manager |-> RequiresManager(CardToRun(d)), read |-> req[d].digest,
         runs |-> CardToRun(d).digest]}
  /\ UNCHANGED <<now, life, calls, opening, posted, tables, req, card, res, landed, announced>>

(* STS refused, or the request names no scope: nothing is recorded. *)
MintFails(d) ==
  /\ Goto(d, "minting", "releasing")
  /\ UNCHANGED <<now, life, calls, opening, posted, tables, req, card, cred, res, history>>

(* require_actor_credential: the executor's gate spends the credential. *)
Gate(d) ==
  /\ now < cred[d]
  /\ Goto(d, "running", "writing")
  /\ cred' = [cred EXCEPT ![d] = 0]
  /\ UNCHANGED <<now, life, calls, opening, posted, tables, req, card, res, history>>

(* The inverse, the preconditions and the gate before it, the client and the *)
(* write after it: each may raise with nothing landed.                       *)
RunFails(d) ==
  /\ Goto(d, "running", "recording") \/ Goto(d, "writing", "recording")
  /\ res' = [res EXCEPT ![d] = Approved(Id(d), FALSE)]
  /\ UNCHANGED <<now, life, calls, opening, posted, tables, req, card, cred, history>>

(* The write lands.  The executor returns, or raises all the same: a lost *)
(* answer, or a check of the answer that fails.                           *)
Mutate(d, executed) ==
  /\ Goto(d, "writing", "recording")
  /\ landed' = landed \cup {[call |-> Id(d), key |-> Key(d), life |-> life]}
  /\ res' = [res EXCEPT ![d] = Approved(Id(d), executed)]
  /\ UNCHANGED <<now, life, calls, opening, posted, tables, req, card, cred, minted,
                 announced>>

(* `_record`: the outcome, then the card, then the observer. *)
Record(d) ==
  /\ Goto(d, "recording", "closing")
  /\ outcomes' = Recorded(d)
  /\ UNCHANGED <<now, life, calls, opening, posted, pending, deciding, req, card, cred,
                 res, history>>

Close(d) ==
  /\ Goto(d, "closing", "notifying")
  /\ pending' = [pending EXCEPT ![Key(d)] = NoCard]
  /\ UNCHANGED <<now, life, calls, opening, posted, outcomes, deciding, req, card, cred,
                 res, history>>

(* What the observer does, or raises, changes nothing here. *)
Notify(d) ==
  /\ Goto(d, "notifying", "releasing")
  /\ announced' = Told(d)
  /\ UNCHANGED <<now, life, calls, opening, posted, tables, req, card, cred, res,
                 minted, landed>>

(* The finally of decide(): the claim goes and every waiter wakes, whichever *)
(* key it waits for.                                                         *)
Release(d) ==
  /\ pc[d] = "releasing"
  /\ deciding' = Unclaimed(d)
  /\ pc' = [e \in Deciders |-> IF e = d THEN "idle" ELSE Notified(e)]
  /\ req' = Returned(d)
  /\ card' = [card EXCEPT ![d] = NoCard]
  /\ cred' = [cred EXCEPT ![d] = 0]
  /\ UNCHANGED <<now, life, calls, opening, posted, pending, outcomes, res, history>>

-----------------------------------------------------------------------------
Tick ==
  /\ now < MaxNow
  /\ now' = now + 1
  /\ UNCHANGED <<life, calls, opening, posted, tables, locals, history>>

(* The process dies and a new one starts with empty tables. *)
Restart ==
  /\ life < MaxLives
  /\ life' = life + 1
  /\ pending' = [k \in Keys |-> NoCard]
  /\ outcomes' = [k \in Keys |-> NoOutcome]
  /\ deciding' = {} /\ opening' = {}
  /\ pc' = [d \in Deciders |-> "idle"]
  /\ req' = NoRequests
  /\ card' = [d \in Deciders |-> NoCard]
  /\ cred' = [d \in Deciders |-> 0]
  /\ res' = [d \in Deciders |-> NoOutcome]
  /\ UNCHANGED <<now, calls, posted, history>>

Registration ==
  \/ \E k \in Keys, digest \in Digests :
       \/ \E fired \in BOOLEAN : Register(k, digest, fired)
       \/ RegisterOneShot(k, digest)
  \/ \E o \in opening : CheckUndecided(o) \/ OpenCard(o)

(* What a thread inside decide() does by itself, and what its executor does. *)
Decide(d) ==
  \/ Replay(d) \/ Claim(d) \/ Wait(d) \/ Lookup(d) \/ NotAwaiting(d)
  \/ Refuse(d) \/ Reject(d) \/ Permit(d) \/ Mint(d) \/ MintFails(d)
  \/ Record(d) \/ Close(d) \/ Notify(d) \/ Release(d)

Execute(d) ==
  \/ Gate(d) \/ RunFails(d)
  \/ \E executed \in BOOLEAN : Mutate(d, executed)

Clicks(d) ==
  \E k \in Keys, digest \in Digests \cup {NoDigest}, kind \in Kinds, role \in Roles :
    Click(d, k, digest, kind, role)

Next ==
  \/ Registration
  \/ \E d \in Deciders : Clicks(d) \/ Decide(d) \/ Execute(d)
  \/ Tick
  \/ Restart

Spec == Init /\ [][Next]_vars

(* A thread inside decide() is scheduled.  Nothing bounds an executor: the *)
(* Kubernetes client is given no timeout.                                  *)
FairSpec == Spec /\ \A d \in Deciders : WF_vars(Decide(d))

-----------------------------------------------------------------------------
(* Properties *)

(* The threads that hold the claim on their key. *)
Holding(d) == pc[d] \notin {"idle", "enter", "waiting"}

(* Two threads never hold the claim on one key, and a claimed key has a     *)
(* thread that will release it: decide()'s claim and its finally.           *)
ClaimIsExclusive ==
  /\ \A d, e \in Deciders : Holding(d) /\ Holding(e) /\ Key(d) = Key(e) => d = e
  /\ deciding = {Key(d) : d \in {e \in Deciders : Holding(e)}}

(* Concurrent clicks, retries and replays of one key reach the target at    *)
(* most once in the life of a process: decide()'s "execute at most once".   *)
ExecutesAtMostOnce ==
  \A m, n \in landed : m.key = n.key /\ m.life = n.life => m = n

(* A mutation that landed is on the record: its own call recorded an        *)
(* approval, or is still on its way to.  No refusal, no other decision and  *)
(* no error path can take the place of it.                                  *)
MutationIsRecorded ==
  \A m \in landed : m.life = life =>
    \/ outcomes[m.key].decision = "approved" /\ outcomes[m.key].by = m.call
    \/ \E d \in Deciders : /\ pc[d] = "recording" /\ res[d].decision = "approved"
                           /\ Id(d) = m.call /\ Key(d) = m.key

(* An outcome says executed only if the mutation of its own call landed,    *)
(* and says rejected only if nothing did.                                   *)
OutcomeIsTrue ==
  \A k \in Keys :
    /\ outcomes[k].executed =>
         [call |-> outcomes[k].by, key |-> k, life |-> life] \in landed
    /\ outcomes[k].decision = "rejected" =>
         \A m \in landed : m.life = life => m.key # k

(* The first outcome stands for the life of the process: "written once,     *)
(* returned forever".                                                       *)
OutcomeIsFinal ==
  [][life' = life => \A k \in Keys : IsDecided(k) => outcomes'[k] = outcomes[k]]_vars

(* Whoever asked about a key and got an outcome got the recorded one,       *)
(* whether the call decided or was a replay.                                *)
AnswersAgree ==
  \A d \in Deciders : pc[d] = "idle" /\ res[d] # NoOutcome => outcomes[Key(d)] = res[d]

(* A credential is minted only for a click on the dry run it will execute,  *)
(* by someone senior enough for the card it was read on, and once per key:  *)
(* neither a replay nor a refused approver causes a second one to exist.    *)
CredentialIsJustified ==
  /\ \A c \in minted : /\ c.read \in {NoDigest, c.runs}
                       /\ c.manager => c.role = "manager"
  /\ \A b, c \in minted : b.key = c.key /\ b.life = c.life => b = c

(* The observer (gap signals, the record, the closed messages) is told of a *)
(* decision before the key's claim goes, and never of a call that recorded  *)
(* nothing.                                                                 *)
ObserverHearsDecisions ==
  /\ \A k \in Keys \ deciding : IsDecided(k) => outcomes[k].by \in announced
  /\ \A d \in Deciders : Id(d) \in announced => outcomes[Key(d)].by = Id(d)

(* A call of decide() ends, unless an executor holds some claim for ever:   *)
(* no refusal, failed mint or lost wake-up leaves a caller waiting.         *)
EveryCallEnds ==
  (\A d \in Deciders : []<>(pc[d] \notin {"running", "writing"}))
    => \A d \in Deciders : pc[d] # "idle" ~> pc[d] = "idle"

(* The tables and the mutations implement the abstract promise. *)
Promise == INSTANCE DecideOnce WITH
  decision <- [k \in Keys |-> outcomes[k].decision],
  ran <- {k \in Keys : \E m \in landed : m.key = k /\ m.life = life}

ImplementsDecideOnce == Promise!Spec
=============================================================================
