------------------------------ MODULE AlertIntake ------------------------------
(***************************************************************************)
(* POST /alerts (actions/server.py), the deduper it claims a firing with   *)
(* (ingest/dedupe.py) and Automation.respond (actions/runtime.py).         *)
(*                                                                         *)
(* All of it runs on one event loop: a handler is interrupted only at its  *)
(* await, the investigation, so a request is two steps: it claims its      *)
(* firing, and it registers and posts what the investigation came to.      *)
(* Decisions are made beside it, on the threads of Socket Mode.            *)
(***************************************************************************)
EXTENDS Integers, FiniteSets

CONSTANTS
  Firings,    \* alert firings, by incident id
  Requests,   \* requests that can be open at once
  Digests,    \* dry runs an investigation may propose
  NoDigest,   \* it proposes nothing, or nothing is registered or on a card
  Ttl,        \* how long the deduper knows a firing
  MaxEntries, \* how many firings it knows
  Longest,    \* the longest an investigation runs: the timeouts of the graph's nodes
  MaxTime,    \* bound on the clock
  MaxRestarts \* bound on restarts

ASSUME ConstantsAssumption ==
  /\ NoDigest \notin Digests
  /\ MaxEntries \in Nat \ {0} /\ MaxTime \in Nat /\ MaxRestarts \in Nat
  /\ Ttl \in Nat /\ Longest \in 0..Ttl

VARIABLES
  now,
  entries,    \* the deduper: firing -> [at: when it was claimed, done: its response is known]
  open,       \* the requests being investigated -> [firing, at: when it was claimed]
  registered, \* the gateway's open card for each firing
  decided,    \* the firings whose proposal was decided
  onScreen,   \* the dry run on the newest card posted for each firing
  shown,      \* history: when the claim of the request that posted it was made
  answered,   \* history: when the claim of a firing's last complete posting was made; -1 before
  restarts

cards == <<registered, decided, onScreen, shown, answered, restarts>>
vars == <<now, entries, open, registered, decided, onScreen, shown, answered,
          restarts>>

-----------------------------------------------------------------------------
Entries == [at : 0..MaxTime, done : BOOLEAN]
Proposals == Digests \cup {NoDigest}

TypeOK ==
  /\ now \in 0..MaxTime
  /\ DOMAIN entries \subseteq Firings /\ \A f \in DOMAIN entries : entries[f] \in Entries
  /\ DOMAIN open \subseteq Requests
  /\ \A r \in DOMAIN open : open[r] \in [firing : Firings, at : 0..MaxTime]
  /\ registered \in [Firings -> Proposals] /\ onScreen \in [Firings -> Proposals]
  /\ decided \subseteq Firings /\ shown \in [Firings -> 0..MaxTime]
  /\ answered \in [Firings -> -1..MaxTime] /\ restarts \in 0..MaxRestarts

Init ==
  /\ now = 0
  /\ entries = <<>> /\ open = <<>>
  /\ registered = [f \in Firings |-> NoDigest]
  /\ decided = {}
  /\ onScreen = [f \in Firings |-> NoDigest]
  /\ shown = [f \in Firings |-> 0]
  /\ answered = [f \in Firings |-> -1] /\ restarts = 0

(* The clock moves on; no node of an investigation outlives its timeout. *)
Tick ==
  /\ now < MaxTime
  /\ \A r \in DOMAIN open : now < open[r].at + Longest
  /\ now' = now + 1
  /\ UNCHANGED <<entries, open, cards>>

-----------------------------------------------------------------------------
(* The deduper, each operation under its lock. *)

Without(function, key) == [k \in DOMAIN function \ {key} |-> function[k]]
With(function, key, value) ==
  [k \in DOMAIN function \cup {key} |-> IF k = key THEN value ELSE function[k]]

\* Mutant: a firing is known only once its response is.
KnownOnceDone(f) == f \in DOMAIN entries /\ entries[f].done
\* Mutant: the entry is kept one tick too few.
KnownUntilTtl(f) == f \in DOMAIN entries /\ now - entries[f].at < Ttl
Known(f) == f \in DOMAIN entries /\ now - entries[f].at <= Ttl

(* `_prune`, after the claim of `f`: what lapsed goes, then the oldest of what *)
(* is too many, whether it is finished or not.                                 *)
Fresh(es) == {f \in DOMAIN es : now - es[f].at <= Ttl}
Oldest(es, keep) ==
  /\ keep \subseteq Fresh(es)
  /\ IF Cardinality(Fresh(es)) <= MaxEntries THEN keep = Fresh(es)
     ELSE /\ Cardinality(keep) = MaxEntries
          /\ \A f \in keep, g \in Fresh(es) \ keep : es[g].at <= es[f].at

Only(function, keep) == [k \in keep |-> function[k]]

(* A delivery of `f`.  A known firing is answered from its entry and nothing *)
(* else happens: 202 while it is investigated, its response afterwards.      *)
Claim(r, f) ==
  /\ r \notin DOMAIN open /\ ~Known(f)
  /\ LET es == With(entries, f, [at |-> now, done |-> FALSE])
     IN \E keep \in SUBSET Firings :
          /\ Oldest(es, keep)
          /\ entries' = Only(es, keep)
  /\ open' = With(open, r, [firing |-> f, at |-> now])
  /\ UNCHANGED <<now, cards>>

(* finish(): the entry keeps its claim time; one pruned since is put back. *)
Finished(f) ==
  With(entries, f, [at |-> IF f \in DOMAIN entries THEN entries[f].at ELSE now, done |-> TRUE])

Finish(r, f) == entries' = Finished(f)

Abandon(f) == entries' = Without(entries, f)

-----------------------------------------------------------------------------
(* The handler. *)

\* Mutant: only a failed investigation releases its claim.
KeepClaim(f) == UNCHANGED entries
Release(f) == Abandon(f)

(* The graph, its timeout or the reply's task raises at the await. *)
InvestigationFails(r) ==
  /\ Abandon(open[r].firing)
  /\ open' = Without(open, r)
  /\ UNCHANGED <<now, cards>>

(* register(): a decided proposal opens no card, an identical open card stays, *)
(* another dry run replaces it.                                                *)
Pending(f, proposal) == IF f \in decided THEN NoDigest ELSE proposal

Register(f, proposal) ==
  registered' =
    IF Pending(f, proposal) = NoDigest THEN registered ELSE [registered EXCEPT ![f] = proposal]

(* The rest of respond() and every post, with no await between them: the brief, *)
(* then the card of what was registered; then the claim is finished.            *)
PostAll(r, proposal) ==
  LET f == open[r].firing
  IN /\ Register(f, proposal)
     /\ IF Pending(f, proposal) = NoDigest THEN UNCHANGED <<onScreen, shown>>
        ELSE /\ onScreen' = [onScreen EXCEPT ![f] = proposal]
             /\ shown' = [shown EXCEPT ![f] = open[r].at]
     /\ answered' = [answered EXCEPT ![f] = open[r].at]
     /\ Finish(r, f)
     /\ open' = Without(open, r)
     /\ UNCHANGED <<now, decided, restarts>>

(* Slack refuses the brief or the card: what is registered has no card on screen. *)
PostFails(r, proposal) ==
  LET f == open[r].firing
  IN /\ Register(f, proposal)
     /\ Release(f)
     /\ open' = Without(open, r)
     /\ UNCHANGED <<now, decided, onScreen, shown, answered, restarts>>

(* An approver decides the card on screen; the gateway refuses a stale one. *)
Decide(f) ==
  /\ onScreen[f] # NoDigest /\ onScreen[f] = registered[f]
  /\ decided' = decided \cup {f}
  /\ registered' = [registered EXCEPT ![f] = NoDigest]
  /\ UNCHANGED <<now, entries, open, onScreen, shown, answered, restarts>>

(* The process starts again: what it held is gone, its cards are not for this *)
(* process and a click on one is refused.                                     *)
Restart ==
  /\ restarts < MaxRestarts /\ restarts' = restarts + 1
  /\ entries' = <<>> /\ open' = <<>>
  /\ registered' = [f \in Firings |-> NoDigest] /\ decided' = {}
  /\ onScreen' = [f \in Firings |-> NoDigest] /\ shown' = [f \in Firings |-> 0]
  /\ answered' = [f \in Firings |-> -1]
  /\ now' = now

Handle(r) ==
  \/ InvestigationFails(r)
  \/ \E proposal \in Proposals : PostAll(r, proposal) \/ PostFails(r, proposal)

Deliver(f) == \E r \in Requests : Claim(r, f)

Next ==
  \/ Tick \/ Restart
  \/ \E f \in Firings : Deliver(f) \/ Decide(f)
  \/ \E r \in DOMAIN open : Handle(r)

Spec == Init /\ [][Next]_vars

(* A sender repeats a firing it has no answer to, an investigation ends, and *)
(* Slack does not refuse for ever.                                           *)
Post(r) == r \in DOMAIN open /\ \E proposal \in Proposals : PostAll(r, proposal)
Answer(r) == r \in DOMAIN open /\ Handle(r)

Fairness ==
  /\ \A f \in Firings : WF_vars(Deliver(f))
  /\ \A r \in Requests : WF_vars(Answer(r)) /\ SF_vars(Post(r))

FairSpec == Spec /\ Fairness

-----------------------------------------------------------------------------
(* Properties *)

(* One firing is investigated once at a time, however its deliveries overlap  *)
(* with each other, with failures and with retries: no second model bill, no  *)
(* second registration under way.                                             *)
OneInvestigation ==
  \A r1, r2 \in DOMAIN open : open[r1].firing = open[r2].firing => r1 = r2

(* A firing whose brief and card posted is not posted again until its entry   *)
(* lapses.                                                                    *)
OneAnswerPerTtl ==
  [][\A f \in Firings :
       answered[f] # -1 /\ answered'[f] # answered[f] /\ answered'[f] # -1
         => answered'[f] > answered[f] + Ttl]_vars

(* "no re-registration behind a card someone is reading": until the firing it *)
(* was posted for lapses, the card on screen is the one the gateway would     *)
(* run, or decided.                                                           *)
CardOnScreenIsRegistered ==
  \A f \in Firings :
    onScreen[f] # NoDigest /\ now - shown[f] <= Ttl
      => registered[f] = onScreen[f] \/ f \in decided

(* A firing that keeps being delivered is posted in the end: no failure of an *)
(* investigation or of Slack suppresses its retries for good.                 *)
EveryFiringIsPosted == \A f \in Firings : []<>(answered[f] # -1)

=============================================================================
