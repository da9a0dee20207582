----------------------------- MODULE ConfigMapRevert -----------------------------
(***************************************************************************)
(* A ConfigMap edit, from the API server's audit log to the approved       *)
(* revert and its undo (collectors/k8s_audit.py, actions/inverse.py,       *)
(* dry_run.py, preconditions.py, catalog.py, executors/configmap.py and    *)
(* writers/registry.py).                                                   *)
(*                                                                         *)
(* Everything on the card comes from what was recorded.  An audit entry    *)
(* holds only what was stored, so the collector rebuilds each edit's       *)
(* "before" from the object's previous entry, which may be outside the     *)
(* window, rotated out of the log, left out because the control plane made *)
(* it, or written out of order: the log is in the order requests finished, *)
(* its timestamps are of when they were received.  And the object goes on  *)
(* changing between the collection, the card and the click.                *)
(***************************************************************************)
EXTENDS Integers, Sequences, FiniteSets, FiniteSetsExt, Functions

CONSTANTS
  Objects,     \* ConfigMaps
  Keys,        \* the keys of their data
  Values,      \* the values of a key
  Absent,      \* a key that is not there
  Unknown,     \* no prior state of the object was recorded
  NoHint,      \* a change with no inverse hint
  NoCard,      \* nothing proposed
  Catalogs,    \* merged catalogs: "shipped", "widened" by a list of keys, or with a "writer" action
  Initial,     \* what they hold at first
  Edits,       \* the patches people and the control plane write
  Window,      \* length of the investigation's window
  MaxRequests, \* bound on the requests people and the control plane make
  MaxRotations \* bound on the rotations of the audit log

ASSUME ConstantsAssumption ==
  /\ Catalogs \subseteq {"shipped", "widened", "writer"}
  /\ Absent \notin Values /\ Absent \notin Keys /\ Initial \in [Keys -> Values \cup {Absent}]
  /\ Edits \subseteq UNION {[K -> Values \cup {Absent}] : K \in (SUBSET Keys) \ {{}}}
  /\ Window \in Nat /\ MaxRequests \in Nat /\ MaxRotations \in Nat

VARIABLES
  catalog,  \* the catalog this process loaded
  live,     \* the data of each ConfigMap
  clock,    \* requests received
  inflight, \* those the API server has not finished
  audit,    \* every entry ever written to the audit log, in the order it was written
  kept,     \* how many of them the rotated backup and the current file begin after
  events,   \* the change events collected
  card,     \* what was proposed and is on the card
  done,     \* the execution: what it replaced and what it wrote
  pc

cluster == <<live, clock, inflight, audit, kept>>
vars == <<catalog, cluster, events, card, done, pc>>

-----------------------------------------------------------------------------
Data == [Keys -> Values \cup {Absent}]
Empty == [k \in Keys |-> Absent]
Patches == UNION {[K -> Values \cup {Absent}] : K \in (SUBSET Keys) \ {{}}}
Patched(data, patch) == [k \in Keys |-> IF k \in DOMAIN patch THEN patch[k] ELSE data[k]]

Requests == [at : Nat, object : Objects, who : {"person", "controller"}, patch : Patches]
(* `pre` is history: the data the write replaced. *)
Entries == [at : Nat, object : Objects, who : {"person", "controller"}, body : Data, pre : Data]

TypeOK ==
  /\ catalog \in Catalogs /\ live \in [Objects -> Data] /\ clock \in Nat
  /\ inflight \subseteq Requests /\ audit \in Seq(Entries)
  /\ kept \in [backup : Nat, current : Nat, rotations : 0..MaxRotations]
  /\ pc \in {"running", "collected", "declined", "open", "executed", "undone"}

Init ==
  /\ catalog \in Catalogs
  /\ live = [o \in Objects |-> Initial] /\ clock = 0 /\ inflight = {} /\ audit = <<>>
  /\ kept = [backup |-> 0, current |-> 0, rotations |-> 0]
  /\ events = {} /\ card = NoCard /\ done = NoCard /\ pc = "running"

-----------------------------------------------------------------------------
(* The cluster. *)

Receive(o, who, patch) ==
  /\ clock < MaxRequests /\ clock' = clock + 1
  /\ inflight' = inflight \cup {[at |-> clock, object |-> o, who |-> who, patch |-> patch]}
  /\ UNCHANGED <<catalog, live, audit, kept, events, card, done, pc>>

(* The write, and its ResponseComplete entry. *)
Stored(r) ==
  LET data == Patched(live[r.object], r.patch)
  IN  /\ live' = [live EXCEPT ![r.object] = data]
      /\ audit' = Append(audit, [at |-> r.at, object |-> r.object, who |-> r.who,
                                 body |-> data, pre |-> live[r.object]])

Finish(r) ==
  /\ r \in inflight /\ inflight' = inflight \ {r} /\ Stored(r)
  /\ UNCHANGED <<catalog, clock, kept, events, card, done, pc>>

(* The server rotates the file and keeps one backup. *)
Rotate ==
  /\ kept.rotations < MaxRotations /\ kept.current < Len(audit)
  /\ kept' = [backup |-> kept.current, current |-> Len(audit), rotations |-> kept.rotations + 1]
  /\ UNCHANGED <<catalog, live, clock, inflight, audit, events, card, done, pc>>

-----------------------------------------------------------------------------
(* The collector. *)

(* Entries of an object on disk that the collector records: the control plane's are left out. *)
Recordable(o) == {p \in (kept.backup + 1)..Len(audit) :
                    audit[p].object = o /\ audit[p].who = "person"}

(* An emptied map is serialized as no map at all. *)
HasMap(p) == audit[p].body # Empty

(* From before the window, the object's latest entry, once one of them held a map. *)
Anchor(o, start) ==
  LET old == {p \in Recordable(o) : audit[p].at < start}
  IN  IF \E p \in old : HasMap(p) THEN {Max(old)} ELSE {}

InWindow(o, start) == {p \in Recordable(o) : start <= audit[p].at}

\* Mutant: an entry with no map says nothing of the object's state.
LastMapSeen(p, items) ==
  LET earlier == {q \in items : audit[q].at < audit[p].at /\ HasMap(q)}
  IN  IF earlier = {} THEN Unknown
      ELSE audit[CHOOSE q \in earlier : \A r \in earlier : audit[r].at <= audit[q].at].body

(* The object as the entry received before this one left it. *)
Prior(p, items) ==
  LET earlier == {q \in items : audit[q].at < audit[p].at}
  IN  IF \E q \in earlier : HasMap(q)
        THEN audit[CHOOSE q \in earlier : \A r \in earlier : audit[r].at <= audit[q].at].body
        ELSE Unknown

(* Nobody left out of the log wrote the object, and its writes were logged as they were received. *)
Orderly(o) ==
  \A p \in DOMAIN audit : audit[p].object = o =>
    /\ audit[p].who = "person"
    /\ \A q \in 1..p : audit[q].object = o => audit[q].at <= audit[p].at

(* `pre`, `place` and `orderly` are history. *)
EventAt(p, items) ==
  [id |-> audit[p].at, object |-> audit[p].object, before |-> Prior(p, items),
   after |-> audit[p].body, pre |-> audit[p].pre, place |-> p, orderly |-> Orderly(audit[p].object)]

Changed(e) == {k \in Keys : e.before[k] # e.after[k]}

(* The recorded values of the keys an update changed. *)
Hint(e) ==
  IF e.before = Unknown \/ Changed(e) = {} THEN NoHint
  ELSE [object |-> e.object, prior |-> Restrict(e.before, Changed(e)),
        current |-> Restrict(e.after, Changed(e))]

Collect ==
  /\ pc = "running" /\ pc' = "collected"
  /\ LET start == clock - Window IN
     events' = UNION {{EventAt(p, Anchor(o, start) \cup InWindow(o, start)) : p \in InWindow(o, start)}
                      : o \in Objects}
  /\ UNCHANGED <<catalog, cluster, card, done>>

-----------------------------------------------------------------------------
(* An action and its parameters.  `revert_configmap_key` takes a key and a target value or, *)
(* widened, a list of keys; a writer-backed action names only the object.                   *)

Params == [action : {"revert", "writer"}, object : Objects, key : Keys \cup {Absent},
           target : Values \cup {Absent}, keys : SUBSET Keys]

(* validate_params against the declared schema. *)
Valid(p) ==
  CASE p.action = "writer" -> catalog = "writer" /\ p.key = Absent /\ p.target = Absent /\ p.keys = {}
    [] catalog = "widened" -> TRUE
    [] OTHER -> p.key # Absent /\ p.target # Absent /\ p.keys = {}

Several(hint) == Cardinality(DOMAIN hint.prior) > 1

\* Mutant: the key is compared even where the parameters name none.
NeedsTheKey(p, hint) ==
  p.action = "revert" /\ hint # NoHint /\ hint.object = p.object /\ DOMAIN hint.prior = {p.key}

(* Was the hint recorded by this action's change, on the object and key it names? *)
HintFits(p, hint) ==
  /\ p.action = "revert" /\ hint # NoHint /\ hint.object = p.object
  /\ p.key # Absent => DOMAIN hint.prior = {p.key}

HintFor(p, e) == IF HintFits(p, Hint(e)) THEN Hint(e) ELSE NoHint

(* The widened form fits exactly the keys one change was recorded to touch, on this object. *)
RecordedKeys(p, hint) ==
  /\ p.key = Absent /\ p.target = Absent /\ hint # NoHint /\ Several(hint)
  /\ p.keys # {} /\ hint.object = p.object /\ p.keys = DOMAIN hint.prior

(* What executing a request writes. *)
Writes(p, hint) == IF p.keys # {} THEN Restrict(hint.prior, p.keys) ELSE [k \in {p.key} |-> p.target]

(* A one-key revert inverts to the recorded current value of its key. *)
OneKey(p, hint) ==
  /\ p.keys = {} /\ p.key # Absent /\ p.target # Absent
  /\ hint # NoHint /\ ~Several(hint) /\ \A k \in DOMAIN hint.current : hint.current[k] # Absent

Invertible(p, hint) == IF p.keys # {} THEN RecordedKeys(p, hint) ELSE OneKey(p, hint)

\* Mutant: undone by restoring the value before the change.
UndoesToPrior(p, hint) == IF p.keys # {} THEN Restrict(hint.prior, p.keys) ELSE [k \in {p.key} |-> hint.prior[k]]

(* What executing its inverse writes: the recorded current values. *)
InverseWrites(p, hint) ==
  IF p.keys # {} THEN Restrict(hint.current, p.keys) ELSE [k \in {p.key} |-> hint.current[k]]

(* The card: per key, the recorded value and the one that will replace it. *)
DryRun(p, hint) ==
  [k \in DOMAIN Writes(p, hint) |-> [before |-> hint.current[k], after |-> Writes(p, hint)[k]]]

(* The declared preconditions, from the collected evidence. *)
Met(p, hint) == p.object \in {e.object : e \in events} /\ Invertible(p, hint)

(* validate_proposal, and the inverse of the request it becomes. *)
Opens(p, e) == Valid(p) /\ Invertible(p, HintFor(p, e))

-----------------------------------------------------------------------------
(* The proposer names parameters and cites a change; anything it could not undo is a decline. *)
Propose ==
  /\ pc = "collected"
  /\ \/ \E p \in Params, e \in events :
          /\ Opens(p, e) /\ pc' = "open"
          /\ card' = [params |-> p, hint |-> HintFor(p, e), cited |-> e, shown |-> DryRun(p, HintFor(p, e))]
     \/ pc' = "declined" /\ UNCHANGED card
  /\ UNCHANGED <<catalog, cluster, events, done>>

(* A person's request made and finished at once. *)
Request(object, patch) ==
  /\ clock' = clock + 1 /\ UNCHANGED <<inflight, kept>>
  /\ Stored([at |-> clock, object |-> object, who |-> "person", patch |-> patch])

(* The approved request: its inverse first, then its preconditions, then the patch. *)
Execute ==
  /\ pc = "open" /\ Invertible(card.params, card.hint) /\ Met(card.params, card.hint)
  /\ Request(card.params.object, Writes(card.params, card.hint)) /\ pc' = "executed"
  /\ done' = [replaced |-> live[card.params.object], found |-> Len(audit),
              undo |-> InverseWrites(card.params, card.hint)]
  /\ UNCHANGED <<catalog, events, card>>

(* The recorded inverse, run by hand. *)
Undo ==
  /\ pc = "executed" /\ Request(card.params.object, done.undo) /\ pc' = "undone"
  /\ UNCHANGED <<catalog, events, card, done>>

Next ==
  \/ /\ pc \notin {"executed", "undone", "declined"}
     /\ \/ \E o \in Objects, who \in {"person", "controller"}, patch \in Edits : Receive(o, who, patch)
        \/ \E r \in inflight : Finish(r)
  \/ pc = "running" /\ Rotate
  \/ Collect \/ Propose \/ Execute \/ Undo

Spec == Init /\ [][Next]_vars

-----------------------------------------------------------------------------
(* Safety. *)

(* What a diff says was there before a change is what the change replaced, in a window or out  *)
(* of it, with the map emptied in between, and however often the log was rotated: as long as   *)
(* no excluded principal wrote the object and its requests finished in the order they arrived. *)
BeforeIsWhatWasThere == \A e \in events : e.orderly /\ e.before # Unknown => e.before = e.pre

(* Run after the action, the inverse the card promised gives the object back exactly as the  *)
(* action found it, unless somebody wrote to the object between the change it cites and the  *)
(* action.                                                                                   *)
Drifted ==
  \E p \in (card.cited.place + 1)..done.found : audit[p].object = card.params.object
UndoGivesBackWhatWasReplaced ==
  pc = "undone" /\ ~Drifted => live[card.params.object] = done.replaced

(* A merged writer-backed action takes the recorded values of the fields an update changed. *)
WriterHint(e) == IF catalog = "writer" THEN Hint(e) ELSE NoHint

(* request_for_event: does the catalog hold an action that reverts this change? *)
Closed(e) ==
  \/ \E k \in Keys : /\ Hint(e) # NoHint /\ DOMAIN Hint(e).prior = {k}
                     /\ Hint(e).prior[k] # Absent /\ Hint(e).current[k] # Absent
  \/ Hint(e) # NoHint /\ Several(Hint(e)) /\ catalog = "widened"
  \/ WriterHint(e) # NoHint

(* A change the catalog is said to close, which is no longer mined and gets no one-shot, can be *)
(* put on a card by some proposal that cites it.                                                *)
ClosedChangesCanBeProposed ==
  pc = "collected" => \A e \in events : Closed(e) => \E p \in Params : Opens(p, e)

=============================================================================
