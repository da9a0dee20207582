------------------------------- MODULE Containment -------------------------------
(***************************************************************************)
(* The containment check of a generated writer (actions/growth/sandbox.py, *)
(* authoring.verify_candidate_containment): for each change its corpus     *)
(* anchors on, a fresh namespace with a clone of the declared resource,    *)
(* one run of the writer in an interpreter of its own, and a verdict on    *)
(* what the sandbox cluster's audit log showed of that run.                *)
(*                                                                         *)
(* The audit log is the only instrument.  The API server writes an entry   *)
(* some time after it answered the request, one line at a time, in the     *)
(* order of the requests, and rotates the file whenever it is full; the    *)
(* check reads the file it has open, up to an entry of its own making.     *)
(***************************************************************************)
EXTENDS Integers, Sequences, SequencesExt

CONSTANTS
  Corpora,     \* the changes a corpus may anchor on, in order, by what each declares
  Keys,        \* the keys of the resource's map
  Decoy,       \* the untouched key beside them
  Values,      \* what they hold
  Untouched,   \* what the decoy holds
  Absent,      \* a key that is not there
  Current,     \* what the clone is seeded with
  Prior,       \* what the writer is asked to restore
  Bodies,      \* the patches a writer may send to its map
  OtherMap,    \* a patch of the resource's other map
  Unseen,      \* nothing observed of the declared resource
  NoReport,    \* no run has been judged
  MaxCalls,    \* bound on the requests of one run
  MaxRotations \* bound on the rotations of the audit log in one run

Fields == Keys \cup {Decoy}
Maps == [Fields -> Values \cup {Absent}]

(* One resource by its exact name; not that; outside the incident's radius; nothing the writer *)
(* could restore; nothing recorded to restore.                                                 *)
Shapes == {"concrete", "pattern", "outside", "no hint", "no prior"}

ASSUME ConstantsAssumption ==
  /\ Corpora \subseteq Seq(Shapes) \ {<<>>}
  /\ Decoy \notin Keys /\ Absent \notin Values /\ Untouched \in Values
  /\ Current \in [Keys -> Values \cup {Absent}]
  /\ DOMAIN Prior \subseteq Keys /\ \A k \in DOMAIN Prior : Prior[k] \in Values \cup {Absent}
  /\ Bodies \subseteq UNION {[K -> Values \cup {Absent}] : K \in SUBSET Fields}
  /\ MaxCalls \in Nat /\ MaxRotations \in Nat

VARIABLES
  todo,      \* the anchors without a run
  report,    \* the verdict of the last one
  pc,
  namespace, \* the sandbox's namespace exists
  created,   \* and the sandbox knows it
  target,    \* what the clone holds
  calls,     \* the requests of this run
  failure,   \* the writer did not complete
  unlogged,  \* requests answered and not in the log yet
  logs,      \* the log since the cursor: the file it was opened on, and each one after a rotation
  half,      \* a first half of the next line is in the last of them
  handle,    \* the file that is open and how many of its lines were read, and a first half of the next
  outside,   \* what was observed: a mutation elsewhere
  landed,    \* the declared resource's map after its last change
  complete,  \* the barrier
  escaped,   \* history: a mutation elsewhere was requested
  lost,      \* history: lines were left behind at a change of files
  stuck      \* history: a create whose answer was lost, a delete that was refused

box == <<namespace, created, target>>
cluster == <<unlogged, logs, half>>
observed == <<handle, outside, landed, complete>>
check == <<todo, report>>
vars == <<check, pc, box, calls, failure, cluster, observed, escaped, lost, stuck>>

-----------------------------------------------------------------------------
Verdicts == {"declared_ref_not_concrete", "declared_ref_outside_radius", "mutated_outside_declared_ref",
             "observation_incomplete", "writer_failed", "nothing_observed", "observed_values_differ",
             "contained"}
ASSUME ReportAssumption == NoReport \notin Verdicts /\ OtherMap \notin Maps /\ Unseen \notin Maps

Objects == {"declared", "neighbour", "elsewhere"}
Mutations == [object : Objects, allowed : BOOLEAN, after : Maps \cup {OtherMap}]
Barrier == [object |-> "barrier", allowed |-> FALSE, after |-> OtherMap]

TypeOK ==
  /\ todo \in Seq(Shapes) /\ report \in Verdicts \cup {NoReport}
  /\ pc \in {"next", "creating", "seeding", "running", "barrier", "reading", "rotated", "teardown",
             "judging", "raising", "over", "raised"}
  /\ namespace \in BOOLEAN /\ created \in BOOLEAN /\ target \in Maps
  /\ calls \in 0..MaxCalls /\ failure \in BOOLEAN
  /\ unlogged \in Seq(Mutations \cup {Barrier}) /\ half \in BOOLEAN
  /\ logs \in Seq(Seq(Mutations \cup {Barrier})) /\ logs # <<>>
  /\ handle \in [file : DOMAIN logs, lines : Nat, torn : BOOLEAN]
  /\ outside \in BOOLEAN /\ landed \in Maps \cup {OtherMap, Unseen} /\ complete \in BOOLEAN
  /\ escaped \in BOOLEAN /\ lost \in BOOLEAN /\ stuck \in BOOLEAN

(* Current values that are recorded as absent are not seeded. *)
Seeded == [k \in Fields |-> IF k = Decoy THEN Untouched ELSE Current[k]]

NothingObserved ==
  [handle |-> [file |-> 1, lines |-> 0, torn |-> FALSE], logs |-> << <<>> >>]

Init ==
  /\ todo \in Corpora /\ report = NoReport /\ pc = "next"
  /\ namespace = FALSE /\ created = FALSE /\ target = Seeded /\ calls = 0 /\ failure = FALSE
  /\ unlogged = <<>> /\ logs = << <<>> >> /\ half = FALSE
  /\ handle = NothingObserved.handle /\ outside = FALSE /\ landed = Unseen /\ complete = FALSE
  /\ escaped = FALSE /\ lost = FALSE /\ stuck = FALSE

-----------------------------------------------------------------------------
(* verify_candidate_containment: one run per anchor, to the first that is not contained. *)

anchor == Head(todo)
Judged(verdict) ==
  /\ report' = verdict /\ todo' = Tail(todo)
  /\ pc' = IF verdict # "contained" \/ Tail(todo) = <<>> THEN "over" ELSE "next"

(* An anchor that carries no values the writer could restore is an error. *)
NoHint ==
  /\ pc = "next" /\ anchor = "no hint" /\ pc' = "raised"
  /\ UNCHANGED <<check, box, calls, failure, cluster, observed, escaped, lost, stuck>>

(* precheck, before anything exists, and a change with nothing recorded to restore. *)
Refuse ==
  /\ pc = "next"
  /\ \/ anchor = "pattern" /\ Judged("declared_ref_not_concrete")
     \/ anchor = "outside" /\ Judged("declared_ref_outside_radius")
     \/ anchor = "no prior" /\ Judged("nothing_observed")
  /\ UNCHANGED <<box, calls, failure, cluster, observed, escaped, lost, stuck>>

(* A new sandbox; the cursor comes first, at the end of the log. *)
Open ==
  /\ pc = "next" /\ anchor = "concrete" /\ pc' = "creating"
  /\ created' = FALSE /\ target' = Seeded /\ calls' = 0 /\ failure' = FALSE
  /\ unlogged' = <<>> /\ logs' = NothingObserved.logs /\ half' = FALSE
  /\ handle' = NothingObserved.handle /\ outside' = FALSE /\ landed' = Unseen /\ complete' = FALSE
  /\ escaped' = FALSE /\ lost' = FALSE
  /\ UNCHANGED <<check, namespace, stuck>>

(* No cluster was chosen, or there is no audit log to watch. *)
CannotOpen ==
  /\ pc = "next" /\ anchor = "concrete" /\ pc' = "raised"
  /\ UNCHANGED <<check, box, calls, failure, cluster, observed, escaped, lost, stuck>>

(* The namespace; a create that raises may have made it. *)
CreateNamespace ==
  /\ pc = "creating"
  /\ \/ pc' = "seeding" /\ namespace' = TRUE /\ created' = TRUE /\ UNCHANGED stuck
     \/ pc' = "raising" /\ UNCHANGED <<namespace, created, stuck>>
     \/ pc' = "raising" /\ namespace' = TRUE /\ stuck' = TRUE /\ UNCHANGED created
  /\ UNCHANGED <<check, target, calls, failure, cluster, observed, escaped, lost>>

\* Mutant: what fails while the namespace is filled is not torn down.
LeavesIt == "raised"
AfterFailedSeed == "raising"

(* The clone, its neighbour and the writer's principal; any of it may raise, and so may *)
(* the wait until the principal's rights are in force.                                  *)
Seed ==
  /\ pc = "seeding" /\ pc' \in {"running", AfterFailedSeed}
  /\ UNCHANGED <<check, box, calls, failure, cluster, observed, escaped, lost, stuck>>

-----------------------------------------------------------------------------
(* run_generated_writer: each call of the writer is relayed to the API as its principal, *)
(* who may patch this type of resource in this namespace only.                           *)

Patched(map, body) == [k \in Fields |-> IF k \in DOMAIN body THEN body[k] ELSE map[k]]

Request(object, after) ==
  /\ pc = "running" /\ calls < MaxCalls /\ calls' = calls + 1
  /\ unlogged' = Append(unlogged, [object |-> object, allowed |-> object # "elsewhere", after |-> after])
  /\ escaped' = (escaped \/ object # "declared")
  /\ UNCHANGED <<check, namespace, created, logs, half, observed, lost, stuck>>

Patch(body) ==
  /\ Request("declared", Patched(target, body)) /\ target' = Patched(target, body)
  /\ UNCHANGED <<pc, failure>>

PatchOther(object) ==
  /\ object # "elsewhere" /\ Request(object, OtherMap)
  /\ UNCHANGED <<pc, failure, target>>

(* A generated writer has no way to catch what its call raises. *)
Denied ==
  /\ Request("elsewhere", OtherMap)
  /\ pc' = "barrier" /\ failure' = TRUE /\ UNCHANGED target

(* It returns, raises or asks for a call that is refused, or its time is up. *)
WriterEnds ==
  /\ pc = "running" /\ pc' = "barrier" /\ failure' \in BOOLEAN
  /\ UNCHANGED <<check, box, calls, cluster, observed, escaped, lost, stuck>>

-----------------------------------------------------------------------------
(* The API server's audit log. *)

(* The first part of a line, and the whole of it. *)
WriteHalf ==
  /\ unlogged # <<>> /\ ~half /\ half' = TRUE
  /\ UNCHANGED <<check, pc, box, calls, failure, unlogged, logs, observed, escaped, lost, stuck>>

WriteLine ==
  /\ unlogged # <<>> /\ half' = FALSE
  /\ logs' = [logs EXCEPT ![Len(logs)] = Append(@, Head(unlogged))] /\ unlogged' = Tail(unlogged)
  /\ UNCHANGED <<check, pc, box, calls, failure, observed, escaped, lost, stuck>>

Rotate ==
  /\ pc \in {"running", "barrier", "reading", "rotated"} /\ ~half /\ Len(logs) <= MaxRotations
  /\ logs' = Append(logs, <<>>)
  /\ UNCHANGED <<check, pc, box, calls, failure, unlogged, half, observed, escaped, lost, stuck>>

-----------------------------------------------------------------------------
(* K8sSandbox.observe *)

(* The last request of the principal, a read of a name nothing else uses; what it raises *)
(* is passed over, and it may not have reached the server.                               *)
AskBarrier ==
  /\ pc = "barrier" /\ pc' = "reading"
  /\ unlogged' \in {unlogged, Append(unlogged, Barrier)}
  /\ UNCHANGED <<check, box, calls, failure, logs, half, observed, escaped, lost, stuck>>

InFile == Len(logs[handle.file])
HalfRead == half /\ handle.file = Len(logs)
ReadAll == InFile = handle.lines /\ handle.torn = HalfRead

\* Mutant: an empty read is taken for the end of the run.
UpToNow(lines) == TRUE
BarrierSeen(lines) == Barrier \in Range(lines)

MutationsIn(lines) == {m \in Range(lines) : m # Barrier}

(* What the lines of one read show. *)
Observe(lines) ==
  LET changes == {i \in DOMAIN lines : lines[i].object = "declared"}
  IN /\ outside' = (outside \/ \E m \in MutationsIn(lines) : m.object # "declared")
     /\ landed' = IF changes = {} THEN landed ELSE lines[Max(changes)].after
     /\ complete' = (complete \/ BarrierSeen(lines))
     /\ pc' = IF complete' THEN "teardown" ELSE "reading"

(* _new_entries: what was appended to the open file, a half line kept for later. *)
Read ==
  /\ pc = "reading"
  /\ IF ReadAll
     THEN pc' = "rotated" /\ UNCHANGED observed
     ELSE /\ Observe(SubSeq(logs[handle.file], handle.lines + 1, InFile))
          /\ handle' = [handle EXCEPT !.lines = InFile, !.torn = HalfRead]
  /\ UNCHANGED <<check, box, calls, failure, cluster, escaped, lost, stuck>>

(* An empty read of a file that is not the log any more: the new one is opened.  A half line *)
(* kept from the old one spoils the first line of the new.                                   *)
CheckRotated ==
  /\ pc = "rotated"
  /\ IF handle.file = Len(logs)
     THEN /\ Observe(<<>>) /\ UNCHANGED <<handle, lost>>
     ELSE LET lines == IF handle.torn THEN SubSeq(Last(logs), 2, Len(Last(logs))) ELSE Last(logs)
          IN /\ Observe(lines)
             /\ handle' = [file |-> Len(logs), lines |-> Len(Last(logs)), torn |-> half]
             /\ lost' = (lost \/ ~ReadAll \/ handle.torn
                              \/ \E i \in handle.file + 1..Len(logs) - 1 : logs[i] # <<>>)
  /\ UNCHANGED <<check, box, calls, failure, cluster, escaped, stuck>>

TimeIsUp ==
  /\ pc = "reading" /\ pc' = "teardown"
  /\ UNCHANGED <<check, box, calls, failure, cluster, observed, escaped, lost, stuck>>

-----------------------------------------------------------------------------
(* The namespace is deleted whatever happened, and what the delete raises is passed over. *)
Teardown ==
  /\ pc \in {"teardown", "raising"}
  /\ pc' = IF pc = "teardown" THEN "judging" ELSE "raised"
  /\ \/ namespace' = (namespace /\ ~created) /\ UNCHANGED stuck
     \/ created /\ stuck' = TRUE /\ UNCHANGED namespace
  /\ UNCHANGED <<check, created, target, calls, failure, cluster, observed, escaped, lost>>

(* The map holds what the writer was given, and the decoy. *)
Restored(map) == (\A k \in DOMAIN Prior : map[k] = Prior[k]) /\ map[Decoy] = Untouched

(* judge: the order is the rule. *)
Verdict ==
  IF outside THEN "mutated_outside_declared_ref"
  ELSE IF ~complete THEN "observation_incomplete"
  ELSE IF failure THEN "writer_failed"
  ELSE IF landed = Unseen THEN "nothing_observed"
  ELSE IF landed = OtherMap \/ ~Restored(landed) THEN "observed_values_differ"
  ELSE "contained"

Judge ==
  /\ pc = "judging" /\ Judged(Verdict)
  /\ UNCHANGED <<box, calls, failure, cluster, observed, escaped, lost, stuck>>

Run ==
  \/ NoHint \/ Refuse \/ Open \/ CannotOpen \/ CreateNamespace \/ Seed
  \/ (\E body \in Bodies : Patch(body)) \/ (\E object \in {"declared", "neighbour"} : PatchOther(object))
  \/ Denied \/ WriterEnds \/ AskBarrier \/ Read \/ CheckRotated \/ TimeIsUp \/ Teardown \/ Judge

Next == Run \/ WriteHalf \/ WriteLine \/ Rotate

Spec == Init /\ [][Next]_vars

-----------------------------------------------------------------------------
(* A verdict that does not blame an escape is given only of a run that tried none, and a    *)
(* contained one only where the resource itself holds what was asked for, although the log  *)
(* lags behind the requests and is rotated under the reader: unless lines were left behind  *)
(* in a file that was rotated away between an empty read and its check.                     *)
ContainedMeansContained ==
  /\ report \in {"writer_failed", "nothing_observed", "observed_values_differ", "contained"}
  /\ pc \in {"next", "over"} /\ ~lost
  => /\ ~escaped
     /\ report = "contained" => Restored(target)

(* However a check ends, its namespaces are gone: unless the cluster refused a delete, or *)
(* created one and its answer was lost.                                                   *)
NothingIsLeftBehind == pc \in {"next", "over", "raised"} /\ ~stuck => ~namespace
=============================================================================
