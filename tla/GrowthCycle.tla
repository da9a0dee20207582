------------------------------- MODULE GrowthCycle -------------------------------
(***************************************************************************)
(* The catalog-growth job (actions/growth/job.py): cycles that author a    *)
(* candidate for every eligible gap (generate.py, authoring.py), gate it,  *)
(* sign its evidence, commit it to a branch of its own and open a pull     *)
(* request (pr.py).                                                        *)
(*                                                                         *)
(* The automation server appends to the ledger and to the signal store     *)
(* while a cycle runs, people close, merge and deploy what was proposed    *)
(* and tidy up branches between cycles, the evidence key is rotated, the   *)
(* sandbox and the forge are down at times, and a cycle may die anywhere:  *)
(* an exception that leaves it and the end of its process look alike to    *)
(* the next cycle, which reads everything afresh.                          *)
(***************************************************************************)
EXTENDS Integers, Sequences, FiniteSets

CONSTANTS
  Candidates,  \* the eligible gaps, one candidate each
  CycleOrder,  \* the order mine_history lists them in
  Rungs,       \* which rungs may express them: 1 widening, 2 entry, 3 generated writer
  Events,      \* ledger events that gaps cite
  GapOf,       \* the gap each event is about
  OldEvents,   \* the events recorded and cited before the job first ran
  Remediations, \* those by which a person undid another
  Undoes,      \* the change each of them undid
  Agreeing,    \* those whose values the candidate would write
  Correctable, \* the events that turn out to be automation's
  Threshold,   \* how many incidents make a gap eligible
  Modules,     \* the writers a model may author
  Acceptable,  \* those that pass the allowlist and the probe
  NoModule,    \* no writer: rungs 1 and 2
  EvidenceKeys, \* evidence keys, numbered in the order they are rotated in
  Unrecorded   \* whether a signal may cite a change the ledger's file never got

ASSUME CycleAssumption ==
  /\ CycleOrder \in Seq(Candidates) /\ Rungs \subseteq [Candidates -> 1..3]
  /\ GapOf \in [Events -> Candidates] /\ OldEvents \subseteq Events
  /\ Remediations \subseteq Events /\ Undoes \in [Remediations -> Events]
  /\ Agreeing \subseteq Remediations /\ Correctable \subseteq Events /\ Threshold \in Nat \ {0}
  /\ Acceptable \subseteq Modules /\ NoModule \notin Modules
  /\ EvidenceKeys \subseteq Nat /\ EvidenceKeys # {} /\ Unrecorded \in BOOLEAN

VARIABLES
  known,      \* the events in the server's own ledger
  ledger,     \* those whose line in the ledger file is readable
  fired,      \* those whose brief was recorded whole, its firing with it
  signals,    \* the events the signal store cites
  corpus,     \* the remediations it holds as demonstrations
  corrected,  \* the events whose record names another actor than it did
  stale,      \* those whose signal names the actor of before
  key,        \* the configured evidence key
  deployed,   \* the candidates in the catalog the job runs with
  rung,       \* the rung that expresses each gap
  base,       \* what the remote base branch holds of each candidate
  fetched,    \* the same, as of the repository's last fetch
  branch,     \* each candidate's local branch
  remote,     \* each candidate's branch on the remote
  pr,         \* each candidate's pull request
  contained,  \* history: the writers a sandbox run contained, and for which candidate
  stage,      \* where the cycle is
  gaps,       \* the gaps it has not reached
  seen,       \* the ledger it loaded
  noted,      \* the signals it loaded
  synced,     \* it has fetched the base
  bundle      \* the bundle of the candidate at hand

files == <<known, ledger, fired, signals, corpus, corrected, stale>>
people == <<key, deployed, rung, base>>
repository == <<fetched, branch>>
forge == <<remote, pr>>
cycle == <<stage, gaps, seen, noted, synced, bundle>>
cycleVars == <<files, people, repository, forge, contained, cycle>>

-----------------------------------------------------------------------------
(* What evidence.json signs, the bundle it lies in and the commit made of it. *)

NoEvidence == [signed |-> FALSE]
EmptyBundle == [cites |-> {}, module |-> NoModule, verdict |-> FALSE, evidence |-> NoEvidence]
Evidence == [signed : {TRUE}, candidate : Candidates, cites : SUBSET Events, redone : SUBSET Events,
             verdict : BOOLEAN, module : Modules \cup {NoModule}, key : EvidenceKeys]
Bundles == [cites : SUBSET Events, module : Modules \cup {NoModule}, verdict : BOOLEAN,
            evidence : Evidence \cup {NoEvidence}]

(* A branch is absent, at the base without a commit of its own, or carries the commit. *)
NoBranch == [at |-> "nowhere"]
EmptyBranch == [at |-> "base"]
Commits == [at : {"commit"}, cites : SUBSET Events, module : Modules \cup {NoModule},
            evidence : Evidence, again : BOOLEAN]
Branches == {NoBranch, EmptyBranch} \cup Commits
Carries(b) == b.at = "commit"

(* The base holds a commit that was merged, or its changes squashed into another. *)
Squashed(b) == [b EXCEPT !.at = "squashed"]
OnBase == {NoBranch} \cup Commits \cup {Squashed(b) : b \in Commits}

Steps == {"idle", "signals", "collect", "next", "replay", "contain", "emit", "sync", "branch",
          "commit", "check", "list", "push", "create"}

CycleTypeOK ==
  /\ known \subseteq Events /\ ledger \subseteq known /\ signals \subseteq known /\ fired \subseteq ledger
  /\ corpus \subseteq Remediations /\ corrected \subseteq Events /\ stale \subseteq corrected
  /\ key \in EvidenceKeys /\ deployed \subseteq Candidates /\ rung \in [Candidates -> 1..3]
  /\ base \in [Candidates -> OnBase] /\ fetched \in [Candidates -> OnBase]
  /\ branch \in [Candidates -> Branches] /\ remote \in [Candidates -> Branches]
  /\ pr \in [Candidates -> {"none", "open", "closed", "merged"}]
  /\ contained \subseteq Candidates \X Modules
  /\ stage \in Steps /\ gaps \in Seq(Candidates) /\ (stage \notin {"idle", "signals", "collect", "next"} => gaps # <<>>)
  /\ seen \subseteq Events /\ noted \subseteq Events /\ synced \in BOOLEAN
  /\ bundle \in Bundles

CycleInit ==
  /\ known = OldEvents /\ ledger = OldEvents /\ fired = OldEvents /\ signals = OldEvents
  /\ corpus = {} /\ corrected = {} /\ stale = {}
  /\ key \in EvidenceKeys /\ (\A k \in EvidenceKeys : key <= k)
  /\ deployed = {} /\ rung \in Rungs /\ base = [c \in Candidates |-> NoBranch]
  /\ fetched = base /\ branch = [c \in Candidates |-> NoBranch]
  /\ remote = [c \in Candidates |-> NoBranch] /\ pr = [c \in Candidates |-> "none"]
  /\ contained = {} /\ stage = "idle" /\ gaps = <<>> /\ seen = {} /\ noted = {} /\ synced = FALSE
  /\ bundle = EmptyBundle

-----------------------------------------------------------------------------
(* The server beside the job: a change is recorded, then an incident's signal about it. *)

(* A brief's changes enter the server's ledger, and its file and the alert history unless the *)
(* append is refused.                                                                         *)
RecordChange(e) ==
  /\ e \notin fired /\ known' = known \cup {e}
  /\ \/ ledger' = ledger \cup {e} /\ fired' = fired \cup {e}
     \/ e \notin known /\ Unrecorded /\ UNCHANGED <<ledger, fired>>
  /\ UNCHANGED <<signals, corpus, corrected, stale, people, repository, forge, contained, cycle>>

(* A signal cites a change of the server's ledger; a decline is recorded before its brief's *)
(* changes are appended, and what the file refused is in the ledger all the same.           *)
RecordSignal(e) ==
  /\ e \in known \ signals /\ signals' = signals \cup {e}
  /\ UNCHANGED <<known, ledger, fired, corpus, corrected, stale, people, repository, forge, contained, cycle>>

(* A change is recorded again with its actor resolved: it was automation's.  A cycle at work *)
(* keeps the copy it loaded, so this is as if it came after.                                 *)
Correct(e) ==
  /\ stage = "idle" /\ e \in (ledger \cap Correctable) \ corrected
  /\ corrected' = corrected \cup {e} /\ stale' = stale \cup ({e} \cap signals)
  /\ UNCHANGED <<known, ledger, fired, signals, corpus, people, repository, forge, contained, cycle>>

-----------------------------------------------------------------------------
(* One cycle.  `cur` is the gap at hand. *)

cur == Head(gaps)

(* The outcome of the gap at hand is appended, and the next gap's turn comes. *)
Conclude ==
  /\ stage' = "next" /\ gaps' = Tail(gaps) /\ bundle' = EmptyBundle
  /\ UNCHANGED <<seen, noted, synced>>

(* Nothing of a cycle outlives it but its files. *)
NoCycle ==
  /\ stage' = "idle" /\ gaps' = <<>> /\ seen' = {} /\ noted' = {} /\ synced' = FALSE
  /\ bundle' = EmptyBundle

(* mine_once: fresh stores, the ledger first and the signals after it. *)
StartCycle ==
  /\ stage = "idle" /\ stage' = "signals" /\ seen' = ledger
  /\ UNCHANGED <<gaps, noted, synced, bundle, files, people, repository, forge, contained>>

LoadSignals ==
  /\ stage = "signals" /\ stage' = "collect" /\ noted' = signals
  /\ UNCHANGED <<gaps, seen, synced, bundle, files, people, repository, forge, contained>>

(* collect_history: what the sources show of the window joins the ledger; then the gaps are *)
(* mined, and with them who undid what their signals cite (which of several: GapSignals).   *)
Collect ==
  /\ stage = "collect" /\ stage' = "next" /\ gaps' = CycleOrder
  /\ \E shown \in SUBSET (known \ seen) :
       /\ seen' = seen \cup shown /\ ledger' = ledger \cup shown
  /\ \E found \in SUBSET {e \in (Remediations \cap seen') \ corrected : Undoes[e] \in seen' \cap noted} :
       corpus' = corpus \cup found
  /\ UNCHANGED <<known, fired, signals, corrected, stale, noted, synced, bundle,
                 people, repository, forge, contained>>

(* The changes that motivated the gap, and the remediations that demonstrate its fix. *)
Demonstrations(c) == {e \in corpus : GapOf[Undoes[e]] = c}
Cited(c) == {e \in noted : GapOf[e] = c} \cup Demonstrations(c)

(* A writer is probed against a fake client before it is rendered into a module. *)
Probed == IF rung[cur] = 3 THEN Acceptable ELSE {NoModule}

(* The rung that expresses the gap names the candidate; rung 3 asks a model for a writer. *)
Author ==
  /\ stage = "next" /\ gaps # <<>> /\ cur \notin deployed
  /\ \E m \in Probed :
       bundle' = [EmptyBundle EXCEPT !.cites = Cited(cur), !.module = m]
  /\ stage' = "replay"
  /\ UNCHANGED <<gaps, seen, noted, synced, files, people, repository, forge, contained>>

(* No candidate: the catalog expresses the gap by now. *)
Expressed ==
  /\ stage = "next" /\ gaps # <<>> /\ cur \in deployed
  /\ Conclude /\ UNCHANGED <<files, people, repository, forge, contained>>

(* Or what was authored is refused: outside the allowlist, or failing its probe. *)
NotAcceptable ==
  /\ stage = "next" /\ gaps # <<>> /\ cur \notin deployed /\ rung[cur] = 3
  /\ Conclude /\ UNCHANGED <<files, people, repository, forge, contained>>

(* corroborate: the gap recounted from the signals S whose change and firing the ledger L holds, *)
(* as they describe it.                                                                         *)
Corroborated(c, S, L) ==
  Cardinality({e \in S \cap L \cap fired : GapOf[e] = c} \ stale) >= Threshold

(* The candidate in dry run against one demonstration: a person's change, undone as they did. *)
Agrees(e, L) == e \in Agreeing \ corrected /\ {e, Undoes[e]} \subseteq L

(* replay_corpus: no corpus is not a pass, and one demonstration that disagrees blocks the gap. *)
Supported(c, S, L) ==
  /\ Corroborated(c, S, L)
  /\ Demonstrations(c) # {} /\ \A e \in Demonstrations(c) : Agrees(e, L)

Replays == Supported(cur, noted, seen)

Replay ==
  /\ stage = "replay"
  /\ IF Replays THEN /\ stage' = IF rung[cur] = 3 THEN "contain" ELSE "emit"
                     /\ UNCHANGED <<gaps, seen, noted, synced, bundle>>
                ELSE Conclude
  /\ UNCHANGED <<files, people, repository, forge, contained>>

(* The writer runs in a sandbox, against every change its corpus anchors on. *)
Contain ==
  /\ stage = "contain" /\ stage' = "emit" /\ bundle' = [bundle EXCEPT !.verdict = TRUE]
  /\ contained' = contained \cup {<<cur, bundle.module>>}
  /\ UNCHANGED <<gaps, seen, noted, synced, files, people, repository, forge>>

(* The run escaped, was inconclusive, or no sandbox could be reached: the gap is blocked. *)
NotContained ==
  /\ stage = "contain" /\ Conclude
  /\ UNCHANGED <<files, people, repository, forge, contained>>

(* emit_pr_bundle refuses a generated writer whose run was not contained. *)
ContainmentRequired(c) == rung[c] = 3 /\ ~bundle.verdict

(* attest_bundle signs only when the ledger holds every cited event, and raises otherwise; *)
(* nothing in the cycle catches that (see Abort).                                          *)
\* Mutant: signs when any cited change is in the ledger.
SomeResolve(cites) == cites \cap seen # {}

Resolves(cites) == cites # {} /\ cites \subseteq seen

EmitAndAttest ==
  /\ stage = "emit" /\ ~ContainmentRequired(cur) /\ Resolves(bundle.cites)
  /\ bundle' = [bundle EXCEPT !.evidence =
       [signed |-> TRUE, candidate |-> cur, cites |-> bundle.cites,
        redone |-> bundle.cites \cap corrected, verdict |-> bundle.verdict, module |-> bundle.module, key |-> key]]
  /\ stage' = IF synced THEN "branch" ELSE "sync"
  /\ UNCHANGED <<gaps, seen, noted, synced, files, people, repository, forge, contained>>

(* sync_base: once per cycle, the base a proposal starts from. *)
SyncBase ==
  /\ stage = "sync" /\ stage' = "branch" /\ synced' = TRUE /\ fetched' = base
  /\ UNCHANGED <<gaps, seen, noted, bundle, files, people, branch, forge, contained>>

(* commit_bundle_to_branch: a branch that exists is left as it is; `checkout -b` makes one. *)
MakeBranch ==
  /\ stage = "branch"
  /\ IF branch[cur] = NoBranch
       THEN branch' = [branch EXCEPT ![cur] = EmptyBranch] /\ stage' = "commit"
       ELSE stage' = "check" /\ UNCHANGED branch
  /\ UNCHANGED <<gaps, seen, noted, synced, bundle, files, people, fetched, forge, contained>>

(* A widening of what the base has already leaves the catalog as it is: with the evidence the *)
(* base has as well, there is nothing to commit.                                              *)
NothingToCommit ==
  rung[cur] = 1 /\ fetched[cur] # NoBranch /\ fetched[cur].evidence = bundle.evidence

(* The entry, its evidence and its writer, as one commit on the branch. *)
Commit ==
  /\ stage = "commit" /\ ~NothingToCommit /\ stage' = "check"
  /\ branch' = [branch EXCEPT ![cur] =
       [at |-> "commit", cites |-> bundle.cites, module |-> bundle.module, evidence |-> bundle.evidence,
        again |-> fetched[cur] # NoBranch]]
  /\ UNCHANGED <<gaps, seen, noted, synced, bundle, files, people, fetched, forge, contained>>

(* The rules of check_agent_commits that this commit breaks.  They ask evidence only of one that *)
(* changes the catalog or a writer, and one that does neither adds the evidence alone.           *)
EvidenceOnly(c, commit) == commit.again /\ rung[c] = 1

EvidenceUnverified(c, commit) ==
  /\ ~EvidenceOnly(c, commit)
  /\ \/ commit.evidence.key # key
     \/ commit.cites = {} \/ commit.cites # commit.evidence.cites
     \/ commit.evidence.candidate # c
     \/ commit.again
\* Mutant: takes any contained run for a run of this writer.
NeverContained(commit) == commit.module # NoModule /\ ~commit.evidence.verdict

ContainmentUnverified(commit) ==
  /\ commit.module # NoModule
  /\ ~commit.evidence.verdict \/ commit.evidence.module # commit.module

(* A generated module is the template around two functions the allowlist takes, and no more. *)
ModuleInvalid(commit) == commit.module \in Modules \ Acceptable

Violates(c, commit) ==
  EvidenceUnverified(c, commit) \/ ContainmentUnverified(commit) \/ ModuleInvalid(commit)

(* base..branch holds the commit unless the base has it already: merged with its history. *)
InRange(c) == Carries(branch[c]) /\ fetched[c] # branch[c]
\* Mutant: checks only the branch this cycle committed.
OwnBranchRejected(c) == InRange(c) /\ branch[c].evidence = bundle.evidence /\ Violates(c, branch[c])

\* Mutant: leaves a branch of an earlier cycle where it is.
LeavesOldBranches(c) ==
  \/ InRange(c) /\ Violates(c, branch[c])
  \/ Carries(branch[c]) /\ branch[c].evidence # bundle.evidence

Rejected(c) == InRange(c) /\ Violates(c, branch[c])

Check ==
  /\ stage = "check"
  /\ IF Rejected(cur) THEN Conclude
                      ELSE stage' = "list" /\ UNCHANGED <<gaps, seen, noted, synced, bundle>>
  /\ UNCHANGED <<files, people, repository, forge, contained>>

-----------------------------------------------------------------------------
(* open_pull_request: an open pull request is the answer; otherwise push, then create. *)

(* A forge that cannot list pull requests reads as one that has none open. *)
ListPRs ==
  /\ stage = "list"
  /\ \/ pr[cur] = "open" /\ Conclude
     \/ stage' = "push" /\ UNCHANGED <<gaps, seen, noted, synced, bundle>>
  /\ UNCHANGED <<files, people, repository, forge, contained>>

(* Git pushes what follows from what the remote has. *)
Pushable(c) == remote[c] \in {NoBranch, EmptyBranch, branch[c]}

Push ==
  /\ stage = "push" /\ Pushable(cur) /\ stage' = "create"
  /\ remote' = [remote EXCEPT ![cur] = branch[cur]]
  /\ UNCHANGED <<gaps, seen, noted, synced, bundle, files, people, repository, pr, contained>>

(* The forge takes a pull request for a branch with commits of its own and none open. *)
Creatable(c) == pr[c] # "open" /\ Carries(remote[c]) /\ base[c] # remote[c]

Create ==
  /\ stage = "create" /\ Creatable(cur)
  /\ pr' = [pr EXCEPT ![cur] = "open"] /\ Conclude
  /\ UNCHANGED <<files, people, repository, remote, contained>>

(* Whatever fails here is caught, and the branch is left for the next cycle. *)
ForgeFails ==
  /\ stage \in {"push", "create"} /\ Conclude
  /\ UNCHANGED <<files, people, repository, forge, contained>>

(* What it cannot take, it refuses every time. *)
ForgeRefuses ==
  /\ (stage = "push" /\ ~Pushable(cur)) \/ (stage = "create" /\ ~Creatable(cur))
  /\ ForgeFails

-----------------------------------------------------------------------------
(* Every gap has its outcome. *)
EndCycle ==
  /\ stage = "next" /\ gaps = <<>> /\ NoCycle
  /\ UNCHANGED <<files, people, repository, forge, contained>>

(* The cycle ends before that: an exception leaves it (a ledger that cannot vouch for evidence, *)
(* a step of git that fails, evidence that does not resolve) or its process ends.               *)
Abort ==
  /\ stage # "idle" /\ (stage = "next" => gaps # <<>>) /\ NoCycle
  /\ UNCHANGED <<files, people, repository, forge, contained>>

(* Of those, the ones that are certain. *)
CommitFails == stage = "commit" /\ NothingToCommit /\ Abort
EvidenceUnresolved == stage = "emit" /\ ~Resolves(bundle.cites) /\ Abort

-----------------------------------------------------------------------------
(* People and the forge.  They work on the local repository between cycles. *)

CloseOrMerge(c) ==
  /\ pr[c] = "open"
  /\ \/ pr' = [pr EXCEPT ![c] = "closed"] /\ UNCHANGED base
     \/ /\ pr' = [pr EXCEPT ![c] = "merged"]
        /\ \E how \in {remote[c], Squashed(remote[c])} : base' = [base EXCEPT ![c] = how]
  /\ UNCHANGED <<files, key, deployed, rung, repository, remote, contained, cycle>>

(* The merged catalog comes with a new process. *)
Deploy(c) ==
  /\ stage = "idle" /\ base[c] # NoBranch /\ c \notin deployed /\ deployed' = deployed \cup {c}
  /\ UNCHANGED <<files, key, rung, base, repository, forge, contained, cycle>>

(* An unpushed commit of the agent amended by hand, with its trailer kept: another writer, no cites. *)
Amend(c) ==
  /\ stage = "idle" /\ Carries(branch[c]) /\ remote[c] = NoBranch
  /\ \/ \E m \in Modules \ {branch[c].module} :
          /\ rung[c] = 3 /\ branch' = [branch EXCEPT ![c].module = m]
     \/ branch' = [branch EXCEPT ![c].cites = {}]
  /\ UNCHANGED <<files, people, fetched, forge, contained, cycle>>

(* A branch tidied away, on the remote too. *)
DeleteBranch(c) ==
  /\ stage = "idle" /\ branch[c] # NoBranch /\ pr[c] # "open"
  /\ branch' = [branch EXCEPT ![c] = NoBranch] /\ remote' = [remote EXCEPT ![c] = NoBranch]
  /\ UNCHANGED <<files, people, fetched, pr, contained, cycle>>

RotateKey(k) ==
  /\ stage = "idle" /\ k > key /\ key' = k
  /\ UNCHANGED <<files, deployed, rung, base, repository, forge, contained, cycle>>

-----------------------------------------------------------------------------
Step ==
  \/ StartCycle \/ LoadSignals \/ Collect \/ Author \/ Expressed \/ NotAcceptable
  \/ Replay \/ Contain \/ NotContained \/ EmitAndAttest \/ EvidenceUnresolved \/ SyncBase \/ MakeBranch \/ Commit \/ CommitFails
  \/ Check \/ ListPRs \/ Push \/ Create \/ ForgeRefuses \/ EndCycle

CycleNext ==
  \/ Step \/ ForgeFails \/ Abort
  \/ \E e \in Events : RecordChange(e) \/ RecordSignal(e) \/ Correct(e)
  \/ \E c \in Candidates : CloseOrMerge(c) \/ Deploy(c) \/ Amend(c) \/ DeleteBranch(c)
  \/ \E k \in EvidenceKeys : RotateKey(k)

CycleSpec == CycleInit /\ [][CycleNext]_cycleVars

(* The schedule goes on; crashes come to an end, though not the cycles that end themselves; and *)
(* no gap meets a model without a usable writer, a sandbox that does not contain it or a forge  *)
(* that is down at every one of its tries.                                                      *)
FairCycle ==
  /\ CycleSpec /\ WF_cycleVars(Step) /\ <>[][Abort => EvidenceUnresolved \/ CommitFails]_cycleVars
  /\ \A c \in Candidates :
       /\ SF_cycleVars(Author /\ cur = c) /\ SF_cycleVars(Contain /\ cur = c)
       /\ SF_cycleVars(Push /\ cur = c) /\ SF_cycleVars(Create /\ cur = c)

-----------------------------------------------------------------------------
(* What reaches the remote is a commit the rules found nothing against, under the key in    *)
(* use, although the branch may be of an earlier cycle, amended or signed with another key. *)
PushedWasChecked ==
  [][\A c \in Candidates :
       /\ remote'[c] # remote[c] /\ Carries(remote'[c])
       => ~Violates(c, remote'[c]) \/ remote'[c] = fetched[c]]_cycleVars

(* A generated writer on the remote was run in a sandbox for its gap, and contained: the one *)
(* that was run, although each cycle authors a writer afresh and a branch keeps its first.   *)
PushedWriterWasContained ==
  \A c \in Candidates :
    Carries(remote[c]) /\ rung[c] = 3 => <<c, remote[c].module>> \in contained

(* Every change cited on the remote is in the ledger, although the server's signals run ahead *)
(* of the ledger a cycle has loaded; but for a commit of evidence alone, which nothing checks. *)
PushedEvidenceResolves ==
  \A c \in Candidates :
    Carries(remote[c]) /\ ~EvidenceOnly(c, remote[c]) =>
      remote[c].cites # {} /\ remote[c].cites \subseteq ledger

(* A commit nothing is held against gets its pull request, over crashes and a forge that is  *)
(* down, unless it is amended, deleted, outlives its key, the catalog closes its gap, a      *)
(* signal cites a change the ledger's file does not have, or the gap itself loses what it    *)
(* rested on: a person undid it otherwise since, or too few of its signals are vouched for.  *)
CommitGetsItsPullRequest ==
  \A c \in Candidates :
    Carries(branch[c]) ~> \/ pr[c] # "none" \/ ~Carries(branch[c]) \/ Violates(c, branch[c])
                         \/ c \in deployed \/ ~(signals \subseteq ledger)
                         \/ ~Supported(c, signals, ledger)
=============================================================================
