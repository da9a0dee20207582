------------------------------ MODULE ChainedLog ------------------------------
(***************************************************************************)
(* ledger/chain.py: one append-only JSONL file under a keyed hash chain,   *)
(* and the LedgerStore (ledger/store.py) that each of several processes    *)
(* keeps over it.                                                          *)
(*                                                                         *)
(* A writer appends under an exclusive flock; a store is loaded without    *)
(* it.  A line reaches the file in three steps (a fragment, the whole      *)
(* line, its newline), a process may crash at any of them, and the system  *)
(* then releases its lock.                                                 *)
(***************************************************************************)
EXTENDS Integers, Sequences, SequencesExt

CONSTANTS
  Writers,     \* processes that hold a store over the file
  EvidenceKeys,
  NoKey,       \* FAZEROPS_EVIDENCE_KEY is not set
  StartKeys,   \* what a process may be started with: a key, or none
  Records,
  NoMac, Fragment, Nothing, \* what a mac, a line or the tail of the file may also be
  Batches,     \* what a collector run may extend the ledger with
  FiringsOf,   \* the firings each process records once: the server its alerts
  MaxRecords,  \* bound: records that are asked to be appended
  MaxCrashes,  \* bound: crashes
  MaxEdits     \* bound: edits from outside

ASSUME ConstantsAssumption ==
  /\ StartKeys \subseteq EvidenceKeys \cup {NoKey} /\ NoKey \notin EvidenceKeys
  /\ FiringsOf \in [Writers -> SUBSET Records] /\ Batches \subseteq Seq(Records)
  /\ MaxRecords \in Nat /\ MaxCrashes \in Nat /\ MaxEdits \in Nat

VARIABLES
  lines,   \* the lines of the file that end in a newline
  torn,    \* what follows the last newline: Nothing, a Fragment of a line, or a whole line
  lock,    \* the processes that hold the file's flock
  key,     \* the key each process was started with
  pc,      \* each process: down, idle, opened (waits for the lock), locked, writing
  batch,   \* the records its append writes
  written, \* how many of them are lines by now
  tail,    \* the mac its next line chains from; NoMac in an unsigned file
  store,   \* the records in its memory
  acked,   \* history: records whose append returned
  honest,  \* history: the records an unedited file holds, in order
  asked, crashes, edits \* what the bounds count

file == <<lines, torn>>
process == <<key, pc, batch, written, tail, store>>
bounds == <<asked, crashes, edits>>
vars == <<lines, torn, lock, key, pc, batch, written, tail, store, acked, honest, asked, crashes,
          edits>>

-----------------------------------------------------------------------------
(* Lines.  A mac is known by what it was computed over, back to the first   *)
(* line of its chain: nothing else has it.                                   *)

Genesis == <<>>
Mac(k, prev, rec) == Append(prev, <<k, rec>>)
MacOver(k, recs) == [i \in DOMAIN recs |-> <<k, recs[i]>>]

Signed(k, prev, rec) == [prev |-> prev, mac |-> Mac(k, prev, rec), rec |-> rec]
Unsigned(rec) == [prev |-> NoMac, mac |-> NoMac, rec |-> rec]

Macs == Seq((EvidenceKeys \cup {NoKey}) \X Records)
Lines == [prev : Macs \cup {NoMac}, mac : Macs \cup {NoMac}, rec : Records]

ASSUME LinesAssumption ==
  /\ NoMac \notin Macs
  /\ Fragment # Nothing /\ Fragment \notin Lines /\ Nothing \notin Lines

IsLine(l) == l \notin {Nothing, Fragment}
IsSigned(l) == l.mac # NoMac

RecordsOf(ls) == [i \in DOMAIN ls |-> ls[i].rec]
RecordsIn(ls) == {ls[i].rec : i \in {j \in DOMAIN ls : IsLine(ls[j])}}

-----------------------------------------------------------------------------
(* read(): every parseable line, an unterminated last one included.  A line *)
(* that does not parse is an edit unless it is the last.                    *)

Content == IF torn = Nothing THEN lines ELSE Append(lines, torn)
Whole(ls) == IF ls # <<>> /\ Last(ls) = Fragment THEN Front(ls) ELSE ls

Entries == Whole(Content)
Garbled == \E i \in DOMAIN Entries : Entries[i] = Fragment

\* Mutant: a line need not name the line before it.
FollowsAnything(ls, k, i) == ls[i].mac = Mac(k, ls[i].prev, ls[i].rec)
Follows(ls, k, i) ==
  /\ ls[i].prev = IF i = 1 THEN Genesis ELSE ls[i - 1].mac
  /\ ls[i].mac = Mac(k, ls[i].prev, ls[i].rec)

Integrity(k) ==
  LET signed == {i \in DOMAIN Entries : IsSigned(Entries[i])}
  IN CASE Garbled -> "broken"
       [] ~Garbled /\ Entries = <<>> -> IF k = NoKey THEN "unsigned" ELSE "verified"
       [] ~Garbled /\ Entries # <<>> /\ signed = {} -> "unsigned"
       [] ~Garbled /\ signed # {} ->
            IF signed # DOMAIN Entries THEN "broken"
            ELSE IF k = NoKey THEN "unverified"
            ELSE IF \A i \in DOMAIN Entries : Follows(Entries, k, i) THEN "verified"
            ELSE "broken"

-----------------------------------------------------------------------------
TypeOK ==
  /\ lines \in Seq(Lines \cup {Fragment}) /\ torn \in Lines \cup {Nothing, Fragment}
  /\ lock \subseteq Writers
  /\ key \in [Writers -> StartKeys \cup {NoKey}]
  /\ pc \in [Writers -> {"down", "idle", "opened", "locked", "writing"}]
  /\ batch \in [Writers -> Seq(Records)] /\ written \in [Writers -> Nat]
  /\ \A w \in Writers : written[w] <= Len(batch[w])
  /\ tail \in [Writers -> Macs \cup {NoMac}]
  /\ store \in [Writers -> SUBSET Records]
  /\ acked \subseteq Records /\ honest \in Seq(Records)
  /\ asked \in Nat /\ crashes \in Nat /\ edits \in Nat

Init ==
  /\ lines = <<>> /\ torn = Nothing /\ lock = {}
  /\ key = [w \in Writers |-> NoKey] /\ pc = [w \in Writers |-> "down"]
  /\ batch = [w \in Writers |-> <<>>]
  /\ tail = [w \in Writers |-> NoMac]
  /\ store = [w \in Writers |-> {}]
  /\ acked = {} /\ honest = <<>>
  /\ written = [w \in Writers |-> 0]
  /\ asked = 0 /\ crashes = 0 /\ edits = 0

\* Mutant: the file is not replayed.
ReplayedNothing == {}
(* A process starts: its store replays whatever the file holds by now. *)
Replayed == RecordsIn(Entries)

Load(w) ==
  /\ pc[w] = "down"
  /\ pc' = [pc EXCEPT ![w] = "idle"]
  /\ \E k \in StartKeys : key' = [key EXCEPT ![w] = k]
  /\ store' = [store EXCEPT ![w] = Replayed]
  /\ UNCHANGED <<file, lock, batch, written, tail, acked, honest, bounds>>

Remember(w, recs) ==
  /\ pc[w] = "idle" /\ asked + Len(recs) <= MaxRecords
  /\ asked' = asked + Len(recs)
  /\ pc' = [pc EXCEPT ![w] = "opened"]
  /\ batch' = [batch EXCEPT ![w] = recs]
  /\ written' = [written EXCEPT ![w] = 0]
  /\ store' = [store EXCEPT ![w] = @ \cup ToSet(recs)]
  /\ UNCHANGED <<file, lock, key, tail, acked, honest, crashes, edits>>

(* LedgerStore.extend: every event, known or not, in one append. *)
Extend(w, recs) == recs # <<>> /\ Remember(w, recs)

(* LedgerStore.record_alert: once, as far as the memory of this process goes. *)
RecordOnce(w, r) == r \notin store[w] /\ Remember(w, <<r>>)

\* Mutant: the file is appended to without its lock.
AlwaysFree == TRUE
Free == lock = {}

Lock(w) ==
  /\ pc[w] = "opened" /\ Free
  /\ lock' = lock \cup {w}
  /\ pc' = [pc EXCEPT ![w] = "locked"]
  /\ UNCHANGED <<file, key, batch, written, tail, store, acked, honest, bounds>>

LastLine == lines[Len(lines)]

(* `_signing_mode`: a file keeps the mode it was started in. *)
SigningMode(w) == IF lines = <<>> THEN key[w] # NoKey ELSE IsSigned(LastLine)

(* The tail is not JSON, or the file is signed and this process has no key. *)
Refuses(w) ==
  /\ lines # <<>>
  /\ LastLine # Fragment => IsSigned(LastLine) /\ key[w] = NoKey

\* Mutant: the cut goes back to the newline before the last one.
CutOneTooMany == IF torn = Nothing THEN lines ELSE Front(lines)
(* truncate_torn_line(): what is left of the file's whole lines. *)
Kept == lines

(* `_repair_and_read_tail`, under the lock. *)
Repair(w) ==
  /\ pc[w] = "locked" /\ ~Refuses(w)
  /\ lines' = Kept /\ torn' = Nothing
  /\ tail' = [tail EXCEPT ![w] =
       IF ~SigningMode(w) THEN NoMac ELSE IF lines = <<>> THEN Genesis ELSE LastLine.mac]
  /\ pc' = [pc EXCEPT ![w] = "writing"]
  /\ UNCHANGED <<lock, key, batch, written, store, acked, honest, bounds>>

(* LedgerIntegrityError: the torn line goes, nothing is appended.  The store *)
(* keeps the records it already put in memory.                               *)
Refuse(w) ==
  /\ pc[w] = "locked" /\ Refuses(w)
  /\ torn' = Nothing
  /\ lock' = lock \ {w}
  /\ pc' = [pc EXCEPT ![w] = "idle"]
  /\ UNCHANGED <<lines, key, batch, written, tail, store, acked, honest, bounds>>

NextRecord(w) == batch[w][written[w] + 1]
NextLine(w) ==
  IF tail[w] = NoMac THEN Unsigned(NextRecord(w))
  ELSE Signed(key[w], tail[w], NextRecord(w))

Writing(w) == pc[w] = "writing" /\ written[w] < Len(batch[w])

WriteFragment(w) ==
  /\ Writing(w) /\ torn = Nothing
  /\ torn' = Fragment
  /\ UNCHANGED <<lines, lock, process, acked, honest, bounds>>

WriteRest(w) ==
  /\ Writing(w) /\ torn = Fragment
  /\ torn' = NextLine(w)
  /\ UNCHANGED <<lines, lock, process, acked, honest, bounds>>

WriteNewline(w) ==
  /\ Writing(w) /\ IsLine(torn)
  /\ lines' = Append(lines, torn) /\ torn' = Nothing
  /\ honest' = Append(honest, torn.rec)
  /\ tail' = [tail EXCEPT ![w] = torn.mac]
  /\ written' = [written EXCEPT ![w] = @ + 1]
  /\ UNCHANGED <<lock, key, pc, batch, store, acked, bounds>>

(* append() returns. *)
Unlock(w) ==
  /\ pc[w] = "writing" /\ written[w] = Len(batch[w])
  /\ lock' = lock \ {w}
  /\ pc' = [pc EXCEPT ![w] = "idle"]
  /\ acked' = acked \cup ToSet(batch[w])
  /\ UNCHANGED <<file, key, batch, written, tail, store, honest, bounds>>

(* The process dies where it is: the file stays as it is, the flock goes. *)
Crash(w) ==
  /\ pc[w] # "down" /\ crashes < MaxCrashes
  /\ crashes' = crashes + 1
  /\ lock' = lock \ {w}
  /\ pc' = [pc EXCEPT ![w] = "down"]
  /\ store' = [store EXCEPT ![w] = {}]
  /\ UNCHANGED <<file, key, batch, written, tail, acked, honest, asked, edits>>

-----------------------------------------------------------------------------
(* sign_unsigned(): the operator's step, with every writer stopped.  The new *)
(* file replaces the old one at once.                                        *)

Chained(k, recs) ==
  [i \in DOMAIN recs |-> Signed(k, MacOver(k, SubSeq(recs, 1, i - 1)), recs[i])]

(* What a read returns, an unterminated line included. *)
Readable == RecordsOf(Entries)

SignUnsigned(k) ==
  /\ \A w \in Writers : pc[w] \in {"down", "idle"}
  /\ Integrity(k) = "unsigned"
  /\ lines' = Chained(k, Readable) /\ torn' = Nothing
  /\ honest' = Readable
  /\ UNCHANGED <<lock, process, acked, bounds>>

(* An editor's hand: a line removed, moved, doubled, changed or planted. *)
Edited ==
  LET at == DOMAIN lines
  IN {RemoveAt(lines, i) : i \in at}
     \cup {[lines EXCEPT ![i] = lines[j], ![j] = lines[i]] : i \in at, j \in at}
     \cup {InsertAt(lines, i, lines[j]) : i \in at, j \in at}
     \cup {[lines EXCEPT ![i] = Fragment] : i \in at}
     \cup {[lines EXCEPT ![i].rec = r] : i \in at, r \in Records}
     \cup {InsertAt(lines, i, Unsigned(r)) : i \in 1..Len(lines) + 1, r \in Records}

(* The lines are whole, and these are their records. *)
Reads(ls, recs) == (\A i \in DOMAIN ls : IsLine(ls[i])) /\ RecordsOf(ls) = recs

Edit ==
  /\ edits < MaxEdits /\ lock = {}
  /\ \A i \in DOMAIN lines : IsLine(lines[i])
  /\ edits' = edits + 1
  /\ \E ls \in Edited \ {lines} :
       /\ lines' = ls
       /\ honest' = IF \E n \in 0..Len(honest) : Reads(Whole(ls), SubSeq(honest, 1, n))
                    THEN RecordsOf(Whole(ls)) ELSE honest
  /\ UNCHANGED <<torn, lock, process, acked, asked, crashes>>

-----------------------------------------------------------------------------
Appending(w) ==
  \/ \E recs \in Batches : Extend(w, recs)
  \/ \E r \in FiringsOf[w] : RecordOnce(w, r)
  \/ Lock(w) \/ Repair(w) \/ Refuse(w) \/ WriteFragment(w) \/ WriteRest(w)
  \/ WriteNewline(w) \/ Unlock(w)

Next ==
  \/ \E w \in Writers : Load(w) \/ Appending(w) \/ Crash(w)
  \/ \E k \in EvidenceKeys : SignUnsigned(k)
  \/ Edit

Spec == Init /\ [][Next]_vars

-----------------------------------------------------------------------------
(* Properties *)

(* However the appends of processes interleave with each other, with loads,  *)
(* with crashes and with the operator's signing, and whether or not each was  *)
(* started with the key, the file is never one that read() calls broken: a    *)
(* signed file verifies at every moment and no file mixes the two modes.      *)
(* chain.py's "one writer at a time, across processes".                       *)
ChainVerifies ==
  edits = 0 => \A k \in EvidenceKeys \cup {NoKey} : Integrity(k) # "broken"

(* A record whose append returned is in the file ever after: repairing a torn *)
(* line costs no whole one.                                                   *)
AcknowledgedIsDurable == edits = 0 => acked \subseteq RecordsIn(lines)

(* An edited, inserted, removed or reordered line never verifies, whatever is *)
(* appended behind it; what may verify is what an honest file would hold, or  *)
(* a file cut short, which the chain has no anchor to detect.                 *)
EditsAreDetected ==
  \A k \in EvidenceKeys :
    Integrity(k) = "verified" => RecordsOf(Whole(lines)) = honest

(* One firing has one line, across restarts of its process: "a re-delivery    *)
(* appends nothing to the alerts' chain".                                     *)
OneLinePerFiring ==
  edits = 0 =>
    \A i, j \in DOMAIN lines :
      lines[i].rec = lines[j].rec /\ lines[i].rec \in UNION Range(FiringsOf) => i = j

=============================================================================
