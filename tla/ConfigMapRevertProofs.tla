--------------------------- MODULE ConfigMapRevertProofs ---------------------------
(***************************************************************************)
(* What a ConfigMap's diff and the undo of its revert are worth, for any   *)
(* log, any number of writers and any rotation of it.                      *)
(*                                                                         *)
(* The argument follows the audit log.  Each entry records what its write  *)
(* left, so that the last one of an object is what the object holds, and   *)
(* the one before it is what it replaced; what is collected, put on the    *)
(* card and recorded as the inverse are entries of the log, which is only  *)
(* ever appended to.                                                       *)
(***************************************************************************)
EXTENDS ConfigMapRevert, FiniteSetTheorems, WellFoundedInduction, TLAPS

Cell == Values \cup {Absent}

(* No two requests were received at once. *)
Received ==
  /\ \A p \in DOMAIN audit : audit[p].at < clock
  /\ \A p, q \in DOMAIN audit : audit[p].at = audit[q].at => p = q
  /\ \A r \in inflight : r.at < clock /\ \A p \in DOMAIN audit : audit[p].at # r.at
  /\ \A r, s \in inflight : r.at = s.at => r = s

(* The last entry of an object is what it holds. *)
Latest ==
  \A p \in DOMAIN audit :
    (\A q \in p + 1..Len(audit) : audit[q].object # audit[p].object) => live[audit[p].object] = audit[p].body

(* What a write replaced is what the one before it left. *)
Replaced ==
  \A p, q \in DOMAIN audit :
    /\ q < p /\ audit[q].object = audit[p].object
    /\ \A m \in q + 1..p - 1 : audit[m].object # audit[p].object
    => audit[p].pre = audit[q].body

(* An event is an entry of the log. *)
IsOf(e, log) == e.place \in DOMAIN log /\ log[e.place].object = e.object /\ log[e.place].body = e.after
Evidence ==
  \A e \in events : e.object \in Objects /\ e.after \in Data /\ e.before \in Data \cup {Unknown} /\ IsOf(e, audit)

(* The card is of an event, and can be undone. *)
Carded ==
  pc \in {"open", "executed", "undone"} =>
    /\ card.cited \in events /\ card.params \in Params
    /\ card.hint = HintFor(card.params, card.cited) /\ Invertible(card.params, card.hint)

Written ==
  pc \in {"executed", "undone"} =>
    /\ done.found \in 0..Len(audit) /\ done.replaced \in Data
    /\ done.undo = InverseWrites(card.params, card.hint)
AsWritten ==
  pc = "executed" =>
    /\ live[card.params.object] = Patched(done.replaced, Writes(card.params, card.hint))
    /\ ~Drifted => \A k \in DOMAIN done.undo : done.undo[k] = done.replaced[k]

IInv ==
  /\ TypeOK /\ Received /\ Latest /\ Replaced /\ Evidence /\ Carded /\ Written /\ AsWritten
  /\ BeforeIsWhatWasThere /\ UndoGivesBackWhatWasReplaced

-----------------------------------------------------------------------------
(* Numbers, sequences and patches. *)

LEMMA Smallest ==
  ASSUME NEW T, T \subseteq Nat, T # {}
  PROVE  \E m \in T : \A n \in T : m <= n
<1>1. PICK m \in T : \A n \in T : ~(<<n, m>> \in OpToRel(<, Nat))
  BY NatLessThanWellFounded, WFMin
<1>2. m \in Nat /\ \A n \in T : n \in Nat /\ ~(n < m)
  BY <1>1 DEF OpToRel
<1>3. \A n \in T : m <= n
  BY <1>2
<1> QED
  BY <1>3

LEMMA Largest ==
  ASSUME NEW N \in Nat, NEW S, S \subseteq 0..N, S # {}
  PROVE  Max(S) \in S /\ \A x \in S : x <= Max(S)
<1>1. PICK T : T = {N - x : x \in S}
  OBVIOUS
<1>2. \A x \in S : x \in 0..N /\ N - x \in Nat
  OBVIOUS
<1>3. T \subseteq Nat /\ T # {}
  BY <1>1, <1>2
<1>4. PICK m \in T : \A n \in T : m <= n
  BY <1>3, Smallest
<1>5. PICK s \in S : m = N - s
  BY <1>1, <1>4
<1>6. \A x \in S : s >= x
  BY <1>1, <1>2, <1>4, <1>5
<1> QED
  BY <1>5, <1>6 DEF Max

LEMMA Appending ==
  ASSUME NEW S, NEW s \in Seq(S), NEW x \in S
  PROVE  /\ Append(s, x) \in Seq(S) /\ Len(Append(s, x)) = Len(s) + 1 /\ Len(s) \in Nat
         /\ DOMAIN s = 1..Len(s) /\ DOMAIN Append(s, x) = 1..Len(s) + 1
         /\ \A i \in DOMAIN s : Append(s, x)[i] = s[i] /\ i \in DOMAIN Append(s, x)
         /\ Append(s, x)[Len(s) + 1] = x
OBVIOUS

LEMMA Patching ==
  /\ \A K \in SUBSET Keys : K # {} => \A f \in [K -> Cell] : f \in Patches
  /\ \A f \in Patches : DOMAIN f \subseteq Keys /\ \A k \in DOMAIN f : f[k] \in Cell
  /\ \A data \in Data, f \in Patches : Patched(data, f) \in Data
<1>1. ASSUME NEW K \in SUBSET Keys, K # {}, NEW f \in [K -> Cell] PROVE f \in Patches
  <2>1. K \in (SUBSET Keys) \ {{}}
    BY <1>1
  <2> QED
    BY <1>1, <2>1 DEF Patches, Cell
<1>2. \A f \in Patches : DOMAIN f \subseteq Keys /\ \A k \in DOMAIN f : f[k] \in Cell
  BY DEF Patches, Cell
<1>3. \A data \in Data, f \in Patches : Patched(data, f) \in Data
  BY <1>2 DEF Patched, Data, Cell
<1> QED
  BY <1>1, <1>2, <1>3

(* What is put back on the keys that were written gives the data back. *)
LEMMA PutBack ==
  ASSUME NEW data \in Data, NEW f, NEW g, DOMAIN f = DOMAIN g, \A k \in DOMAIN g : g[k] = data[k]
  PROVE  Patched(Patched(data, f), g) = data
BY DEF Patched, Data

(* The inverse of a request writes the keys the request writes, as the change left them. *)
LEMMA Inverses ==
  ASSUME NEW e, e.object \in Objects, e.after \in Data, e.before \in Data \cup {Unknown},
         NEW p \in Params, NEW hint, hint = HintFor(p, e), Invertible(p, hint)
  PROVE  /\ Writes(p, hint) \in Patches /\ InverseWrites(p, hint) \in Patches
         /\ p.object = e.object
         /\ DOMAIN Writes(p, hint) = DOMAIN InverseWrites(p, hint)
         /\ \A k \in DOMAIN InverseWrites(p, hint) : InverseWrites(p, hint)[k] = e.after[k]
<1>1. hint # NoHint
  BY DEF Invertible, RecordedKeys, OneKey
<1>2. hint = Hint(e) /\ HintFits(p, hint)
  BY <1>1 DEF HintFor
<1>3. /\ e.before \in Data /\ hint.object = e.object
      /\ hint.prior = Restrict(e.before, Changed(e)) /\ hint.current = Restrict(e.after, Changed(e))
  BY <1>1, <1>2 DEF Hint
<1>4. /\ Changed(e) \subseteq Keys /\ DOMAIN hint.prior = Changed(e)
      /\ \A k \in Changed(e) : /\ hint.prior[k] \in Cell /\ hint.current[k] \in Cell
                               /\ hint.current[k] = e.after[k]
  BY <1>3 DEF Changed, Restrict, Data, Cell
<1>5. p.object = e.object
  BY <1>2, <1>3 DEF HintFits
<1>6. CASE p.keys # {}
  <2>1. p.keys = Changed(e)
    BY <1>4, <1>6 DEF Invertible, RecordedKeys
  <2>2. /\ Writes(p, hint) = [k \in p.keys |-> hint.prior[k]]
        /\ InverseWrites(p, hint) = [k \in p.keys |-> hint.current[k]]
    BY <1>6 DEF Writes, InverseWrites, Restrict
  <2>3. Writes(p, hint) \in [p.keys -> Cell] /\ InverseWrites(p, hint) \in [p.keys -> Cell]
    BY <1>4, <2>1, <2>2
  <2> QED
    BY <1>4, <1>5, <1>6, <2>1, <2>2, <2>3, Patching
<1>7. CASE p.keys = {}
  <2>1. p.key # Absent /\ p.target \in Cell /\ p.key \in Keys
    BY <1>7 DEF Invertible, OneKey, Params, Cell
  <2>2. Changed(e) = {p.key}
    BY <1>2, <1>4, <2>1 DEF HintFits
  <2>3. /\ Writes(p, hint) = [k \in {p.key} |-> p.target]
        /\ InverseWrites(p, hint) = [k \in {p.key} |-> hint.current[k]]
    BY <1>7 DEF Writes, InverseWrites
  <2>4. Writes(p, hint) \in [{p.key} -> Cell] /\ InverseWrites(p, hint) \in [{p.key} -> Cell]
    BY <1>4, <2>1, <2>2, <2>3
  <2> QED
    BY <1>4, <1>5, <2>1, <2>2, <2>3, <2>4, Patching
<1> QED
  BY <1>6, <1>7

-----------------------------------------------------------------------------
(* Every step. *)

LEMMA Start == Init => IInv
<1> SUFFICES ASSUME Init PROVE IInv
  OBVIOUS
<1>1. Initial \in Data
  BY ConstantsAssumption DEF Data
<1>2. TypeOK
  BY <1>1, ConstantsAssumption DEF Init, TypeOK
<1>3. DOMAIN audit = {} /\ inflight = {} /\ events = {} /\ pc = "running"
  BY DEF Init
<1> QED
  BY <1>2, <1>3 DEF IInv, Received, Latest, Replaced, Evidence, Carded, Written, AsWritten,
                    BeforeIsWhatWasThere, UndoGivesBackWhatWasReplaced

LEMMA Typing ==
  ASSUME TypeOK
  PROVE  /\ Len(audit) \in Nat /\ DOMAIN audit = 1..Len(audit) /\ clock \in Nat
         /\ \A p \in DOMAIN audit : /\ audit[p].at \in Nat /\ audit[p].object \in Objects
                                    /\ audit[p].body \in Data /\ audit[p].pre \in Data
         /\ \A r \in inflight : /\ r.object \in Objects /\ r.at \in Nat /\ r.patch \in Patches
                               /\ r.who \in {"person", "controller"}
         /\ kept.backup \in Nat /\ kept.current \in Nat /\ kept.rotations \in 0..MaxRotations
<1>1. audit \in Seq(Entries) /\ inflight \subseteq Requests /\ clock \in Nat
      /\ kept \in [backup : Nat, current : Nat, rotations : 0..MaxRotations]
  BY DEF TypeOK
<1>2. Len(audit) \in Nat /\ DOMAIN audit = 1..Len(audit) /\ \A p \in DOMAIN audit : audit[p] \in Entries
  BY <1>1
<1>3. \A x \in Entries : x.at \in Nat /\ x.object \in Objects /\ x.body \in Data /\ x.pre \in Data
  BY DEF Entries
<1>4. \A r \in Requests : /\ r.object \in Objects /\ r.at \in Nat /\ r.patch \in Patches
                          /\ r.who \in {"person", "controller"}
  BY DEF Requests
<1> QED
  BY <1>1, <1>2, <1>3, <1>4

(* A write and its entry. *)
LEMMA Storing ==
  ASSUME TypeOK, Latest, Replaced, NEW r, r.object \in Objects, r.at \in Nat,
         r.who \in {"person", "controller"}, r.patch \in Patches, Stored(r)
  PROVE  /\ live' \in [Objects -> Data] /\ audit' \in Seq(Entries)
         /\ live'[r.object] = Patched(live[r.object], r.patch)
         /\ Len(audit) \in Nat /\ Len(audit') = Len(audit) + 1
         /\ DOMAIN audit = 1..Len(audit) /\ DOMAIN audit' = 1..Len(audit) + 1
         /\ \A p \in DOMAIN audit : audit'[p] = audit[p] /\ p \in DOMAIN audit'
         /\ audit'[Len(audit) + 1].at = r.at
         /\ Latest' /\ Replaced'
<1>1. PICK data : data = Patched(live[r.object], r.patch)
  OBVIOUS
<1>2. PICK x : x = [at |-> r.at, object |-> r.object, who |-> r.who, body |-> data, pre |-> live[r.object]]
  OBVIOUS
<1>3. data \in Data /\ live[r.object] \in Data
  BY <1>1, Patching DEF TypeOK
<1>4. x \in Entries /\ x.at = r.at /\ x.object = r.object /\ x.body = data /\ x.pre = live[r.object]
  BY <1>2, <1>3 DEF Entries
<1>5. live' = [live EXCEPT ![r.object] = data] /\ audit' = Append(audit, x)
  BY <1>1, <1>2 DEF Stored
<1>6. /\ live' \in [Objects -> Data] /\ live'[r.object] = data
      /\ \A o \in Objects : o # r.object => live'[o] = live[o]
  BY <1>3, <1>5 DEF TypeOK
<1>7. /\ audit' \in Seq(Entries) /\ Len(audit') = Len(audit) + 1 /\ Len(audit) \in Nat
      /\ DOMAIN audit = 1..Len(audit) /\ DOMAIN audit' = 1..Len(audit) + 1
      /\ \A p \in DOMAIN audit : audit'[p] = audit[p] /\ p \in DOMAIN audit'
      /\ audit'[Len(audit) + 1] = x
  <2>1. audit \in Seq(Entries)
    BY DEF TypeOK
  <2> QED
    BY <1>4, <1>5, <2>1, Appending
<1>8. \A p \in DOMAIN audit : audit[p].object \in Objects
  BY Typing
<1>9. Latest'
  <2> SUFFICES ASSUME NEW p \in DOMAIN audit',
                      \A q \in p + 1..Len(audit') : audit'[q].object # audit'[p].object
               PROVE  live'[audit'[p].object] = audit'[p].body
    BY DEF Latest
  <2>1. CASE p = Len(audit) + 1
    BY <1>4, <1>6, <1>7, <2>1
  <2>2. CASE p \in DOMAIN audit
    <3>0. p \in 1..Len(audit) /\ audit'[p] = audit[p] /\ Len(audit) + 1 \in p + 1..Len(audit')
      BY <1>7, <2>2
    <3>1. audit[p].object # r.object
      BY <1>4, <1>7, <3>0
    <3>2. ASSUME NEW q \in p + 1..Len(audit) PROVE audit[q].object # audit[p].object
      <4>1. q \in p + 1..Len(audit') /\ q \in DOMAIN audit
        BY <1>7, <3>0
      <4> QED
        BY <1>7, <3>0, <4>1
    <3> QED
      BY <1>6, <1>7, <1>8, <2>2, <3>1, <3>2 DEF Latest
  <2>3. p = Len(audit) + 1 \/ p \in DOMAIN audit
    BY <1>7
  <2> QED
    BY <2>1, <2>2, <2>3
<1>10. Replaced'
  <2> SUFFICES ASSUME NEW p \in DOMAIN audit', NEW q \in DOMAIN audit',
                      q < p, audit'[q].object = audit'[p].object,
                      \A m \in q + 1..p - 1 : audit'[m].object # audit'[p].object
               PROVE  audit'[p].pre = audit'[q].body
    BY DEF Replaced
  <2>1. CASE p = Len(audit) + 1
    <3>0. q \in DOMAIN audit /\ p - 1 = Len(audit)
      BY <1>7, <2>1
    <3>1. audit[q].object = r.object /\ audit'[q] = audit[q]
      BY <1>4, <1>7, <2>1, <3>0
    <3>2. ASSUME NEW m \in q + 1..Len(audit) PROVE audit[m].object # audit[q].object
      <4>1. m \in DOMAIN audit /\ m \in q + 1..p - 1
        BY <1>7, <3>0
      <4> QED
        BY <1>4, <1>7, <2>1, <3>1, <4>1
    <3> QED
      BY <1>4, <1>7, <2>1, <3>0, <3>1, <3>2 DEF Latest
  <2>2. CASE p \in DOMAIN audit
    <3>0. q \in DOMAIN audit
      BY <1>7, <2>2
    <3>1. audit[q].object = audit[p].object /\ audit'[q] = audit[q] /\ audit'[p] = audit[p]
      BY <1>7, <2>2, <3>0
    <3>2. ASSUME NEW m \in q + 1..p - 1 PROVE audit[m].object # audit[p].object
      <4>1. m \in DOMAIN audit
        BY <1>7, <2>2, <3>0
      <4> QED
        BY <1>7, <3>1, <4>1
    <3> QED
      BY <2>2, <3>0, <3>1, <3>2 DEF Replaced
  <2>3. p = Len(audit) + 1 \/ p \in DOMAIN audit
    BY <1>7
  <2> QED
    BY <2>1, <2>2, <2>3
<1> QED
  BY <1>1, <1>4, <1>6, <1>7, <1>9, <1>10

(* What is of the log stays of it. *)
LEMMA StillEvidence ==
  ASSUME Evidence, BeforeIsWhatWasThere, UNCHANGED events,
         \A p \in DOMAIN audit : audit'[p] = audit[p] /\ p \in DOMAIN audit'
  PROVE  Evidence' /\ BeforeIsWhatWasThere'
BY DEF Evidence, BeforeIsWhatWasThere, IsOf

LEMMA Serving ==
  ASSUME IInv, pc \notin {"executed", "undone"},
         \/ \E o \in Objects, who \in {"person", "controller"}, patch \in Edits : Receive(o, who, patch)
         \/ \E r \in inflight : Finish(r)
         \/ Rotate
  PROVE  IInv'
<1>0. /\ TypeOK /\ Received /\ Latest /\ Replaced /\ Evidence /\ Carded
      /\ BeforeIsWhatWasThere /\ UndoGivesBackWhatWasReplaced
  BY DEF IInv
<1>1. CASE \E o \in Objects, who \in {"person", "controller"}, patch \in Edits : Receive(o, who, patch)
  <2>1. PICK o \in Objects, who \in {"person", "controller"}, patch \in Edits : Receive(o, who, patch)
    BY <1>1
  <2>2. PICK r : r = [at |-> clock, object |-> o, who |-> who, patch |-> patch]
    OBVIOUS
  <2>3. r \in Requests /\ r.at = clock /\ clock \in Nat
    BY <1>0, <2>2, ConstantsAssumption DEF Requests, TypeOK, Patches
  <2>4. /\ inflight' = inflight \cup {r} /\ clock' = clock + 1
        /\ UNCHANGED <<catalog, live, audit, kept, events, card, done, pc>>
    BY <2>1, <2>2 DEF Receive
  <2>5. TypeOK'
    <3>1. inflight' \subseteq Requests /\ clock' \in Nat
      BY <1>0, <2>3, <2>4 DEF TypeOK
    <3> QED
      BY <1>0, <2>4, <3>1 DEF TypeOK
  <2>6. Received'
    <3>1. \A p \in DOMAIN audit : audit[p].at \in Nat /\ audit[p].at < clock
      BY <1>0, Typing DEF Received
    <3>2. \A s \in inflight : s.at \in Nat /\ s.at < clock
      BY <1>0, Typing DEF Received
    <3>3. \A p \in DOMAIN audit : audit[p].at < clock + 1 /\ audit[p].at # r.at
      BY <2>3, <3>1
    <3>4. \A s \in inflight : s.at < clock + 1 /\ s.at # r.at
      BY <2>3, <3>2
    <3> QED
      BY <1>0, <2>3, <2>4, <3>3, <3>4 DEF Received
  <2>7. Latest' /\ Replaced' /\ Evidence'
    BY <1>0, <2>4 DEF Latest, Replaced, Evidence, IsOf
  <2>9. Carded' /\ Written' /\ AsWritten'
    BY <1>0, <2>4 DEF Carded, Written, AsWritten
  <2>8. BeforeIsWhatWasThere' /\ UndoGivesBackWhatWasReplaced'
    BY <1>0, <2>4 DEF BeforeIsWhatWasThere, UndoGivesBackWhatWasReplaced
  <2> QED
    BY <2>5, <2>6, <2>7, <2>8, <2>9 DEF IInv
<1>2. CASE \E r \in inflight : Finish(r)
  <2>1. PICK r \in inflight : Finish(r)
    BY <1>2
  <2>2. /\ r.object \in Objects /\ r.at \in Nat /\ r.patch \in Patches
        /\ r.who \in {"person", "controller"}
    BY <1>0, Typing
  <2>3. /\ inflight' = inflight \ {r} /\ Stored(r)
        /\ UNCHANGED <<catalog, clock, kept, events, card, done, pc>>
    BY <2>1 DEF Finish
  <2>4. /\ live' \in [Objects -> Data] /\ audit' \in Seq(Entries)
        /\ Len(audit) \in Nat /\ Len(audit') = Len(audit) + 1
        /\ DOMAIN audit = 1..Len(audit) /\ DOMAIN audit' = 1..Len(audit) + 1
        /\ \A p \in DOMAIN audit : audit'[p] = audit[p] /\ p \in DOMAIN audit'
        /\ audit'[Len(audit) + 1].at = r.at
        /\ Latest' /\ Replaced'
    BY <1>0, <2>2, <2>3, Storing
  <2>5. TypeOK'
    BY <1>0, <2>3, <2>4 DEF TypeOK
  <2>6. Received'
    <3>1. \A p \in DOMAIN audit' : audit'[p].at = r.at \/ (p \in DOMAIN audit /\ audit'[p].at = audit[p].at)
      <4>1. \A p \in DOMAIN audit' : p = Len(audit) + 1 \/ p \in DOMAIN audit
        BY <2>4
      <4> QED
        BY <2>4, <4>1
    <3>2. ASSUME NEW p \in DOMAIN audit', NEW q \in DOMAIN audit', audit'[p].at = audit'[q].at PROVE p = q
      <4>1. (p = Len(audit) + 1 \/ p \in DOMAIN audit) /\ (q = Len(audit) + 1 \/ q \in DOMAIN audit)
        BY <2>4
      <4>2. CASE p \in DOMAIN audit /\ q \in DOMAIN audit
        BY <1>0, <2>4, <3>2, <4>2 DEF Received
      <4>3. CASE p \in DOMAIN audit /\ q = Len(audit) + 1
        BY <1>0, <2>4, <3>2, <4>3 DEF Received
      <4>4. CASE q \in DOMAIN audit /\ p = Len(audit) + 1
        BY <1>0, <2>4, <3>2, <4>4 DEF Received
      <4> QED
        BY <4>1, <4>2, <4>3, <4>4
    <3>3. \A p \in DOMAIN audit' : audit'[p].at < clock'
      BY <1>0, <2>3, <3>1 DEF Received
    <3>4. \A s \in inflight' : s \in inflight /\ s.at # r.at
      BY <1>0, <2>3 DEF Received
    <3>5. \A s \in inflight' : s.at < clock' /\ \A p \in DOMAIN audit' : audit'[p].at # s.at
      BY <1>0, <2>3, <3>1, <3>4 DEF Received
    <3> QED
      BY <1>0, <3>2, <3>3, <3>4, <3>5 DEF Received
  <2>7. Evidence' /\ BeforeIsWhatWasThere'
    BY <1>0, <2>3, <2>4, StillEvidence
  <2>8. Carded' /\ Written' /\ AsWritten' /\ UndoGivesBackWhatWasReplaced'
    BY <1>0, <2>3 DEF Carded, Written, AsWritten, UndoGivesBackWhatWasReplaced
  <2> QED
    BY <2>4, <2>5, <2>6, <2>7, <2>8 DEF IInv
<1>3. CASE Rotate
  <2>1. UNCHANGED <<catalog, live, clock, inflight, audit, events, card, done, pc>>
    BY <1>3 DEF Rotate
  <2>2. kept' \in [backup : Nat, current : Nat, rotations : 0..MaxRotations]
    <3>1. kept' = [backup |-> kept.current, current |-> Len(audit), rotations |-> kept.rotations + 1]
      BY <1>3 DEF Rotate
    <3>2. kept.current \in Nat /\ Len(audit) \in Nat /\ kept.rotations + 1 \in 0..MaxRotations
      BY <1>0, <1>3, Typing, ConstantsAssumption DEF Rotate
    <3> QED
      BY <3>1, <3>2
  <2>3. TypeOK'
    BY <1>0, <2>1, <2>2 DEF TypeOK
  <2>4. Received' /\ Latest' /\ Replaced' /\ Evidence'
    BY <1>0, <2>1 DEF Received, Latest, Replaced, Evidence, IsOf
  <2>6. Carded' /\ Written' /\ AsWritten'
    BY <1>0, <2>1 DEF Carded, Written, AsWritten
  <2>5. BeforeIsWhatWasThere' /\ UndoGivesBackWhatWasReplaced'
    BY <1>0, <2>1 DEF BeforeIsWhatWasThere, UndoGivesBackWhatWasReplaced
  <2> QED
    BY <2>3, <2>4, <2>5, <2>6 DEF IInv
<1> QED
  BY <1>1, <1>2, <1>3

-----------------------------------------------------------------------------
(* What is collected. *)

(* The entries an object's diff is rebuilt from are recorded, and of its own. *)
LEMMA Items ==
  ASSUME TypeOK, NEW o \in Objects, NEW start \in Int
  PROVE  /\ Recordable(o) \subseteq DOMAIN audit
         /\ \A q \in Recordable(o) : audit[q].object = o /\ kept.backup < q
         /\ Anchor(o, start) \subseteq {q \in Recordable(o) : audit[q].at < start}
         /\ InWindow(o, start) \subseteq Recordable(o)
<1>1. /\ Recordable(o) \subseteq DOMAIN audit
      /\ \A q \in Recordable(o) : audit[q].object = o /\ kept.backup < q
  <2>1. /\ Len(audit) \in Nat /\ DOMAIN audit = 1..Len(audit) /\ kept.backup \in Nat
    BY Typing
  <2>2. \A q \in (kept.backup + 1)..Len(audit) : q \in 1..Len(audit) /\ kept.backup < q
    BY <2>1
  <2> QED
    BY <2>1, <2>2 DEF Recordable
<1>2. Anchor(o, start) \subseteq {q \in Recordable(o) : audit[q].at < start}
  <2>1. PICK old : old = {q \in Recordable(o) : audit[q].at < start}
    OBVIOUS
  <2>2. CASE old = {}
    BY <2>1, <2>2 DEF Anchor
  <2>3. CASE old # {}
    <3>1. old \subseteq 0..Len(audit) /\ Len(audit) \in Nat
      BY <1>1, <2>1, Typing
    <3>2. Max(old) \in old
      BY <2>3, <3>1, Largest
    <3> QED
      BY <2>1, <3>2 DEF Anchor
  <2> QED
    BY <2>2, <2>3
<1>3. InWindow(o, start) \subseteq Recordable(o)
  BY DEF InWindow
<1> QED
  BY <1>1, <1>2, <1>3

(* Among some entries, one was received last. *)
LEMMA LastReceived ==
  ASSUME TypeOK, Received, NEW some, some \subseteq DOMAIN audit, some # {}
  PROVE  \E q \in some : \A r \in some : audit[r].at <= audit[q].at
<1>1. PICK T : T = {audit[q].at : q \in some}
  OBVIOUS
<1>2. \A q \in some : audit[q].at \in Nat /\ audit[q].at < clock /\ clock \in Nat
  BY Typing DEF Received
<1>3. T \subseteq 0..clock /\ T # {} /\ clock \in Nat
  BY <1>1, <1>2, Typing
<1>4. Max(T) \in T /\ \A x \in T : x <= Max(T)
  BY <1>3, Largest
<1>5. PICK q \in some : audit[q].at = Max(T)
  BY <1>1, <1>4
<1> QED
  BY <1>1, <1>4, <1>5

(* The state before an entry is of an earlier entry, and the one the write replaced *)
(* as long as the object's entries are all recorded and in order.                   *)
LEMMA Priors ==
  ASSUME TypeOK, Received, Replaced, NEW o \in Objects, NEW start \in Int, NEW p \in InWindow(o, start),
         NEW items, items = Anchor(o, start) \cup InWindow(o, start), Prior(p, items) # Unknown
  PROVE  /\ Prior(p, items) \in Data
         /\ Orderly(o) => Prior(p, items) = audit[p].pre
<1>0. /\ \A q \in DOMAIN audit : audit[q].at \in Nat /\ audit[q].body \in Data /\ q \in Nat
      /\ Len(audit) \in Nat /\ DOMAIN audit = 1..Len(audit)
  BY Typing
<1>1. items \subseteq Recordable(o) /\ Recordable(o) \subseteq DOMAIN audit /\ p \in Recordable(o)
  BY Items
<1>2. PICK earlier : earlier = {q \in items : audit[q].at < audit[p].at}
  OBVIOUS
<1>3. PICK q0 \in earlier : HasMap(q0)
  BY <1>2 DEF Prior
<1>4. PICK last : last = CHOOSE q \in earlier : \A r \in earlier : audit[r].at <= audit[q].at
  OBVIOUS
<1>5. earlier \subseteq DOMAIN audit /\ earlier # {}
  BY <1>1, <1>2, <1>3
<1>6. last \in earlier /\ \A r \in earlier : audit[r].at <= audit[last].at
  BY <1>4, <1>5, LastReceived
<1>7. Prior(p, items) = audit[last].body
  BY <1>2, <1>3, <1>4 DEF Prior
<1>8. ASSUME Orderly(o) PROVE audit[last].body = audit[p].pre
  <2>0. p \in DOMAIN audit /\ audit[p].object = o
    BY <1>1, Items
  <2>1. \A q, r \in DOMAIN audit : audit[q].object = o /\ audit[r].object = o /\ r <= q => audit[r].at <= audit[q].at
    <3>1. \A q \in DOMAIN audit : audit[q].object = o => \A r \in 1..q : audit[r].object = o => audit[r].at <= audit[q].at
      BY <1>8 DEF Orderly
    <3>2. \A q, r \in DOMAIN audit : r <= q => r \in 1..q
      BY <1>0
    <3> QED
      BY <3>1, <3>2
  <2>2. \A q \in earlier : q \in DOMAIN audit /\ audit[q].object = o /\ q < p
    <3>1. \A q \in earlier : q \in DOMAIN audit /\ audit[q].object = o /\ audit[q].at < audit[p].at
      BY <1>1, <1>2, Items
    <3> QED
      BY <1>0, <2>0, <2>1, <3>1
  <2>3. PICK before : before = {q \in DOMAIN audit : audit[q].object = o /\ q < p}
    OBVIOUS
  <2>4. before \subseteq 0..Len(audit) /\ before # {}
    BY <1>0, <1>3, <2>2, <2>3
  <2>5. PICK m : m \in before /\ \A x \in before : x <= m
    BY <1>0, <2>4, Largest
  <2>6. m \in DOMAIN audit /\ audit[m].object = o /\ m < p /\ q0 <= m
    BY <1>3, <2>2, <2>3, <2>5
  <2>7. audit[p].pre = audit[m].body
    <3>1. ASSUME NEW x \in m + 1..p - 1 PROVE audit[x].object # o
      <4>1. x \in DOMAIN audit /\ x < p /\ m < x /\ m \in Int
        BY <1>0, <2>0, <2>6
      <4> QED
        BY <1>0, <2>3, <2>5, <4>1
    <3> QED
      BY <2>0, <2>6, <3>1 DEF Replaced
  <2>8. m \in Recordable(o)
    <3>1. audit[m].who = "person"
      BY <1>8, <2>6 DEF Orderly
    <3>2. kept.backup \in Nat /\ kept.backup < q0
      BY <1>1, <1>2, <1>3, Items, Typing
    <3>3. m \in (kept.backup + 1)..Len(audit)
      BY <1>0, <1>3, <2>2, <2>6, <3>2
    <3> QED
      BY <2>6, <3>1, <3>3 DEF Recordable
  <2>9. m \in items
    <3>1. CASE start <= audit[m].at
      BY <2>8, <3>1 DEF InWindow
    <3>2. CASE audit[m].at < start
      <4>1. audit[q0].at <= audit[m].at /\ q0 \in DOMAIN audit
        BY <1>3, <2>1, <2>2, <2>6
      <4>2. audit[q0].at < start
        BY <1>0, <2>6, <3>2, <4>1
      <4>3. q0 \in Anchor(o, start)
        <5>1. q0 \notin InWindow(o, start)
          BY <1>0, <4>1, <4>2 DEF InWindow
        <5> QED
          BY <1>2, <1>3, <5>1
      <4>4. PICK old : old = {q \in Recordable(o) : audit[q].at < start}
        OBVIOUS
      <4>5. q0 = Max(old)
        BY <4>3, <4>4 DEF Anchor
      <4>6. m \in old /\ old \subseteq 0..Len(audit)
        BY <1>0, <1>1, <2>8, <3>2, <4>4
      <4>7. m <= q0
        BY <1>0, <4>5, <4>6, Largest
      <4>8. m = q0
        BY <1>0, <2>6, <4>1, <4>7
      <4> QED
        BY <1>2, <1>3, <4>8
    <3> QED
      BY <1>0, <2>6, <3>1, <3>2
  <2>10. m \in earlier
    <3>1. audit[m].at <= audit[p].at /\ audit[m].at # audit[p].at
      BY <1>0, <2>0, <2>1, <2>6 DEF Received
    <3> QED
      BY <1>0, <1>2, <2>0, <2>6, <2>9, <3>1
  <2>11. last = m
    <3>1. last \in before /\ last \in DOMAIN audit
      BY <1>6, <2>2, <2>3
    <3>2. last <= m
      BY <2>5, <3>1
    <3>3. audit[last].at <= audit[m].at /\ audit[m].at <= audit[last].at
      BY <1>6, <2>1, <2>3, <2>6, <2>10, <3>1, <3>2
    <3>4. audit[last].at = audit[m].at
      BY <1>0, <2>6, <3>1, <3>3
    <3> QED
      BY <2>6, <3>1, <3>4 DEF Received
  <2> QED
    BY <2>7, <2>11
<1> QED
  BY <1>0, <1>5, <1>6, <1>7, <1>8

LEMMA Collecting == ASSUME IInv, Collect PROVE IInv'
<1>0. TypeOK /\ Received /\ Latest /\ Replaced
  BY DEF IInv
<1>1. UNCHANGED <<catalog, cluster, card, done>> /\ pc' = "collected"
  BY DEF Collect
<1>2. PICK start : start = clock - Window
  OBVIOUS
<1>3. start \in Int
  BY <1>0, <1>2, Typing, ConstantsAssumption
<1>4. ASSUME NEW e \in events'
      PROVE  /\ e.object \in Objects /\ e.after \in Data /\ e.before \in Data \cup {Unknown} /\ IsOf(e, audit)
             /\ e.orderly /\ e.before # Unknown => e.before = e.pre
  <2>0. PICK o \in Objects : \E p \in InWindow(o, start) : e = EventAt(p, Anchor(o, start) \cup InWindow(o, start))
    BY <1>2, <1>4 DEF Collect
  <2>1. PICK p \in InWindow(o, start) : e = EventAt(p, Anchor(o, start) \cup InWindow(o, start))
    BY <2>0
  <2>2. PICK items : items = Anchor(o, start) \cup InWindow(o, start)
    OBVIOUS
  <2>3. p \in DOMAIN audit /\ audit[p].object = o
    BY <1>0, <1>3, Items
  <2>4. /\ e.object = audit[p].object /\ e.before = Prior(p, items) /\ e.after = audit[p].body
        /\ e.pre = audit[p].pre /\ e.place = p /\ e.orderly = Orderly(o)
    BY <2>1, <2>2, <2>3 DEF EventAt
  <2>5. e.object \in Objects /\ e.after \in Data /\ IsOf(e, audit)
    BY <1>0, <2>3, <2>4, Typing DEF IsOf
  <2>6. Prior(p, items) # Unknown => Prior(p, items) \in Data /\ (Orderly(o) => Prior(p, items) = audit[p].pre)
    BY <1>0, <1>3, <2>2, Priors
  <2> QED
    BY <2>4, <2>5, <2>6
<1>5. TypeOK'
  BY <1>0, <1>1 DEF TypeOK, cluster
<1>6. Received' /\ Latest' /\ Replaced'
  BY <1>0, <1>1 DEF Received, Latest, Replaced, cluster
<1>7. Evidence' /\ BeforeIsWhatWasThere'
  BY <1>1, <1>4 DEF Evidence, BeforeIsWhatWasThere, IsOf, cluster
<1>8. Carded' /\ Written' /\ AsWritten' /\ UndoGivesBackWhatWasReplaced'
  BY <1>1 DEF Carded, Written, AsWritten, UndoGivesBackWhatWasReplaced
<1> QED
  BY <1>5, <1>6, <1>7, <1>8 DEF IInv

LEMMA Proposing == ASSUME IInv, Propose PROVE IInv'
<1>0. TypeOK /\ Received /\ Latest /\ Replaced /\ Evidence /\ BeforeIsWhatWasThere
  BY DEF IInv
<1>1. UNCHANGED <<catalog, cluster, events, done>> /\ pc' \in {"open", "declined"}
  BY DEF Propose
<1>2. TypeOK'
  BY <1>0, <1>1 DEF TypeOK, cluster
<1>3. Received' /\ Latest' /\ Replaced'
  BY <1>0, <1>1 DEF Received, Latest, Replaced, cluster
<1>4. Evidence' /\ BeforeIsWhatWasThere'
  BY <1>0, <1>1 DEF Evidence, BeforeIsWhatWasThere, IsOf, cluster
<1>5. Carded'
  <2>1. CASE pc' = "declined"
    BY <2>1 DEF Carded
  <2>2. CASE pc' = "open"
    <3>1. PICK p \in Params, e \in events :
            /\ Opens(p, e)
            /\ card' = [params |-> p, hint |-> HintFor(p, e), cited |-> e, shown |-> DryRun(p, HintFor(p, e))]
      BY <2>2 DEF Propose
    <3>2. card'.params = p /\ card'.hint = HintFor(p, e) /\ card'.cited = e /\ Invertible(p, HintFor(p, e))
      BY <3>1 DEF Opens
    <3> QED
      BY <1>1, <3>2 DEF Carded
  <2> QED
    BY <1>1, <2>1, <2>2
<1>6. Written' /\ AsWritten' /\ UndoGivesBackWhatWasReplaced'
  BY <1>1 DEF Written, AsWritten, UndoGivesBackWhatWasReplaced
<1> QED
  BY <1>2, <1>3, <1>4, <1>5, <1>6 DEF IInv

(* A request made and finished at once. *)
LEMMA Requesting ==
  ASSUME IInv, NEW o \in Objects, NEW patch \in Patches, Request(o, patch), UNCHANGED <<catalog, events>>,
         pc' \in {"executed", "undone"}
  PROVE  /\ TypeOK' /\ Received' /\ Latest' /\ Replaced' /\ Evidence' /\ BeforeIsWhatWasThere'
         /\ live'[o] = Patched(live[o], patch)
         /\ Len(audit) \in Nat /\ Len(audit') = Len(audit) + 1 /\ DOMAIN audit = 1..Len(audit)
         /\ \A p \in DOMAIN audit : audit'[p] = audit[p] /\ p \in DOMAIN audit'
<1>0. TypeOK /\ Received /\ Latest /\ Replaced /\ Evidence /\ BeforeIsWhatWasThere
  BY DEF IInv
<1>1. PICK r : r = [at |-> clock, object |-> o, who |-> "person", patch |-> patch]
  OBVIOUS
<1>2. /\ r.object = o /\ r.at = clock /\ r.at \in Nat /\ r.who = "person" /\ r.patch = patch
      /\ Stored(r) /\ clock' = clock + 1 /\ UNCHANGED <<inflight, kept>>
  BY <1>0, <1>1, Typing DEF Request
<1>3. /\ live' \in [Objects -> Data] /\ audit' \in Seq(Entries)
      /\ live'[o] = Patched(live[o], patch)
      /\ Len(audit) \in Nat /\ Len(audit') = Len(audit) + 1
      /\ DOMAIN audit = 1..Len(audit) /\ DOMAIN audit' = 1..Len(audit) + 1
      /\ \A p \in DOMAIN audit : audit'[p] = audit[p] /\ p \in DOMAIN audit'
      /\ audit'[Len(audit) + 1].at = clock
      /\ Latest' /\ Replaced'
  BY <1>0, <1>2, Storing
<1>4. TypeOK'
  BY <1>0, <1>2, <1>3 DEF TypeOK
<1>5. Received'
  <2>0. \A p \in DOMAIN audit' : p = Len(audit) + 1 \/ p \in DOMAIN audit
    BY <1>3
  <2>1. \A p \in DOMAIN audit : audit[p].at \in Nat /\ audit[p].at < clock /\ audit[p].at # clock /\ audit[p].at < clock + 1
    BY <1>0, <1>2, Typing DEF Received
  <2>2. \A s \in inflight : s.at \in Nat /\ s.at < clock + 1 /\ s.at # clock
    BY <1>0, <1>2, Typing DEF Received
  <2>3. \A p \in DOMAIN audit' : audit'[p].at < clock'
    BY <1>2, <1>3, <2>0, <2>1
  <2>4. ASSUME NEW p \in DOMAIN audit', NEW q \in DOMAIN audit', audit'[p].at = audit'[q].at PROVE p = q
    BY <1>0, <1>3, <2>0, <2>1, <2>4 DEF Received
  <2>5. \A s \in inflight : s.at < clock' /\ \A p \in DOMAIN audit' : audit'[p].at # s.at
    BY <1>0, <1>2, <1>3, <2>0, <2>2 DEF Received
  <2> QED
    BY <1>0, <1>2, <2>3, <2>4, <2>5 DEF Received
<1>6. Evidence' /\ BeforeIsWhatWasThere'
  BY <1>0, <1>3, StillEvidence
<1> QED
  BY <1>3, <1>4, <1>5, <1>6

(* What the card's request and its inverse write. *)
LEMMA OnTheCard ==
  ASSUME TypeOK, Evidence, Carded, pc \in {"open", "executed", "undone"}
  PROVE  /\ card.cited \in events /\ IsOf(card.cited, audit)
         /\ Writes(card.params, card.hint) \in Patches /\ InverseWrites(card.params, card.hint) \in Patches
         /\ card.params.object = card.cited.object /\ card.params.object \in Objects
         /\ DOMAIN Writes(card.params, card.hint) = DOMAIN InverseWrites(card.params, card.hint)
         /\ \A k \in DOMAIN InverseWrites(card.params, card.hint) :
              InverseWrites(card.params, card.hint)[k] = card.cited.after[k]
<1>1. /\ card.cited \in events /\ card.params \in Params
      /\ card.hint = HintFor(card.params, card.cited) /\ Invertible(card.params, card.hint)
  BY DEF Carded
<1>2. /\ card.cited.object \in Objects /\ card.cited.after \in Data
      /\ card.cited.before \in Data \cup {Unknown} /\ IsOf(card.cited, audit)
  BY <1>1 DEF Evidence
<1> QED
  BY <1>1, <1>2, Inverses

LEMMA Executing == ASSUME IInv, Execute PROVE IInv'
<1>0. TypeOK /\ Latest /\ Evidence /\ Carded
  BY DEF IInv
<1>1. PICK o : o = card.params.object
  OBVIOUS
<1>2. PICK f : f = Writes(card.params, card.hint)
  OBVIOUS
<1>3. PICK g : g = InverseWrites(card.params, card.hint)
  OBVIOUS
<1>4. /\ pc = "open" /\ pc' = "executed" /\ UNCHANGED <<catalog, events, card>> /\ Request(o, f)
      /\ done' = [replaced |-> live[o], found |-> Len(audit), undo |-> g]
  BY <1>1, <1>2, <1>3 DEF Execute
<1>5. /\ IsOf(card.cited, audit) /\ f \in Patches /\ o = card.cited.object /\ o \in Objects
      /\ DOMAIN f = DOMAIN g /\ \A k \in DOMAIN g : g[k] = card.cited.after[k]
  BY <1>0, <1>1, <1>2, <1>3, <1>4, OnTheCard
<1>6. /\ TypeOK' /\ Received' /\ Latest' /\ Replaced' /\ Evidence' /\ BeforeIsWhatWasThere'
      /\ live'[o] = Patched(live[o], f)
      /\ Len(audit) \in Nat /\ Len(audit') = Len(audit) + 1 /\ DOMAIN audit = 1..Len(audit)
      /\ \A p \in DOMAIN audit : audit'[p] = audit[p]
  BY <1>4, <1>5, Requesting
<1>7. done'.replaced = live[o] /\ done'.found = Len(audit) /\ done'.undo = g /\ live[o] \in Data
  BY <1>0, <1>4, <1>5 DEF TypeOK
<1>8. Carded'
  BY <1>0, <1>4 DEF Carded
<1>9. Written'
  BY <1>3, <1>4, <1>6, <1>7 DEF Written
<1>10. AsWritten'
  <2>1. live'[card'.params.object] = Patched(done'.replaced, Writes(card'.params, card'.hint))
    BY <1>1, <1>2, <1>4, <1>6, <1>7
  <2>2. ASSUME ~Drifted' PROVE \A k \in DOMAIN g : g[k] = live[o][k]
    <3>1. card.cited.place \in DOMAIN audit /\ audit[card.cited.place].object = o
          /\ audit[card.cited.place].body = card.cited.after
      BY <1>5 DEF IsOf
    <3>2. ASSUME NEW q \in card.cited.place + 1..Len(audit) PROVE audit[q].object # o
      <4>1. audit'[q].object # o
        BY <1>1, <1>4, <1>7, <2>2, <3>2 DEF Drifted
      <4>2. q \in DOMAIN audit
        BY <1>6, <3>1
      <4> QED
        BY <1>6, <4>1, <4>2
    <3>3. live[o] = card.cited.after
      BY <1>0, <3>1, <3>2 DEF Latest
    <3> QED
      BY <1>5, <3>3
  <2> QED
    BY <1>7, <2>1, <2>2 DEF AsWritten
<1>11. UndoGivesBackWhatWasReplaced'
  BY <1>4 DEF UndoGivesBackWhatWasReplaced
<1> QED
  BY <1>6, <1>8, <1>9, <1>10, <1>11 DEF IInv

LEMMA Undoing == ASSUME IInv, Undo PROVE IInv'
<1>0. TypeOK /\ Evidence /\ Carded /\ Written /\ AsWritten
  BY DEF IInv
<1>1. PICK o : o = card.params.object
  OBVIOUS
<1>2. PICK f : f = Writes(card.params, card.hint)
  OBVIOUS
<1>3. PICK g : g = done.undo
  OBVIOUS
<1>4. pc = "executed" /\ pc' = "undone" /\ UNCHANGED <<catalog, events, card, done>> /\ Request(o, g)
  BY <1>1, <1>3 DEF Undo
<1>5. /\ g = InverseWrites(card.params, card.hint) /\ done.replaced \in Data /\ done.found \in 0..Len(audit)
      /\ live[o] = Patched(done.replaced, f) /\ (~Drifted => \A k \in DOMAIN g : g[k] = done.replaced[k])
  BY <1>0, <1>1, <1>2, <1>3, <1>4 DEF Written, AsWritten
<1>6. IsOf(card.cited, audit) /\ g \in Patches /\ o \in Objects /\ DOMAIN f = DOMAIN g
  BY <1>0, <1>1, <1>2, <1>4, <1>5, OnTheCard
<1>7. /\ TypeOK' /\ Received' /\ Latest' /\ Replaced' /\ Evidence' /\ BeforeIsWhatWasThere'
      /\ live'[o] = Patched(live[o], g)
      /\ Len(audit) \in Nat /\ Len(audit') = Len(audit) + 1 /\ DOMAIN audit = 1..Len(audit)
      /\ \A p \in DOMAIN audit : audit'[p] = audit[p]
  BY <1>4, <1>6, Requesting
<1>8. Carded' /\ AsWritten'
  BY <1>0, <1>4 DEF Carded, AsWritten
<1>9. Written'
  BY <1>0, <1>4, <1>5, <1>7 DEF Written
<1>10. UndoGivesBackWhatWasReplaced'
  <2> SUFFICES ASSUME ~Drifted' PROVE live'[o] = done.replaced
    BY <1>1, <1>4 DEF UndoGivesBackWhatWasReplaced
  <2>1. ~Drifted
    <3>1. \A p \in (card.cited.place + 1)..done.found : p \in DOMAIN audit
      BY <1>5, <1>6, <1>7 DEF IsOf
    <3> QED
      BY <1>4, <1>7, <3>1 DEF Drifted
  <2> QED
    BY <1>5, <1>6, <1>7, <2>1, PutBack
<1> QED
  BY <1>7, <1>8, <1>9, <1>10 DEF IInv

LEMMA Standing == ASSUME IInv, UNCHANGED vars PROVE IInv'
<1>1. TypeOK' /\ Received' /\ Latest' /\ Replaced' /\ Evidence'
  BY DEF IInv, vars, cluster, TypeOK, Received, Latest, Replaced, Evidence, IsOf
<1>2. Carded' /\ Written' /\ AsWritten'
  BY DEF IInv, vars, cluster, Carded, Written, AsWritten, Drifted
<1>3. BeforeIsWhatWasThere' /\ UndoGivesBackWhatWasReplaced'
  BY DEF IInv, vars, cluster, BeforeIsWhatWasThere, UndoGivesBackWhatWasReplaced, Drifted
<1> QED
  BY <1>1, <1>2, <1>3 DEF IInv

LEMMA Step == IInv /\ [Next]_vars => IInv'
<1> SUFFICES ASSUME IInv, [Next]_vars PROVE IInv'
  OBVIOUS
<1>1. CASE Collect
  BY <1>1, Collecting
<1>2. CASE Propose
  BY <1>2, Proposing
<1>3. CASE Execute
  BY <1>3, Executing
<1>4. CASE Undo
  BY <1>4, Undoing
<1>5. CASE UNCHANGED vars
  BY <1>5, Standing
<1>6. CASE /\ pc \notin {"executed", "undone", "declined"}
           /\ \/ \E o \in Objects, who \in {"person", "controller"}, patch \in Edits : Receive(o, who, patch)
              \/ \E r \in inflight : Finish(r)
  BY <1>6, Serving
<1>7. CASE pc = "running" /\ Rotate
  BY <1>7, Serving
<1> QED
  BY <1>1, <1>2, <1>3, <1>4, <1>5, <1>6, <1>7 DEF Next

(* The log, what was collected of it, and what is on the card agree. *)
THEOREM Invariant == Spec => []IInv
BY Start, Step, PTL DEF Spec

(* Every reachable state is well typed. *)
THEOREM TypeCorrect == Spec => []TypeOK
<1>1. IInv => TypeOK
  BY DEF IInv
<1> QED
  BY Invariant, <1>1, PTL

(* A diff's "before" is what the change replaced (the collector's rebuilding of prior *)
(* state), in any window and any rotated log, for an object whose writes were all     *)
(* recorded and in order.                                                             *)
THEOREM DiffsAreTrue == Spec => []BeforeIsWhatWasThere
<1>1. IInv => BeforeIsWhatWasThere
  BY DEF IInv
<1> QED
  BY Invariant, <1>1, PTL

(* The recorded inverse of an executed revert (derive_inverse) gives the object back *)
(* as the revert found it, unless it was written to after the change.                *)
THEOREM UndoIsExact == Spec => []UndoGivesBackWhatWasReplaced
<1>1. IInv => UndoGivesBackWhatWasReplaced
  BY DEF IInv
<1> QED
  BY Invariant, <1>1, PTL

-----------------------------------------------------------------------------
(* What the catalog closes. *)

(* The hint of an event is of its object, on the keys it changed. *)
LEMMA Hints ==
  ASSUME NEW e, e.object \in Objects, e.after \in Data, e.before \in Data \cup {Unknown},
         Hint(e) # NoHint
  PROVE  /\ Hint(e).object = e.object
         /\ DOMAIN Hint(e).prior = Changed(e) /\ DOMAIN Hint(e).current = Changed(e)
         /\ Changed(e) \subseteq Keys
         /\ \A k \in Changed(e) : Hint(e).prior[k] \in Cell
<1>1. /\ e.before \in Data
      /\ Hint(e) = [object |-> e.object, prior |-> Restrict(e.before, Changed(e)),
                    current |-> Restrict(e.after, Changed(e))]
  BY DEF Hint
<1> QED
  BY <1>1 DEF Changed, Restrict, Data, Cell

(* A change of one key, to and from a value, is reverted by naming the key and the *)
(* recorded value: what the shipped and the widened schema take.                    *)
LEMMA OneKeyOpens ==
  ASSUME NEW e, e.object \in Objects, e.after \in Data, e.before \in Data \cup {Unknown},
         Hint(e) # NoHint, catalog # "writer",
         NEW k \in Keys, DOMAIN Hint(e).prior = {k},
         Hint(e).prior[k] # Absent, Hint(e).current[k] # Absent
  PROVE  \E p \in Params : Opens(p, e)
<1>1. PICK p : p = [action |-> "revert", object |-> e.object, key |-> k,
                    target |-> Hint(e).prior[k], keys |-> {}]
  OBVIOUS
<1>2. p \in Params
  BY <1>1, Hints DEF Params, Cell
<1>3. Valid(p)
  BY <1>1, ConstantsAssumption DEF Valid
<1>4. HintFor(p, e) = Hint(e)
  BY <1>1, Hints DEF HintFor, HintFits
<1>5. ~Several(Hint(e))
  <2>1. Cardinality({k}) = 1
    BY FS_Singleton
  <2> QED
    BY <2>1 DEF Several
<1>6. Invertible(p, Hint(e))
  BY <1>1, <1>5, Hints, ConstantsAssumption DEF Invertible, OneKey
<1> QED
  BY <1>2, <1>3, <1>4, <1>6 DEF Opens

(* A change of several keys is reverted by naming all of them, under the widened schema. *)
LEMMA SeveralKeysOpen ==
  ASSUME NEW e, e.object \in Objects, e.after \in Data, e.before \in Data \cup {Unknown},
         Hint(e) # NoHint, catalog = "widened", Several(Hint(e))
  PROVE  \E p \in Params : Opens(p, e)
<1>1. PICK p : p = [action |-> "revert", object |-> e.object, key |-> Absent,
                    target |-> Absent, keys |-> DOMAIN Hint(e).prior]
  OBVIOUS
<1>2. p \in Params
  BY <1>1, Hints DEF Params
<1>3. Valid(p)
  BY <1>1 DEF Valid
<1>4. HintFor(p, e) = Hint(e)
  BY <1>1, Hints DEF HintFor, HintFits
<1>5. p.keys # {}
  BY <1>1, FS_EmptySet DEF Several
<1>6. Invertible(p, Hint(e))
  BY <1>1, <1>5, Hints DEF Invertible, RecordedKeys
<1> QED
  BY <1>2, <1>3, <1>4, <1>6 DEF Opens

(* A change the catalog is said to close can be put on a card by a proposal that *)
(* cites it, so long as no writer-backed action was merged (request_for_event,   *)
(* validate_proposal): that action's schema takes what this one's change hints.  *)
THEOREM ClosedIsReachable ==
  ASSUME "writer" \notin Catalogs
  PROVE  Spec => []ClosedChangesCanBeProposed
<1>1. IInv => ClosedChangesCanBeProposed
  <2> SUFFICES ASSUME IInv, NEW e \in events, Closed(e)
               PROVE  \E p \in Params : Opens(p, e)
    BY DEF ClosedChangesCanBeProposed
  <2>1. e.object \in Objects /\ e.after \in Data /\ e.before \in Data \cup {Unknown}
    BY DEF IInv, Evidence
  <2>2. catalog # "writer"
    BY DEF IInv, TypeOK
  <2>3. CASE \E k \in Keys : /\ Hint(e) # NoHint /\ DOMAIN Hint(e).prior = {k}
                             /\ Hint(e).prior[k] # Absent /\ Hint(e).current[k] # Absent
    BY <2>1, <2>2, <2>3, OneKeyOpens
  <2>4. CASE Hint(e) # NoHint /\ Several(Hint(e)) /\ catalog = "widened"
    BY <2>1, <2>4, SeveralKeysOpen
  <2>5. WriterHint(e) = NoHint
    BY <2>2 DEF WriterHint
  <2> QED
    BY <2>3, <2>4, <2>5 DEF Closed
<1> QED
  BY <1>1, Invariant, PTL

=============================================================================
