------------------------ MODULE ApprovalGatewayProofs ------------------------
(***************************************************************************)
(* What ApprovalGateway keeps true for every number of keys, threads,      *)
(* calls, ticks and restarts.                                              *)
(***************************************************************************)
EXTENDS ApprovalGateway, TLAPS

-----------------------------------------------------------------------------
(* Types *)

(* The sentinels and the values the helpers build have their types. *)
LEMMA HelperTypes ==
  ASSUME TypeOK
  PROVE  /\ NoCard \in Card
         /\ NoOutcome \in Outcome
         /\ NoRequests \in [Deciders -> [id: Nat, key: Keys,
                               digest: Digests \cup {NoDigest}, kind: Kinds, role: Roles]]
         /\ \A id \in Nat, executed \in BOOLEAN : Approved(id, executed) \in Outcome
         /\ \A id \in Nat : Rejected(id) \in Outcome
         /\ Expiry(now) \in Nat \cup {Never}
<1>1. NoCard \in Card
  BY DEF NoCard, Card, Never, Tiers
<1>2. NoOutcome \in Outcome
  BY DEF NoOutcome, Outcome
<1>3. (CHOOSE k \in Keys : TRUE) \in Keys
  BY ConstantsAssumption
<1>4. NoRequests \in [Deciders -> [id: Nat, key: Keys, digest: Digests \cup {NoDigest},
                                   kind: Kinds, role: Roles]]
  BY <1>3 DEF NoRequests, NoRequest, Kinds, Roles
<1>5. /\ \A id \in Nat, executed \in BOOLEAN : Approved(id, executed) \in Outcome
      /\ \A id \in Nat : Rejected(id) \in Outcome
  BY DEF Approved, Rejected, Outcome
<1>6. Expiry(now) \in Nat \cup {Never}
  BY ConstantsAssumption DEF Expiry, TypeOK, Never
<1> QED
  BY <1>1, <1>2, <1>4, <1>5, <1>6

(* The empty tables and idle threads are well typed. *)
LEMMA TypeInit == Init => TypeOK
<1> SUFFICES ASSUME Init PROVE TypeOK
  OBVIOUS
<1>1. (CHOOSE k \in Keys : TRUE) \in Keys
  BY ConstantsAssumption
<1>2. NoCard \in Card /\ NoOutcome \in Outcome
  BY DEF NoCard, Card, NoOutcome, Outcome, Never, Tiers
<1> QED
  BY <1>1, <1>2 DEF Init, TypeOK, NoRequests, NoRequest, Kinds, Roles

(* Registration opens cards of a promoted tier, with an expiry. *)
LEMMA TypeRegistration == TypeOK /\ Registration => TypeOK'
<1> SUFFICES ASSUME TypeOK, Registration PROVE TypeOK'
  OBVIOUS
<1>1. ASSUME NEW k \in Keys, NEW digest \in Digests, NEW tier \in Tiers,
             NEW provisional \in BOOLEAN, Build(k, digest, tier, provisional)
      PROVE  TypeOK'
  <2>1. [digest |-> digest, tier |-> tier, provisional |-> provisional,
         expires |-> Expiry(now)] \in Card
    BY HelperTypes DEF Card
  <2> QED
    BY <1>1, <2>1 DEF TypeOK, Build, tables, locals, history
<1>2. ASSUME NEW k \in Keys, NEW digest \in Digests, NEW fired \in BOOLEAN,
             Register(k, digest, fired)
      PROVE  TypeOK'
  <2>1. Declared[k] \in ActionSpec
    BY <1>2, ConstantsAssumption DEF Register
  <2>2. Promote(Declared[k].tier, fired) \in Tiers
    BY <2>1 DEF Promote, ActionSpec, Tiers, ManagerApproval
  <2> QED
    BY <1>1, <1>2, <2>1, <2>2 DEF Register, ActionSpec
<1>3. ASSUME NEW k \in Keys, NEW digest \in Digests, RegisterOneShot(k, digest)
      PROVE  TypeOK'
  BY <1>1, <1>3 DEF RegisterOneShot, ManagerApproval, Tiers
<1>4. ASSUME NEW o \in opening, CheckUndecided(o)
      PROVE  TypeOK'
  BY <1>4 DEF TypeOK, CheckUndecided, tables, locals, history
<1>5. ASSUME NEW o \in opening, OpenCard(o)
      PROVE  TypeOK'
  <2>1. o.key \in Keys /\ o.card \in Card /\ o.card.digest \in Digests \cup {NoDigest}
    BY <1>5 DEF TypeOK, Card
  <2> QED
    BY <1>5, <2>1 DEF TypeOK, OpenCard, locals, history
<1> QED
  BY <1>2, <1>3, <1>4, <1>5 DEF Registration

(* Every step of a decider's thread keeps tables, locals and history typed. *)
LEMMA TypeDecide ==
  ASSUME TypeOK, NEW d \in Deciders, Clicks(d) \/ Decide(d) \/ Execute(d)
  PROVE  TypeOK'
<1> USE HelperTypes DEF Goto, tables, locals, history
<1>1. /\ req[d] \in [id: Nat, key: Keys, digest: Digests \cup {NoDigest}, kind: Kinds,
                     role: Roles]
      /\ Key(d) \in Keys /\ Id(d) \in Nat
  BY DEF TypeOK, Key, Id
<1>2. /\ Returned(d) \in [Deciders -> [id: Nat, key: Keys, digest: Digests \cup {NoDigest},
                                       kind: Kinds, role: Roles]]
      /\ Recorded(d) \in [Keys -> Outcome]
      /\ Told(d) \subseteq Nat /\ Unclaimed(d) \subseteq Keys
  BY <1>1 DEF TypeOK, Returned, NoRequest, Kinds, Roles, Recorded, Told, Unclaimed
<1>3. CASE Clicks(d)
  BY <1>3 DEF Clicks, Click, TypeOK
<1>4. CASE Replay(d)
  BY <1>1, <1>2, <1>4 DEF Replay, TypeOK
<1>5. CASE Claim(d)
  BY <1>1, <1>5 DEF Claim, TypeOK
<1>6. CASE Wait(d) \/ NotAwaiting(d) \/ Refuse(d) \/ Permit(d) \/ MintFails(d)
  BY <1>6 DEF Wait, NotAwaiting, Refuse, Permit, MintFails, TypeOK
<1>7. CASE Lookup(d)
  BY <1>1, <1>7 DEF Lookup, TypeOK
<1>8. CASE Reject(d)
  BY <1>1, <1>8 DEF Reject, TypeOK
<1>9. CASE Mint(d)
  <2>1. card[d] \in Card
    BY DEF TypeOK
  <2>2. RequiresManager(card[d]) \in BOOLEAN /\ card[d].digest \in Digests \cup {NoDigest}
    BY <2>1 DEF RequiresManager, Card
  <2>3. /\ minted' \subseteq [call: Nat, key: Keys, life: Nat, role: Roles, manager: BOOLEAN,
                             read: Digests \cup {NoDigest}, runs: Digests \cup {NoDigest}]
        /\ cred' \in [Deciders -> Nat]
    BY <1>1, <1>9, <2>2, ConstantsAssumption DEF Mint, TypeOK, CardToRun
  <2> QED
    BY <1>9, <2>3 DEF Mint, TypeOK
<1>10. CASE Gate(d)
  BY <1>10 DEF Gate, TypeOK
<1>11. CASE RunFails(d)
  BY <1>1, <1>11 DEF RunFails, TypeOK
<1>12. CASE \E executed \in BOOLEAN : Mutate(d, executed)
  BY <1>1, <1>12 DEF Mutate, TypeOK
<1>13. CASE Record(d) \/ Close(d) \/ Notify(d)
  <2>1. CASE Record(d)
    BY <1>2, <2>1 DEF Record, TypeOK
  <2>2. CASE Close(d)
    BY <1>1, <2>2 DEF Close, TypeOK
  <2>3. CASE Notify(d)
    BY <1>2, <2>3 DEF Notify, TypeOK
  <2> QED
    BY <1>13, <2>1, <2>2, <2>3
<1>14. CASE Release(d)
  BY <1>1, <1>2, <1>14 DEF Release, Notified, TypeOK
<1> QED
  BY <1>3, <1>4, <1>5, <1>6, <1>7, <1>8, <1>9, <1>10, <1>11, <1>12, <1>13, <1>14
  DEF Decide, Execute

(* So does every step of the system. *)
LEMMA TypeStep == TypeOK /\ [Next]_vars => TypeOK'
<1> SUFFICES ASSUME TypeOK, [Next]_vars PROVE TypeOK'
  OBVIOUS
<1>1. CASE Registration
  BY <1>1, TypeRegistration
<1>2. CASE \E d \in Deciders : Clicks(d) \/ Decide(d) \/ Execute(d)
  BY <1>2, TypeDecide
<1>3. CASE Tick
  BY <1>3 DEF Tick, TypeOK, tables, locals, history
<1>4. CASE Restart
  BY <1>4, HelperTypes DEF Restart, TypeOK, history
<1>5. CASE UNCHANGED vars
  BY <1>5 DEF vars, TypeOK
<1> QED
  BY <1>1, <1>2, <1>3, <1>4, <1>5 DEF Next

(* Every reachable state is well typed, whatever the constants. *)
THEOREM TypeCorrect == Spec => []TypeOK
BY TypeInit, TypeStep, PTL DEF Spec
-----------------------------------------------------------------------------
(* The inductive invariant *)

(* Nothing is decided of a key while a thread is deciding it. *)
ClaimedIsUndecided ==
  \A d \in Deciders :
    pc[d] \in {"claimed", "checking", "minting", "running", "writing", "recording"}
      => ~IsDecided(Key(d))

(* What a thread has in hand: nothing before it records, a decision of its *)
(* own while it records, the recorded outcome ever after.                  *)
ResultInHand(d) ==
  /\ pc[d] \in {"enter", "waiting", "claimed", "checking", "minting", "running", "writing"}
       => res[d] = NoOutcome
  /\ pc[d] = "recording" =>
       /\ res[d].by = Id(d)
       /\ \/ res[d].decision = "rejected" /\ ~res[d].executed
          \/ res[d].decision = "approved"
       /\ res[d].executed => [call |-> Id(d), key |-> Key(d), life |-> life] \in landed
  /\ pc[d] \in {"closing", "notifying", "releasing", "idle"} /\ res[d] # NoOutcome
       => outcomes[Key(d)] = res[d]

ResultsInHand == \A d \in Deciders : ResultInHand(d)

(* The checks of a call that mints have passed, on the card it holds. *)
MintIsPermitted ==
  \A d \in Deciders : pc[d] = "minting" => ~IsStale(d) /\ ~NotPermitted(d)

(* A credential of this life is in use or its key is decided. *)
MintedIsSpent ==
  \A c \in minted : c.life = life =>
    \/ IsDecided(c.key)
    \/ \E d \in Deciders : pc[d] \in {"running", "writing", "recording"} /\ Key(d) = c.key

HistoryIsPast ==
  /\ \A m \in landed : m.life <= life
  /\ \A c \in minted : c.life <= life

(* What the threads, the claims and their results satisfy. *)
Control ==
  /\ ClaimIsExclusive
  /\ ClaimedIsUndecided
  /\ ResultsInHand
  /\ MintIsPermitted

(* What the credentials and mutations of the past satisfy. *)
Past ==
  /\ HistoryIsPast
  /\ MutationIsRecorded
  /\ ExecutesAtMostOnce
  /\ OutcomeIsTrue
  /\ MintedIsSpent
  /\ CredentialIsJustified

IInv == TypeOK /\ Control /\ Past

(* Nothing was decided, no thread runs and nothing landed yet. *)
LEMMA InitIInv == Init => IInv
<1> SUFFICES ASSUME Init PROVE IInv
  OBVIOUS
<1>1. TypeOK
  BY TypeInit
<1>2. Control
  BY DEF Init, Control, ClaimIsExclusive, ClaimedIsUndecided, ResultsInHand, ResultInHand,
         MintIsPermitted, Holding
<1>3. Past
  BY DEF Init, Past, HistoryIsPast, MutationIsRecorded, ExecutesAtMostOnce, OutcomeIsTrue,
         MintedIsSpent, CredentialIsJustified, NoOutcome
<1> QED
  BY <1>1, <1>2, <1>3 DEF IInv

-----------------------------------------------------------------------------
(* Control *)

(* Control reads the threads, the claims and the outcomes only. *)
LEMMA ControlFrame ==
  ASSUME Control, UNCHANGED <<life, outcomes, deciding, locals, landed>>
  PROVE  Control'
BY DEF Control, locals, ClaimIsExclusive, ClaimedIsUndecided, ResultsInHand, ResultInHand,
       MintIsPermitted, Holding, IsStale, NotPermitted, RequiresManager, IsDecided, Key, Id

(* Every step of a thread keeps Control: two actions touch the claims (Claim *)
(* and Release), one an outcome (Record), the others only their own thread.  *)
LEMMA ControlStep ==
  ASSUME IInv, NEW d \in Deciders, Clicks(d) \/ Decide(d) \/ Execute(d)
  PROVE  Control'
<1> USE DEF tables, locals, history, Goto, IInv, Control, TypeOK, Key, Id, IsDecided, Holding
<1>1. CASE Clicks(d)
  <2>1. ClaimIsExclusive' /\ ClaimedIsUndecided'
    BY <1>1 DEF Clicks, Click, ClaimIsExclusive, ClaimedIsUndecided
  <2>2. ResultsInHand'
    BY <1>1 DEF Clicks, Click, ResultsInHand, ResultInHand
  <2>3. MintIsPermitted'
    BY <1>1 DEF Clicks, Click, MintIsPermitted, IsStale, NotPermitted, RequiresManager
  <2> QED
    BY <2>1, <2>2, <2>3
<1>2. CASE Replay(d)
  <2>1. ClaimIsExclusive' /\ ClaimedIsUndecided'
    BY <1>2 DEF Replay, Returned, NoRequest, ClaimIsExclusive, ClaimedIsUndecided
  <2>2. ResultsInHand'
    BY <1>2 DEF Replay, Returned, NoRequest, ResultsInHand, ResultInHand
  <2>3. MintIsPermitted'
    BY <1>2 DEF Replay, Returned, NoRequest, MintIsPermitted, IsStale, NotPermitted,
                RequiresManager
  <2> QED
    BY <2>1, <2>2, <2>3
<1>3. CASE Claim(d)
  BY <1>3 DEF Claim, InFlight, ClaimIsExclusive, ClaimedIsUndecided, ResultsInHand,
              ResultInHand, MintIsPermitted, IsStale, NotPermitted, RequiresManager
<1>4. CASE Wait(d)
  BY <1>4 DEF Wait, ClaimIsExclusive, ClaimedIsUndecided, ResultsInHand, ResultInHand,
              MintIsPermitted, IsStale, NotPermitted, RequiresManager
<1>5. CASE Lookup(d)
  BY <1>5 DEF Lookup, ClaimIsExclusive, ClaimedIsUndecided, ResultsInHand, ResultInHand,
              MintIsPermitted, IsStale, NotPermitted, RequiresManager
<1>6. CASE NotAwaiting(d)
  BY <1>6 DEF NotAwaiting, ClaimIsExclusive, ClaimedIsUndecided, ResultsInHand,
              ResultInHand, MintIsPermitted, IsStale, NotPermitted, RequiresManager, NoOutcome
<1>7. CASE Refuse(d)
  BY <1>7 DEF Refuse, ClaimIsExclusive, ClaimedIsUndecided, ResultsInHand, ResultInHand,
              MintIsPermitted, IsStale, NotPermitted, RequiresManager
<1>8. CASE Reject(d)
  <2>1. ClaimIsExclusive' /\ ClaimedIsUndecided' /\ MintIsPermitted'
    BY <1>8 DEF Reject, ClaimIsExclusive, ClaimedIsUndecided, MintIsPermitted, IsStale,
                NotPermitted, RequiresManager
  <2>2. ResultsInHand'
    BY <1>8 DEF Reject, Rejected, ResultsInHand, ResultInHand
  <2> QED
    BY <2>1, <2>2
<1>9. CASE Permit(d)
  BY <1>9 DEF Permit, ClaimIsExclusive, ClaimedIsUndecided, ResultsInHand, ResultInHand,
              MintIsPermitted, IsStale, NotPermitted, RequiresManager
<1>10. CASE Mint(d)
  BY <1>10 DEF Mint, ClaimIsExclusive, ClaimedIsUndecided, ResultsInHand, ResultInHand,
               MintIsPermitted, IsStale, NotPermitted, RequiresManager
<1>11. CASE MintFails(d)
  BY <1>11 DEF MintFails, ClaimIsExclusive, ClaimedIsUndecided, ResultsInHand, ResultInHand,
               MintIsPermitted, IsStale, NotPermitted, RequiresManager
<1>12. CASE Gate(d)
  BY <1>12 DEF Gate, ClaimIsExclusive, ClaimedIsUndecided, ResultsInHand, ResultInHand,
               MintIsPermitted, IsStale, NotPermitted, RequiresManager
<1>13. CASE RunFails(d)
  <2>1. ClaimIsExclusive'
    <3>1. \A e \in Deciders : Holding(e)' = Holding(e) /\ Key(e)' = Key(e)
      BY <1>13 DEF RunFails
    <3>2. UNCHANGED deciding
      BY <1>13 DEF RunFails
    <3> QED
      BY <3>1, <3>2 DEF ClaimIsExclusive
  <2>2. ClaimedIsUndecided' /\ MintIsPermitted'
    BY <1>13 DEF RunFails, ClaimedIsUndecided, MintIsPermitted, IsStale, NotPermitted,
                 RequiresManager
  <2>3. ResultsInHand'
    BY <1>13 DEF RunFails, Approved, ResultsInHand, ResultInHand
  <2> QED
    BY <2>1, <2>2, <2>3
<1>14. CASE \E executed \in BOOLEAN : Mutate(d, executed)
  <2>1. ClaimIsExclusive' /\ ClaimedIsUndecided' /\ MintIsPermitted'
    BY <1>14 DEF Mutate, ClaimIsExclusive, ClaimedIsUndecided, MintIsPermitted, IsStale,
                 NotPermitted, RequiresManager
  <2>2. ResultsInHand'
    BY <1>14 DEF Mutate, Approved, ResultsInHand, ResultInHand
  <2> QED
    BY <2>1, <2>2
<1>15. CASE Record(d)
  <2>1. ClaimIsExclusive' /\ MintIsPermitted'
    BY <1>15 DEF Record, ClaimIsExclusive, MintIsPermitted, IsStale, NotPermitted,
                 RequiresManager
  <2>2. \A e \in Deciders : e # d /\ pc[e] \notin {"idle", "enter", "waiting"} => Key(e) # Key(d)
    BY <1>15 DEF Record, ClaimIsExclusive
  <2>3. ClaimedIsUndecided'
    BY <1>15, <2>2 DEF Record, Recorded, ClaimedIsUndecided
  <2>4. outcomes[Key(d)] = NoOutcome
    BY <1>15 DEF Record, ClaimedIsUndecided
  <2>5. ResultsInHand'
    <3> SUFFICES ASSUME NEW e \in Deciders PROVE ResultInHand(e)'
      BY DEF ResultsInHand
    <3>1. CASE e = d
      BY <1>15, <3>1 DEF Record, Recorded, ResultsInHand, ResultInHand
    <3>2. CASE e # d /\ Key(e) = Key(d)
      BY <1>15, <2>2, <2>4, <3>2 DEF Record, Recorded, ResultsInHand, ResultInHand
    <3>3. CASE e # d /\ Key(e) # Key(d)
      BY <1>15, <3>3 DEF Record, Recorded, ResultsInHand, ResultInHand
    <3> QED
      BY <3>1, <3>2, <3>3
  <2> QED
    BY <2>1, <2>3, <2>5
<1>16. CASE Close(d)
  BY <1>16 DEF Close, ClaimIsExclusive, ClaimedIsUndecided, ResultsInHand, ResultInHand,
               MintIsPermitted, IsStale, NotPermitted, RequiresManager
<1>17. CASE Notify(d)
  BY <1>17 DEF Notify, ClaimIsExclusive, ClaimedIsUndecided, ResultsInHand, ResultInHand,
               MintIsPermitted, IsStale, NotPermitted, RequiresManager
<1>18. CASE Release(d)
  <2>1. \A e \in Deciders : e # d /\ Holding(e) => Key(e) # Key(d)
    BY <1>18 DEF Release, ClaimIsExclusive
  <2>2. \A e \in Deciders : Holding(e)' <=> Holding(e) /\ e # d
    BY <1>18 DEF Release, Notified
  <2>3. \A e \in Deciders : Key(e)' = Key(e)
    BY <1>18 DEF Release, Returned, NoRequest
  <2>4. deciding' = deciding \ {Key(d)}
    BY <1>18 DEF Release, Unclaimed
  <2>5. Holding(d)
    BY <1>18 DEF Release
  <2>6. ClaimIsExclusive'
    <3> HIDE DEF Holding, Key
    <3> QED
      BY <2>1, <2>2, <2>3, <2>4, <2>5 DEF ClaimIsExclusive
  <2>7. ClaimedIsUndecided' /\ MintIsPermitted'
    BY <1>18 DEF Release, Notified, Returned, NoRequest, ClaimedIsUndecided, MintIsPermitted,
                 IsStale, NotPermitted, RequiresManager
  <2>8. ResultsInHand'
    BY <1>18 DEF Release, Notified, Returned, NoRequest, ResultsInHand, ResultInHand
  <2> QED
    BY <2>6, <2>7, <2>8
<1> QED
  BY <1>1, <1>2, <1>3, <1>4, <1>5, <1>6, <1>7, <1>8, <1>9, <1>10, <1>11, <1>12, <1>13,
     <1>14, <1>15, <1>16, <1>17, <1>18
  DEF Decide, Execute

-----------------------------------------------------------------------------
(* Past *)

(* A step that writes no history and no outcome keeps all that is said of  *)
(* them, provided the threads that record keep their result and those that *)
(* run go no further than recording.                                       *)
LEMMA PastFrame ==
  ASSUME IInv, UNCHANGED <<life, outcomes, landed, minted>>,
         \A e \in Deciders :
           /\ pc[e] = "recording" => /\ pc'[e] = "recording"
                                     /\ res'[e] = res[e] /\ req'[e] = req[e]
           /\ pc[e] \in {"running", "writing"} =>
                /\ pc'[e] \in {"running", "writing", "recording"}
                /\ req'[e] = req[e]
  PROVE  Past'
<1> USE DEF IInv, Past, IsDecided, Key, Id
<1>1. HistoryIsPast' /\ ExecutesAtMostOnce' /\ OutcomeIsTrue' /\ CredentialIsJustified'
  BY DEF HistoryIsPast, ExecutesAtMostOnce, OutcomeIsTrue, CredentialIsJustified
<1>2. MutationIsRecorded'
  BY DEF MutationIsRecorded
<1>3. MintedIsSpent'
  BY DEF MintedIsSpent
<1> QED
  BY <1>1, <1>2, <1>3

(* The key of a thread that has not recorded has no mutation of this life, *)
(* and before it runs no credential of this life.                          *)
LEMMA ClaimedIsFresh ==
  ASSUME IInv, NEW d \in Deciders
  PROVE  /\ pc[d] \in {"minting", "running", "writing"}
              => \A m \in landed : m.life = life => m.key # Key(d)
         /\ pc[d] = "minting" => \A c \in minted : c.life = life => c.key # Key(d)
<1> USE DEF IInv, Control, Past, ClaimIsExclusive, ClaimedIsUndecided, Holding, IsDecided
<1>1. ASSUME pc[d] \in {"minting", "running", "writing"}, NEW m \in landed, m.life = life,
             m.key = Key(d)
      PROVE  FALSE
  <2>1. outcomes[Key(d)].decision = "none"
    BY <1>1 DEF NoOutcome
  <2>2. PICK e \in Deciders : pc[e] = "recording" /\ Key(e) = Key(d)
    BY <1>1, <2>1 DEF MutationIsRecorded
  <2> QED
    BY <1>1, <2>2
<1>2. ASSUME pc[d] = "minting", NEW c \in minted, c.life = life, c.key = Key(d)
      PROVE  FALSE
  <2>1. PICK e \in Deciders :
          pc[e] \in {"running", "writing", "recording"} /\ Key(e) = Key(d)
    BY <1>2 DEF MintedIsSpent
  <2> QED
    BY <1>2, <2>1
<1> QED
  BY <1>1, <1>2

(* A credential is the first of its key, for a call whose checks passed. *)
LEMMA MintKeepsPast ==
  ASSUME IInv, NEW d \in Deciders, Mint(d)
  PROVE  Past'
<1> DEFINE new == [call |-> Id(d), key |-> Key(d), life |-> life, role |-> req[d].role,
                   manager |-> RequiresManager(card[d]), read |-> req[d].digest,
                   runs |-> card[d].digest]
<1> USE DEF IInv, Control, Past, TypeOK
<1>1. /\ UNCHANGED <<life, outcomes, landed, res, req>>
      /\ minted' = minted \cup {new}
      /\ pc[d] = "minting" /\ pc' = [pc EXCEPT ![d] = "running"]
  BY DEF Mint, Goto, tables, CardToRun
<1>2. HistoryIsPast'
  BY <1>1 DEF HistoryIsPast
<1>3. MutationIsRecorded'
  BY <1>1 DEF MutationIsRecorded, Key, Id
<1>4. ExecutesAtMostOnce' /\ OutcomeIsTrue'
  BY <1>1 DEF ExecutesAtMostOnce, OutcomeIsTrue
<1>5. MintedIsSpent'
  <2> SUFFICES ASSUME NEW c \in minted', c.life = life
               PROVE  \/ IsDecided(c.key)
                      \/ \E e \in Deciders : /\ pc'[e] \in {"running", "writing", "recording"}
                                             /\ Key(e) = c.key
    BY <1>1 DEF MintedIsSpent, IsDecided, Key
  <2>1. CASE c \in minted
    BY <1>1, <2>1 DEF MintedIsSpent
  <2>2. CASE c = new
    BY <1>1, <2>2
  <2> QED
    BY <1>1, <2>1, <2>2
<1>6. CredentialIsJustified'
  <2>1. new.read \in {NoDigest, new.runs} /\ (new.manager => new.role = "manager")
    BY <1>1 DEF MintIsPermitted, IsStale, NotPermitted
  <2>2. \A c \in minted : c.life = life => c.key # Key(d)
    BY <1>1, ClaimedIsFresh
  <2> QED
    BY <1>1, <2>1, <2>2 DEF CredentialIsJustified
<1> QED
  BY <1>2, <1>3, <1>4, <1>5, <1>6

(* A mutation is the first of its key in this life, and its call records it. *)
LEMMA MutateKeepsPast ==
  ASSUME IInv, NEW d \in Deciders, NEW executed \in BOOLEAN, Mutate(d, executed)
  PROVE  Past'
<1> DEFINE new == [call |-> Id(d), key |-> Key(d), life |-> life]
<1> USE DEF IInv, Control, Past, TypeOK
<1>1. /\ UNCHANGED <<life, outcomes, minted, req>>
      /\ landed' = landed \cup {new}
      /\ pc[d] = "writing" /\ pc' = [pc EXCEPT ![d] = "recording"]
      /\ res' = [res EXCEPT ![d] = Approved(Id(d), executed)]
  BY DEF Mutate, Goto, tables
<1>2. \A m \in landed : m.life = life => m.key # Key(d)
  BY <1>1, ClaimedIsFresh
<1>3. HistoryIsPast'
  BY <1>1 DEF HistoryIsPast
<1>4. MutationIsRecorded'
  <2> SUFFICES ASSUME NEW m \in landed', m.life = life
               PROVE  \/ outcomes[m.key].decision = "approved" /\ outcomes[m.key].by = m.call
                      \/ \E e \in Deciders :
                           /\ pc'[e] = "recording" /\ res'[e].decision = "approved"
                           /\ Id(e) = m.call /\ Key(e) = m.key
    BY <1>1 DEF MutationIsRecorded, Key, Id
  <2>1. CASE m \in landed
    BY <1>1, <2>1 DEF MutationIsRecorded
  <2>2. CASE m = new
    BY <1>1, <2>2 DEF Approved
  <2> QED
    BY <1>1, <2>1, <2>2
<1>5. ExecutesAtMostOnce'
  BY <1>1, <1>2 DEF ExecutesAtMostOnce
<1>6. OutcomeIsTrue'
  <2>1. ~IsDecided(Key(d))
    BY <1>1 DEF ClaimedIsUndecided
  <2> QED
    BY <1>1, <2>1 DEF OutcomeIsTrue, IsDecided, NoOutcome
<1>7. MintedIsSpent' /\ CredentialIsJustified'
  BY <1>1 DEF MintedIsSpent, CredentialIsJustified, IsDecided, Key
<1> QED
  BY <1>3, <1>4, <1>5, <1>6, <1>7

(* The outcome a thread records is the first of its key and the true one. *)
LEMMA RecordKeepsPast ==
  ASSUME IInv, NEW d \in Deciders, Record(d)
  PROVE  Past'
<1> USE DEF IInv, Control, Past, TypeOK
<1>1. /\ UNCHANGED <<life, landed, minted, req, res>>
      /\ outcomes' = [outcomes EXCEPT ![Key(d)] = res[d]]
      /\ pc[d] = "recording" /\ pc' = [pc EXCEPT ![d] = "closing"]
      /\ Key(d) \in Keys
  BY DEF Record, Recorded, Goto, tables, history, Key
<1>2. \A e \in Deciders : e # d /\ pc[e] = "recording" => Key(e) # Key(d)
  BY <1>1 DEF ClaimIsExclusive, Holding
<1>3. outcomes[Key(d)].decision = "none"
  BY <1>1 DEF ClaimedIsUndecided, IsDecided, NoOutcome
<1>4. /\ res[d].by = Id(d)
      /\ \/ res[d].decision = "approved"
         \/ res[d].decision = "rejected" /\ ~res[d].executed
      /\ res[d].executed => [call |-> Id(d), key |-> Key(d), life |-> life] \in landed
  BY <1>1 DEF ResultsInHand, ResultInHand
<1>5. \A m \in landed : m.life = life /\ m.key = Key(d)
        => res[d].decision = "approved" /\ m.call = Id(d)
  BY <1>1, <1>2, <1>3 DEF MutationIsRecorded
<1>6. MutationIsRecorded'
  <2> SUFFICES ASSUME NEW m \in landed, m.life = life
               PROVE  \/ outcomes'[m.key].decision = "approved" /\ outcomes'[m.key].by = m.call
                      \/ \E e \in Deciders :
                           /\ pc'[e] = "recording" /\ res[e].decision = "approved"
                           /\ Id(e) = m.call /\ Key(e) = m.key
    BY <1>1 DEF MutationIsRecorded, Key, Id
  <2>1. CASE m.key = Key(d)
    BY <1>1, <1>4, <1>5, <2>1
  <2>2. CASE m.key # Key(d)
    <3>1. outcomes'[m.key] = outcomes[m.key]
      BY <1>1, <2>2
    <3>2. \A e \in Deciders : Key(e) = m.key => pc'[e] = pc[e]
      BY <1>1, <2>2
    <3> QED
      BY <3>1, <3>2 DEF MutationIsRecorded
  <2> QED
    BY <2>1, <2>2
<1>7. OutcomeIsTrue'
  <2> SUFFICES ASSUME NEW k \in Keys
               PROVE  /\ outcomes'[k].executed =>
                           [call |-> outcomes'[k].by, key |-> k, life |-> life] \in landed
                      /\ outcomes'[k].decision = "rejected" =>
                           \A m \in landed : m.life = life => m.key # k
    BY <1>1 DEF OutcomeIsTrue
  <2>1. CASE k = Key(d)
    BY <1>1, <1>4, <1>5, <2>1
  <2>2. CASE k # Key(d)
    BY <1>1, <2>2 DEF OutcomeIsTrue
  <2> QED
    BY <2>1, <2>2
<1>8. MintedIsSpent'
  <2>1. IsDecided(Key(d))'
    BY <1>1, <1>4 DEF IsDecided, NoOutcome, Key
  <2> SUFFICES ASSUME NEW c \in minted, c.life = life
               PROVE  \/ IsDecided(c.key)'
                      \/ \E e \in Deciders : /\ pc'[e] \in {"running", "writing", "recording"}
                                             /\ Key(e) = c.key
    BY <1>1 DEF MintedIsSpent, IsDecided, Key
  <2>2. CASE c.key = Key(d)
    BY <1>1, <2>1, <2>2 DEF Key, IsDecided
  <2>3. CASE c.key # Key(d)
    BY <1>1, <2>3 DEF MintedIsSpent, IsDecided
  <2> QED
    BY <2>2, <2>3
<1>9. HistoryIsPast' /\ ExecutesAtMostOnce' /\ CredentialIsJustified'
  BY <1>1 DEF HistoryIsPast, ExecutesAtMostOnce, CredentialIsJustified
<1> QED
  BY <1>6, <1>7, <1>8, <1>9

(* Only Mint, Mutate and Record touch what Past is about; the frame does the rest. *)
LEMMA PastStep ==
  ASSUME IInv, NEW d \in Deciders, Clicks(d) \/ Decide(d) \/ Execute(d)
  PROVE  Past'
<1> USE DEF tables, locals, history, Goto, IInv, TypeOK
<1>1. CASE Clicks(d)
  BY <1>1, PastFrame DEF Clicks, Click
<1>2. CASE Replay(d) \/ Claim(d) \/ Wait(d) \/ Lookup(d) \/ NotAwaiting(d)
  BY <1>2, PastFrame DEF Replay, Returned, Claim, Wait, Lookup, NotAwaiting
<1>3. CASE Refuse(d) \/ Reject(d) \/ Permit(d) \/ MintFails(d)
  BY <1>3, PastFrame DEF Refuse, Reject, Permit, MintFails
<1>4. CASE Mint(d)
  BY <1>4, MintKeepsPast
<1>5. CASE Gate(d) \/ RunFails(d)
  BY <1>5, PastFrame DEF Gate, RunFails
<1>6. CASE \E executed \in BOOLEAN : Mutate(d, executed)
  BY <1>6, MutateKeepsPast
<1>7. CASE Record(d)
  BY <1>7, RecordKeepsPast
<1>8. CASE Close(d) \/ Notify(d)
  BY <1>8, PastFrame DEF Close, Notify
<1>9. CASE Release(d)
  BY <1>9, PastFrame DEF Release, Returned, Notified
<1> QED
  BY <1>1, <1>2, <1>3, <1>4, <1>5, <1>6, <1>7, <1>8, <1>9 DEF Decide, Execute

-----------------------------------------------------------------------------
(* The theorems *)

(* A restart forgets the tables and the threads; all history is then past. *)
LEMMA RestartKeepsIInv ==
  ASSUME IInv, Restart
  PROVE  Control' /\ Past'
<1> USE DEF IInv, Past, TypeOK
<1>1. /\ pc' = [d \in Deciders |-> "idle"] /\ deciding' = {}
      /\ res' = [d \in Deciders |-> NoOutcome]
      /\ outcomes' = [k \in Keys |-> NoOutcome]
      /\ life' = life + 1 /\ landed' = landed /\ minted' = minted
  BY DEF Restart, history
<1>2. Control'
  BY <1>1 DEF Control, ClaimIsExclusive, ClaimedIsUndecided, ResultsInHand, ResultInHand,
              MintIsPermitted, Holding
<1>3. HistoryIsPast' /\ (\A m \in landed' : m.life # life') /\ (\A c \in minted' : c.life # life')
  BY <1>1 DEF HistoryIsPast
<1>4. ExecutesAtMostOnce' /\ CredentialIsJustified'
  BY <1>1 DEF ExecutesAtMostOnce, CredentialIsJustified
<1>5. MutationIsRecorded' /\ OutcomeIsTrue' /\ MintedIsSpent'
  BY <1>1, <1>3 DEF MutationIsRecorded, OutcomeIsTrue, MintedIsSpent, NoOutcome
<1> QED
  BY <1>2, <1>3, <1>4, <1>5

(* The invariant is inductive. *)
LEMMA StepIInv == IInv /\ [Next]_vars => IInv'
<1> SUFFICES ASSUME IInv, [Next]_vars PROVE IInv'
  OBVIOUS
<1>1. TypeOK'
  BY TypeStep DEF IInv
<1>2. CASE Registration \/ Tick \/ UNCHANGED vars
  <2>1. UNCHANGED <<life, outcomes, deciding, locals, minted, landed>>
    BY <1>2 DEF Registration, Register, RegisterOneShot, Build, CheckUndecided, OpenCard,
                Tick, vars, tables, locals, history
  <2> QED
    BY <1>1, <2>1, ControlFrame, PastFrame DEF IInv, locals
<1>3. CASE \E d \in Deciders : Clicks(d) \/ Decide(d) \/ Execute(d)
  BY <1>1, <1>3, ControlStep, PastStep DEF IInv
<1>4. CASE Restart
  BY <1>1, <1>4, RestartKeepsIInv DEF IInv
<1> QED
  BY <1>2, <1>3, <1>4 DEF Next

(* The inductive invariant holds in every reachable state. *)
THEOREM InductiveInvariant == Spec => []IInv
BY InitIInv, StepIInv, PTL DEF Spec

(* However many threads, clicks, retries and restarts there are, one key's *)
(* mutation reaches its target at most once in the life of a process.      *)
THEOREM AtMostOnce == Spec => []ExecutesAtMostOnce
<1>1. IInv => ExecutesAtMostOnce
  BY DEF IInv, Past
<1> QED
  BY <1>1, InductiveInvariant, PTL

(* Two threads never hold one key's claim, and no claim outlives its thread. *)
THEOREM Exclusion == Spec => []ClaimIsExclusive
<1>1. IInv => ClaimIsExclusive
  BY DEF IInv, Control
<1> QED
  BY <1>1, InductiveInvariant, PTL

(* What landed is on the record or about to be, and the record is true. *)
THEOREM RecordIsTrue == Spec => [](MutationIsRecorded /\ OutcomeIsTrue)
<1>1. IInv => MutationIsRecorded /\ OutcomeIsTrue
  BY DEF IInv, Past
<1> QED
  BY <1>1, InductiveInvariant, PTL

(* Every credential was minted for a click on the dry run it runs, by an *)
(* approver of sufficient role, and is the only one of its key.          *)
THEOREM CredentialsAreJustified == Spec => []CredentialIsJustified
<1>1. IInv => CredentialIsJustified
  BY DEF IInv, Past
<1> QED
  BY <1>1, InductiveInvariant, PTL

(* Only Record writes an outcome, and only of an undecided key. *)
LEMMA OutcomeStep ==
  ASSUME IInv, [Next]_vars, life' = life
  PROVE  \/ UNCHANGED outcomes
         \/ \E d \in Deciders :
              /\ Record(d) /\ ~IsDecided(Key(d))
              /\ outcomes' = [outcomes EXCEPT ![Key(d)] = res[d]]
<1> USE DEF tables, locals, history
<1>1. CASE Registration \/ Tick \/ UNCHANGED vars
  BY <1>1 DEF Registration, Register, RegisterOneShot, Build, CheckUndecided, OpenCard, Tick,
              vars
<1>2. ASSUME NEW d \in Deciders, Clicks(d) \/ Decide(d) \/ Execute(d), ~Record(d)
      PROVE  UNCHANGED outcomes
  BY <1>2 DEF Clicks, Click, Decide, Execute, Replay, Claim, Wait, Lookup, NotAwaiting,
              Refuse, Reject, Permit, Mint, MintFails, Gate, RunFails, Mutate, Close, Notify,
              Release
<1>3. ASSUME NEW d \in Deciders, Record(d)
      PROVE  ~IsDecided(Key(d)) /\ outcomes' = [outcomes EXCEPT ![Key(d)] = res[d]]
  BY <1>3 DEF Record, Recorded, Goto, IInv, Control, ClaimedIsUndecided
<1>4. ~Restart
  BY DEF Restart, IInv, TypeOK
<1> QED
  BY <1>1, <1>2, <1>3, <1>4 DEF Next

(* No recorded outcome is ever replaced while its process lives. *)
THEOREM OutcomeNeverChanges == Spec => OutcomeIsFinal
<1>1. ASSUME IInv, [Next]_vars, life' = life, NEW k \in Keys, IsDecided(k)
      PROVE  outcomes'[k] = outcomes[k]
  BY <1>1, OutcomeStep DEF IInv, TypeOK, IsDecided
<1>2. IInv /\ [Next]_vars
        => [life' = life => \A k \in Keys : IsDecided(k) => outcomes'[k] = outcomes[k]]_vars
  BY <1>1
<1> QED
  BY <1>2, InductiveInvariant, PTL DEF Spec, OutcomeIsFinal

(* Whoever holds an answer holds the recorded outcome. *)
THEOREM AnswersAreTheRecord == Spec => []AnswersAgree
<1>1. IInv => AnswersAgree
  BY DEF IInv, Control, ResultsInHand, ResultInHand, AnswersAgree
<1> QED
  BY <1>1, InductiveInvariant, PTL

-----------------------------------------------------------------------------
(* What the observer has heard *)

(* A thread inside decide() carries the id of its call, and no other thread *)
(* carries the same.                                                        *)
CallsAreNumbered ==
  /\ \A d \in Deciders : /\ pc[d] = "idle" => Id(d) = 0
                         /\ pc[d] # "idle" => Id(d) \in 1..calls
  /\ \A d, e \in Deciders : pc[d] # "idle" /\ Id(d) = Id(e) => d = e

(* Between its record and its notification a call owns the outcome of its   *)
(* key; a call the observer has heard of has recorded, and is about to      *)
(* release; an outcome of which the observer has not heard has a thread on  *)
(* its way to tell.                                                         *)
HeardInOrder ==
  /\ announced \subseteq 1..calls
  /\ \A d \in Deciders :
       /\ pc[d] \in {"closing", "notifying"} => outcomes[Key(d)].by = Id(d)
       /\ Id(d) \in announced => pc[d] = "releasing" /\ outcomes[Key(d)].by = Id(d)
  /\ \A k \in Keys : IsDecided(k) =>
       \/ outcomes[k].by \in announced
       \/ \E d \in Deciders : pc[d] \in {"closing", "notifying"} /\ Key(d) = k

(* A step that moves no request, outcome or announcement keeps both, if the *)
(* threads on their way to tell stay on it and no other joins them.         *)
LEMMA HeardFrame ==
  ASSUME CallsAreNumbered, HeardInOrder, UNCHANGED <<calls, outcomes, req, announced>>,
         \A e \in Deciders :
           /\ pc[e] = "idle" <=> pc'[e] = "idle"
           /\ pc[e] \in {"closing", "notifying"} <=> pc'[e] \in {"closing", "notifying"}
           /\ pc[e] = "releasing" => pc'[e] = "releasing"
  PROVE  CallsAreNumbered' /\ HeardInOrder'
<1>1. CallsAreNumbered'
  BY DEF CallsAreNumbered, Id
<1>2. HeardInOrder'
  BY DEF HeardInOrder, Id, Key, IsDecided
<1> QED
  BY <1>1, <1>2

(* A new call takes a number nobody has. *)
LEMMA ClickIsHeard ==
  ASSUME IInv, CallsAreNumbered, HeardInOrder, NEW d \in Deciders, Clicks(d)
  PROVE  CallsAreNumbered' /\ HeardInOrder'
<1> USE DEF IInv, TypeOK, Goto, Key, Id
<1>1. /\ UNCHANGED <<outcomes, announced>> /\ calls' = calls + 1 /\ calls \in Nat
      /\ pc[d] = "idle" /\ pc' = [pc EXCEPT ![d] = "enter"]
      /\ req' = [req EXCEPT ![d] = req'[d]] /\ Id(d)' = calls + 1
  BY DEF Clicks, Click, tables, history
<1>2. \A e \in Deciders : Id(e) \in 0..calls
  BY DEF CallsAreNumbered
<1>3. CallsAreNumbered'
  BY <1>1, <1>2 DEF CallsAreNumbered
<1>4. HeardInOrder'
  <2>1. announced' \subseteq 1..calls' /\ calls + 1 \notin announced
    BY <1>1 DEF HeardInOrder
  <2>2. \A e \in Deciders : e # d => UNCHANGED <<pc[e], Key(e), Id(e)>>
    BY <1>1
  <2>3. \A e \in Deciders : pc[e] \in {"closing", "notifying"} => e # d
    BY <1>1
  <2> QED
    BY <1>1, <2>1, <2>2, <2>3 DEF HeardInOrder, IsDecided
<1> QED
  BY <1>3, <1>4

(* A call that records owns the outcome of its key until it has told of it. *)
LEMMA RecordIsHeard ==
  ASSUME IInv, CallsAreNumbered, HeardInOrder, NEW d \in Deciders, Record(d)
  PROVE  CallsAreNumbered' /\ HeardInOrder'
<1> USE DEF IInv, TypeOK, Goto
<1>1. /\ UNCHANGED <<calls, announced, req, deciding>>
      /\ outcomes' = [outcomes EXCEPT ![Key(d)] = res[d]]
      /\ pc[d] = "recording" /\ pc' = [pc EXCEPT ![d] = "closing"]
      /\ Key(d) \in Keys
  BY DEF Record, Recorded, history, Key
<1>2. res[d].by = Id(d)
  BY <1>1 DEF Control, ResultsInHand, ResultInHand
<1>3. \A e \in Deciders : /\ e # d /\ pc[e] \in {"closing", "notifying", "releasing"}
                             => Key(e) # Key(d)
                          /\ UNCHANGED <<Key(e), Id(e)>> /\ Key(e) \in Keys
                          /\ e # d => UNCHANGED pc[e]
  BY <1>1 DEF Control, ClaimIsExclusive, Holding, Key, Id
<1>4. CallsAreNumbered'
  BY <1>1, <1>3 DEF CallsAreNumbered
<1>5. Id(d) \notin announced
  BY <1>1 DEF HeardInOrder
<1>6. HeardInOrder'
  <2>1. \A e \in Deciders :
          /\ pc'[e] \in {"closing", "notifying"} => outcomes'[Key(e)].by = Id(e)
          /\ Id(e) \in announced => pc'[e] = "releasing" /\ outcomes'[Key(e)].by = Id(e)
    BY <1>1, <1>2, <1>3, <1>5 DEF HeardInOrder
  <2>2. ASSUME NEW k \in Keys, outcomes'[k] # NoOutcome
        PROVE  \/ outcomes'[k].by \in announced
               \/ \E e \in Deciders : pc'[e] \in {"closing", "notifying"} /\ Key(e) = k
    <3>1. CASE k = Key(d)
      BY <1>1, <3>1
    <3>2. CASE k # Key(d)
      BY <1>1, <1>3, <2>2, <3>2 DEF HeardInOrder, IsDecided
    <3> QED
      BY <3>1, <3>2
  <2> QED
    BY <1>1, <1>3, <2>1, <2>2 DEF HeardInOrder, IsDecided
<1> QED
  BY <1>4, <1>6

(* The observer hears of the call that recorded. *)
LEMMA NotifyIsHeard ==
  ASSUME IInv, CallsAreNumbered, HeardInOrder, NEW d \in Deciders, Notify(d)
  PROVE  CallsAreNumbered' /\ HeardInOrder'
<1> USE DEF IInv, TypeOK, Goto
<1>1. /\ UNCHANGED <<calls, outcomes, req>> /\ announced' = announced \cup {Id(d)}
      /\ pc[d] = "notifying" /\ pc' = [pc EXCEPT ![d] = "releasing"]
  BY DEF Notify, Told, tables
<1>2. \A e \in Deciders : UNCHANGED <<Key(e), Id(e)>> /\ (e # d => UNCHANGED pc[e])
  BY <1>1 DEF Key, Id
<1>3. CallsAreNumbered'
  BY <1>1, <1>2 DEF CallsAreNumbered
<1>4. \A e \in Deciders : e # d => Id(e) # Id(d)
  BY <1>1 DEF CallsAreNumbered
<1>5. announced' \subseteq 1..calls
  BY <1>1 DEF HeardInOrder, CallsAreNumbered
<1>6. \A e \in Deciders :
        /\ pc'[e] \in {"closing", "notifying"} => outcomes[Key(e)].by = Id(e)
        /\ Id(e) \in announced' => pc'[e] = "releasing" /\ outcomes[Key(e)].by = Id(e)
  BY <1>1, <1>2, <1>4 DEF HeardInOrder
<1>7. ASSUME NEW k \in Keys, IsDecided(k)
      PROVE  \/ outcomes[k].by \in announced'
             \/ \E e \in Deciders : pc'[e] \in {"closing", "notifying"} /\ Key(e) = k
  <2>1. CASE outcomes[k].by \in announced
    BY <1>1, <2>1
  <2>2. ASSUME NEW e \in Deciders, pc[e] \in {"closing", "notifying"}, Key(e) = k
        PROVE  \/ outcomes[k].by \in announced' 
               \/ \E f \in Deciders : pc'[f] \in {"closing", "notifying"} /\ Key(f) = k
    BY <1>1, <1>2, <2>2 DEF HeardInOrder
  <2> QED
    BY <1>7, <2>1, <2>2 DEF HeardInOrder
<1>8. HeardInOrder'
  BY <1>1, <1>2, <1>5, <1>6, <1>7 DEF HeardInOrder, IsDecided
<1> QED
  BY <1>3, <1>8

(* A call that ends gives its number back; nobody else's moves. *)
LEMMA EndIsHeard ==
  ASSUME IInv, CallsAreNumbered, HeardInOrder, NEW d \in Deciders, Replay(d) \/ Release(d)
  PROVE  CallsAreNumbered' /\ HeardInOrder'
<1> USE DEF IInv, TypeOK, Goto
<1>1. /\ UNCHANGED <<calls, outcomes, announced>>
      /\ pc[d] \in {"enter", "releasing"} /\ pc'[d] = "idle"
      /\ req' = [req EXCEPT ![d] = NoRequest(Key(d))]
      /\ \A e \in Deciders : e # d =>
           pc'[e] = pc[e] \/ (pc[e] = "waiting" /\ pc'[e] = "enter")
  <2>1. /\ UNCHANGED <<calls, outcomes, announced>>
        /\ req' = Returned(d)
        /\ pc[d] \in {"enter", "releasing"} /\ pc'[d] = "idle"
    BY DEF Replay, Release, tables, history
  <2>2. \A e \in Deciders : e # d => pc'[e] = pc[e] \/ (pc[e] = "waiting" /\ pc'[e] = "enter")
    BY DEF Replay, Release, Notified
  <2> QED
    BY <2>1, <2>2, Zenon DEF Returned
<1>2. /\ Id(d)' = 0
      /\ \A e \in Deciders : /\ Key(e)' = Key(e)
                             /\ e # d => Id(e)' = Id(e)
  BY <1>1 DEF Key, Id, NoRequest
<1>3. \A e \in Deciders : e # d =>
        /\ pc'[e] = "idle" <=> pc[e] = "idle"
        /\ pc'[e] = "releasing" <=> pc[e] = "releasing"
        /\ pc'[e] \in {"closing", "notifying"} <=> pc[e] \in {"closing", "notifying"}
  BY <1>1
<1>4. CallsAreNumbered'
  <2>1. \A e \in Deciders : /\ pc'[e] = "idle" => Id(e)' = 0
                            /\ pc'[e] # "idle" => e # d /\ Id(e)' = Id(e) /\ Id(e) \in 1..calls
    BY <1>1, <1>2, <1>3 DEF CallsAreNumbered
  <2>2. \A e \in Deciders : pc'[e] # "idle" => Id(e)' # 0
    BY <2>1
  <2>3. ASSUME NEW e \in Deciders, NEW f \in Deciders, pc'[e] # "idle", Id(e)' = Id(f)'
        PROVE  e = f
    <3>1. pc'[f] # "idle" /\ pc[e] # "idle"
      BY <1>1, <1>3, <2>1, <2>2, <2>3
    <3> QED
      BY <2>1, <2>3, <3>1 DEF CallsAreNumbered
  <2> QED
    BY <1>1, <2>1, <2>3 DEF CallsAreNumbered
<1>5. 0 \notin announced
  BY DEF HeardInOrder
<1>6. HeardInOrder'
  <2>1. ASSUME NEW e \in Deciders
        PROVE  /\ pc'[e] \in {"closing", "notifying"} => outcomes[Key(e)].by = Id(e)'
               /\ Id(e)' \in announced => pc'[e] = "releasing" /\ outcomes[Key(e)].by = Id(e)'
    BY <1>1, <1>2, <1>3, <1>5 DEF HeardInOrder
  <2>2. ASSUME NEW k \in Keys, IsDecided(k)
        PROVE  \/ outcomes[k].by \in announced
               \/ \E e \in Deciders : pc'[e] \in {"closing", "notifying"} /\ Key(e) = k
    BY <1>1, <1>3, <2>2 DEF HeardInOrder
  <2> QED
    BY <1>1, <1>2, <2>1, <2>2 DEF HeardInOrder, IsDecided
<1> QED
  BY <1>4, <1>6

(* Every step keeps the numbering and the order in which the observer hears. *)
LEMMA HeardStep ==
  ASSUME IInv, CallsAreNumbered, HeardInOrder, [Next]_vars
  PROVE  CallsAreNumbered' /\ HeardInOrder'
<1> USE DEF tables, locals, history
<1>1. CASE Registration \/ Tick \/ UNCHANGED vars
  <2>1. UNCHANGED <<calls, outcomes, req, announced, pc>>
    BY <1>1 DEF Registration, Register, RegisterOneShot, Build, CheckUndecided, OpenCard, Tick,
                vars
  <2> QED
    BY <2>1, HeardFrame
<1>2. CASE Restart
  <2>1. \A d \in Deciders : Id(d)' = 0 /\ pc'[d] = "idle"
    BY <1>2 DEF Restart, NoRequests, NoRequest, Id
  <2>2. outcomes' = [k \in Keys |-> NoOutcome] /\ UNCHANGED <<calls, announced>>
    BY <1>2 DEF Restart
  <2> QED
    BY <2>1, <2>2 DEF CallsAreNumbered, HeardInOrder, IsDecided
<1>3. ASSUME NEW d \in Deciders, Clicks(d) \/ Decide(d) \/ Execute(d)
      PROVE  CallsAreNumbered' /\ HeardInOrder'
  <2>1. CASE Clicks(d) \/ Record(d) \/ Notify(d) \/ Replay(d) \/ Release(d)
    BY <2>1, ClickIsHeard, RecordIsHeard, NotifyIsHeard, EndIsHeard
  <2>2. CASE Claim(d) \/ Wait(d) \/ Lookup(d) \/ NotAwaiting(d) \/ Refuse(d) \/ Reject(d)
             \/ Permit(d) \/ Mint(d) \/ MintFails(d) \/ Close(d) \/ Execute(d)
    <3>1. UNCHANGED <<calls, outcomes, req, announced>>
      BY <2>2 DEF Claim, Wait, Lookup, NotAwaiting, Refuse, Reject, Permit, Mint, MintFails,
                  Close, Execute, Gate, RunFails, Mutate
    <3>2. /\ \A e \in Deciders : e # d => pc'[e] = pc[e]
          /\ pc[d] \notin {"idle", "releasing"} /\ pc'[d] # "idle"
          /\ pc[d] \in {"closing", "notifying"} <=> pc'[d] \in {"closing", "notifying"}
      BY <2>2 DEF Claim, Wait, Lookup, NotAwaiting, Refuse, Reject, Permit, Mint, MintFails,
                  Close, Execute, Gate, RunFails, Mutate, Goto, IInv, TypeOK
    <3> QED
      BY <3>1, <3>2, HeardFrame
  <2> QED
    BY <1>3, <2>1, <2>2 DEF Decide
<1> QED
  BY <1>1, <1>2, <1>3 DEF Next

(* The observer is told of every decision before the claim on its key goes, *)
(* and never of a call that recorded nothing, through every crash.          *)
THEOREM ObserverIsTold == Spec => []ObserverHearsDecisions
<1>1. Init => CallsAreNumbered /\ HeardInOrder
  <2> SUFFICES ASSUME Init PROVE CallsAreNumbered /\ HeardInOrder
    OBVIOUS
  <2>1. \A d \in Deciders : pc[d] = "idle" /\ Id(d) = 0
    BY DEF Init, NoRequests, NoRequest, Id
  <2>2. announced = {} /\ \A k \in Keys : ~IsDecided(k)
    BY DEF Init, IsDecided
  <2> QED
    BY <2>1, <2>2 DEF CallsAreNumbered, HeardInOrder
<1>2. IInv /\ HeardInOrder => ObserverHearsDecisions
  <2> SUFFICES ASSUME IInv, HeardInOrder PROVE ObserverHearsDecisions
    OBVIOUS
  <2>1. \A d \in Deciders : pc[d] \in {"closing", "notifying"} => Key(d) \in deciding
    BY DEF IInv, Control, ClaimIsExclusive, Holding
  <2> QED
    BY <2>1 DEF HeardInOrder, ObserverHearsDecisions
<1> QED
  BY <1>1, <1>2, HeardStep, InductiveInvariant, PTL DEF Spec

-----------------------------------------------------------------------------
(* The refinement of DecideOnce *)

Decision == [k \in Keys |-> outcomes[k].decision]
Ran == {k \in Keys : \E m \in landed : m.key = k /\ m.life = life}

(* A mutation, a record and a restart are steps of DecideOnce; every other *)
(* step changes neither a decision nor what ran.                           *)
LEMMA StepRefines == IInv /\ [Next]_vars => [Promise!Next]_(Promise!vars)
<1> SUFFICES ASSUME IInv, [Next]_vars PROVE Promise!Next \/ UNCHANGED Promise!vars
  OBVIOUS
<1> USE DEF tables, locals, history
<1>1. CASE Registration \/ Tick \/ UNCHANGED vars
  <2>1. UNCHANGED <<outcomes, landed, life>>
    BY <1>1 DEF Registration, Register, RegisterOneShot, Build, CheckUndecided, OpenCard, Tick,
                vars
  <2> QED
    BY <2>1 DEF Promise!vars
<1>2. ASSUME NEW d \in Deciders, Clicks(d) \/ Decide(d) \/ RunFails(d) \/ Gate(d), ~Record(d)
      PROVE  UNCHANGED Promise!vars
  <2>1. UNCHANGED <<outcomes, landed, life>>
    BY <1>2 DEF Clicks, Click, Decide, Replay, Claim, Wait, Lookup, NotAwaiting, Refuse,
                Reject, Permit, Mint, MintFails, Gate, RunFails, Close, Notify, Release
  <2> QED
    BY <2>1 DEF Promise!vars
<1>3. ASSUME NEW d \in Deciders, NEW executed \in BOOLEAN, Mutate(d, executed)
      PROVE  Promise!Next
  <2>1. /\ UNCHANGED <<outcomes, life>> /\ pc[d] = "writing" /\ Key(d) \in Keys
        /\ landed' = landed \cup {[call |-> Id(d), key |-> Key(d), life |-> life]}
    BY <1>3 DEF Mutate, Goto, IInv, TypeOK, Key
  <2>2. outcomes[Key(d)].decision = "none"
    BY <2>1 DEF IInv, Control, ClaimedIsUndecided, IsDecided, NoOutcome
  <2>3. \A m \in landed : m.life = life => m.key # Key(d)
    BY <2>1, ClaimedIsFresh
  <2>4. Ran' = Ran \cup {Key(d)}
    <3>1. \A k \in Keys :
            (\E m \in landed' : m.key = k /\ m.life = life)
              <=> (\E m \in landed : m.key = k /\ m.life = life) \/ k = Key(d)
      <4>1. [call |-> Id(d), key |-> Key(d), life |-> life] \in landed'
        BY <2>1
      <4>2. \A m \in landed' : m \in landed \/ m.key = Key(d)
        BY <2>1
      <4>3. landed \subseteq landed'
        BY <2>1
      <4> HIDE <2>1
      <4> QED
        BY <4>1, <4>2, <4>3, Zenon
    <3> QED
      BY <2>1, <3>1 DEF Ran
  <2> QED
    BY <2>1, <2>2, <2>3, <2>4 DEF Promise!Next, Promise!Mutate, Ran
<1>4. ASSUME NEW d \in Deciders, Record(d)
      PROVE  Promise!Next
  <2>1. /\ UNCHANGED <<landed, life>> /\ pc[d] = "recording" /\ Key(d) \in Keys
        /\ outcomes' = [outcomes EXCEPT ![Key(d)] = res[d]]
    BY <1>4 DEF Record, Recorded, Goto, IInv, TypeOK, Key
  <2>2. outcomes[Key(d)].decision = "none"
    BY <2>1 DEF IInv, Control, ClaimedIsUndecided, IsDecided, NoOutcome
  <2>3. Decision' = [Decision EXCEPT ![Key(d)] = res[d].decision]
    BY <2>1 DEF Decision, IInv, TypeOK
  <2>4. UNCHANGED Ran
    BY <2>1 DEF Ran
  <2>5. CASE res[d].decision = "approved"
    BY <2>1, <2>2, <2>3, <2>4, <2>5 DEF Promise!Next, Promise!Approve, Decision, Ran
  <2>6. CASE res[d].decision = "rejected"
    <3>1. Key(d) \notin Ran'
      BY <2>1, <2>6, <1>4, RecordKeepsPast DEF Past, OutcomeIsTrue, Ran, IInv, TypeOK
    <3> QED
      BY <2>1, <2>2, <2>3, <2>4, <2>6, <3>1 DEF Promise!Next, Promise!Reject, Decision, Ran
  <2> QED
    BY <2>1, <2>5, <2>6 DEF IInv, Control, ResultsInHand, ResultInHand
<1>5. CASE Restart
  <2>1. /\ outcomes' = [k \in Keys |-> NoOutcome] /\ life' = life + 1 /\ landed' = landed
        /\ \A m \in landed : m.life # life + 1
    BY <1>5 DEF Restart, IInv, Past, HistoryIsPast, TypeOK
  <2> QED
    BY <2>1 DEF Promise!Next, Promise!Forget, NoOutcome
<1>6. ASSUME NEW d \in Deciders, Clicks(d) \/ Decide(d) \/ Execute(d)
      PROVE  Promise!Next \/ UNCHANGED Promise!vars
  <2>1. CASE Record(d)
    BY <1>4, <2>1
  <2>2. CASE \E executed \in BOOLEAN : Mutate(d, executed)
    BY <1>3, <2>2
  <2> QED
    BY <1>2, <1>6, <2>1, <2>2 DEF Execute
<1> QED
  BY <1>1, <1>5, <1>6 DEF Next

(* The gateway keeps DecideOnce's promise. *)
THEOREM Refinement == Spec => ImplementsDecideOnce
<1>1. Init => Promise!Init
  BY DEF Init, Promise!Init, NoOutcome
<1> QED
  BY <1>1, StepRefines, InductiveInvariant, PTL DEF Spec, ImplementsDecideOnce, Promise!Spec
=============================================================================
