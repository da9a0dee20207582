---------------------------- MODULE AutomationProofs ----------------------------
(***************************************************************************)
(* What the automation process promises, in three parts.                   *)
(*                                                                         *)
(* What the deduper gives POST /alerts, for every set of firings it has    *)
(* room for, any number of requests and any lifetime of an entry that no   *)
(* investigation outlives: a claim is known for as long as its request is  *)
(* open, and an answer until its entry lapses, so a request is only opened *)
(* for a firing that has neither.                                          *)
(*                                                                         *)
(* What the coverage watch says of a gap it closes, and what the brief     *)
(* says of the weights its ranking depends on: each under its own heading. *)
(***************************************************************************)
EXTENDS AlertIntake, CoverageWatch, Ranking, FiniteSetTheorems, WellFoundedInduction, TLAPS

(* The deduper knows all firings at once: nothing is pruned before it lapses. *)
Room == IsFiniteSet(Firings) /\ Cardinality(Firings) <= MaxEntries

Typed ==
  /\ TypeOK
  /\ \A f \in Firings : onScreen[f] # NoDigest => answered[f] # -1 /\ shown[f] <= answered[f]
  /\ \A f \in Firings : answered[f] <= now
  /\ \A f \in DOMAIN entries : entries[f].at <= now

(* An open request has its claim, made after the last answer to its firing had lapsed. *)
Claimed ==
  /\ \A r \in DOMAIN open :
       LET f == open[r].firing
       IN /\ open[r].at <= now /\ now <= open[r].at + Longest
          /\ f \in DOMAIN entries /\ entries[f].at = open[r].at
          /\ answered[f] # -1 => answered[f] + Ttl < open[r].at
  /\ OneInvestigation

(* A posted firing is known until its entry lapses. *)
Posted ==
  /\ \A f \in Firings :
       answered[f] # -1 /\ now - answered[f] <= Ttl => f \in DOMAIN entries /\ entries[f].at = answered[f]
  /\ CardOnScreenIsRegistered

IInv == Typed /\ Claimed /\ Posted

USE DEF cards

-----------------------------------------------------------------------------
LEMMA Start == Init => IInv
BY ConstantsAssumption DEF Init, IInv, Typed, TypeOK, Claimed, Posted, OneInvestigation,
     CardOnScreenIsRegistered, Proposals, Entries

LEMMA Numbers ==
  ASSUME TypeOK
  PROVE  /\ now \in Nat /\ Ttl \in Nat /\ Longest \in Nat /\ Longest <= Ttl /\ MaxTime \in Nat
         /\ \A r \in DOMAIN open : open[r].at \in Nat /\ open[r].firing \in Firings
         /\ \A f \in DOMAIN entries : entries[f].at \in Nat
         /\ \A f \in Firings : answered[f] \in Int /\ shown[f] \in Nat
BY ConstantsAssumption DEF TypeOK, Entries

(* With room for every firing, pruning drops what lapsed and nothing else. *)
LEMMA Pruned ==
  ASSUME Room, NEW es, DOMAIN es \subseteq Firings, NEW keep, Oldest(es, keep)
  PROVE  keep = Fresh(es)
<1>1. Fresh(es) \subseteq Firings
  BY DEF Fresh
<1>2. IsFiniteSet(Fresh(es)) /\ Cardinality(Fresh(es)) <= Cardinality(Firings)
  BY <1>1, FS_Subset DEF Room
<1>3. Cardinality(Fresh(es)) \in Nat /\ Cardinality(Firings) \in Nat /\ MaxEntries \in Nat
  BY <1>2, FS_CardinalityType, ConstantsAssumption DEF Room
<1> QED
  BY <1>2, <1>3 DEF Room, Oldest

LEMMA TickKeeps ==
  ASSUME IInv, Tick
  PROVE  IInv'
<1>0. TypeOK /\ now' = now + 1 /\ UNCHANGED <<entries, open, registered, decided, onScreen, shown, answered, restarts>>
  BY DEF Tick, IInv, Typed
<1>1. Typed'
  BY <1>0, Numbers DEF Tick, IInv, Typed, TypeOK
<1>2. Claimed'
  BY <1>0, Numbers DEF Tick, IInv, Claimed, OneInvestigation
<1>3. Posted'
  BY <1>0, Numbers DEF IInv, Posted, CardOnScreenIsRegistered
<1> QED
  BY <1>1, <1>2, <1>3 DEF IInv

LEMMA ClaimKeeps ==
  ASSUME IInv, Room, NEW r \in Requests, NEW f \in Firings, Claim(r, f)
  PROVE  IInv'
<1>0. TypeOK /\ Typed /\ Claimed /\ Posted /\ UNCHANGED <<now, registered, decided, onScreen, shown, answered, restarts>>
  BY DEF Claim, IInv, Typed
<1>e. PICK es : es = With(entries, f, [at |-> now, done |-> FALSE])
  OBVIOUS
<1>1. /\ DOMAIN es = DOMAIN entries \cup {f} /\ es[f] = [at |-> now, done |-> FALSE]
      /\ \A g \in DOMAIN entries \ {f} : es[g] = entries[g]
  BY <1>e DEF With
<1>2. entries' = Only(es, Fresh(es))
  BY <1>0, <1>1, <1>e, Pruned DEF Claim, TypeOK
<1>3. /\ DOMAIN entries' = Fresh(es) /\ \A g \in Fresh(es) : entries'[g] = es[g]
  BY <1>2 DEF Only
<1>4. /\ \A g \in Firings : g \in DOMAIN entries' <=> g \in DOMAIN es /\ now - es[g].at <= Ttl
      /\ \A g \in DOMAIN entries' : g \in Firings /\ entries'[g] \in Entries
      /\ f \in DOMAIN entries' /\ entries'[f].at = now
      /\ \A g \in DOMAIN entries' : g # f => g \in DOMAIN entries /\ entries'[g] = entries[g]
  <2>1. now - es[f].at <= Ttl /\ es[f] \in Entries
    BY <1>0, <1>1, Numbers DEF TypeOK, Entries
  <2>2. \A g \in DOMAIN es : g # f => es[g] \in Entries /\ g \in Firings /\ g \in DOMAIN entries
    BY <1>0, <1>1 DEF TypeOK
  <2> QED
    <3>1. \A g : g \in DOMAIN entries' <=> g \in DOMAIN es /\ now - es[g].at <= Ttl
      BY <1>3 DEF Fresh
    <3>2. f \in DOMAIN entries' /\ entries'[f].at = now
      BY <1>1, <1>3, <2>1, <3>1
    <3>3. \A g \in DOMAIN entries' : g \in Firings /\ entries'[g] \in Entries
      BY <1>3, <2>1, <2>2, <3>1
    <3>4. \A g \in DOMAIN entries' : g # f => g \in DOMAIN entries /\ entries'[g] = entries[g]
      BY <1>1, <1>3, <3>1
    <3> QED
      BY <3>1, <3>2, <3>3, <3>4
<1>5. /\ r \notin DOMAIN open /\ DOMAIN open' = DOMAIN open \cup {r} /\ open'[r] = [firing |-> f, at |-> now]
      /\ \A q \in DOMAIN open : open'[q] = open[q]
  BY DEF Claim, With
<1>6. /\ answered[f] # -1 => answered[f] + Ttl < now
      /\ \A q \in DOMAIN open : open[q].firing # f
  BY <1>0, Numbers DEF Claim, Known, Claimed, Posted
<1>7. Typed'
  <2>1. TypeOK'
    BY <1>0, <1>4, <1>5 DEF TypeOK
  <2> QED
    BY <1>0, <1>4, <2>1, Numbers DEF Typed
<1>8. Claimed'
  <2>1. ASSUME NEW q \in DOMAIN open'
        PROVE  /\ open'[q].at <= now /\ now <= open'[q].at + Longest
               /\ open'[q].firing \in DOMAIN entries' /\ entries'[open'[q].firing].at = open'[q].at
               /\ answered[open'[q].firing] # -1 => answered[open'[q].firing] + Ttl < open'[q].at
    <3>1. CASE q = r
      BY <1>0, <1>4, <1>5, <1>6, <3>1, Numbers
    <3>2. CASE q # r
      <4>1. q \in DOMAIN open /\ open'[q] = open[q] /\ open[q].firing # f /\ open[q].firing \in Firings
        BY <1>0, <1>5, <1>6, <3>2, Numbers
      <4>2. now - es[open[q].firing].at <= Ttl /\ open[q].firing \in DOMAIN entries
        BY <1>0, <1>1, <4>1, Numbers DEF Claimed
      <4> QED
        BY <1>0, <1>1, <1>4, <4>1, <4>2 DEF Claimed
    <3> QED
      BY <3>1, <3>2
  <2>2. OneInvestigation'
    BY <1>0, <1>5, <1>6 DEF Claimed, OneInvestigation
  <2> QED
    BY <1>0, <2>1, <2>2 DEF Claimed
<1>9. Posted'
  <2>1. ASSUME NEW g \in Firings, answered[g] # -1, now - answered[g] <= Ttl
        PROVE  g \in DOMAIN entries' /\ entries'[g].at = answered[g]
    <3>1. g # f
      BY <1>0, <1>6, <2>1, Numbers
    <3>2. g \in DOMAIN entries /\ entries[g].at = answered[g]
      BY <1>0, <2>1 DEF Posted
    <3> QED
      BY <1>1, <1>4, <2>1, <3>1, <3>2
  <2> QED
    BY <1>0, <2>1 DEF Posted, CardOnScreenIsRegistered
<1> QED
  BY <1>7, <1>8, <1>9 DEF IInv

(* What a request leaves behind as it ends. *)
LEMMA RequestEnded ==
  ASSUME NEW r
  PROVE  /\ DOMAIN Without(open, r) = DOMAIN open \ {r}
         /\ \A q \in DOMAIN open \ {r} : Without(open, r)[q] = open[q]
BY DEF Without

LEMMA Dropped ==
  ASSUME NEW f
  PROVE  /\ DOMAIN Without(entries, f) = DOMAIN entries \ {f}
         /\ \A g \in DOMAIN entries \ {f} : Without(entries, f)[g] = entries[g]
BY DEF Without

(* A claim that is released takes nothing of any other request's, nor a posted firing's entry. *)
LEMMA Releasing ==
  ASSUME IInv, NEW r \in DOMAIN open, UNCHANGED <<now, answered>>,
         entries' = Without(entries, open[r].firing), open' = Without(open, r)
  PROVE  /\ Claimed'
         /\ \A f \in Firings :
              answered[f] # -1 /\ now - answered[f] <= Ttl => f \in DOMAIN entries' /\ entries'[f].at = answered[f]
         /\ \A f \in DOMAIN entries' : f \in DOMAIN entries /\ entries'[f] = entries[f]
         /\ \A q \in DOMAIN open' : q \in DOMAIN open /\ open'[q] = open[q]
<1>0. TypeOK /\ Claimed /\ Posted /\ open[r].firing \in Firings
  BY Numbers DEF IInv, Typed
<1>1. /\ DOMAIN open' = DOMAIN open \ {r} /\ \A q \in DOMAIN open' : open'[q] = open[q]
      /\ DOMAIN entries' = DOMAIN entries \ {open[r].firing}
      /\ \A g \in DOMAIN entries' : entries'[g] = entries[g]
  BY RequestEnded, Dropped
<1>2. \A q \in DOMAIN open' : open[q].firing # open[r].firing
  BY <1>0, <1>1 DEF Claimed, OneInvestigation
<1>3. Claimed'
  BY <1>0, <1>1, <1>2 DEF Claimed, OneInvestigation
<1>4. ASSUME NEW f \in Firings, answered[f] # -1, now - answered[f] <= Ttl
      PROVE  f \in DOMAIN entries' /\ entries'[f].at = answered[f]
  <2>1. f # open[r].firing
    BY <1>0, <1>4, Numbers DEF Claimed
  <2> QED
    BY <1>0, <1>1, <1>4, <2>1 DEF Posted
<1> QED
  BY <1>1, <1>3, <1>4

(* A request is registered only after the last answer to its firing had lapsed. *)
LEMMA Lapsed ==
  ASSUME IInv, NEW r \in DOMAIN open
  PROVE  LET f == open[r].firing IN onScreen[f] # NoDigest => now - shown[f] > Ttl
<1>1. open[r].firing \in Firings /\ open[r].at <= now
  BY Numbers DEF IInv, Typed, Claimed
<1>2. answered[open[r].firing] # -1 => answered[open[r].firing] + Ttl < open[r].at
  BY DEF IInv, Claimed
<1> QED
  BY <1>1, <1>2, Numbers DEF IInv, Typed

LEMMA FailureKeeps ==
  ASSUME IInv, NEW r \in DOMAIN open,
         InvestigationFails(r) \/ \E proposal \in Proposals : PostFails(r, proposal)
  PROVE  IInv'
<1>0. TypeOK /\ Typed /\ Posted /\ open[r].firing \in Firings
  BY Numbers DEF IInv, Typed
<1>1. /\ UNCHANGED <<now, decided, onScreen, shown, answered, restarts>>
      /\ entries' = Without(entries, open[r].firing) /\ open' = Without(open, r)
  BY DEF InvestigationFails, PostFails, Release, Abandon
<1>2. /\ registered' \in [Firings -> Proposals]
      /\ \A f \in Firings : f # open[r].firing => registered'[f] = registered[f]
  BY <1>0 DEF InvestigationFails, PostFails, Register, Pending, TypeOK
<1>3. TypeOK'
  BY <1>0, <1>1, <1>2, Releasing DEF TypeOK
<1>4. Typed'
  BY <1>0, <1>1, <1>3, Releasing DEF Typed
<1>5. CardOnScreenIsRegistered'
  BY <1>0, <1>1, <1>2, Lapsed, Numbers DEF Posted, CardOnScreenIsRegistered
<1> QED
  BY <1>1, <1>4, <1>5, Releasing DEF IInv, Posted

LEMMA PostingKeeps ==
  ASSUME IInv, NEW r \in DOMAIN open, NEW proposal \in Proposals, PostAll(r, proposal)
  PROVE  IInv'
<1>e. PICK f : f = open[r].firing
  OBVIOUS
<1>0. /\ TypeOK /\ Typed /\ Claimed /\ Posted /\ f \in Firings
      /\ f \in DOMAIN entries /\ entries[f].at = open[r].at /\ open[r].at \in Nat /\ open[r].at <= now
      /\ answered[f] # -1 => answered[f] + Ttl < open[r].at
  BY <1>e, Numbers DEF IInv, Typed, Claimed
<1>1. /\ UNCHANGED <<now, decided, restarts>> /\ open' = Without(open, r)
      /\ answered' = [answered EXCEPT ![f] = open[r].at]
      /\ entries' = With(entries, f, [at |-> entries[f].at, done |-> TRUE])
  BY <1>0, <1>e DEF PostAll, Finish, Finished
<1>2. /\ DOMAIN entries' = DOMAIN entries /\ entries'[f] = [at |-> open[r].at, done |-> TRUE]
      /\ \A g \in DOMAIN entries \ {f} : entries'[g] = entries[g]
  BY <1>0, <1>1 DEF With
<1>3. /\ DOMAIN open' = DOMAIN open \ {r} /\ \A q \in DOMAIN open' : open'[q] = open[q]
  BY <1>1, RequestEnded
<1>4. \A q \in DOMAIN open' : open[q].firing # f
  BY <1>0, <1>3, <1>e DEF Claimed, OneInvestigation
<1>5. /\ registered' \in [Firings -> Proposals] /\ onScreen' \in [Firings -> Proposals]
      /\ shown' \in [Firings -> 0..MaxTime]
      /\ \A g \in Firings \ {f} : registered'[g] = registered[g] /\ onScreen'[g] = onScreen[g] /\ shown'[g] = shown[g]
      /\ \/ f \in decided /\ onScreen'[f] = onScreen[f] /\ shown'[f] = shown[f]
         \/ onScreen'[f] = onScreen[f] /\ shown'[f] = shown[f] /\ registered'[f] = registered[f]
         \/ onScreen'[f] = proposal /\ registered'[f] = proposal /\ shown'[f] = open[r].at
  <2>1. open[r].at \in 0..MaxTime
    BY <1>0 DEF TypeOK
  <2>2. CASE Pending(f, proposal) = NoDigest
    BY <1>0, <1>e, <2>2 DEF PostAll, Register, TypeOK
  <2>3. CASE Pending(f, proposal) # NoDigest
    BY <1>0, <1>e, <2>1, <2>3 DEF PostAll, Register, Pending, TypeOK
  <2> QED
    BY <2>2, <2>3
<1>6. TypeOK'
  <2>1. open[r].at \in 0..MaxTime
    BY <1>0 DEF TypeOK
  <2>2. \A g \in DOMAIN entries' : g \in Firings /\ entries'[g] \in Entries
    <3>1. entries'[f] \in Entries
      BY <1>2, <2>1 DEF Entries
    <3>2. \A g \in DOMAIN entries : g \in Firings /\ entries[g] \in Entries
      BY <1>0 DEF TypeOK
    <3> QED
      BY <1>0, <1>2, <3>1, <3>2
  <2>3. answered' \in [Firings -> -1..MaxTime]
    BY <1>0, <1>1, <2>1, Numbers DEF TypeOK
  <2> QED
    BY <1>0, <1>1, <1>3, <1>5, <2>2, <2>3 DEF TypeOK
<1>7. answered'[f] = open[r].at /\ \A g \in Firings \ {f} : answered'[g] = answered[g]
  BY <1>0, <1>1 DEF TypeOK
<1>8. Typed'
  <2>1. \A g \in Firings : answered'[g] <= now /\ (onScreen'[g] # NoDigest => answered'[g] # -1 /\ shown'[g] <= answered'[g])
    <3>1. ASSUME onScreen'[f] # NoDigest
          PROVE  answered'[f] # -1 /\ shown'[f] <= answered'[f]
      BY <1>0, <1>5, <1>7, <3>1, Numbers DEF Typed
    <3> QED
      BY <1>0, <1>5, <1>7, <3>1 DEF Typed
  <2>2. \A g \in DOMAIN entries' : entries'[g].at <= now
    BY <1>0, <1>2 DEF Typed
  <2> QED
    BY <1>1, <1>6, <2>1, <2>2 DEF Typed
<1>9. Claimed'
  <2>1. ASSUME NEW q \in DOMAIN open'
        PROVE  /\ open'[q] = open[q] /\ open[q].firing \in Firings \ {f} /\ q \in DOMAIN open
               /\ entries'[open[q].firing] = entries[open[q].firing]
    BY <1>0, <1>2, <1>3, <1>4, Numbers DEF Claimed
  <2> QED
    <3>1. OneInvestigation'
      BY <1>0, <2>1 DEF Claimed, OneInvestigation
    <3>2. ASSUME NEW q \in DOMAIN open'
          PROVE  /\ open'[q].at <= now /\ now <= open'[q].at + Longest
                 /\ open'[q].firing \in DOMAIN entries' /\ entries'[open'[q].firing].at = open'[q].at
                 /\ answered'[open'[q].firing] # -1 => answered'[open'[q].firing] + Ttl < open'[q].at
      BY <1>0, <1>2, <1>7, <2>1, <3>2 DEF Claimed
    <3> QED
      BY <1>1, <3>1, <3>2 DEF Claimed
<1>10. Posted'
  <2>1. \A g \in Firings : answered'[g] # -1 /\ now - answered'[g] <= Ttl
          => g \in DOMAIN entries' /\ entries'[g].at = answered'[g]
    BY <1>0, <1>2, <1>7 DEF Posted
  <2>2. CardOnScreenIsRegistered'
    <3>1. onScreen[f] # NoDigest => now - shown[f] > Ttl
      BY <1>e, Lapsed
    <3>2. ASSUME onScreen'[f] # NoDigest, now - shown'[f] <= Ttl
          PROVE  registered'[f] = onScreen'[f] \/ f \in decided
      BY <1>0, <1>5, <3>1, <3>2, Numbers
    <3> QED
      BY <1>0, <1>1, <1>5, <3>2 DEF Posted, CardOnScreenIsRegistered
  <2> QED
    BY <1>1, <2>1, <2>2 DEF Posted
<1> QED
  BY <1>8, <1>9, <1>10 DEF IInv

LEMMA StepKeeps ==
  ASSUME IInv, [Next]_vars, Room
  PROVE  IInv'
<1>0. TypeOK /\ Typed /\ Claimed /\ Posted
  BY DEF IInv, Typed
<1>1. CASE Restart
  <2>1. /\ now' = now /\ entries' = <<>> /\ open' = <<>> /\ decided' = {} /\ restarts' \in 0..MaxRestarts
        /\ registered' = [f \in Firings |-> NoDigest] /\ onScreen' = [f \in Firings |-> NoDigest]
        /\ shown' = [f \in Firings |-> 0] /\ answered' = [f \in Firings |-> -1]
    BY <1>0, <1>1, ConstantsAssumption DEF Restart, TypeOK
  <2> QED
    BY <1>0, <2>1, Numbers, ConstantsAssumption DEF IInv, Typed, TypeOK, Claimed, Posted, OneInvestigation,
       CardOnScreenIsRegistered, Proposals
<1>2. ASSUME NEW f \in Firings, Decide(f)
      PROVE  IInv'
  <2>1. TypeOK'
    BY <1>0, <1>2 DEF Decide, TypeOK, Proposals
  <2>2. Typed' /\ Claimed'
    BY <1>0, <1>2, <2>1 DEF Decide, Typed, Claimed, OneInvestigation
  <2>3. Posted'
    BY <1>0, <1>2 DEF Decide, Posted, CardOnScreenIsRegistered, TypeOK
  <2> QED
    BY <2>2, <2>3 DEF IInv
<1>3. CASE UNCHANGED vars
  BY <1>0, <1>3 DEF vars, IInv, Typed, TypeOK, Claimed, Posted, OneInvestigation, CardOnScreenIsRegistered
<1> QED
  BY <1>1, <1>2, <1>3, TickKeeps, ClaimKeeps, FailureKeeps, PostingKeeps DEF Next, Deliver, Handle

(* Where the deduper has room for every firing, every reachable state has claims and answers     *)
(* known for as long as they matter.                                                             *)
THEOREM Invariant == Room /\ Spec => []IInv
<1>1. SUFFICES ASSUME Room PROVE Spec => []IInv
  OBVIOUS
<1>2. IInv /\ [Next]_vars => IInv'
  BY <1>1, StepKeeps
<1> QED
  BY <1>2, Start, PTL DEF Spec

(* POST /alerts never has a firing investigated twice at once.  The deduper needs room for every *)
(* firing: _prune drops a claim that is under investigation like any other.                      *)
THEOREM OneAtATime == Room /\ Spec => []OneInvestigation
<1>1. IInv => OneInvestigation
  BY DEF IInv, Claimed
<1> QED
  BY <1>1, Invariant, PTL

(* Automation.respond registers nothing behind a card on screen until its firing has lapsed.     *)
THEOREM NothingBehindTheCard == Room /\ Spec => []CardOnScreenIsRegistered
<1>1. IInv => CardOnScreenIsRegistered
  BY DEF IInv, Posted
<1> QED
  BY <1>1, Invariant, PTL

(* A firing that was answered is answered again only after its entry has lapsed.                 *)
THEOREM AnswersLapse == Room /\ Spec => OneAnswerPerTtl
<1>1. SUFFICES ASSUME Room PROVE Spec => OneAnswerPerTtl
  OBVIOUS
<1>2. ASSUME IInv, [Next]_vars, NEW f \in Firings,
             answered[f] # -1, answered'[f] # answered[f], answered'[f] # -1
      PROVE  answered'[f] > answered[f] + Ttl
  <2>0. TypeOK /\ Claimed
    BY <1>2 DEF IInv, Typed
  <2>1. CASE Restart
    BY <1>2, <2>1 DEF Restart
  <2>2. CASE UNCHANGED answered
    BY <1>2, <2>2
  <2>3. ASSUME NEW r \in DOMAIN open, NEW proposal \in Proposals, PostAll(r, proposal)
        PROVE  answered'[f] > answered[f] + Ttl
    <3>1. answered' = [answered EXCEPT ![open[r].firing] = open[r].at]
      BY <2>3 DEF PostAll
    <3>2. f = open[r].firing /\ answered'[f] = open[r].at
      BY <1>2, <2>0, <3>1 DEF TypeOK
    <3> QED
      BY <1>2, <2>0, <3>2, Numbers DEF Claimed
  <2> QED
    BY <1>2, <2>1, <2>2, <2>3 DEF Next, Tick, Deliver, Claim, Decide, Handle, InvestigationFails, PostFails, vars
<1>3. IInv /\ [Next]_vars
        => [\A f \in Firings :
              answered[f] # -1 /\ answered'[f] # answered[f] /\ answered'[f] # -1
              => answered'[f] > answered[f] + Ttl]_vars
  BY <1>2
<1> QED
  BY <1>1, <1>3, Invariant, PTL DEF Spec, OneAnswerPerTtl

-----------------------------------------------------------------------------
(* The watch that follows a brief's coverage gaps (CoverageWatch), beside it: *)
(* a gap closed as caught up is complete, for every set of sources and        *)
(* changes, every lag, poll interval and timer, as long as the margin is      *)
(* longer than the tolerance a wake is given.                                 *)

(* What a source has had the time to report, it has reported. *)
LagIsKept == \A e \in Events : OccursAt[e] + Lag[SourceOf[e]] < clock => e \in delivered

(* The last poll begins when every source it asks has settled. *)
LastPollIsSettled == pc = "asking" /\ final => \A s \in OpenGaps : Settles(s) < clock

(* So what such a source answers without an error is everything. *)
LastAnswersAreComplete ==
  pc = "asking" /\ final =>
    \A s \in DOMAIN answers : answers[s].ok => Of(s) \subseteq answers[s].events

(* A gap of the current brief was one of the first brief. *)
GapsAreTheFirst ==
  /\ pc = "due" => \A s \in Sources : brief.gaps[s] = "none" /\ first.gaps[s] = "none"
  /\ \A s \in Sources : brief.gaps[s] = "open" => first.gaps[s] = "open"

WatchInv ==
  /\ clock \in Int
  /\ brief.gaps \in [Sources -> Statuses]
  /\ LagIsKept /\ LastPollIsSettled /\ LastAnswersAreComplete /\ GapsAreTheFirst
  /\ CaughtUpMeansComplete

(* A cut-off or empty answer is marked; one that is not is all there is. *)
LEMMA GoodAnswerIsAll ==
  ASSUME NEW s \in Sources, NEW a \in Fetched(s), a.ok
  PROVE  a.events = delivered \cap Of(s)
<1>1. a \notin [events : SUBSET (delivered \cap Of(s)), ok : {FALSE}]
  OBVIOUS
<1>2. a # [events |-> {}, ok |-> FALSE]
  OBVIOUS
<1>3. a = [events |-> delivered \cap Of(s), ok |-> TRUE]
  BY <1>1, <1>2 DEF Fetched
<1> QED
  BY <1>3

(* Once a source has settled, it has been delivered everything. *)
LEMMA SettledIsDelivered ==
  ASSUME clock \in Int, LagIsKept, NEW s \in Sources, Settles(s) < clock
  PROVE  Of(s) \subseteq delivered
<1> SUFFICES ASSUME NEW e \in Events, SourceOf[e] = s PROVE e \in delivered
  BY DEF Of
<1>1. OccursAt[e] \in Int /\ OccursAt[e] <= WindowEnd /\ WindowEnd \in Int /\ Lag[s] \in Int
  BY WatchAssumption
<1>2. OccursAt[e] + Lag[s] < clock
  BY <1>1 DEF Settles
<1> QED
  BY <1>2 DEF LagIsKept

(* A poll that the code calls final is past every settle point: the margin *)
(* outlasts the tolerance.                                                 *)
LEMMA FinalIsSettled ==
  ASSUME clock \in Int, IsFinal(clock)
  PROVE  \A s \in OpenGaps : Settles(s) < clock
<1> SUFFICES ASSUME NEW s \in OpenGaps PROVE Settles(s) < clock
  OBVIOUS
<1>1. s \in Sources /\ Lag[s] \in Int /\ WindowEnd \in Int
  BY WatchAssumption DEF OpenGaps
<1>2. Margin \in Int /\ Tolerance \in Int /\ Tolerance < Margin
  BY WatchAssumption
<1>3. Closing(s) - Tolerance <= clock
  BY DEF IsFinal
<1> QED
  BY <1>1, <1>2, <1>3 DEF Closing, Settles

LEMMA CompleteInit == WatchInit => WatchInv
<1> SUFFICES ASSUME WatchInit PROVE WatchInv
  OBVIOUS
<1>1. clock \in Int
  BY WatchAssumption DEF WatchInit
<1>2. brief.gaps = [s \in Sources |-> "none"] /\ first.gaps = brief.gaps
  BY DEF WatchInit, Unwritten
<1> QED
  BY <1>1, <1>2 DEF WatchInit, WatchInv, Statuses, LagIsKept, LastPollIsSettled,
     LastAnswersAreComplete, GapsAreTheFirst, CaughtUpMeansComplete

(* Steps of the environment. *)
LEMMA CompleteTick == WatchInv /\ ClockTick => WatchInv'
<1> SUFFICES ASSUME WatchInv, ClockTick PROVE WatchInv'
  OBVIOUS
<1>1. clock' \in Int /\ clock < clock'
  BY DEF WatchInv, ClockTick
<1>2. LagIsKept'
  BY DEF WatchInv, ClockTick, Overdue, LagIsKept
<1>3. LastPollIsSettled'
  <2> SUFFICES ASSUME pc = "asking", final, NEW s \in OpenGaps PROVE Settles(s) < clock'
    BY DEF ClockTick, watch, LastPollIsSettled, OpenGaps, Settles
  <2>1. Settles(s) < clock /\ Settles(s) \in Int
    BY WatchAssumption DEF WatchInv, LastPollIsSettled, OpenGaps, Settles
  <2> QED
    BY <1>1, <2>1 DEF WatchInv
<1> QED
  BY <1>1, <1>2, <1>3 DEF WatchInv, ClockTick, watch, LastAnswersAreComplete, GapsAreTheFirst,
     CaughtUpMeansComplete

LEMMA CompleteDeliver == ASSUME NEW e \in Events PROVE WatchInv /\ SourceDelivers(e) => WatchInv'
  BY DEF WatchInv, SourceDelivers, watch, LagIsKept, LastPollIsSettled, LastAnswersAreComplete,
     GapsAreTheFirst, CaughtUpMeansComplete, OpenGaps

(* The first brief has only open gaps. *)
LEMMA CompleteInvestigate == WatchInv /\ Investigate => WatchInv'
<1> SUFFICES ASSUME WatchInv, Investigate PROVE WatchInv'
  OBVIOUS
<1>1. PICK found \in [Sources -> Answers], raised \in SUBSET Sources :
        brief' =
            [Unwritten EXCEPT
               !.candidates = UNION {found[s].events : s \in Sources},
               !.narrative = TRUE,
               !.degraded = \E s \in Sources : ~found[s].ok,
               !.gaps = [s \in Sources |-> IF s \notin raised /\ HasGap(s) THEN "open" ELSE "none"]]
  BY DEF Investigate
<1>2. brief'.gaps = [s \in Sources |-> IF s \notin raised /\ HasGap(s) THEN "open" ELSE "none"]
  BY <1>1 DEF Unwritten
<1>3. brief'.gaps \in [Sources -> Statuses] /\ \A s \in Sources : brief'.gaps[s] # "caught_up"
  BY <1>2 DEF Statuses
<1> QED
  BY <1>2, <1>3 DEF WatchInv, Investigate, LagIsKept, LastPollIsSettled, LastAnswersAreComplete,
     GapsAreTheFirst, CaughtUpMeansComplete

LEMMA CompleteBegin == WatchInv /\ BeginPoll => WatchInv'
<1> SUFFICES ASSUME WatchInv, BeginPoll PROVE WatchInv'
  OBVIOUS
<1>1. LastPollIsSettled'
  BY FinalIsSettled DEF WatchInv, BeginPoll, LastPollIsSettled, OpenGaps, Settles
<1>2. LastAnswersAreComplete'
  BY DEF BeginPoll, LastAnswersAreComplete
<1> QED
  BY <1>1, <1>2 DEF WatchInv, BeginPoll, LagIsKept, GapsAreTheFirst, CaughtUpMeansComplete

(* An answer of the last poll is complete, since its source has settled. *)
LEMMA CompleteAnswer == ASSUME NEW s \in Sources PROVE WatchInv /\ SourceAnswers(s) => WatchInv'
<1> SUFFICES ASSUME WatchInv, SourceAnswers(s) PROVE WatchInv'
  OBVIOUS
<1>1. PICK a \in Fetched(s) :
        answers' = [q \in DOMAIN answers \cup {s} |-> IF q = s THEN a ELSE answers[q]]
  BY DEF SourceAnswers
<1>2. final /\ a.ok => Of(s) \subseteq a.events
  <2> SUFFICES ASSUME final, a.ok PROVE Of(s) \subseteq a.events
    OBVIOUS
  <2>1. Settles(s) < clock
    BY DEF WatchInv, LastPollIsSettled, SourceAnswers
  <2> QED
    BY <2>1, SettledIsDelivered, GoodAnswerIsAll DEF WatchInv
<1>3. LastAnswersAreComplete'
  BY <1>1, <1>2 DEF WatchInv, SourceAnswers, LastAnswersAreComplete, Of
<1> QED
  BY <1>3 DEF WatchInv, SourceAnswers, LagIsKept, LastPollIsSettled, GapsAreTheFirst,
     CaughtUpMeansComplete, OpenGaps

(* The close: a gap becomes caught up only over a complete last answer, and *)
(* what the brief held it keeps.                                            *)
LEMMA CompleteEnd == WatchInv /\ EndPoll => WatchInv'
<1> SUFFICES ASSUME WatchInv, EndPoll PROVE WatchInv'
  OBVIOUS
<1>1. CASE brief' = brief
  BY <1>1 DEF WatchInv, EndPoll, LagIsKept, LastPollIsSettled, LastAnswersAreComplete,
     GapsAreTheFirst, CaughtUpMeansComplete
<1>2. CASE brief' = Revise(Late)
  <2>1. /\ brief'.candidates = brief.candidates \cup Late
        /\ brief'.gaps = [s \in Sources |-> IF final /\ brief.gaps[s] = "open" THEN Closed(s)
                                            ELSE brief.gaps[s]]
    BY <1>2 DEF Revise
  <2>2. \A s \in DOMAIN answers : answers[s].events \subseteq brief'.candidates
    BY <2>1 DEF Late
  <2>3. brief'.gaps \in [Sources -> Statuses]
    BY <2>1 DEF WatchInv, Statuses, Closed
  <2>4. CaughtUpMeansComplete'
    <3> SUFFICES ASSUME NEW s \in Sources, brief'.gaps[s] = "caught_up"
                 PROVE  Of(s) \subseteq brief'.candidates
      BY DEF CaughtUpMeansComplete, Of
    <3>1. CASE final /\ brief.gaps[s] = "open"
      <4>1. s \in DOMAIN answers
        BY <3>1 DEF EndPoll, OpenGaps, WatchInv, GapsAreTheFirst
      <4>2. answers[s].ok
        BY <3>1, <4>1, <2>1 DEF Closed, Failed
      <4>3. Of(s) \subseteq answers[s].events
        BY <3>1, <4>1, <4>2 DEF WatchInv, LastAnswersAreComplete, EndPoll
      <4> QED
        BY <4>1, <4>3, <2>2
    <3>2. CASE ~(final /\ brief.gaps[s] = "open")
      BY <3>2, <2>1 DEF WatchInv, CaughtUpMeansComplete
    <3> QED
      BY <3>1, <3>2
  <2>5. GapsAreTheFirst'
    BY <2>1 DEF WatchInv, EndPoll, GapsAreTheFirst, Closed
  <2> QED
    BY <2>3, <2>4, <2>5 DEF WatchInv, EndPoll, LagIsKept, LastPollIsSettled, LastAnswersAreComplete
<1> QED
  BY <1>1, <1>2 DEF EndPoll

LEMMA CompleteNext == WatchInv /\ [WatchNext]_watchVars => WatchInv'
<1> SUFFICES ASSUME WatchInv, [WatchNext]_watchVars PROVE WatchInv'
  OBVIOUS
<1>1. CASE NothingToFollow
  BY <1>1 DEF WatchInv, NothingToFollow, LagIsKept, LastPollIsSettled, LastAnswersAreComplete,
     GapsAreTheFirst, CaughtUpMeansComplete
<1>2. ASSUME NEW s \in Sources, AnswerRaises(s) PROVE WatchInv'
  BY <1>2 DEF WatchInv, AnswerRaises, LagIsKept, LastPollIsSettled, LastAnswersAreComplete,
     GapsAreTheFirst, CaughtUpMeansComplete
<1>3. CASE UNCHANGED watchVars
  BY <1>3 DEF WatchInv, watchVars, watch, LagIsKept, LastPollIsSettled, LastAnswersAreComplete,
     GapsAreTheFirst, CaughtUpMeansComplete, OpenGaps
<1> QED
  BY <1>1, <1>2, <1>3, CompleteTick, CompleteDeliver, CompleteInvestigate, CompleteBegin,
     CompleteAnswer, CompleteEnd DEF WatchNext, Watch

(* A gap closed as caught up hides no change of its source, in every brief of *)
(* every run: for all lags and timers that satisfy WatchAssumption.           *)
THEOREM CaughtUpIsComplete == WatchSpec => []CaughtUpMeansComplete
<1>1. WatchInv => CaughtUpMeansComplete
  BY DEF WatchInv
<1>2. WatchInit => WatchInv
  BY CompleteInit
<1> QED
  BY <1>1, <1>2, CompleteNext, PTL DEF WatchSpec

-----------------------------------------------------------------------------
(***************************************************************************)
(* The ranking a brief carries (Ranking).  Each place of the order has its *)
(* candidate, so the first has the highest score and every lead is at      *)
(* least 0; fractions are compared by cross-multiplication.                *)
(***************************************************************************)
(* Sums over the four features. *)

Less(x, y) == [f \in Features |-> x[f] - y[f]]

LEMMA SumIsInt ==
  ASSUME NEW w \in [Features -> Int], NEW x \in [Features -> Int]
  PROVE  Sum(w, x) \in Int
BY DEF Sum, Features

LEMMA SumOfLess ==
  ASSUME NEW w \in [Features -> Int], NEW x \in [Features -> Int], NEW y \in [Features -> Int]
  PROVE  Less(x, y) \in [Features -> Int] /\ Sum(w, Less(x, y)) = Sum(w, x) - Sum(w, y)
<1>1. Less(x, y) \in [Features -> Int]
  BY DEF Less
<1>2. \A f \in Features : w[f] * Less(x, y)[f] = w[f] * x[f] - w[f] * y[f]
  BY DEF Less
<1>3. \A f \in Features : w[f] * x[f] \in Int /\ w[f] * y[f] \in Int
  OBVIOUS
<1> QED
  BY <1>1, <1>2, <1>3 DEF Sum, Features

(* Leaving one weight out leaves out its term. *)
LEMMA SumWithout ==
  ASSUME NEW w \in [Features -> Int], NEW x \in [Features -> Int], NEW f \in Features
  PROVE  /\ [w EXCEPT ![f] = 0] \in [Features -> Int]
         /\ Sum([w EXCEPT ![f] = 0], x) = Sum(w, x) - w[f] * x[f]
<1> DEFINE v == [w EXCEPT ![f] = 0]
<1>1. v \in [Features -> Int]
  OBVIOUS
<1>2. \A g \in Features : v[g] * x[g] = IF g = f THEN 0 ELSE w[g] * x[g]
  OBVIOUS
<1>3. \A g \in Features : w[g] * x[g] \in Int
  OBVIOUS
<1> HIDE DEF v
<1>4. Sum(v, x) = Sum(w, x) - w[f] * x[f]
  BY <1>1, <1>2, <1>3 DEF Sum, Features
<1> QED
  BY <1>1, <1>4 DEF v

LEMMA SumGrows ==
  ASSUME NEW w \in [Features -> Nat], NEW x \in [Features -> Int], NEW y \in [Features -> Int],
         \A f \in Features : x[f] >= y[f]
  PROVE  Sum(w, x) >= Sum(w, y)
<1>1. \A f \in Features : w[f] * x[f] >= w[f] * y[f] /\ w[f] * x[f] \in Int /\ w[f] * y[f] \in Int
  <2> SUFFICES ASSUME NEW f \in Features PROVE w[f] * x[f] >= w[f] * y[f] /\ w[f] * x[f] \in Int /\ w[f] * y[f] \in Int
    OBVIOUS
  <2>1. w[f] \in Nat /\ x[f] \in Int /\ y[f] \in Int /\ x[f] - y[f] >= 0
    OBVIOUS
  <2>2. w[f] * (x[f] - y[f]) >= 0
    BY <2>1
  <2> QED
    BY <2>1, <2>2
<1> QED
  BY <1>1 DEF Sum, Features

-----------------------------------------------------------------------------
(* What an event has. *)

Loaded == events \in Seq(Attributes) /\ history \in Histories /\ weights \in Weightings

LEMMA SmallestOf ==
  ASSUME NEW T, T \subseteq Nat, T # {}
  PROVE  \E m \in T : \A n \in T : m <= n
<1>1. PICK m \in T : \A n \in T : ~(<<n, m>> \in OpToRel(<, Nat))
  BY NatLessThanWellFounded, WFMin
<1>2. m \in Nat /\ \A n \in T : n \in Nat /\ ~(n < m)
  BY <1>1 DEF OpToRel
<1>3. \A n \in T : m <= n
  BY <1>2
<1> QED
  BY <1>3

LEMMA LargestOf ==
  ASSUME NEW N \in Nat, NEW T, T \subseteq 0..N, T # {}
  PROVE  Max(T) \in T
<1>1. PICK U : U = {N - x : x \in T}
  OBVIOUS
<1>a. \A x \in T : x \in 0..N /\ N - x \in Nat
  OBVIOUS
<1>2. U \subseteq Nat /\ U # {}
  BY <1>1, <1>a
<1>3. PICK m \in U : \A n \in U : m <= n
  BY <1>2, SmallestOf
<1>4. PICK t \in T : m = N - t
  BY <1>1, <1>3
<1>5. \A x \in T : t >= x
  BY <1>1, <1>a, <1>3, <1>4
<1> QED
  BY <1>4, <1>5 DEF Max

LEMMA FeatureValues ==
  ASSUME Loaded, NEW i \in DOMAIN events
  PROVE  events[i].age \in Int /\ FeaturesOf(events[i]) \in [Features -> Int]
<1> DEFINE e == events[i]
<1>0. e \in Attributes /\ e.age \in Int /\ Scale \in Nat \ {0}
  BY RankingAssumption DEF Loaded
<1> HIDE DEF e
<1>1. RadiusOverlap(e) \in Int
  <2>1. Scale \div 2 \in Int
    BY <1>0
  <2> QED
    BY <1>0, <2>1 DEF RadiusOverlap
<1>2. TemporalProximity(e) \in Int
  <2>1. CASE e.age < 0
    BY <2>1 DEF TemporalProximity
  <2>2. CASE ~(e.age < 0)
    <3> DEFINE levels == {level \in 0..Scale : level * 2 ^ e.age <= Scale}
    <3>1. e.age \in Nat
      BY <1>0, <2>2
    <3>2. 2 ^ e.age \in Int
      BY <3>1
    <3>3. 0 * 2 ^ e.age = 0
      BY <3>2
    <3>4. 0 \in levels
      BY <1>0, <3>3
    <3>5. Max(levels) \in levels
      BY <1>0, <3>4, LargestOf
    <3> QED
      BY <2>2, <3>5, <1>0 DEF TemporalProximity
  <2> QED
    BY <2>1, <2>2
<1>3. TypePrior(e) \in Int
  <2> DEFINE hits == {n \in 1..Len(Priors) : Matches(Priors[n], e)}
  <2>1. CASE hits = {}
    BY <2>1, RankingAssumption DEF TypePrior
  <2>2. CASE hits # {}
    <3>1. hits \subseteq Nat
      BY RankingAssumption
    <3>2. PICK m \in hits : \A n \in hits : m <= n
      BY <2>2, <3>1, SmallestOf
    <3>3. Min(hits) \in hits
      BY <3>2 DEF Min
    <3>4. Priors[Min(hits)].level \in Int
      BY <3>3, RankingAssumption
    <3> QED
      BY <2>2, <3>4 DEF TypePrior
  <2> QED
    BY <2>1, <2>2
<1>4. Recurrence(e) \in Int
  <2> DEFINE H == {n \in 1..Len(history) : e.shape \in history[n]}
  <2>1. Len(history) \in Nat
    BY RankingAssumption DEF Loaded
  <2>2. IsFiniteSet(1..Len(history)) /\ H \in SUBSET (1..Len(history))
    BY <2>1, FS_Interval
  <2>3. Cardinality(H) \in Nat
    BY <2>2, FS_Subset, FS_CardinalityType
  <2> HIDE DEF H
  <2>4. Len(history) # 0 => (Scale * Cardinality(H)) \div Len(history) \in Int
    BY <1>0, <2>1, <2>3
  <2> QED
    BY <2>4 DEF Recurrence, H
<1>5. FeaturesOf(e) \in [Features -> Int]
  BY <1>1, <1>2, <1>3, <1>4 DEF FeaturesOf, Features
<1> QED
  BY <1>0, <1>5 DEF e

-----------------------------------------------------------------------------
(* The order: nobody comes before themselves, of two one comes first, and who  *)
(* comes before somebody comes before all who follow.                          *)

ScoreOf(i) == Sum(weights, FeaturesOf(events[i]))
Ahead(i) == {k \in Query : Before(k, i)}

LEMMA Candidates ==
  ASSUME Loaded
  PROVE  /\ Query \subseteq DOMAIN events /\ IsFiniteSet(Query) /\ Cardinality(Query) \in Nat
         /\ \A i \in DOMAIN events : i \in Int /\ ScoreOf(i) \in Int /\ events[i].age \in Int
<1>1. DOMAIN events = 1..Len(events) /\ Len(events) \in Nat
  BY DEF Loaded
<1>2. Query \subseteq DOMAIN events
  BY DEF Query
<1>3. IsFiniteSet(DOMAIN events)
  BY <1>1, FS_Interval
<1>4. IsFiniteSet(Query) /\ Cardinality(Query) \in Nat
  BY <1>2, <1>3, FS_Subset, FS_CardinalityType
<1>5. weights \in [Features -> Nat]
  BY RankingAssumption DEF Loaded
<1>6. weights \in [Features -> Int]
  BY <1>5
<1>7. ASSUME NEW i \in DOMAIN events PROVE ScoreOf(i) \in Int /\ events[i].age \in Int
  BY <1>6, FeatureValues, SumIsInt DEF ScoreOf
<1> QED
  BY <1>1, <1>2, <1>4, <1>7

LEMMA StrictOrder ==
  ASSUME Loaded, NEW a \in Query, NEW b \in Query
  PROVE  /\ ~Before(a, a)
         /\ a # b => Before(a, b) \/ Before(b, a)
         /\ \A c \in Query : Before(a, b) /\ Before(b, c) => Before(a, c)
         /\ Before(a, b) => ScoreOf(a) >= ScoreOf(b)
<1>1. \A i \in Query : i \in Int /\ ScoreOf(i) \in Int /\ events[i].age \in Int
  BY Candidates
<1>2. \A i, k : Before(i, k) <=>
        \/ ScoreOf(i) > ScoreOf(k)
        \/ ScoreOf(i) = ScoreOf(k) /\ events[i].age < events[k].age
        \/ ScoreOf(i) = ScoreOf(k) /\ events[i].age = events[k].age /\ i < k
  BY DEF Before, ScoreOf
<1> QED
  BY <1>1, <1>2

(* Whoever comes before another has fewer ahead. *)
LEMMA FewerAhead ==
  ASSUME Loaded, NEW i \in Query
  PROVE  /\ Cardinality(Ahead(i)) \in 0..Cardinality(Query) - 1
         /\ \A k \in Query : Before(k, i) => Cardinality(Ahead(k)) < Cardinality(Ahead(i))
<1>1. IsFiniteSet(Query) /\ Cardinality(Query) \in Nat
  BY Candidates
<1>2. \A k \in Query : Ahead(k) \in SUBSET Query /\ k \notin Ahead(k)
  BY StrictOrder DEF Ahead
<1>3. \A k \in Query : IsFiniteSet(Ahead(k)) /\ Cardinality(Ahead(k)) \in Nat
  BY <1>1, <1>2, FS_Subset, FS_CardinalityType
<1>4. Cardinality(Ahead(i)) <= Cardinality(Query) /\ Cardinality(Ahead(i)) # Cardinality(Query)
  BY <1>1, <1>2, FS_Subset
<1>5. ASSUME NEW k \in Query, Before(k, i) PROVE Cardinality(Ahead(k)) < Cardinality(Ahead(i))
  <2>1. Ahead(k) \in SUBSET Ahead(i)
    BY <1>5, StrictOrder DEF Ahead
  <2>2. k \in Ahead(i) /\ k \notin Ahead(k)
    BY <1>2, <1>5 DEF Ahead
  <2>3. Cardinality(Ahead(k)) <= Cardinality(Ahead(i)) /\ Cardinality(Ahead(k)) # Cardinality(Ahead(i))
    BY <1>3, <2>1, <2>2, FS_Subset
  <2> QED
    BY <1>3, <2>3
<1> QED
  BY <1>1, <1>3, <1>4, <1>5

(* So each place has its candidate. *)
LEMMA PlacesAreTaken ==
  ASSUME Loaded, NEW n \in 1..Cardinality(Query)
  PROVE  \E i \in Query : Cardinality(Ahead(i)) = n - 1
<1> DEFINE N == Cardinality(Query)
           places == 0..N - 1
           place == [i \in Query |-> Cardinality(Ahead(i))]
<1>1. IsFiniteSet(Query) /\ N \in Nat
  BY Candidates
<1>2. IsFiniteSet(places) /\ Cardinality(places) = N
  <2>1. 0 \in Int /\ N - 1 \in Int
    BY <1>1
  <2>2. IsFiniteSet(places) /\ Cardinality(places) = IF 0 > N - 1 THEN 0 ELSE (N - 1) - 0 + 1
    BY <2>1, FS_Interval
  <2> QED
    BY <1>1, <2>2
<1>3. \A i \in Query : Cardinality(Ahead(i)) \in places
  BY FewerAhead
<1>4. \A i, k \in Query : Cardinality(Ahead(i)) = Cardinality(Ahead(k)) => i = k
  <2> SUFFICES ASSUME NEW i \in Query, NEW k \in Query, i # k
               PROVE  Cardinality(Ahead(i)) # Cardinality(Ahead(k))
    OBVIOUS
  <2>1. Cardinality(Ahead(i)) \in Int /\ Cardinality(Ahead(k)) \in Int
    BY <1>1, FewerAhead
  <2>2. Before(i, k) \/ Before(k, i)
    BY StrictOrder
  <2> QED
    BY <2>1, <2>2, FewerAhead
<1>5. place \in Injection(Query, places)
  BY <1>3, <1>4 DEF Injection, IsInjective
<1>6. place \in Surjection(Query, places)
  BY <1>1, <1>2, <1>5, FS_Injection
<1>7. n - 1 \in places
  BY <1>1
<1>8. \E i \in Query : place[i] = n - 1
  BY <1>6, <1>7 DEF Surjection
<1> QED
  BY <1>8

(* What score_events returns are the candidates, and the first has the highest score. *)
LEMMA Sorted ==
  ASSUME Loaded
  PROVE  /\ Scored \in Seq(Query) /\ Len(Scored) = Cardinality(Query)
         /\ Len(Scored) >= 1 => \A k \in Query : ScoreOf(Scored[1]) >= ScoreOf(k)
<1>1. Cardinality(Query) \in Nat
  BY Candidates
<1>2. ASSUME NEW n \in 1..Cardinality(Query)
      PROVE  Scored[n] \in Query /\ Cardinality(Ahead(Scored[n])) = n - 1
  <2>1. Scored[n] = CHOOSE i \in Query : Cardinality(Ahead(i)) = n - 1
    BY DEF Scored, Ahead
  <2> QED
    BY <2>1, PlacesAreTaken
<1>3. Scored \in [1..Cardinality(Query) -> Query]
  <2> DEFINE at(n) == CHOOSE i \in Query : Cardinality(Ahead(i)) = n - 1
  <2>1. Scored = [n \in 1..Cardinality(Query) |-> at(n)]
    BY DEF Scored, Ahead
  <2>2. \A n \in 1..Cardinality(Query) : at(n) \in Query
    BY PlacesAreTaken
  <2> HIDE DEF at
  <2> QED
    BY <2>1, <2>2
<1>4. Scored \in Seq(Query) /\ Len(Scored) = Cardinality(Query)
  BY <1>1, <1>3
<1>5. ASSUME Len(Scored) >= 1, NEW k \in Query PROVE ScoreOf(Scored[1]) >= ScoreOf(k)
  <2>1. 1 \in 1..Cardinality(Query)
    BY <1>1, <1>4, <1>5
  <2>2. Scored[1] \in Query /\ Cardinality(Ahead(Scored[1])) = 0
    BY <1>2, <2>1
  <2>3. Ahead(Scored[1]) \in SUBSET Query /\ IsFiniteSet(Query)
    BY Candidates DEF Ahead
  <2>4. Ahead(Scored[1]) = {}
    BY <2>2, <2>3, FS_Subset, FS_EmptySet
  <2>5. ~Before(k, Scored[1])
    BY <2>4 DEF Ahead
  <2>6. k = Scored[1] \/ Before(Scored[1], k)
    BY <2>2, <2>5, StrictOrder
  <2>7. ScoreOf(k) \in Int /\ ScoreOf(Scored[1]) \in Int
    BY <2>2, Candidates
  <2> QED
    BY <2>2, <2>6, <2>7, StrictOrder
<1> QED
  BY <1>4, <1>5

-----------------------------------------------------------------------------
(* The statement about the order. *)

(* A sorted order of candidates. *)
Sound(order) ==
  /\ order \in Seq(DOMAIN events)
  /\ \A j \in 1..Len(order) : ScoreOf(order[1]) >= ScoreOf(order[j])

Weighted == weights \in [Features -> Int] /\ \A f \in Features : weights[f] >= 0

LEMMA NamesAreAll ==
  /\ Len(Names) = 4 /\ \A i \in 1..Len(Names) : Names[i] \in Features
  /\ \A f \in Features : \E i \in 1..Len(Names) : Names[i] = f
BY DEF Names, Features

LEMMA Gaps ==
  ASSUME Loaded, NEW order, Sound(order), NEW j \in 1..Len(order)
  PROVE  /\ Weighted /\ \A f \in Features : weights[f] \in Nat
         /\ FeaturesOf(events[order[1]]) \in [Features -> Int]
         /\ FeaturesOf(events[order[j]]) \in [Features -> Int]
         /\ \A f \in Features : Gap(order, j, f) \in Int
         /\ Lead(order, j) \in Int /\ Lead(order, j) >= 0
<1> DEFINE x == FeaturesOf(events[order[1]])
           y == FeaturesOf(events[order[j]])
<1>1. order[1] \in DOMAIN events /\ order[j] \in DOMAIN events
  BY DEF Sound
<1>2. x \in [Features -> Int] /\ y \in [Features -> Int]
  BY <1>1, FeatureValues
<1>3. weights \in [Features -> Nat]
  BY RankingAssumption DEF Loaded
<1>4. weights \in [Features -> Int] /\ \A f \in Features : weights[f] >= 0 /\ weights[f] \in Nat
  BY <1>3
<1>5. Lead(order, j) = Sum(weights, Less(x, y))
  BY DEF Lead, Gap, Less
<1>6. Lead(order, j) = ScoreOf(order[1]) - ScoreOf(order[j])
  BY <1>2, <1>4, <1>5, SumOfLess DEF ScoreOf
<1>7. ScoreOf(order[1]) \in Int /\ ScoreOf(order[j]) \in Int /\ ScoreOf(order[1]) >= ScoreOf(order[j])
  BY <1>1, Candidates DEF Sound
<1>8. \A f \in Features : Gap(order, j, f) \in Int
  BY <1>2 DEF Gap
<1> QED
  BY <1>2, <1>4, <1>6, <1>7, <1>8 DEF Weighted

(* The draw with one challenger along one weight. *)
LEMMA DrawIs ==
  ASSUME Loaded, NEW order, Sound(order), NEW j \in 1..Len(order), NEW i \in 1..Len(Names)
  PROVE  LET f == Names[i]
             d == Gap(order, j, f)
             draw == Draw(order, j, i)
         IN /\ draw.rank = j /\ draw.name = i /\ draw.lead = Lead(order, j)
            /\ d > 0 => draw.den = d /\ draw.num = weights[f] * d - draw.lead
            /\ ~(d > 0) => draw.den = -d /\ draw.num = draw.lead - weights[f] * d
            /\ draw.lead \in Int /\ draw.den \in Int /\ draw.num \in Int
<1> DEFINE f == Names[i]
           d == Gap(order, j, f)
           lead == Max({Lead(order, j), 0})
<1>1. f \in Features /\ d \in Int /\ weights[f] \in Int /\ Lead(order, j) \in Int /\ Lead(order, j) >= 0
  BY NamesAreAll, Gaps DEF Weighted
<1>2. lead = Lead(order, j)
  BY <1>1 DEF Max
<1> HIDE DEF f, lead
<1>3. weights[f] * d \in Int
  BY <1>1
<1>4. Draw(order, j, i) =
        IF d > 0 THEN [rank |-> j, name |-> i, lead |-> lead, den |-> d, num |-> weights[f] * d - lead]
        ELSE [rank |-> j, name |-> i, lead |-> lead, den |-> -d, num |-> lead - weights[f] * d]
  BY DEF Draw, f, lead
<1> QED
  BY <1>1, <1>2, <1>3, <1>4 DEF f

-----------------------------------------------------------------------------
(* Fractions, compared by cross-multiplication. *)

LEMMA Times ==
  ASSUME NEW d \in Int, d > 0, NEW a \in Int, NEW b \in Int
  PROVE  /\ d * a \in Int /\ d * b \in Int
         /\ a <= b <=> d * a <= d * b
         /\ a < b <=> d * a < d * b
<1>1. d * a \in Int /\ d * b \in Int /\ d * (b - a) = d * b - d * a
  OBVIOUS
<1>2. a <= b => d * (b - a) >= 0
  OBVIOUS
<1>3. a < b => d * (b - a) > 0
  OBVIOUS
<1>4. a > b => d * (b - a) < 0
  OBVIOUS
<1>5. a = b => d * (b - a) = 0
  OBVIOUS
<1> QED
  BY <1>1, <1>2, <1>3, <1>4, <1>5

LEMMA Cross ==
  ASSUME NEW la \in Int, NEW lb \in Int, NEW lc \in Int,
         NEW da \in Int, NEW db \in Int, NEW dc \in Int, da > 0, db > 0, dc > 0,
         la * db <= lb * da, lb * dc <= lc * db
  PROVE  /\ la * dc <= lc * da
         /\ la * db < lb * da \/ lb * dc < lc * db => la * dc < lc * da
<1>1. /\ la * db \in Int /\ lb * da \in Int /\ lb * dc \in Int /\ lc * db \in Int /\ la * dc \in Int /\ lc * da \in Int
  OBVIOUS
<1>2. dc * (la * db) <= dc * (lb * da) /\ (la * db < lb * da => dc * (la * db) < dc * (lb * da))
  BY <1>1, Times
<1>3. da * (lb * dc) <= da * (lc * db) /\ (lb * dc < lc * db => da * (lb * dc) < da * (lc * db))
  BY <1>1, Times
<1>4. dc * (la * db) = db * (la * dc) /\ dc * (lb * da) = da * (lb * dc) /\ da * (lc * db) = db * (lc * da)
  OBVIOUS
<1>5. /\ db * (la * dc) \in Int /\ db * (lc * da) \in Int /\ da * (lb * dc) \in Int
  BY <1>1
<1>6. /\ db * (la * dc) <= db * (lc * da)
      /\ la * db < lb * da \/ lb * dc < lc * db => db * (la * dc) < db * (lc * da)
  BY <1>2, <1>3, <1>4, <1>5
<1> QED
  BY <1>1, <1>6, Times

-----------------------------------------------------------------------------
(* The nearest draw: there is one where rank 1 is not dominant, and none is nearer. *)

Fractions == [rank : Int, name : Int, lead : Int, den : Int, num : Int]

LEMMA NearerOrders ==
  ASSUME NEW a \in Fractions, NEW b \in Fractions, NEW c \in Fractions, a.den > 0, b.den > 0, c.den > 0
  PROVE  /\ Nearer(a, a)
         /\ Nearer(a, b) \/ Nearer(b, a)
         /\ Nearer(a, b) /\ Nearer(b, c) => Nearer(a, c)
         /\ Nearer(a, b) => a.lead * b.den <= b.lead * a.den
<1>1. \A x, y \in Fractions : x.lead * y.den \in Int /\ x.rank \in Int /\ x.name \in Int
  BY DEF Fractions
<1>2. Nearer(a, a) /\ (Nearer(a, b) \/ Nearer(b, a)) /\ (Nearer(a, b) => a.lead * b.den <= b.lead * a.den)
  BY <1>1 DEF Nearer
<1>3. ASSUME Nearer(a, b), Nearer(b, c) PROVE Nearer(a, c)
  <2>1. a.lead * b.den <= b.lead * a.den /\ b.lead * c.den <= c.lead * b.den
    BY <1>1, <1>3 DEF Nearer
  <2>2. /\ a.lead * c.den <= c.lead * a.den
        /\ a.lead * b.den < b.lead * a.den \/ b.lead * c.den < c.lead * b.den => a.lead * c.den < c.lead * a.den
    BY <2>1, Cross DEF Fractions
  <2>3. \/ a.lead * c.den < c.lead * a.den
        \/ a.lead * c.den = c.lead * a.den /\ a.lead * b.den = b.lead * a.den /\ b.lead * c.den = c.lead * b.den
    BY <1>1, <2>1, <2>2
  <2> QED
    BY <1>1, <1>3, <2>3 DEF Nearer
<1> QED
  BY <1>2, <1>3

LEMMA DrawsAre ==
  ASSUME Loaded, NEW order, Sound(order)
  PROVE  /\ IsFiniteSet(Draws(order)) /\ Draws(order) \subseteq Fractions
         /\ \A draw \in Draws(order) : draw.den > 0 /\ draw.num >= 0
<1> DEFINE all == (2..Len(order)) \X (1..Len(Names))
           ds == {Draw(order, j, i) : j \in 2..Len(order), i \in 1..Len(Names)}
           f == [pair \in all |-> Draw(order, pair[1], pair[2])]
<1>1. Len(order) \in Nat /\ Len(Names) = 4
  BY NamesAreAll DEF Sound
<1>2. IsFiniteSet(2..Len(order)) /\ IsFiniteSet(1..Len(Names))
  <2>1. 1 \in Int /\ 2 \in Int /\ Len(order) \in Int /\ Len(Names) \in Int
    BY <1>1
  <2> QED
    BY <2>1, FS_Interval
<1>3. IsFiniteSet(all)
  BY <1>2, FS_Product
<1>4. f \in Surjection(all, ds)
  <2>1. f \in [all -> ds]
    OBVIOUS
  <2>2. ASSUME NEW d \in ds PROVE \E pair \in all : f[pair] = d
    <3>1. PICK j \in 2..Len(order), i \in 1..Len(Names) : d = Draw(order, j, i)
      OBVIOUS
    <3>2. <<j, i>> \in all /\ f[<<j, i>>] = d
      BY <3>1
    <3> QED
      BY <3>2
  <2> QED
    BY <2>1, <2>2 DEF Surjection
<1>5. IsFiniteSet(ds)
  BY <1>3, <1>4, FS_Surjection
<1>6. Draws(order) \in SUBSET ds /\ \A draw \in Draws(order) : draw.den > 0 /\ draw.num >= 0
  BY DEF Draws, Challengers
<1>7. IsFiniteSet(Draws(order))
  BY <1>5, <1>6, FS_Subset
<1>8. ds \subseteq Fractions
  <2> SUFFICES ASSUME NEW j \in 2..Len(order), NEW i \in 1..Len(Names) PROVE Draw(order, j, i) \in Fractions
    OBVIOUS
  <2>1. j \in 1..Len(order) /\ j \in Int /\ i \in Int
    BY <1>1
  <2>2. /\ Draw(order, j, i).rank \in Int /\ Draw(order, j, i).name \in Int /\ Draw(order, j, i).lead \in Int
        /\ Draw(order, j, i).den \in Int /\ Draw(order, j, i).num \in Int
    BY <2>1, DrawIs
  <2>3. \E r, n, l, d, m : Draw(order, j, i) = [rank |-> r, name |-> n, lead |-> l, den |-> d, num |-> m]
    BY DEF Draw
  <2> QED
    BY <2>2, <2>3 DEF Fractions
<1> QED
  BY <1>6, <1>7, <1>8

LEMMA SomethingIsNearest ==
  ASSUME NEW D, IsFiniteSet(D), D \subseteq Fractions, \A draw \in D : draw.den > 0, D # {}
  PROVE  \E draw \in D : \A other \in D : Nearer(draw, other)
<1> DEFINE Closer(a) == {o \in D : ~Nearer(a, o)}
           T == {Cardinality(Closer(a)) : a \in D}
<1>1. \A a \in D : Closer(a) \in SUBSET D
  OBVIOUS
<1>2. \A a \in D : IsFiniteSet(Closer(a)) /\ Cardinality(Closer(a)) \in Nat
  BY <1>1, FS_Subset, FS_CardinalityType
<1>3. T \subseteq Nat /\ T # {}
  BY <1>2
<1>4. PICK m \in T : \A n \in T : m <= n
  BY <1>3, SmallestOf
<1>5. PICK a \in D : m = Cardinality(Closer(a))
  BY <1>4
<1>6. ASSUME NEW o \in D, ~Nearer(a, o) PROVE FALSE
  <2>1. Closer(o) \in SUBSET Closer(a)
    <3> SUFFICES ASSUME NEW z \in D, ~Nearer(o, z), Nearer(a, z) PROVE FALSE
      OBVIOUS
    <3>1. Nearer(o, a)
      BY <1>6, NearerOrders
    <3> QED
      BY <3>1, NearerOrders
  <2>2. o \in Closer(a) /\ o \notin Closer(o)
    BY <1>6, NearerOrders
  <2>3. Cardinality(Closer(o)) <= Cardinality(Closer(a)) /\ Cardinality(Closer(o)) # Cardinality(Closer(a))
    BY <1>2, <2>1, <2>2, FS_Subset
  <2>4. Cardinality(Closer(o)) \in T
    OBVIOUS
  <2>5. Cardinality(Closer(a)) <= Cardinality(Closer(o))
    BY <1>4, <1>5, <2>4
  <2>6. Cardinality(Closer(a)) \in Nat /\ Cardinality(Closer(o)) \in Nat
    BY <1>2
  <2> HIDE DEF Closer
  <2> QED
    BY <2>3, <2>5, <2>6
<1> QED
  BY <1>6

(* rank_stability's assertion that `best` is never None: the loop finds a draw. *)
LEMMA NearestIsADraw ==
  ASSUME Loaded, NEW order, Sound(order), ~Dominant(order)
  PROVE  /\ Nearest(order) \in Draws(order)
         /\ \A other \in Draws(order) : Nearer(Nearest(order), other)
<1>1. PICK j \in 2..Len(order), f \in Features : ~(Gap(order, j, f) >= 0)
  BY DEF Dominant, Challengers
<1>2. PICK i \in 1..Len(Names) : Names[i] = f
  BY NamesAreAll
<1>3. j \in 1..Len(order) /\ Names[i] \in Features /\ ~(Gap(order, j, Names[i]) >= 0)
  BY <1>1, <1>2 DEF Sound
<1> DEFINE d == Gap(order, j, Names[i])
<1>4. /\ d \in Int /\ Lead(order, j) \in Int /\ Lead(order, j) >= 0
      /\ weights[Names[i]] \in Int /\ weights[Names[i]] >= 0
  BY <1>3, Gaps DEF Weighted
<1>5. ~(d > 0) /\ -d > 0
  BY <1>3, <1>4
<1>6. Draw(order, j, i).den = -d /\ Draw(order, j, i).num = Lead(order, j) - weights[Names[i]] * d
  BY <1>3, <1>5, DrawIs
<1>7. Draw(order, j, i).den > 0 /\ Draw(order, j, i).num >= 0
  <2> HIDE DEF d
  <2>1. weights[Names[i]] * d \in Int /\ weights[Names[i]] * d <= 0
    BY <1>4, <1>5
  <2> QED
    BY <1>4, <1>5, <1>6, <2>1
<1>8. Draw(order, j, i) \in Draws(order)
  BY <1>7 DEF Draws, Challengers
<1>9. \E draw \in Draws(order) : \A other \in Draws(order) : Nearer(draw, other)
  BY <1>8, DrawsAre, SomethingIsNearest
<1> QED
  BY <1>9 DEF Nearest

-----------------------------------------------------------------------------
(* A lead, and a weight that moves. *)

Abs(n) == IF n < 0 THEN -n ELSE n

(* Moving a weight by less than the fraction size/den, which is no more than what *)
(* this challenger needs along this feature, leaves rank 1 ahead of it.           *)
LEMMA StaysAhead ==
  ASSUME NEW L \in Int, NEW g \in Int, NEW w \in Int, NEW p \in Int, NEW q \in Int,
         NEW size \in Int, NEW den \in Int,
         L >= 0, p >= 0, q >= 0, g # 0, size >= 0, den > 0,
         g < 0 \/ w * g >= L => size * Abs(g) <= L * den,
         Abs(w * q - p) * den < size * q
  PROVE  q * (L - w * g) + p * g > 0
<1> DEFINE h == Abs(g)
           m == Abs(w * q - p)
<1>1. h \in Int /\ h > 0 /\ m \in Int /\ m >= 0
  BY DEF Abs
<1>2. q > 0
  <2>1. m * den >= 0 /\ size * q \in Int /\ m * den \in Int
    BY <1>1
  <2>2. q = 0 => size * q = 0
    OBVIOUS
  <2> QED
    BY <2>1, <2>2
<1>3. CASE g > 0 /\ w * g < L
  <2>1. w * g \in Int /\ L - w * g \in Int /\ L - w * g > 0
    BY <1>3
  <2>2. q * (L - w * g) > 0 /\ q * (L - w * g) \in Int
    BY <1>2, <2>1
  <2>3. p * g >= 0 /\ p * g \in Int
    BY <1>3
  <2> QED
    BY <2>2, <2>3
<1>4. CASE g < 0 \/ w * g >= L
  <2>1. size * h <= L * den
    BY <1>4
  <2> HIDE DEF h, m
  <2>2. /\ m * den \in Int /\ size * q \in Int /\ size * h \in Int /\ L * den \in Int /\ m * h \in Int /\ L * q \in Int
    BY <1>1
  <2>3. h * (m * den) < h * (size * q)
    BY <1>1, <2>2, Times DEF m
  <2>4. q * (size * h) <= q * (L * den)
    BY <1>2, <2>1, <2>2, Times
  <2>5. h * (m * den) = den * (m * h) /\ h * (size * q) = q * (size * h) /\ q * (L * den) = den * (L * q)
    BY <1>1
  <2>6. /\ den * (m * h) \in Int /\ den * (L * q) \in Int /\ q * (size * h) \in Int
    BY <2>2
  <2>7. den * (m * h) < den * (L * q)
    BY <2>3, <2>4, <2>5, <2>6
  <2>8. m * h < L * q
    BY <2>2, <2>7, Times
  <2>9. (w * q - p) * g <= m * h
    <3>1. w * q - p \in Int /\ w * q - p <= m /\ -(w * q - p) <= m
      BY <1>1 DEF m, Abs
    <3>2. CASE g > 0
      <4>1. h = g
        BY <3>2 DEF h, Abs
      <4>2. g * (w * q - p) <= g * m
        BY <1>1, <3>1, <3>2, Times
      <4> QED
        BY <1>1, <3>1, <4>1, <4>2
    <3>3. CASE g < 0
      <4>1. h = -g
        BY <3>3 DEF h, Abs
      <4>2. h * (-(w * q - p)) <= h * m
        BY <1>1, <3>1, Times
      <4>3. h * (-(w * q - p)) = (w * q - p) * g
        BY <3>1, <4>1
      <4> QED
        BY <1>1, <4>2, <4>3
    <3> QED
      BY <3>2, <3>3
  <2>10. q * (L - w * g) + p * g = L * q - (w * q - p) * g
    OBVIOUS
  <2>11. (w * q - p) * g \in Int
    OBVIOUS
  <2> QED
    BY <2>2, <2>8, <2>9, <2>10, <2>11
<1> QED
  BY <1>3, <1>4

(* The lead of rank 1 over rank j when the weight of f is p/q, in terms of what it is now. *)
LEMMA LeadIs ==
  ASSUME Loaded, Sound(ranked), NEW j \in 1..Len(ranked), NEW f \in Features, NEW p \in Int, NEW q \in Int
  PROVE  LeadAt(j, f, p, q) = q * (Lead(ranked, j) - weights[f] * Gap(ranked, j, f)) + p * Gap(ranked, j, f)
<1> DEFINE x == FeaturesOf(events[ranked[1]])
           y == FeaturesOf(events[ranked[j]])
           v == [weights EXCEPT ![f] = 0]
<1>1. x \in [Features -> Int] /\ y \in [Features -> Int] /\ weights \in [Features -> Int]
  BY Gaps DEF Weighted
<1>2. Lead(ranked, j) = Sum(weights, x) - Sum(weights, y)
  <2>1. Lead(ranked, j) = Sum(weights, Less(x, y))
    BY DEF Lead, Gap, Less
  <2> QED
    BY <1>1, <2>1, SumOfLess
<1>3. Sum(v, x) = Sum(weights, x) - weights[f] * x[f] /\ Sum(v, y) = Sum(weights, y) - weights[f] * y[f]
  <2>1. \A z \in [Features -> Int] : Sum(v, z) = Sum(weights, z) - weights[f] * z[f]
    BY <1>1, SumWithout
  <2> HIDE DEF x, y, v
  <2> QED
    BY <1>1, <2>1
<1>4. LeadAt(j, f, p, q) = q * (Sum(v, x) - Sum(v, y)) + p * (x[f] - y[f])
  BY DEF LeadAt, Under
<1>5. Gap(ranked, j, f) = x[f] - y[f]
  BY DEF Gap
<1>6. /\ Sum(weights, x) \in Int /\ Sum(weights, y) \in Int /\ weights[f] \in Int /\ x[f] \in Int /\ y[f] \in Int
  BY <1>1, SumIsInt
<1> HIDE DEF x, y, v
<1>7. Sum(v, x) - Sum(v, y) = Lead(ranked, j) - weights[f] * (x[f] - y[f])
  BY <1>2, <1>3, <1>6
<1> QED
  BY <1>4, <1>5, <1>7

(* A dominant rank 1 stays first whatever the weights: the sums only grow. *)
LEMMA DominantIsFirst ==
  ASSUME Loaded, Sound(ranked), Dominant(ranked), NEW w \in [Features -> Nat], NEW j \in 2..Len(ranked)
  PROVE  Under(w, 1) >= Under(w, j)
<1> DEFINE x == FeaturesOf(events[ranked[1]])
           y == FeaturesOf(events[ranked[j]])
<1>1. j \in 1..Len(ranked)
  BY DEF Sound
<1>2. x \in [Features -> Int] /\ y \in [Features -> Int]
  BY <1>1, Gaps
<1>3. \A f \in Features : x[f] - y[f] >= 0
  BY DEF Dominant, Challengers, Gap
<1>4. \A f \in Features : x[f] >= y[f]
  BY <1>2, <1>3
<1> QED
  BY <1>2, <1>4, SumGrows DEF Under

(* The weight named brings the challenger named exactly level. *)
LEMMA DrawIsLevel ==
  ASSUME Loaded, Sound(ranked), NEW j \in 1..Len(ranked), NEW i \in 1..Len(Names)
  PROVE  LeadAt(j, Names[i], Draw(ranked, j, i).num, Draw(ranked, j, i).den) = 0
<1> DEFINE f == Names[i]
           L == Lead(ranked, j)
           d == Gap(ranked, j, f)
           num == Draw(ranked, j, i).num
           den == Draw(ranked, j, i).den
<1>1. f \in Features /\ L \in Int /\ d \in Int /\ weights[f] \in Int
  BY NamesAreAll, Gaps DEF Weighted
<1>2. /\ num \in Int /\ den \in Int
      /\ d > 0 => den = d /\ num = weights[f] * d - L
      /\ ~(d > 0) => den = -d /\ num = L - weights[f] * d
  BY DrawIs
<1>3. LeadAt(j, f, num, den) = den * (L - weights[f] * d) + num * d
  BY <1>1, <1>2, LeadIs
<1> HIDE DEF f, L, d, num, den
<1>4. den * (L - weights[f] * d) + num * d = 0
  <2>1. PICK u \in Int : u = L - weights[f] * d
    BY <1>1
  <2>2. CASE d > 0
    <3>1. den = d /\ num = -u
      BY <1>1, <1>2, <2>1, <2>2
    <3>2. d * u + (-u) * d = 0
      BY <1>1
    <3> QED
      BY <2>1, <3>1, <3>2
  <2>3. CASE ~(d > 0)
    <3>1. den = -d /\ num = u
      BY <1>2, <2>1, <2>3
    <3>2. (-d) * u + u * d = 0
      BY <1>1
    <3> QED
      BY <2>1, <3>1, <3>2
  <2> QED
    BY <2>2, <2>3
<1> QED
  BY <1>3, <1>4 DEF f, num, den

(* No smaller move of any one weight brings anybody level, to whatever fraction. *)
LEMMA NoSmallerMove ==
  ASSUME Loaded, Sound(ranked), NEW draw \in Draws(ranked), \A other \in Draws(ranked) : Nearer(draw, other),
         NEW f \in Features, NEW q \in Nat, NEW p \in Nat, NEW j \in 2..Len(ranked),
         Differ(j, f), Abs(weights[f] * q - p) * draw.den < draw.lead * q
  PROVE  LeadAt(j, f, p, q) > 0
<1> DEFINE L == Lead(ranked, j)
           g == Gap(ranked, j, f)
           w == weights[f]
<1>1. j \in 1..Len(ranked)
  BY DEF Sound
<1>2. L \in Int /\ L >= 0 /\ g \in Int /\ g # 0 /\ w \in Int /\ w >= 0
  BY <1>1, Gaps DEF Weighted, Differ
<1>3. draw \in Fractions /\ draw.lead \in Int /\ draw.den \in Int /\ draw.den > 0
  BY DrawsAre DEF Fractions
<1>4. draw.lead >= 0
  <2>1. PICK k \in 2..Len(ranked), n \in 1..Len(Names) : draw = Draw(ranked, k, n)
    BY DEF Draws, Challengers
  <2>2. k \in 1..Len(ranked)
    BY DEF Sound
  <2>3. draw.lead = Lead(ranked, k)
    BY <2>1, <2>2, DrawIs
  <2> QED
    BY <2>2, <2>3, Gaps
<1>5. ASSUME g < 0 \/ w * g >= L PROVE draw.lead * Abs(g) <= L * draw.den
  <2>1. PICK i \in 1..Len(Names) : Names[i] = f
    BY NamesAreAll
  <2> DEFINE other == Draw(ranked, j, i)
  <2>2. /\ other.lead = L /\ other.den \in Int /\ other.num \in Int
        /\ Gap(ranked, j, Names[i]) = g /\ weights[Names[i]] = w
        /\ Gap(ranked, j, Names[i]) > 0 => other.den = g /\ other.num = w * g - L
        /\ ~(Gap(ranked, j, Names[i]) > 0) => other.den = -g /\ other.num = L - w * g
    BY <1>1, <2>1, DrawIs
  <2>3. /\ g > 0 => other.den = g /\ other.num = w * g - L
        /\ ~(g > 0) => other.den = -g /\ other.num = L - w * g
    BY <2>2
  <2> HIDE DEF other, g, w, L
  <2>4. other.den = Abs(g) /\ other.den > 0
    BY <1>2, <2>3 DEF Abs
  <2>5. other.num >= 0
    <3>1. w * g \in Int
      BY <1>2
    <3>2. CASE g > 0
      BY <1>2, <1>5, <2>3, <3>1, <3>2
    <3>3. CASE g < 0
      <4>1. w * g <= 0
        BY <1>2, <3>3
      <4> QED
        BY <1>2, <2>3, <3>1, <3>3, <4>1
    <3> QED
      BY <1>2, <3>2, <3>3
  <2>6. other \in Draws(ranked)
    BY <2>4, <2>5 DEF Draws, Challengers, other
  <2>7. other \in Fractions
    BY <2>6, DrawsAre
  <2>8. draw.lead * other.den <= other.lead * draw.den
    BY <1>3, <2>4, <2>6, <2>7, NearerOrders
  <2> QED
    BY <2>2, <2>4, <2>8
<1>6. p \in Int /\ p >= 0 /\ q \in Int /\ q >= 0
  OBVIOUS
<1>7. LeadAt(j, f, p, q) = q * (L - w * g) + p * g
  BY <1>1, <1>6, LeadIs
<1>8. Abs(w * q - p) * draw.den < draw.lead * q
  OBVIOUS
<1> HIDE DEF L, g, w
<1>9. q * (L - w * g) + p * g > 0
  BY <1>2, <1>3, <1>4, <1>5, <1>6, <1>8, StaysAhead
<1> QED
  BY <1>7, <1>9

-----------------------------------------------------------------------------
(* What rank_stability says of a sorted order is exact. *)
LEMMA StatementIsExact ==
  ASSUME Loaded, Sound(ranked), stability = Stability(ranked)
  PROVE  StabilityIsExact
<1>1. Len(ranked) \in Nat
  BY DEF Sound
<1>2. CASE Len(ranked) < 2
  <2>1. stability = NoRanking
    BY <1>1, <1>2 DEF Stability
  <2> QED
    BY <2>1 DEF NoRanking, StabilityIsExact
<1>3. CASE Len(ranked) >= 2 /\ Dominant(ranked)
  <2>1. stability = [dominant |-> TRUE, decided |-> TRUE]
    BY <1>1, <1>3 DEF Stability
  <2>2. \A w \in [Features -> 0..2] : w \in [Features -> Nat]
    OBVIOUS
  <2>3. \A w \in [Features -> 0..2], j \in 2..Len(ranked) : Under(w, 1) >= Under(w, j)
    BY <1>3, <2>2, DominantIsFirst
  <2> QED
    BY <2>1, <2>3 DEF StabilityIsExact
<1>4. CASE Len(ranked) >= 2 /\ ~Dominant(ranked)
  <2> DEFINE draw == Nearest(ranked)
  <2>1. stability = [dominant |-> FALSE, decided |-> TRUE, rank |-> draw.rank,
                     feature |-> Names[draw.name], num |-> draw.num, den |-> draw.den]
    BY <1>1, <1>4 DEF Stability
  <2>2. draw \in Draws(ranked) /\ \A other \in Draws(ranked) : Nearer(draw, other)
    BY <1>4, NearestIsADraw
  <2>3. PICK j \in 2..Len(ranked), i \in 1..Len(Names) : draw = Draw(ranked, j, i)
    BY <2>2 DEF Draws, Challengers
  <2>4. j \in 1..Len(ranked)
    BY <1>1
  <2>5. /\ draw.rank = j /\ draw.name = i /\ draw.lead = Lead(ranked, j)
        /\ Gap(ranked, j, Names[i]) > 0 => draw.den = Gap(ranked, j, Names[i]) /\ draw.num = weights[Names[i]] * Gap(ranked, j, Names[i]) - draw.lead
        /\ ~(Gap(ranked, j, Names[i]) > 0) => draw.den = -Gap(ranked, j, Names[i]) /\ draw.num = draw.lead - weights[Names[i]] * Gap(ranked, j, Names[i])
    BY <2>3, <2>4, DrawIs
  <2>6. LeadAt(stability.rank, stability.feature, stability.num, stability.den) = 0
    BY <2>1, <2>3, <2>4, <2>5, DrawIsLevel
  <2> DEFINE said == weights[Names[i]] * draw.den - draw.num
  <2>7. Abs(said) = draw.lead
    <3>1. Gap(ranked, j, Names[i]) \in Int /\ weights[Names[i]] \in Int /\ draw.lead \in Int /\ draw.lead >= 0
      <4>1. Names[i] \in Features /\ draw.lead = Lead(ranked, j)
        BY <2>5, NamesAreAll
      <4> QED
        BY <2>4, <4>1, Gaps DEF Weighted
    <3>2. weights[Names[i]] * Gap(ranked, j, Names[i]) \in Int
          /\ weights[Names[i]] * (-Gap(ranked, j, Names[i])) = -(weights[Names[i]] * Gap(ranked, j, Names[i]))
      BY <3>1
    <3>3. said = draw.lead \/ said = -draw.lead
      BY <2>5, <3>1, <3>2
    <3> QED
      BY <3>1, <3>3 DEF Abs
  <2>8. Scale - 1 \in Nat /\ Scale \in Nat /\ 0..(12 * Scale) \subseteq Nat
    BY RankingAssumption
  <2>9. ASSUME NEW f \in Features, NEW q \in {Scale - 1, Scale}, NEW p \in 0..(12 * Scale), NEW k \in 2..Len(ranked),
               Differ(k, f), Abs(weights[f] * q - p) * draw.den < Abs(said) * q
        PROVE  LeadAt(k, f, p, q) > 0
    <3>1. q \in Nat /\ p \in Nat
      BY <2>8
    <3>2. Abs(weights[f] * q - p) * draw.den < draw.lead * q
      BY <2>7, <2>9
    <3> HIDE DEF draw, said
    <3> QED
      BY <2>2, <2>9, <3>1, <3>2, NoSmallerMove
  <2>10. /\ stability.decided /\ ~stability.dominant
         /\ stability.den = draw.den /\ weights[stability.feature] * stability.den - stability.num = said
    BY <2>1, <2>5
  <2> HIDE DEF draw, said
  <2> QED
    BY <2>6, <2>9, <2>10 DEF StabilityIsExact, Abs
<1> QED
  BY <1>1, <1>2, <1>3, <1>4

-----------------------------------------------------------------------------
RankingInv == Loaded /\ (stability # NotRanked => ranked = Scored /\ stability = Stability(Scored))

(* Neither the order nor the statement about it depends on what was ranked before. *)
LEMMA SameOrder ==
  ASSUME UNCHANGED <<events, history, weights>>
  PROVE  Scored' = Scored /\ \A order : Stability(order)' = Stability(order)
<1>1. \A e : FeaturesOf(e)' = FeaturesOf(e)
  <2>1. \A e : RadiusOverlap(e)' = RadiusOverlap(e)
    BY DEF RadiusOverlap
  <2>2. \A e : TemporalProximity(e)' = TemporalProximity(e)
    BY DEF TemporalProximity
  <2>3. \A e : TypePrior(e)' = TypePrior(e)
    BY DEF TypePrior
  <2>4. \A e : Recurrence(e)' = Recurrence(e)
    BY DEF Recurrence
  <2> QED
    BY <2>1, <2>2, <2>3, <2>4 DEF FeaturesOf
<1>2. Query' = Query
  BY DEF Query
<1>3. \A i : FeaturesOf(events[i])' = FeaturesOf(events[i])
  BY <1>1
<1>4. \A a, b : Before(a, b)' = Before(a, b)
  BY <1>3 DEF Before
<1>5. Scored' = Scored
  BY <1>2, <1>4 DEF Scored
<1>6. \A order, j, f : Gap(order, j, f)' = Gap(order, j, f)
  BY <1>3 DEF Gap
<1>7. \A order, j : Lead(order, j)' = Lead(order, j)
  BY <1>6 DEF Lead
<1>8. \A order : Dominant(order)' = Dominant(order)
  BY <1>6 DEF Dominant
<1>9. \A order, j, i : Draw(order, j, i)' = Draw(order, j, i)
  BY <1>6, <1>7 DEF Draw
<1>10. \A order : Draws(order)' = Draws(order)
  BY <1>9 DEF Draws
<1>11. \A order : Nearest(order)' = Nearest(order)
  BY <1>10 DEF Nearest
<1>12. \A order : Stability(order)' = Stability(order)
  BY <1>8, <1>11 DEF Stability
<1> QED
  BY <1>5, <1>12

LEMMA RankingStart == RankingInit => RankingInv
<1> SUFFICES ASSUME RankingInit PROVE RankingInv
  OBVIOUS
<1>1. PICK n \in 0..Count : events \in [1..n -> Attributes]
  BY DEF RankingInit
<1>2. events \in Seq(Attributes)
  BY <1>1, RankingAssumption
<1> QED
  BY <1>2 DEF RankingInit, RankingInv, Loaded

LEMMA RankingStep == RankingInv /\ [RankingNext]_rankingVars => RankingInv'
<1> SUFFICES ASSUME RankingInv, [RankingNext]_rankingVars PROVE RankingInv'
  OBVIOUS
<1>1. CASE Rank
  <2>1. UNCHANGED <<events, history, weights>> /\ ranked' = Scored /\ stability' = Stability(Scored)
    BY <1>1 DEF Rank
  <2>2. Scored' = Scored /\ Stability(Scored)' = Stability(Scored)
    BY <2>1, SameOrder
  <2> QED
    BY <2>1, <2>2 DEF RankingInv, Loaded
<1>2. ASSUME NEW e \in Attributes, FoldIn(e) PROVE RankingInv'
  <2>1. Append(events, e) \in Seq(Attributes)
    BY DEF RankingInv, Loaded
  <2> QED
    BY <1>2, <2>1 DEF FoldIn, RankingInv, Loaded
<1>3. CASE UNCHANGED rankingVars
  <2>1. UNCHANGED <<events, history, weights, ranked, stability>>
    BY <1>3 DEF rankingVars
  <2>2. Scored' = Scored /\ Stability(Scored)' = Stability(Scored)
    BY <2>1, SameOrder
  <2> QED
    BY <2>1, <2>2 DEF RankingInv, Loaded, NotRanked
<1> QED
  BY <1>1, <1>2, <1>3 DEF RankingNext

LEMMA ScoredIsSound == ASSUME Loaded PROVE Sound(Scored)
<1>1. /\ Query \subseteq DOMAIN events /\ Scored \in Seq(Query) /\ Cardinality(Query) \in Nat
      /\ Len(Scored) = Cardinality(Query)
      /\ Len(Scored) >= 1 => \A k \in Query : ScoreOf(Scored[1]) >= ScoreOf(k)
  BY Candidates, Sorted
<1> HIDE DEF Scored
<1>2. Scored \in Seq(DOMAIN events) /\ \A j \in 1..Len(Scored) : Scored[j] \in Query
  BY <1>1
<1> QED
  BY <1>1, <1>2 DEF Sound

(* The brief's answer to "does rank 1 depend on the weights?" is exact, for every manifest,   *)
(* ledger and weight vector: the loop of rank_stability always finds a draw, the weight it    *)
(* names brings that challenger level, and no smaller move of any weight brings anybody.      *)
THEOREM StabilityIsTrue == RankingSpec => []StabilityIsExact
<1>1. RankingInv => StabilityIsExact
  <2> SUFFICES ASSUME RankingInv PROVE StabilityIsExact
    OBVIOUS
  <2>1. CASE stability = NotRanked
    BY <2>1 DEF NotRanked, StabilityIsExact
  <2>2. CASE stability # NotRanked
    <3>1. Loaded /\ Sound(ranked) /\ stability = Stability(ranked)
      BY <2>2, ScoredIsSound DEF RankingInv
    <3> QED
      BY <3>1, StatementIsExact
  <2> QED
    BY <2>1, <2>2
<1> QED
  BY <1>1, RankingStart, RankingStep, PTL DEF RankingSpec
=============================================================================
