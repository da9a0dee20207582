------------------------------- MODULE GrowthProofs -------------------------------
(***************************************************************************)
(* What catalog growth may trust and what it does: the verdicts of the     *)
(* containment check (Containment), for every corpus, map and patch, any   *)
(* number of requests and rotations, and then what the job pushes with     *)
(* them (GrowthCycle).                                                     *)
(*                                                                         *)
(* The argument about a verdict follows the places of the audit log, line  *)
(* j of file i.  The requests stand in the log in their order, so the last *)
(* change to the declared resource shows what it holds and nothing follows *)
(* the barrier; and what was observed is what the places seen so far say,  *)
(* unless lines were lost between two files.  So once the barrier is seen, *)
(* everything the run did was.                                             *)
(***************************************************************************)
EXTENDS Containment, GrowthCycle, WellFoundedInduction, TLAPS

-----------------------------------------------------------------------------
Entry == Mutations \cup {Barrier}

(* There is an anchor to judge until the check has ended. *)
Anchored == pc \notin {"over", "raised"} => todo # <<>>

(* A sandbox that made its namespace knows it, except where the answer was lost. *)
Gone ==
  /\ pc \in {"next", "over", "raised", "creating", "judging"} /\ ~stuck => ~namespace
  /\ pc \in {"seeding", "running", "barrier", "reading", "rotated", "teardown"} => created
  /\ pc = "raising" /\ ~stuck /\ namespace => created

(* What is seeded and what a patch leaves are maps. *)
LEMMA MapTypes ==
  /\ Seeded \in Maps
  /\ \A map \in Maps, body \in Bodies : Patched(map, body) \in Maps
  /\ Corpora \subseteq Seq(Shapes) /\ <<>> \notin Corpora
<1>1. Seeded \in Maps
  BY ConstantsAssumption DEF Seeded, Maps, Fields
<1>2. ASSUME NEW map \in Maps, NEW body \in Bodies PROVE Patched(map, body) \in Maps
  <2>1. PICK K \in SUBSET Fields : body \in [K -> Values \cup {Absent}]
    BY ConstantsAssumption
  <2>2. \A k \in Fields : map[k] \in Values \cup {Absent}
    BY DEF Maps
  <2>3. \A k \in Fields : (IF k \in DOMAIN body THEN body[k] ELSE map[k]) \in Values \cup {Absent}
    BY <2>1, <2>2
  <2> QED
    BY <2>3 DEF Patched, Maps
<1> QED
  BY <1>1, <1>2, ConstantsAssumption

(* The barrier is told from a mutation by its object. *)
LEMMA EntryType ==
  /\ \A e \in Entry : e.object \in Objects \cup {"barrier"} /\ e.after \in Maps \cup {OtherMap}
  /\ \A e \in Entry : e.object = "barrier" <=> e = Barrier
  /\ Barrier \in Entry /\ Mutations \subseteq Entry
BY DEF Entry, Mutations, Barrier, Objects

(* The largest of some positions. *)
LEMMA Smallest ==
  ASSUME NEW T, T \subseteq Nat, T # {}
  PROVE  \E m \in T : \A n \in T : m <= n
<1>1. PICK m \in T : \A n \in T : ~(<<n, m>> \in OpToRel(<, Nat))
  BY NatLessThanWellFounded, WFMin
<1>2. m \in Nat /\ \A n \in T : n \in Nat /\ ~(n < m)
  BY <1>1 DEF OpToRel
<1>3. \A n \in T : m <= n
  BY <1>2
<1> QED
  BY <1>3

LEMMA Largest ==
  ASSUME NEW N \in Nat, NEW S, S \subseteq 0..N, S # {}
  PROVE  Max(S) \in S /\ \A x \in S : x <= Max(S)
<1>1. PICK T : T = {N - x : x \in S}
  OBVIOUS
<1>2. \A x \in S : x \in 0..N /\ N - x \in Nat
  OBVIOUS
<1>3. T \subseteq Nat /\ T # {}
  BY <1>1, <1>2
<1>4. PICK m \in T : \A n \in T : m <= n
  BY <1>3, Smallest
<1>5. PICK s \in S : m = N - s
  BY <1>1, <1>4
<1>6. \A x \in S : s >= x
  BY <1>1, <1>2, <1>4, <1>5
<1> QED
  BY <1>5, <1>6 DEF Max

(* What a read took in: the last of its changes to the declared resource. *)
LEMMA Landing ==
  ASSUME NEW lines \in Seq(Entry), Observe(lines)
  PROVE  LET changes == {i \in DOMAIN lines : lines[i].object = "declared"}
         IN \/ changes = {} /\ landed' = landed
            \/ \E m \in changes : /\ landed' = lines[m].after
                                  /\ \A i \in changes : i <= m
<1> DEFINE changes == {i \in DOMAIN lines : lines[i].object = "declared"}
<1>1. DOMAIN lines = 1..Len(lines) /\ Len(lines) \in Nat
  OBVIOUS
<1>2. CASE changes = {}
  BY <1>2 DEF Observe
<1>3. CASE changes # {}
  <2>1. changes \subseteq 0..Len(lines)
    BY <1>1
  <2>2. Max(changes) \in changes /\ \A x \in changes : x <= Max(changes)
    BY <1>1, <1>3, <2>1, Largest
  <2>3. landed' = lines[Max(changes)].after
    BY <1>3 DEF Observe
  <2> HIDE DEF changes
  <2>4. \E m \in changes : landed' = lines[m].after /\ \A i \in changes : i <= m
    BY <2>2, <2>3
  <2> QED
    BY <2>4 DEF changes
<1> QED
  BY <1>2, <1>3

LEMMA ObservedType ==
  ASSUME TypeOK, NEW lines \in Seq(Entry), Observe(lines)
  PROVE  /\ outside' \in BOOLEAN /\ landed' \in Maps \cup {OtherMap, Unseen} /\ complete' \in BOOLEAN
         /\ pc' \in {"teardown", "reading"}
<1> DEFINE changes == {i \in DOMAIN lines : lines[i].object = "declared"}
<1>1. /\ outside' = (outside \/ \E m \in MutationsIn(lines) : m.object # "declared")
      /\ complete' = (complete \/ BarrierSeen(lines))
      /\ pc' = IF complete' THEN "teardown" ELSE "reading"
  BY DEF Observe
<1>2. landed' \in Maps \cup {OtherMap, Unseen}
  <2>1. CASE landed' = landed
    BY <2>1 DEF TypeOK
  <2>2. ASSUME NEW n \in DOMAIN lines, landed' = lines[n].after PROVE landed' \in Maps \cup {OtherMap, Unseen}
    <3>1. lines[n] \in Entry
      OBVIOUS
    <3> QED
      BY <2>2, <3>1, EntryType
  <2> QED
    BY <2>1, <2>2, Landing
<1>3. complete' \in BOOLEAN /\ outside' \in BOOLEAN
  BY <1>1 DEF TypeOK, BarrierSeen
<1> QED
  BY <1>1, <1>2, <1>3

LEMMA LogTypes ==
  ASSUME TypeOK
  PROVE  /\ logs \in Seq(Seq(Entry)) /\ unlogged \in Seq(Entry)
         /\ Len(logs) \in Nat \ {0} /\ DOMAIN logs = 1..Len(logs)
         /\ handle.file \in 1..Len(logs) /\ handle.lines \in Nat
         /\ handle = [file |-> handle.file, lines |-> handle.lines, torn |-> handle.torn]
         /\ handle.torn \in BOOLEAN
         /\ \A i \in DOMAIN logs :
              logs[i] \in Seq(Entry) /\ Len(logs[i]) \in Nat /\ DOMAIN logs[i] = 1..Len(logs[i])
<1>1. logs \in Seq(Seq(Entry)) /\ logs # <<>> /\ unlogged \in Seq(Entry)
  BY DEF TypeOK, Entry
<1>2. Len(logs) \in Nat \ {0} /\ DOMAIN logs = 1..Len(logs) /\ \A i \in DOMAIN logs : logs[i] \in Seq(Entry)
  BY <1>1
<1>3. handle \in [file : DOMAIN logs, lines : Nat, torn : BOOLEAN]
  BY DEF TypeOK
<1>4. \A s \in Seq(Entry) : Len(s) \in Nat /\ DOMAIN s = 1..Len(s)
  OBVIOUS
<1> QED
  BY <1>1, <1>2, <1>3, <1>4

-----------------------------------------------------------------------------
LEMMA TypeInit == Init => TypeOK /\ Anchored /\ Gone
<1> SUFFICES ASSUME Init PROVE TypeOK /\ Anchored /\ Gone
  OBVIOUS
<1>1. todo \in Seq(Shapes) /\ todo # <<>>
  BY MapTypes DEF Init
<1>2. << <<>> >> \in Seq(Seq(Mutations \cup {Barrier})) /\ << <<>> >> # <<>>
      /\ DOMAIN << <<>> >> = {1} /\ <<>> \in Seq(Mutations \cup {Barrier})
  OBVIOUS
<1>3. logs = << <<>> >> /\ unlogged = <<>> /\ handle = [file |-> 1, lines |-> 0, torn |-> FALSE]
      /\ target = Seeded /\ calls = 0 /\ report = NoReport /\ pc = "next" /\ landed = Unseen
      /\ namespace = FALSE /\ created = FALSE /\ failure = FALSE /\ half = FALSE /\ outside = FALSE
      /\ complete = FALSE /\ escaped = FALSE /\ lost = FALSE /\ stuck = FALSE
  BY DEF Init, NothingObserved
<1>4. 0 \in 0..MaxCalls
  BY ConstantsAssumption
<1>5. handle \in [file : DOMAIN logs, lines : Nat, torn : BOOLEAN]
  BY <1>2, <1>3
<1>6. TypeOK
  BY <1>1, <1>2, <1>3, <1>4, <1>5, MapTypes DEF TypeOK
<1> QED
  BY <1>1, <1>3, <1>6 DEF Anchored, Gone

LEMMA TodoStep ==
  ASSUME TypeOK, Anchored, pc \notin {"over", "raised"}, NEW verdict \in Verdicts, Judged(verdict)
  PROVE  /\ todo' \in Seq(Shapes) /\ report' \in Verdicts /\ pc' \in {"over", "next"} /\ Anchored'
<1>1. todo \in Seq(Shapes) /\ todo # <<>>
  BY DEF TypeOK, Anchored
<1>2. Tail(todo) \in Seq(Shapes)
  BY <1>1
<1> QED
  BY <1>2 DEF Judged, Anchored

LEMMA VerdictType == Verdict \in Verdicts
BY DEF Verdict, Verdicts

(* A run judged or refused, an error, a new sandbox, its namespace and what fills it. *)
LEMMA TypeFlow ==
  ASSUME TypeOK, Anchored,
         NoHint \/ Refuse \/ Open \/ CannotOpen \/ CreateNamespace \/ Seed \/ WriterEnds \/ AskBarrier
         \/ TimeIsUp \/ Teardown \/ Judge
  PROVE  TypeOK' /\ Anchored'
<1>1. CASE NoHint \/ CannotOpen
  <2>1. pc' = "raised" /\ UNCHANGED <<check, box, calls, failure, cluster, observed, escaped, lost, stuck>>
    BY <1>1 DEF NoHint, CannotOpen
  <2> QED
    BY <2>1 DEF TypeOK, Anchored, check, box, cluster, observed
<1>2. CASE Refuse
  <2>1. PICK verdict \in Verdicts : Judged(verdict)
    BY <1>2 DEF Refuse, Verdicts
  <2>2. todo' \in Seq(Shapes) /\ report' \in Verdicts /\ pc' \in {"over", "next"} /\ Anchored'
    BY <1>2, <2>1, TodoStep DEF Refuse
  <2>3. UNCHANGED <<box, calls, failure, cluster, observed, escaped, lost, stuck>>
    BY <1>2 DEF Refuse
  <2> QED
    BY <2>2, <2>3 DEF TypeOK, box, cluster, observed
<1>3. CASE Open
  <2>1. << <<>> >> \in Seq(Seq(Mutations \cup {Barrier})) /\ << <<>> >> # <<>>
        /\ DOMAIN << <<>> >> = {1} /\ <<>> \in Seq(Mutations \cup {Barrier})
    OBVIOUS
  <2>2. 0 \in 0..MaxCalls
    BY ConstantsAssumption
  <2>3. logs' = << <<>> >> /\ handle' = [file |-> 1, lines |-> 0, torn |-> FALSE] /\ unlogged' = <<>>
    BY <1>3 DEF Open, NothingObserved
  <2>4. handle' \in [file : DOMAIN logs', lines : Nat, torn : BOOLEAN]
    BY <2>1, <2>3
  <2>5. /\ todo' = todo /\ report' = report /\ pc' = "creating" /\ pc = "next" /\ namespace' = namespace
        /\ created' = FALSE /\ target' = Seeded /\ calls' = 0 /\ failure' = FALSE /\ half' = FALSE
        /\ outside' = FALSE /\ landed' = Unseen /\ complete' = FALSE /\ escaped' = FALSE /\ lost' = FALSE
        /\ stuck' = stuck
    BY <1>3 DEF Open, check
  <2>6. TypeOK'
    BY <2>1, <2>2, <2>3, <2>4, <2>5, MapTypes DEF TypeOK
  <2> QED
    BY <2>5, <2>6 DEF Anchored
<1>4. CASE CreateNamespace
  <2>1. /\ pc = "creating" /\ pc' \in {"seeding", "raising"}
        /\ UNCHANGED <<check, target, calls, failure, cluster, observed, escaped, lost>>
    BY <1>4 DEF CreateNamespace
  <2>2. namespace' \in BOOLEAN /\ created' \in BOOLEAN /\ stuck' \in BOOLEAN
    BY <1>4 DEF CreateNamespace, TypeOK
  <2> QED
    BY <2>1, <2>2 DEF TypeOK, Anchored, check, cluster, observed
<1>5. CASE Seed
  BY <1>5 DEF Seed, AfterFailedSeed, TypeOK, Anchored, check, box, cluster, observed
<1>6. CASE WriterEnds
  BY <1>6 DEF WriterEnds, TypeOK, Anchored, check, box, cluster, observed
<1>7. CASE AskBarrier
  <2>1. Append(unlogged, Barrier) \in Seq(Mutations \cup {Barrier})
    BY DEF TypeOK
  <2>2. unlogged' \in Seq(Mutations \cup {Barrier})
    BY <1>7, <2>1 DEF AskBarrier, TypeOK
  <2>3. /\ pc = "barrier" /\ pc' = "reading"
        /\ UNCHANGED <<check, box, calls, failure, logs, half, observed, escaped, lost, stuck>>
    BY <1>7 DEF AskBarrier
  <2> QED
    BY <2>2, <2>3 DEF TypeOK, Anchored, check, box, observed
<1>8. CASE TimeIsUp
  BY <1>8 DEF TimeIsUp, TypeOK, Anchored, check, box, cluster, observed
<1>9. CASE Teardown
  <2>1. /\ pc' \in {"judging", "raised"} /\ pc \notin {"over", "raised"}
        /\ UNCHANGED <<check, created, target, calls, failure, cluster, observed, escaped, lost>>
    BY <1>9 DEF Teardown
  <2>2. namespace' \in BOOLEAN /\ stuck' \in BOOLEAN
    BY <1>9 DEF Teardown, TypeOK
  <2> QED
    BY <2>1, <2>2 DEF TypeOK, Anchored, check, cluster, observed
<1>10. CASE Judge
  <2>1. todo' \in Seq(Shapes) /\ report' \in Verdicts /\ pc' \in {"over", "next"} /\ Anchored'
    BY <1>10, TodoStep, VerdictType DEF Judge
  <2> QED
    BY <1>10, <2>1 DEF Judge, TypeOK, box, cluster, observed
<1> QED
  BY <1>1, <1>2, <1>3, <1>4, <1>5, <1>6, <1>7, <1>8, <1>9, <1>10

Requested == (\E body \in Bodies : Patch(body)) \/ (\E object \in {"declared", "neighbour"} : PatchOther(object)) \/ Denied

(* The writer's request, whichever it is. *)
LEMMA Requesting ==
  ASSUME TypeOK, Requested
  PROVE  \E e \in Mutations :
           /\ pc = "running" /\ pc' \in {"running", "barrier"} /\ calls' \in 0..MaxCalls /\ failure' \in BOOLEAN
           /\ unlogged' = Append(unlogged, e) /\ escaped' = (escaped \/ e.object # "declared")
           /\ target' \in Maps /\ e.after \in {target', OtherMap}
           /\ e.object # "declared" => target' = target
           /\ UNCHANGED <<check, namespace, created, logs, half, observed, lost, stuck>>
<1>1. ASSUME NEW object \in Objects, NEW after \in Maps \cup {OtherMap}, Request(object, after)
      PROVE  \E e \in Mutations :
               /\ e.object = object /\ e.after = after
               /\ unlogged' = Append(unlogged, e)
  <2> DEFINE e == [object |-> object, allowed |-> object # "elsewhere", after |-> after]
  <2>1. e \in Mutations
    BY DEF Mutations
  <2>2. unlogged' = Append(unlogged, e)
    BY <1>1 DEF Request
  <2> QED
    BY <2>1, <2>2
<1>2. ASSUME NEW object, NEW after, Request(object, after)
      PROVE  /\ pc = "running" /\ calls' \in 0..MaxCalls /\ escaped' = (escaped \/ object # "declared")
             /\ UNCHANGED <<check, namespace, created, logs, half, observed, lost, stuck>>
  BY <1>2, ConstantsAssumption DEF Request, TypeOK
<1>3. target \in Maps /\ failure \in BOOLEAN
  BY DEF TypeOK
<1>4. CASE \E body \in Bodies : Patch(body)
  <2>1. PICK body \in Bodies : Patch(body)
    BY <1>4
  <2>2. Patched(target, body) \in Maps
    BY <1>3, MapTypes
  <2>3. Request("declared", Patched(target, body)) /\ target' = Patched(target, body) /\ pc' = pc /\ failure' = failure
    BY <2>1 DEF Patch
  <2>4. PICK e \in Mutations : e.object = "declared" /\ e.after = target' /\ unlogged' = Append(unlogged, e)
    BY <1>1, <2>2, <2>3 DEF Objects
  <2> QED
    BY <1>2, <1>3, <2>2, <2>3, <2>4
<1>5. CASE \E object \in {"declared", "neighbour"} : PatchOther(object)
  <2>1. PICK object \in {"declared", "neighbour"} : PatchOther(object)
    BY <1>5
  <2>3. Request(object, OtherMap) /\ target' = target /\ pc' = pc /\ failure' = failure
    BY <2>1 DEF PatchOther
  <2>4. PICK e \in Mutations : e.object = object /\ e.after = OtherMap /\ unlogged' = Append(unlogged, e)
    BY <1>1, <2>3 DEF Objects
  <2> QED
    BY <1>2, <1>3, <2>3, <2>4
<1>6. CASE Denied
  <2>3. Request("elsewhere", OtherMap) /\ target' = target /\ pc' = "barrier" /\ failure' = TRUE
    BY <1>6 DEF Denied
  <2>4. PICK e \in Mutations : e.object = "elsewhere" /\ e.after = OtherMap /\ unlogged' = Append(unlogged, e)
    BY <1>1, <2>3 DEF Objects
  <2> QED
    BY <1>2, <1>3, <2>3, <2>4
<1> QED
  BY <1>4, <1>5, <1>6 DEF Requested

LEMMA TypeRequest ==
  ASSUME TypeOK, Anchored, Requested
  PROVE  TypeOK' /\ Anchored'
<1>1. PICK e \in Mutations :
           /\ pc = "running" /\ pc' \in {"running", "barrier"} /\ calls' \in 0..MaxCalls /\ failure' \in BOOLEAN
           /\ unlogged' = Append(unlogged, e) /\ escaped' = (escaped \/ e.object # "declared")
           /\ target' \in Maps
           /\ UNCHANGED <<check, namespace, created, logs, half, observed, lost, stuck>>
  BY Requesting
<1>2. Append(unlogged, e) \in Seq(Mutations \cup {Barrier})
  BY DEF TypeOK
<1> QED
  BY <1>1, <1>2 DEF TypeOK, Anchored, check, observed

(* The log: a whole line, another file, and what the check reads of it. *)
LEMMA Writing ==
  ASSUME TypeOK, WriteLine
  PROVE  LET L == Len(logs)
             K == Len(logs[L])
         IN /\ logs' \in Seq(Seq(Entry)) /\ Len(logs') = L /\ unlogged' \in Seq(Entry)
            /\ unlogged # <<>> /\ Len(unlogged) \in Nat \ {0} /\ Len(unlogged') = Len(unlogged) - 1
            /\ \A n \in 1..Len(unlogged) - 1 : unlogged'[n] = unlogged[n + 1]
            /\ \A i \in DOMAIN logs : i # L => logs'[i] = logs[i]
            /\ Len(logs'[L]) = K + 1 /\ logs'[L][K + 1] = unlogged[1]
            /\ \A j \in 1..K : logs'[L][j] = logs[L][j]
            /\ UNCHANGED <<check, pc, box, calls, failure, observed, escaped, lost, stuck>> /\ half' = FALSE
<1> DEFINE L == Len(logs)
           K == Len(logs[L])
<1>1. /\ logs \in Seq(Seq(Entry)) /\ L \in DOMAIN logs /\ logs[L] \in Seq(Entry) /\ unlogged \in Seq(Entry)
      /\ L \in Nat /\ K \in Nat
  BY LogTypes
<1>2. /\ unlogged # <<>> /\ logs' = [logs EXCEPT ![L] = Append(logs[L], Head(unlogged))]
      /\ unlogged' = Tail(unlogged) /\ half' = FALSE
      /\ UNCHANGED <<check, pc, box, calls, failure, observed, escaped, lost, stuck>>
  BY DEF WriteLine
<1>3. Head(unlogged) = unlogged[1] /\ unlogged[1] \in Entry /\ Len(unlogged) \in Nat \ {0}
  BY <1>1, <1>2
<1>4. /\ Tail(unlogged) \in Seq(Entry) /\ Len(Tail(unlogged)) = Len(unlogged) - 1
      /\ \A n \in 1..Len(unlogged) - 1 : Tail(unlogged)[n] = unlogged[n + 1]
  BY <1>1, <1>2
<1>5. /\ Append(logs[L], unlogged[1]) \in Seq(Entry) /\ Len(Append(logs[L], unlogged[1])) = K + 1
      /\ Append(logs[L], unlogged[1])[K + 1] = unlogged[1]
      /\ \A j \in 1..K : Append(logs[L], unlogged[1])[j] = logs[L][j]
  BY <1>1, <1>3
<1>6. /\ logs'[L] = Append(logs[L], unlogged[1]) /\ \A i \in DOMAIN logs : i # L => logs'[i] = logs[i]
      /\ logs' \in Seq(Seq(Entry)) /\ Len(logs') = L
  BY <1>1, <1>2, <1>3, <1>5
<1> QED
  BY <1>2, <1>3, <1>4, <1>5, <1>6

LEMMA Rotating ==
  ASSUME TypeOK, Rotate
  PROVE  LET L == Len(logs)
         IN /\ logs' \in Seq(Seq(Entry)) /\ Len(logs') = L + 1 /\ logs'[L + 1] = <<>>
            /\ \A i \in DOMAIN logs : logs'[i] = logs[i]
            /\ UNCHANGED <<check, pc, box, calls, failure, unlogged, half, observed, escaped, lost, stuck>>
<1>1. logs \in Seq(Seq(Entry)) /\ <<>> \in Seq(Entry)
  BY LogTypes
<1>2. /\ logs' = Append(logs, <<>>)
      /\ UNCHANGED <<check, pc, box, calls, failure, unlogged, half, observed, escaped, lost, stuck>>
  BY DEF Rotate
<1> HIDE DEF Rotate
<1>3. Append(logs, <<>>) \in Seq(Seq(Entry)) /\ Len(Append(logs, <<>>)) = Len(logs) + 1
      /\ Append(logs, <<>>)[Len(logs) + 1] = <<>> /\ \A i \in DOMAIN logs : Append(logs, <<>>)[i] = logs[i]
  BY <1>1
<1> QED
  BY <1>2, <1>3

(* What a read takes in is the part of one file g after its first a lines. *)
Part(lines, g, a) ==
  /\ g \in DOMAIN logs /\ a \in 0..Len(logs[g]) /\ lines \in Seq(Entry)
  /\ Len(lines) = Len(logs[g]) - a /\ \A n \in 1..Len(lines) : lines[n] = logs[g][a + n]

LEMMA PartOfSub ==
  ASSUME TypeOK, NEW g \in DOMAIN logs, NEW a \in 0..Len(logs[g])
  PROVE  Part(SubSeq(logs[g], a + 1, Len(logs[g])), g, a)
<1>1. logs[g] \in Seq(Entry) /\ Len(logs[g]) \in Nat
  BY LogTypes
<1> DEFINE s == logs[g]
<1>2. /\ SubSeq(s, a + 1, Len(s)) \in Seq(Entry) /\ Len(SubSeq(s, a + 1, Len(s))) = Len(s) - a
      /\ \A n \in 1..Len(s) - a : SubSeq(s, a + 1, Len(s))[n] = s[a + n]
  <2> HIDE DEF s
  <2>1. s \in Seq(Entry) /\ Len(s) \in Nat /\ a \in 0..Len(s)
    BY <1>1 DEF s
  <2>2. a + 1 \in 1..Len(s) + 1
    BY <2>1
  <2>3. \A i \in a + 1..Len(s) : s[i] \in Entry
    BY <2>1
  <2>4. SubSeq(s, a + 1, Len(s)) = [i \in 1..Len(s) - a |-> s[a + i]]
    BY <2>1, <2>2
  <2>5. \A i \in 1..Len(s) - a : a + i \in a + 1..Len(s)
    BY <2>1
  <2> QED
    BY <2>1, <2>3, <2>4, <2>5
<1> QED
  BY <1>2 DEF Part

(* The check reads on in the file it has open, or turns to the newest one: and then, unless lines *)
(* are lost, all of the old one was read and the files between are empty.                         *)
Onward(g, a) ==
  \/ g = handle.file /\ a = handle.lines
  \/ /\ g > handle.file /\ a = 0 /\ handle.lines = Len(logs[handle.file])
     /\ \A i \in handle.file + 1..g - 1 : logs[i] = <<>>

LEMMA Reading ==
  ASSUME TypeOK, handle.lines <= Len(logs[handle.file]), Read \/ CheckRotated
  PROVE  /\ pc \in {"reading", "rotated"}
         /\ UNCHANGED <<check, box, calls, failure, cluster, escaped, stuck>>
         /\ \/ pc' = "rotated" /\ UNCHANGED <<observed, lost>>
            \/ Observe(<<>>) /\ UNCHANGED <<handle, lost>>
            \/ \E g \in DOMAIN logs : \E a \in 0..Len(logs[g]) : \E lines \in Seq(Entry) : \E torn \in BOOLEAN :
                 /\ Part(lines, g, a) /\ Observe(lines)
                 /\ handle' = [file |-> g, lines |-> Len(logs[g]), torn |-> torn]
                 /\ lost' \in BOOLEAN
                 /\ ~lost' => ~lost /\ Onward(g, a)
<1>1. /\ handle.file \in DOMAIN logs /\ handle.lines \in 0..Len(logs[handle.file]) /\ handle.torn \in BOOLEAN
      /\ handle = [file |-> handle.file, lines |-> handle.lines, torn |-> handle.torn]
      /\ Len(logs) \in DOMAIN logs /\ \A i \in DOMAIN logs : i <= Len(logs) /\ i \in Nat /\ Len(logs[i]) \in Nat
      /\ half \in BOOLEAN /\ lost \in BOOLEAN
  BY LogTypes DEF TypeOK
<1>2. HalfRead \in BOOLEAN /\ ReadAll \in BOOLEAN
  BY <1>1 DEF HalfRead, ReadAll
<1>3. CASE Read
  <2>1. /\ pc = "reading" /\ UNCHANGED <<check, box, calls, failure, cluster, escaped, lost, stuck>>
    BY <1>3 DEF Read
  <2>2. CASE ReadAll
    BY <1>3, <2>1, <2>2 DEF Read
  <2>3. CASE ~ReadAll
    <3> DEFINE f == handle.file
               lines == SubSeq(logs[f], handle.lines + 1, Len(logs[f]))
    <3>1. Observe(lines) /\ handle' = [handle EXCEPT !.lines = Len(logs[f]), !.torn = HalfRead]
      BY <1>3, <2>3 DEF Read, InFile
    <3>2. handle' = [file |-> f, lines |-> Len(logs[f]), torn |-> HalfRead]
      BY <1>1, <3>1
    <3>3. Part(lines, f, handle.lines)
      BY <1>1, PartOfSub
    <3>4. Onward(f, handle.lines)
      BY DEF Onward
    <3>5. lost' = lost
      BY <2>1
    <3>6. lines \in Seq(Entry)
      BY <3>3 DEF Part
    <3>7. f \in DOMAIN logs /\ handle.lines \in 0..Len(logs[f]) /\ HalfRead \in BOOLEAN /\ lost' \in BOOLEAN
          /\ (~lost' => ~lost)
      BY <1>1, <1>2, <3>5
    <3> HIDE DEF f, lines
    <3> QED
      BY <2>1, <3>1, <3>2, <3>3, <3>4, <3>6, <3>7
  <2> QED
    BY <2>2, <2>3
<1>4. CASE CheckRotated
  <2>1. pc = "rotated" /\ UNCHANGED <<check, box, calls, failure, cluster, escaped, stuck>>
    BY <1>4 DEF CheckRotated
  <2>2. CASE handle.file = Len(logs)
    BY <1>4, <2>1, <2>2 DEF CheckRotated
  <2>3. CASE handle.file # Len(logs)
    <3> DEFINE g == Len(logs)
               lines == IF handle.torn THEN SubSeq(logs[g], 2, Len(logs[g])) ELSE logs[g]
    <3>1. /\ Observe(lines) /\ handle' = [file |-> g, lines |-> Len(logs[g]), torn |-> half]
          /\ lost' = (lost \/ ~ReadAll \/ handle.torn \/ \E i \in handle.file + 1..g - 1 : logs[i] # <<>>)
      BY <1>4, <2>3 DEF CheckRotated, Last
    <3>2. ASSUME ~lost' PROVE ~lost /\ ~handle.torn /\ Onward(g, 0)
      <4>1. ~lost /\ ReadAll /\ ~handle.torn /\ \A i \in handle.file + 1..g - 1 : logs[i] = <<>>
        BY <3>1, <3>2
      <4>2. g > handle.file
        BY <1>1, <2>3
      <4> QED
        BY <4>1, <4>2 DEF Onward, ReadAll, InFile
    <3>3. \E a \in 0..Len(logs[g]) : Part(lines, g, a) /\ (~handle.torn => a = 0)
      <4>1. logs[g] \in Seq(Entry) /\ Len(logs[g]) \in Nat
        BY <1>1, LogTypes
      <4>2. CASE ~handle.torn
        <5>1. Part(logs[g], g, 0)
          BY <1>1, <4>1 DEF Part
        <5> QED
          BY <4>1, <4>2, <5>1
      <4>3. CASE handle.torn /\ Len(logs[g]) = 0
        <5>1. SubSeq(logs[g], 2, Len(logs[g])) = <<>>
          BY <4>1, <4>3
        <5>2. Part(<<>>, g, 0)
          BY <1>1, <4>1, <4>3 DEF Part
        <5>3. lines = <<>> /\ 0 \in 0..Len(logs[g])
          BY <4>3, <5>1
        <5> HIDE DEF lines
        <5> QED
          BY <4>3, <5>2, <5>3
      <4>4. CASE handle.torn /\ Len(logs[g]) # 0
        <5>1. 1 \in 0..Len(logs[g])
          BY <4>1, <4>4
        <5>2. Part(SubSeq(logs[g], 1 + 1, Len(logs[g])), g, 1)
          BY <1>1, <5>1, PartOfSub
        <5> QED
          BY <4>4, <5>1, <5>2
      <4> QED
        BY <1>1, <4>2, <4>3, <4>4
    <3>4. lost' \in BOOLEAN
      BY <3>1
    <3> HIDE DEF lines
    <3>5. PICK a \in 0..Len(logs[g]) : Part(lines, g, a) /\ (~handle.torn => a = 0)
      BY <3>3
    <3>6. lines \in Seq(Entry)
      BY <3>5 DEF Part
    <3>7. ~lost' => ~lost /\ Onward(g, a)
      BY <3>2, <3>5
    <3> QED
      BY <1>1, <2>1, <3>1, <3>4, <3>5, <3>6, <3>7
  <2> QED
    BY <2>2, <2>3
<1> QED
  BY <1>3, <1>4

LEMMA TypeLog ==
  ASSUME TypeOK, Anchored, handle.lines <= Len(logs[handle.file]),
         WriteHalf \/ WriteLine \/ Rotate \/ Read \/ CheckRotated
  PROVE  TypeOK' /\ Anchored'
<1>1. CASE WriteHalf
  BY <1>1 DEF WriteHalf, TypeOK, Anchored, check, box, observed
<1>2. CASE WriteLine
  <2>1. /\ logs' \in Seq(Seq(Entry)) /\ Len(logs') = Len(logs) /\ unlogged' \in Seq(Entry) /\ half' = FALSE
        /\ UNCHANGED <<check, pc, box, calls, failure, observed, escaped, lost, stuck>>
    BY <1>2, Writing
  <2>2. DOMAIN logs' = DOMAIN logs /\ logs' # <<>>
    BY <2>1, LogTypes
  <2>3. handle' \in [file : DOMAIN logs', lines : Nat, torn : BOOLEAN]
    BY <2>1, <2>2 DEF TypeOK, observed
  <2>4. logs' \in Seq(Seq(Mutations \cup {Barrier})) /\ unlogged' \in Seq(Mutations \cup {Barrier})
    BY <2>1 DEF Entry
  <2>5. half' \in BOOLEAN /\ UNCHANGED <<check, pc, box, calls, failure, observed, escaped, lost, stuck>>
    BY <2>1
  <2> QED
    BY <2>2, <2>3, <2>4, <2>5 DEF TypeOK, Anchored, check, box, observed
<1>3. CASE Rotate
  <2>1. /\ logs' \in Seq(Seq(Entry)) /\ Len(logs') = Len(logs) + 1
        /\ UNCHANGED <<check, pc, box, calls, failure, unlogged, half, observed, escaped, lost, stuck>>
    BY <1>3, Rotating
  <2>2. DOMAIN logs \subseteq DOMAIN logs' /\ logs' # <<>>
    BY <2>1, LogTypes
  <2>3. handle' \in [file : DOMAIN logs', lines : Nat, torn : BOOLEAN]
    BY <2>1, <2>2 DEF TypeOK, observed
  <2> QED
    BY <2>1, <2>2, <2>3 DEF TypeOK, Anchored, check, box, observed, Entry
<1>4. CASE Read \/ CheckRotated
  <2>1. /\ pc \in {"reading", "rotated"} /\ UNCHANGED <<check, box, calls, failure, cluster, escaped, stuck>>
    BY <1>4, Reading
  <2>2. ASSUME pc' = "rotated", UNCHANGED <<observed, lost>> PROVE TypeOK' /\ Anchored'
    BY <2>1, <2>2 DEF TypeOK, Anchored, check, box, cluster, observed
  <2>3. ASSUME NEW lines \in Seq(Entry), Observe(lines), handle' \in [file : DOMAIN logs, lines : Nat, torn : BOOLEAN],
               lost' \in BOOLEAN
        PROVE  TypeOK' /\ Anchored'
    <3>1. /\ outside' \in BOOLEAN /\ landed' \in Maps \cup {OtherMap, Unseen} /\ complete' \in BOOLEAN
          /\ pc' \in {"teardown", "reading"}
      BY <2>3, ObservedType
    <3> QED
      BY <2>1, <2>3, <3>1 DEF TypeOK, Anchored, check, box, cluster
  <2>4. ASSUME Observe(<<>>), UNCHANGED <<handle, lost>> PROVE TypeOK' /\ Anchored'
    <3>1. handle' \in [file : DOMAIN logs, lines : Nat, torn : BOOLEAN] /\ lost' \in BOOLEAN /\ <<>> \in Seq(Entry)
      BY <2>4 DEF TypeOK
    <3> QED
      BY <2>3, <2>4, <3>1
  <2>5. ASSUME NEW g \in DOMAIN logs, NEW a \in 0..Len(logs[g]), NEW lines \in Seq(Entry), NEW torn \in BOOLEAN,
               Observe(lines), handle' = [file |-> g, lines |-> Len(logs[g]), torn |-> torn], lost' \in BOOLEAN
        PROVE  TypeOK' /\ Anchored'
    <3>1. Len(logs[g]) \in Nat
      BY LogTypes
    <3>2. handle' \in [file : DOMAIN logs, lines : Nat, torn : BOOLEAN]
      BY <2>5, <3>1
    <3> QED
      BY <2>3, <2>5, <3>2
  <2> QED
    BY <1>4, <2>2, <2>4, <2>5, Reading
<1> QED
  BY <1>1, <1>2, <1>3, <1>4

LEMMA GoneStep ==
  ASSUME Gone, [Next]_vars
  PROVE  Gone'
<1>1. CASE UNCHANGED vars
  BY <1>1 DEF vars, box, Gone
<1>2. CASE Run
  <2>1. CASE NoHint \/ Refuse \/ Open \/ CannotOpen \/ Judge
    <3>1. /\ pc \in {"next", "judging"} /\ pc' \in {"next", "over", "raised", "creating"}
          /\ namespace' = namespace /\ stuck' = stuck
      BY <2>1 DEF NoHint, Refuse, Open, CannotOpen, Judge, Judged, box
    <3> QED
      BY <3>1 DEF Gone
  <2>2. CASE CreateNamespace
    BY <2>2 DEF CreateNamespace, Gone
  <2>3. CASE Seed \/ WriterEnds \/ AskBarrier \/ TimeIsUp
    BY <2>3 DEF Seed, AfterFailedSeed, WriterEnds, AskBarrier, TimeIsUp, Gone, box
  <2>4. CASE (\E body \in Bodies : Patch(body)) \/ (\E object \in {"declared", "neighbour"} : PatchOther(object)) \/ Denied
    BY <2>4 DEF Patch, PatchOther, Denied, Request, Gone, box
  <2>5. CASE Read \/ CheckRotated
    BY <2>5 DEF Read, CheckRotated, Observe, Gone, box
  <2>6. CASE Teardown
    <3>1. pc' = (IF pc = "teardown" THEN "judging" ELSE "raised") /\ created' = created
          /\ pc \in {"teardown", "raising"}
      BY <2>6 DEF Teardown
    <3>2. (stuck' = stuck /\ (namespace' => namespace /\ ~created)) \/ stuck'
      BY <2>6 DEF Teardown
    <3> QED
      BY <3>1, <3>2 DEF Gone
  <2> QED
    BY <1>2, <2>1, <2>2, <2>3, <2>4, <2>5, <2>6 DEF Run
<1>3. CASE WriteHalf \/ WriteLine \/ Rotate
  BY <1>3 DEF WriteHalf, WriteLine, Rotate, Gone, box
<1> QED
  BY <1>1, <1>2, <1>3 DEF Next

-----------------------------------------------------------------------------
(* What a run may rely on.  A place (i, j) is line j of file i of the log. *)
InRun == pc \in {"creating", "seeding", "running", "barrier", "reading", "rotated", "teardown", "judging"}
Asking == pc \in {"creating", "seeding", "running", "barrier"}

SeenAt(i, j) == i < handle.file \/ (i = handle.file /\ j <= handle.lines)
Later(x, y, i, j) == x > i \/ (x = i /\ y > j)
Foreign(e) == e # Barrier /\ e.object # "declared"
Declared(e) == e.object = "declared"
Holds(e) == e.after \in {target, OtherMap}

(* A mutation elsewhere is logged or about to be. *)
Escapes ==
  escaped => \/ \E i \in DOMAIN logs : \E j \in DOMAIN logs[i] : Foreign(logs[i][j])
             \/ \E n \in DOMAIN unlogged : Foreign(unlogged[n])

(* The last change to the declared resource shows what the resource holds, or changed its other map. *)
Holding ==
  /\ \A n \in DOMAIN unlogged : Declared(unlogged[n]) =>
       \/ Holds(unlogged[n])
       \/ \E m \in DOMAIN unlogged : n < m /\ Declared(unlogged[m])
  /\ \A i \in DOMAIN logs : \A j \in DOMAIN logs[i] : Declared(logs[i][j]) =>
       \/ Holds(logs[i][j])
       \/ \E m \in DOMAIN unlogged : Declared(unlogged[m])
       \/ \E x \in DOMAIN logs : \E y \in DOMAIN logs[x] : Later(x, y, i, j) /\ Declared(logs[x][y])

(* Nothing follows the barrier. *)
BarrierLast ==
  /\ \A n \in DOMAIN unlogged : unlogged[n] = Barrier => n = Len(unlogged) /\ ~Asking
  /\ \A i \in DOMAIN logs : \A j \in DOMAIN logs[i] : logs[i][j] = Barrier =>
       /\ unlogged = <<>> /\ ~Asking
       /\ \A x \in DOMAIN logs : \A y \in DOMAIN logs[x] : ~Later(x, y, i, j)

(* What was observed is what the lines seen so far say. *)
Watching ==
  /\ \A i \in DOMAIN logs : \A j \in DOMAIN logs[i] : SeenAt(i, j) /\ Foreign(logs[i][j]) => outside
  /\ complete => \E i \in DOMAIN logs : \E j \in DOMAIN logs[i] : SeenAt(i, j) /\ logs[i][j] = Barrier
  /\ landed # Unseen =>
       \E i \in DOMAIN logs : \E j \in DOMAIN logs[i] :
         /\ SeenAt(i, j) /\ Declared(logs[i][j]) /\ logs[i][j].after = landed
         /\ \A x \in DOMAIN logs : \A y \in DOMAIN logs[x] :
              SeenAt(x, y) /\ Declared(logs[x][y]) => ~Later(x, y, i, j)

InLog == handle.lines <= Len(logs[handle.file])

RunInv == Escapes /\ Holding /\ BarrierLast /\ (~lost => Watching) /\ InLog

(* Between two runs the last verdict stands: none, or contained. *)
Between == pc = "next" => report \in {NoReport, "contained"} /\ (report = NoReport => ~escaped)

BoxInv == TypeOK /\ Anchored /\ InLog /\ (InRun => RunInv) /\ Between /\ ContainedMeansContained

(* Lines that a read took in are seen, and the lines seen before come before them. *)
LEMMA NewlySeen ==
  ASSUME TypeOK, NEW g \in DOMAIN logs, NEW a \in 0..Len(logs[g]), Onward(g, a),
         handle'.file = g, handle'.lines = Len(logs[g])
  PROVE  \A i \in DOMAIN logs : \A j \in DOMAIN logs[i] :
           /\ SeenAt(i, j)' <=> SeenAt(i, j) \/ (i = g /\ j > a)
           /\ SeenAt(i, j) => i < g \/ (i = g /\ j <= a)
<1>0. TAKE i \in DOMAIN logs
<1>1. TAKE j \in DOMAIN logs[i]
<1>2. /\ i \in Nat /\ g \in Nat /\ a \in Nat /\ j \in 1..Len(logs[i]) /\ Len(logs[i]) \in Nat /\ Len(logs[g]) \in Nat
      /\ handle.file \in Nat /\ handle.lines \in Nat
  BY LogTypes
<1>3. CASE g = handle.file /\ a = handle.lines
  BY <1>2, <1>3 DEF SeenAt
<1>4. CASE /\ g > handle.file /\ a = 0 /\ handle.lines = Len(logs[handle.file])
           /\ \A n \in handle.file + 1..g - 1 : logs[n] = <<>>
  <2>1. ~(handle.file < i /\ i < g)
    <3>1. SUFFICES ASSUME handle.file < i, i < g PROVE FALSE
      OBVIOUS
    <3>2. logs[i] = <<>>
      BY <1>2, <1>4, <3>1
    <3> QED
      BY <3>2
  <2> QED
    BY <1>2, <1>4, <2>1 DEF SeenAt
<1> QED
  BY <1>3, <1>4 DEF Onward

LEMMA WatchRead ==
  ASSUME TypeOK, Watching, logs' = logs,
         NEW g \in DOMAIN logs, NEW a \in 0..Len(logs[g]), Onward(g, a),
         handle'.file = g, handle'.lines = Len(logs[g]),
         NEW lines \in Seq(Entry), Part(lines, g, a), Observe(lines)
  PROVE  Watching'
<1>1. \A i \in DOMAIN logs : \A j \in DOMAIN logs[i] :
        /\ SeenAt(i, j)' <=> SeenAt(i, j) \/ (i = g /\ j > a)
        /\ SeenAt(i, j) => i < g \/ (i = g /\ j <= a)
  BY NewlySeen
<1>2. /\ g \in Nat /\ a \in Nat /\ Len(logs[g]) \in Nat /\ a <= Len(logs[g])
      /\ DOMAIN logs[g] = 1..Len(logs[g]) /\ Len(lines) = Len(logs[g]) - a /\ DOMAIN lines = 1..Len(lines)
      /\ \A i \in DOMAIN logs : i \in Nat /\ \A j \in DOMAIN logs[i] : j \in Nat
  BY LogTypes DEF Part
<1>3. \A n \in DOMAIN lines : a + n \in DOMAIN logs[g] /\ lines[n] = logs[g][a + n] /\ a + n > a /\ n \in Nat
  BY <1>2 DEF Part
<1>4. \A j \in DOMAIN logs[g] : j > a => j - a \in DOMAIN lines /\ logs[g][j] = lines[j - a]
  <2>1. TAKE j \in DOMAIN logs[g]
  <2>2. HAVE j > a
  <2>3. j - a \in DOMAIN lines /\ a + (j - a) = j
    BY <1>2, <2>2
  <2> QED
    BY <1>3, <2>3
<1>5. /\ outside' = (outside \/ \E m \in MutationsIn(lines) : m.object # "declared")
      /\ complete' = (complete \/ BarrierSeen(lines))
  BY DEF Observe
<1>6. ASSUME NEW i \in DOMAIN logs, NEW j \in DOMAIN logs[i], SeenAt(i, j)', Foreign(logs[i][j]) PROVE outside'
  <2>1. CASE SeenAt(i, j)
    BY <1>5, <1>6, <2>1 DEF Watching
  <2>2. CASE i = g /\ j > a
    <3>1. PICK n \in DOMAIN lines : lines[n] = logs[i][j]
      BY <1>4, <2>2
    <3>2. lines[n] \in MutationsIn(lines) /\ lines[n].object # "declared"
      BY <1>6, <3>1 DEF MutationsIn, Range, Foreign
    <3> QED
      BY <1>5, <3>2
  <2> QED
    BY <1>1, <1>6, <2>1, <2>2
<1>7. ASSUME complete' PROVE \E i \in DOMAIN logs : \E j \in DOMAIN logs[i] : SeenAt(i, j)' /\ logs[i][j] = Barrier
  <2>1. CASE complete
    BY <1>1, <2>1 DEF Watching
  <2>2. CASE BarrierSeen(lines)
    <3>1. PICK n \in DOMAIN lines : lines[n] = Barrier
      BY <2>2 DEF BarrierSeen, Range
    <3>2. a + n \in DOMAIN logs[g] /\ logs[g][a + n] = Barrier /\ a + n > a
      BY <1>3, <3>1
    <3>3. SeenAt(g, a + n)'
      BY <1>1, <3>2
    <3> QED
      BY <3>2, <3>3
  <2> QED
    BY <1>5, <1>7, <2>1, <2>2
<1>8. ASSUME landed' # Unseen
      PROVE  \E i \in DOMAIN logs : \E j \in DOMAIN logs[i] :
               /\ SeenAt(i, j)' /\ Declared(logs[i][j]) /\ logs[i][j].after = landed'
               /\ \A x \in DOMAIN logs : \A y \in DOMAIN logs[x] :
                    SeenAt(x, y)' /\ Declared(logs[x][y]) => ~Later(x, y, i, j)
  <2> DEFINE changes == {n \in DOMAIN lines : lines[n].object = "declared"}
  <2>1. CASE changes = {} /\ landed' = landed
    <3>0. PICK i \in DOMAIN logs : \E j \in DOMAIN logs[i] :
            /\ SeenAt(i, j) /\ Declared(logs[i][j]) /\ logs[i][j].after = landed
            /\ \A x \in DOMAIN logs : \A y \in DOMAIN logs[x] :
                 SeenAt(x, y) /\ Declared(logs[x][y]) => ~Later(x, y, i, j)
      BY <1>8, <2>1 DEF Watching
    <3>1. PICK j \in DOMAIN logs[i] :
            /\ SeenAt(i, j) /\ Declared(logs[i][j]) /\ logs[i][j].after = landed
            /\ \A x \in DOMAIN logs : \A y \in DOMAIN logs[x] :
                 SeenAt(x, y) /\ Declared(logs[x][y]) => ~Later(x, y, i, j)
      BY <3>0
    <3>2. ASSUME NEW x \in DOMAIN logs, NEW y \in DOMAIN logs[x], SeenAt(x, y)', Declared(logs[x][y])
          PROVE  SeenAt(x, y)
      <4>1. ~(x = g /\ y > a)
        <5>1. SUFFICES ASSUME x = g, y > a PROVE FALSE
          OBVIOUS
        <5>2. y - a \in changes
          BY <1>4, <3>2, <5>1 DEF Declared
        <5> QED
          BY <2>1, <5>2
      <4> QED
        BY <1>1, <3>2, <4>1
    <3>3. SeenAt(i, j)' /\ logs[i][j].after = landed'
      BY <1>1, <2>1, <3>1
    <3> QED
      BY <3>1, <3>2, <3>3
  <2>2. CASE \E m \in changes : landed' = lines[m].after /\ \A n \in changes : n <= m
    <3>1. PICK m \in changes : landed' = lines[m].after /\ \A n \in changes : n <= m
      BY <2>2
    <3>2. /\ a + m \in DOMAIN logs[g] /\ logs[g][a + m] = lines[m] /\ a + m > a /\ m \in Nat
          /\ Declared(logs[g][a + m]) /\ logs[g][a + m].after = landed'
      BY <1>3, <3>1 DEF Declared
    <3>3. SeenAt(g, a + m)'
      BY <1>1, <3>2
    <3>4. ASSUME NEW x \in DOMAIN logs, NEW y \in DOMAIN logs[x], SeenAt(x, y)', Declared(logs[x][y])
          PROVE  ~Later(x, y, g, a + m)
      <4>0. x \in Nat /\ y \in Nat /\ g \in Nat /\ a \in Nat /\ m \in Nat
        BY <1>2, <3>2
      <4>1. CASE SeenAt(x, y)
        <5>1. x < g \/ (x = g /\ y <= a)
          BY <1>1, <4>1
        <5> QED
          BY <4>0, <5>1 DEF Later
      <4>2. CASE x = g /\ y > a
        <5>1. y - a \in changes
          BY <1>4, <3>4, <4>2 DEF Declared
        <5>2. y - a <= m
          BY <3>1, <5>1
        <5> QED
          BY <4>0, <4>2, <5>2 DEF Later
      <4> QED
        BY <1>1, <3>4, <4>1, <4>2
    <3> QED
      BY <3>2, <3>3, <3>4
  <2> QED
    BY <2>1, <2>2, Landing
<1> QED
  BY <1>6, <1>7, <1>8 DEF Watching, SeenAt, Later, Foreign, Declared

-----------------------------------------------------------------------------
LEMMA RunOpen == ASSUME Open PROVE RunInv'
<1>1. /\ logs' = << <<>> >> /\ unlogged' = <<>> /\ handle' = [file |-> 1, lines |-> 0, torn |-> FALSE]
      /\ escaped' = FALSE /\ complete' = FALSE /\ landed' = Unseen
  BY DEF Open, NothingObserved
<1>2. DOMAIN logs' = {1} /\ DOMAIN (logs'[1]) = {} /\ Len(logs'[1]) = 0 /\ DOMAIN unlogged' = {}
  BY <1>1
<1> QED
  BY <1>1, <1>2 DEF RunInv, Escapes, Holding, BarrierLast, Watching, InLog

(* Nothing happens that a run relies on. *)
LEMMA RunQuiet ==
  ASSUME RunInv, UNCHANGED <<logs, unlogged, target, escaped, observed, lost>>, Asking' => Asking
  PROVE  RunInv'
<1>1. UNCHANGED <<handle, outside, landed, complete>>
  BY DEF observed
<1>2. Escapes' /\ InLog'
  BY DEF RunInv, Escapes, InLog, Foreign, observed
<1>3. Holding'
  BY DEF RunInv, Holding, Holds, Declared, Later
<1>4. BarrierLast'
  BY DEF RunInv, BarrierLast, Later
<1>5. ~lost' => Watching'
  BY <1>1 DEF RunInv, Watching, SeenAt, Later, Declared, Foreign
<1> QED
  BY <1>2, <1>3, <1>4, <1>5 DEF RunInv

(* A request that was answered: a mutation of the writer, or the barrier. *)
LEMMA RunAppend ==
  ASSUME TypeOK, RunInv, NEW e \in Entry, unlogged' = Append(unlogged, e), Asking,
         UNCHANGED <<logs, observed, lost>>,
         escaped' = (escaped \/ Foreign(e)), e = Barrier => ~Asking',
         IF Declared(e) THEN e.after \in {target', OtherMap} ELSE target' = target
  PROVE  RunInv'
<1> DEFINE N == Len(unlogged)
<1>1. /\ unlogged \in Seq(Entry) /\ N \in Nat /\ DOMAIN unlogged = 1..N /\ DOMAIN unlogged' = 1..N + 1
      /\ Len(unlogged') = N + 1 /\ unlogged'[N + 1] = e /\ \A n \in DOMAIN unlogged : unlogged'[n] = unlogged[n]
      /\ DOMAIN unlogged \subseteq DOMAIN unlogged' /\ N + 1 \in DOMAIN unlogged'
  BY LogTypes
<1>2. UNCHANGED <<handle, outside, landed, complete>>
  BY DEF observed
<1>3. Escapes'
  <2>1. \A n \in DOMAIN unlogged : Foreign(unlogged[n]) => Foreign(unlogged'[n])
    BY <1>1
  <2>2. Foreign(e) => Foreign(unlogged'[N + 1])
    BY <1>1
  <2> QED
    BY <1>1, <2>1, <2>2 DEF RunInv, Escapes, Foreign
<1>4. Holding'
  <2>1. CASE Declared(e)
    <3>1. Declared(unlogged'[N + 1]) /\ unlogged'[N + 1].after \in {target', OtherMap}
      BY <1>1, <2>1
    <3>2. \A n \in DOMAIN unlogged' : n = N + 1 \/ n < N + 1
      BY <1>1
    <3> QED
      BY <1>1, <3>1, <3>2 DEF Holding, Holds, Declared
  <2>2. CASE ~Declared(e)
    <3>1. target' = target
      BY <2>2
    <3>2. ASSUME NEW n \in DOMAIN unlogged', Declared(unlogged'[n])
          PROVE  n \in DOMAIN unlogged /\ unlogged'[n] = unlogged[n]
      BY <1>1, <2>2, <3>2
    <3>3. ASSUME NEW n \in DOMAIN unlogged', Declared(unlogged'[n])
          PROVE  unlogged'[n].after \in {target', OtherMap} \/ \E m \in DOMAIN unlogged' : n < m /\ Declared(unlogged'[m])
      <4>1. Holds(unlogged[n]) \/ \E m \in DOMAIN unlogged : n < m /\ Declared(unlogged[m])
        BY <3>2, <3>3 DEF RunInv, Holding
      <4> QED
        BY <1>1, <3>1, <3>2, <3>3, <4>1 DEF Holds
    <3>4. (\E m \in DOMAIN unlogged : Declared(unlogged[m])) => \E m \in DOMAIN unlogged' : Declared(unlogged'[m])
      BY <1>1
    <3>5. ASSUME NEW i \in DOMAIN logs, NEW j \in DOMAIN logs[i], Declared(logs[i][j])
          PROVE  \/ logs[i][j].after \in {target', OtherMap}
                 \/ \E m \in DOMAIN unlogged' : Declared(unlogged'[m])
                 \/ \E x \in DOMAIN logs : \E y \in DOMAIN logs[x] : Later(x, y, i, j) /\ Declared(logs[x][y])
      <4>1. \/ Holds(logs[i][j])
            \/ \E m \in DOMAIN unlogged : Declared(unlogged[m])
            \/ \E x \in DOMAIN logs : \E y \in DOMAIN logs[x] : Later(x, y, i, j) /\ Declared(logs[x][y])
        BY <3>5 DEF RunInv, Holding
      <4> QED
        BY <3>1, <3>4, <4>1 DEF Holds
    <3> QED
      BY <3>3, <3>5 DEF Holding, Holds, Declared, Later
  <2> QED
    BY <2>1, <2>2
<1>5. BarrierLast'
  <2>1. \A n \in DOMAIN unlogged : unlogged[n] # Barrier
    BY DEF RunInv, BarrierLast
  <2>2. \A i \in DOMAIN logs : \A j \in DOMAIN logs[i] : logs[i][j] # Barrier
    BY DEF RunInv, BarrierLast
  <2>3. ASSUME NEW n \in DOMAIN unlogged', unlogged'[n] = Barrier PROVE n = Len(unlogged') /\ ~Asking'
    <3>1. n = N + 1
      BY <1>1, <2>1, <2>3
    <3> QED
      BY <1>1, <2>3, <3>1
  <2> QED
    BY <2>2, <2>3 DEF BarrierLast
<1>6. ~lost' => Watching'
  BY <1>2 DEF RunInv, Watching, SeenAt, Later, Declared, Foreign
<1>7. InLog'
  BY <1>2 DEF RunInv, InLog
<1> QED
  BY <1>3, <1>4, <1>5, <1>6, <1>7 DEF RunInv

LEMMA RunRequest == ASSUME TypeOK, RunInv, Requested PROVE RunInv'
<1>1. PICK e \in Mutations :
           /\ pc = "running" /\ pc' \in {"running", "barrier"}
           /\ unlogged' = Append(unlogged, e) /\ escaped' = (escaped \/ e.object # "declared")
           /\ e.after \in {target', OtherMap}
           /\ e.object # "declared" => target' = target
           /\ UNCHANGED <<logs, observed, lost>>
  BY Requesting
<1>2. e \in Entry /\ e # Barrier
  BY EntryType DEF Mutations, Objects, Barrier
<1>3. escaped' = (escaped \/ Foreign(e))
  BY <1>1, <1>2 DEF Foreign
<1>4. IF Declared(e) THEN e.after \in {target', OtherMap} ELSE target' = target
  BY <1>1 DEF Declared
<1>5. Asking
  BY <1>1 DEF Asking
<1> QED
  BY <1>1, <1>2, <1>3, <1>4, <1>5, RunAppend

LEMMA RunBarrier == ASSUME TypeOK, RunInv, AskBarrier PROVE RunInv'
<1>1. /\ pc = "barrier" /\ pc' = "reading" /\ unlogged' \in {unlogged, Append(unlogged, Barrier)}
      /\ UNCHANGED <<logs, target, escaped, observed, lost>>
  BY DEF AskBarrier, box
<1>2. Asking /\ ~Asking'
  BY <1>1 DEF Asking
<1>3. CASE unlogged' = unlogged
  BY <1>1, <1>2, <1>3, RunQuiet
<1>4. CASE unlogged' = Append(unlogged, Barrier)
  <2>1. ~Foreign(Barrier) /\ ~Declared(Barrier) /\ Barrier \in Entry
    BY EntryType DEF Foreign, Declared, Barrier
  <2>2. escaped' = (escaped \/ Foreign(Barrier))
    BY <1>1, <2>1 DEF TypeOK
  <2> QED
    BY <1>1, <1>2, <1>4, <2>1, <2>2, RunAppend
<1> QED
  BY <1>1, <1>3, <1>4

(* The log as a whole line leaves it: one new place, after all others. *)
LEMMA NewPlace ==
  ASSUME TypeOK, InLog, WriteLine
  PROVE  LET L == Len(logs)
             P == Len(logs[L]) + 1
         IN /\ DOMAIN logs' = DOMAIN logs /\ L \in DOMAIN logs /\ P \in DOMAIN (logs'[L]) /\ P \in Nat /\ L \in Nat
            /\ logs'[L][P] = unlogged[1] /\ unlogged # <<>>
            /\ \A i \in DOMAIN logs : \A j \in DOMAIN logs[i] :
                 j \in DOMAIN (logs'[i]) /\ logs'[i][j] = logs[i][j] /\ Later(L, P, i, j)
            /\ \A i \in DOMAIN logs : \A j \in DOMAIN (logs'[i]) : j \in DOMAIN logs[i] \/ (i = L /\ j = P)
            /\ ~SeenAt(L, P) /\ InLog'
            /\ Len(unlogged) \in Nat \ {0} /\ Len(unlogged') = Len(unlogged) - 1
            /\ DOMAIN unlogged = 1..Len(unlogged) /\ DOMAIN unlogged' = 1..Len(unlogged) - 1
            /\ \A n \in DOMAIN unlogged' : unlogged'[n] = unlogged[n + 1]
            /\ \A n \in DOMAIN unlogged : n = 1 \/ (n - 1 \in DOMAIN unlogged' /\ unlogged'[n - 1] = unlogged[n])
            /\ UNCHANGED <<check, pc, box, calls, failure, observed, escaped, lost, stuck>>
<1> DEFINE L == Len(logs)
           P == Len(logs[L]) + 1
<1>1. /\ logs' \in Seq(Seq(Entry)) /\ Len(logs') = L /\ unlogged' \in Seq(Entry)
      /\ unlogged # <<>> /\ Len(unlogged) \in Nat \ {0} /\ Len(unlogged') = Len(unlogged) - 1
      /\ \A n \in 1..Len(unlogged) - 1 : unlogged'[n] = unlogged[n + 1]
      /\ \A i \in DOMAIN logs : i # L => logs'[i] = logs[i]
      /\ Len(logs'[L]) = P /\ logs'[L][P] = unlogged[1]
      /\ \A j \in 1..Len(logs[L]) : logs'[L][j] = logs[L][j]
      /\ UNCHANGED <<check, pc, box, calls, failure, observed, escaped, lost, stuck>>
  BY Writing
<1>2. /\ L \in Nat \ {0} /\ DOMAIN logs = 1..L /\ DOMAIN logs' = 1..L
      /\ handle.file \in 1..L /\ handle.lines \in Nat /\ unlogged \in Seq(Entry)
      /\ \A i \in DOMAIN logs : Len(logs[i]) \in Nat /\ DOMAIN logs[i] = 1..Len(logs[i])
      /\ \A i \in DOMAIN logs : DOMAIN (logs'[i]) = 1..Len(logs'[i])
  <2>1. /\ L \in Nat \ {0} /\ DOMAIN logs = 1..L
        /\ handle.file \in 1..L /\ handle.lines \in Nat /\ unlogged \in Seq(Entry)
        /\ \A i \in DOMAIN logs : Len(logs[i]) \in Nat /\ DOMAIN logs[i] = 1..Len(logs[i])
    BY LogTypes
  <2>2. DOMAIN logs' = 1..L
    BY <1>1, <2>1
  <2>3. ASSUME NEW i \in DOMAIN logs PROVE DOMAIN (logs'[i]) = 1..Len(logs'[i])
    <3>1. logs'[i] \in Seq(Entry)
      BY <1>1, <2>1, <2>2
    <3> QED
      BY <3>1
  <2> QED
    BY <2>1, <2>2, <2>3
<1>3. L \in DOMAIN logs /\ P \in DOMAIN (logs'[L]) /\ P \in Nat
  BY <1>1, <1>2
<1>4. \A i \in DOMAIN logs : \A j \in DOMAIN logs[i] :
        j \in DOMAIN (logs'[i]) /\ logs'[i][j] = logs[i][j] /\ Later(L, P, i, j)
  <2>1. ASSUME NEW i \in DOMAIN logs, NEW j \in DOMAIN logs[i], i # L
        PROVE  j \in DOMAIN (logs'[i]) /\ logs'[i][j] = logs[i][j] /\ Later(L, P, i, j)
    <3>1. logs'[i] = logs[i] /\ i < L
      BY <1>1, <1>2, <2>1
    <3> QED
      BY <3>1 DEF Later
  <2>2. ASSUME NEW j \in DOMAIN logs[L]
        PROVE  j \in DOMAIN (logs'[L]) /\ logs'[L][j] = logs[L][j] /\ Later(L, P, L, j)
    <3>1. j \in 1..Len(logs[L]) /\ Len(logs[L]) \in Nat /\ DOMAIN (logs'[L]) = 1..P
      BY <1>1, <1>2
    <3> QED
      BY <1>1, <3>1 DEF Later
  <2> QED
    BY <2>1, <2>2
<1>5. \A i \in DOMAIN logs : \A j \in DOMAIN (logs'[i]) : j \in DOMAIN logs[i] \/ (i = L /\ j = P)
  BY <1>1, <1>2
<1>6. ~SeenAt(L, P) /\ InLog'
  BY <1>1, <1>2 DEF SeenAt, InLog, observed
<1>7. /\ DOMAIN unlogged = 1..Len(unlogged) /\ DOMAIN unlogged' = 1..Len(unlogged) - 1
      /\ \A n \in DOMAIN unlogged' : unlogged'[n] = unlogged[n + 1]
  BY <1>1, <1>2
<1>8. \A n \in DOMAIN unlogged : n = 1 \/ (n - 1 \in DOMAIN unlogged' /\ unlogged'[n - 1] = unlogged[n])
  <2>1. ASSUME NEW n \in DOMAIN unlogged, n # 1 PROVE n - 1 \in DOMAIN unlogged' /\ unlogged'[n - 1] = unlogged[n]
    <3>1. n - 1 \in DOMAIN unlogged' /\ (n - 1) + 1 = n
      BY <1>1, <1>7, <2>1
    <3> QED
      BY <1>7, <3>1
  <2> QED
    BY <2>1
<1> QED
  BY <1>1, <1>2, <1>3, <1>4, <1>5, <1>6, <1>7, <1>8

LEMMA RunWrites == ASSUME TypeOK, RunInv, WriteLine PROVE RunInv'
<1> DEFINE L == Len(logs)
           P == Len(logs[L]) + 1
<1>1. /\ DOMAIN logs' = DOMAIN logs /\ L \in DOMAIN logs /\ P \in DOMAIN (logs'[L]) /\ P \in Nat /\ L \in Nat
      /\ logs'[L][P] = unlogged[1] /\ unlogged # <<>>
  BY NewPlace DEF RunInv
<1>2. /\ \A i \in DOMAIN logs : \A j \in DOMAIN logs[i] :
           j \in DOMAIN (logs'[i]) /\ logs'[i][j] = logs[i][j] /\ Later(L, P, i, j)
      /\ \A i \in DOMAIN logs : \A j \in DOMAIN (logs'[i]) : j \in DOMAIN logs[i] \/ (i = L /\ j = P)
      /\ ~SeenAt(L, P) /\ InLog'
  BY NewPlace DEF RunInv
<1>3. /\ Len(unlogged) \in Nat \ {0} /\ Len(unlogged') = Len(unlogged) - 1
      /\ DOMAIN unlogged = 1..Len(unlogged) /\ DOMAIN unlogged' = 1..Len(unlogged) - 1
      /\ \A n \in DOMAIN unlogged' : unlogged'[n] = unlogged[n + 1]
      /\ \A n \in DOMAIN unlogged : n = 1 \/ (n - 1 \in DOMAIN unlogged' /\ unlogged'[n - 1] = unlogged[n])
  BY NewPlace DEF RunInv
<1>4. /\ UNCHANGED <<pc, target, handle, outside, landed, complete, escaped, lost>>
  BY NewPlace DEF RunInv, box, observed
<1> HIDE DEF L, P
<1>5. Escapes'
  <2>1. ASSUME NEW i \in DOMAIN logs, NEW j \in DOMAIN logs[i], Foreign(logs[i][j])
        PROVE  \E x \in DOMAIN logs' : \E y \in DOMAIN (logs'[x]) : Foreign(logs'[x][y])
    BY <1>1, <1>2, <2>1
  <2>2. ASSUME NEW n \in DOMAIN unlogged, Foreign(unlogged[n])
        PROVE  \/ \E x \in DOMAIN logs' : \E y \in DOMAIN (logs'[x]) : Foreign(logs'[x][y])
               \/ \E m \in DOMAIN unlogged' : Foreign(unlogged'[m])
    BY <1>1, <1>3, <2>2
  <2> QED
    BY <1>4, <2>1, <2>2 DEF RunInv, Escapes, Foreign
<1>6. Holding'
  <2>1. ASSUME NEW m \in DOMAIN unlogged, Declared(unlogged[m])
        PROVE  \/ m = 1 /\ Declared(logs'[L][P])
               \/ \E n \in DOMAIN unlogged' : n = m - 1 /\ Declared(unlogged'[n])
    BY <1>1, <1>3, <2>1
  <2>2. ASSUME NEW n \in DOMAIN unlogged', Declared(unlogged'[n])
        PROVE  \/ unlogged'[n].after \in {target', OtherMap}
               \/ \E m \in DOMAIN unlogged' : n < m /\ Declared(unlogged'[m])
    <3>1. n + 1 \in DOMAIN unlogged /\ unlogged'[n] = unlogged[n + 1] /\ n \in Nat
      BY <1>3
    <3>2. CASE Holds(unlogged[n + 1])
      BY <1>4, <3>1, <3>2 DEF Holds
    <3>3. CASE \E m \in DOMAIN unlogged : n + 1 < m /\ Declared(unlogged[m])
      <4>1. PICK m \in DOMAIN unlogged : n + 1 < m /\ Declared(unlogged[m])
        BY <3>3
      <4>2. m - 1 \in DOMAIN unlogged' /\ unlogged'[m - 1] = unlogged[m] /\ n < m - 1
        BY <1>3, <3>1, <4>1
      <4> QED
        BY <4>1, <4>2
    <3> QED
      BY <2>2, <3>1, <3>2, <3>3 DEF RunInv, Holding
  <2>3. ASSUME NEW i \in DOMAIN logs, NEW j \in DOMAIN logs[i], Declared(logs[i][j])
        PROVE  \/ logs[i][j].after \in {target', OtherMap}
               \/ \E m \in DOMAIN unlogged' : Declared(unlogged'[m])
               \/ \E x \in DOMAIN logs' : \E y \in DOMAIN (logs'[x]) : Later(x, y, i, j) /\ Declared(logs'[x][y])
    <3>1. CASE Holds(logs[i][j])
      BY <1>4, <3>1 DEF Holds
    <3>2. CASE \E m \in DOMAIN unlogged : Declared(unlogged[m])
      BY <1>1, <1>2, <2>1, <3>2
    <3>3. CASE \E x \in DOMAIN logs : \E y \in DOMAIN logs[x] : Later(x, y, i, j) /\ Declared(logs[x][y])
      BY <1>1, <1>2, <3>3
    <3> QED
      BY <2>3, <3>1, <3>2, <3>3 DEF RunInv, Holding
  <2>4. ASSUME Declared(logs'[L][P])
        PROVE  \/ logs'[L][P].after \in {target', OtherMap}
               \/ \E m \in DOMAIN unlogged' : Declared(unlogged'[m])
    <3>1. 1 \in DOMAIN unlogged /\ Declared(unlogged[1])
      BY <1>1, <1>3, <2>4
    <3>2. CASE Holds(unlogged[1])
      BY <1>1, <1>4, <3>2 DEF Holds
    <3>3. CASE \E m \in DOMAIN unlogged : 1 < m /\ Declared(unlogged[m])
      BY <1>3, <3>3
    <3> QED
      BY <3>1, <3>2, <3>3 DEF RunInv, Holding
  <2>5. ASSUME NEW i \in DOMAIN logs', NEW j \in DOMAIN (logs'[i]), Declared(logs'[i][j])
        PROVE  \/ logs'[i][j].after \in {target', OtherMap}
               \/ \E m \in DOMAIN unlogged' : Declared(unlogged'[m])
               \/ \E x \in DOMAIN logs' : \E y \in DOMAIN (logs'[x]) : Later(x, y, i, j) /\ Declared(logs'[x][y])
    <3>1. CASE j \in DOMAIN logs[i]
      <4>1. logs'[i][j] = logs[i][j] /\ i \in DOMAIN logs
        BY <1>1, <1>2, <3>1
      <4> QED
        BY <2>3, <2>5, <3>1, <4>1
    <3>2. CASE i = L /\ j = P
      BY <2>4, <2>5, <3>2
    <3> QED
      BY <1>1, <1>2, <3>1, <3>2
  <2> QED
    BY <2>2, <2>5 DEF Holding, Holds, Declared, Later
<1>7. BarrierLast'
  <2>1. \A i \in DOMAIN logs : \A j \in DOMAIN logs[i] : logs[i][j] # Barrier
    BY <1>1 DEF RunInv, BarrierLast
  <2>2. \A n \in DOMAIN unlogged : unlogged[n] = Barrier => n = Len(unlogged) /\ ~Asking
    BY DEF RunInv, BarrierLast
  <2>3. ASSUME NEW n \in DOMAIN unlogged', unlogged'[n] = Barrier PROVE n = Len(unlogged') /\ ~Asking'
    <3>1. n + 1 \in DOMAIN unlogged /\ unlogged[n + 1] = Barrier
      BY <1>3, <2>3
    <3>2. n + 1 = Len(unlogged) /\ ~Asking
      BY <2>2, <3>1
    <3> QED
      BY <1>3, <1>4, <3>2 DEF Asking
  <2>4. ASSUME NEW i \in DOMAIN logs', NEW j \in DOMAIN (logs'[i]), logs'[i][j] = Barrier
        PROVE  /\ unlogged' = <<>> /\ ~Asking'
               /\ \A x \in DOMAIN logs' : \A y \in DOMAIN (logs'[x]) : ~Later(x, y, i, j)
    <3>1. i = L /\ j = P
      BY <1>1, <1>2, <2>1, <2>4
    <3>2. 1 \in DOMAIN unlogged /\ unlogged[1] = Barrier
      BY <1>1, <1>3, <2>4, <3>1
    <3>3. 1 = Len(unlogged) /\ ~Asking
      BY <2>2, <3>2
    <3>4. unlogged' = <<>>
      <4>1. unlogged' \in Seq(Entry)
        BY Writing
      <4>2. Len(unlogged') = Len(unlogged) - 1
        BY <1>3
      <4>3. Len(unlogged') = 0
        BY <3>3, <4>2
      <4> QED
        BY <4>1, <4>3
    <3>5. ASSUME NEW x \in DOMAIN logs', NEW y \in DOMAIN (logs'[x]) PROVE ~Later(x, y, i, j)
      <4>1. CASE y \in DOMAIN logs[x]
        <5>1. Later(L, P, x, y) /\ x \in Nat /\ y \in Nat
          BY <1>1, <1>2, <4>1, LogTypes
        <5> QED
          BY <1>1, <3>1, <5>1 DEF Later
      <4>2. CASE x = L /\ y = P
        BY <1>1, <3>1, <4>2 DEF Later
      <4> QED
        BY <1>1, <1>2, <4>1, <4>2
    <3> QED
      BY <1>4, <3>3, <3>4, <3>5 DEF Asking
  <2> QED
    BY <2>3, <2>4 DEF BarrierLast, Later
<1>8. ASSUME ~lost' PROVE Watching'
  <2>0. Watching /\ \A i, j : SeenAt(i, j)' <=> SeenAt(i, j)
    BY <1>4, <1>8 DEF RunInv, SeenAt
  <2>1. ASSUME NEW i \in DOMAIN logs', NEW j \in DOMAIN (logs'[i]), SeenAt(i, j)
        PROVE  i \in DOMAIN logs /\ j \in DOMAIN logs[i] /\ logs'[i][j] = logs[i][j]
    BY <1>1, <1>2, <2>1
  <2>2. \A i \in DOMAIN logs' : \A j \in DOMAIN (logs'[i]) : SeenAt(i, j)' /\ Foreign(logs'[i][j]) => outside'
    BY <1>4, <2>0, <2>1 DEF Watching
  <2>3. complete' => \E i \in DOMAIN logs' : \E j \in DOMAIN (logs'[i]) : SeenAt(i, j)' /\ logs'[i][j] = Barrier
    BY <1>1, <1>2, <1>4, <2>0 DEF Watching
  <2>4. landed' # Unseen =>
          \E i \in DOMAIN logs' : \E j \in DOMAIN (logs'[i]) :
            /\ SeenAt(i, j)' /\ Declared(logs'[i][j]) /\ logs'[i][j].after = landed'
            /\ \A x \in DOMAIN logs' : \A y \in DOMAIN (logs'[x]) :
                 SeenAt(x, y)' /\ Declared(logs'[x][y]) => ~Later(x, y, i, j)
    <3>1. SUFFICES ASSUME landed' # Unseen
                   PROVE  \E i \in DOMAIN logs' : \E j \in DOMAIN (logs'[i]) :
                            /\ SeenAt(i, j)' /\ Declared(logs'[i][j]) /\ logs'[i][j].after = landed'
                            /\ \A x \in DOMAIN logs' : \A y \in DOMAIN (logs'[x]) :
                                 SeenAt(x, y)' /\ Declared(logs'[x][y]) => ~Later(x, y, i, j)
      OBVIOUS
    <3>2. PICK i \in DOMAIN logs : \E j \in DOMAIN logs[i] :
            /\ SeenAt(i, j) /\ Declared(logs[i][j]) /\ logs[i][j].after = landed
            /\ \A x \in DOMAIN logs : \A y \in DOMAIN logs[x] :
                 SeenAt(x, y) /\ Declared(logs[x][y]) => ~Later(x, y, i, j)
      BY <1>4, <2>0, <3>1 DEF Watching
    <3>3. PICK j \in DOMAIN logs[i] :
            /\ SeenAt(i, j) /\ Declared(logs[i][j]) /\ logs[i][j].after = landed
            /\ \A x \in DOMAIN logs : \A y \in DOMAIN logs[x] :
                 SeenAt(x, y) /\ Declared(logs[x][y]) => ~Later(x, y, i, j)
      BY <3>2
    <3>4. i \in DOMAIN logs' /\ j \in DOMAIN (logs'[i]) /\ logs'[i][j] = logs[i][j]
      BY <1>1, <1>2
    <3> QED
      BY <1>4, <2>0, <2>1, <3>3, <3>4
  <2> QED
    BY <2>0, <2>2, <2>3, <2>4 DEF Watching, Later, Foreign, Declared, SeenAt
<1> QED
  BY <1>2, <1>5, <1>6, <1>7, <1>8 DEF RunInv

LEMMA RunRotates == ASSUME TypeOK, RunInv, Rotate PROVE RunInv'
<1> DEFINE L == Len(logs)
<1>1. /\ logs' \in Seq(Seq(Entry)) /\ Len(logs') = L + 1 /\ logs'[L + 1] = <<>>
      /\ \A i \in DOMAIN logs : logs'[i] = logs[i]
      /\ UNCHANGED <<pc, target, unlogged, handle, outside, landed, complete, escaped, lost>>
  BY Rotating DEF box, observed
<1>2. /\ L \in Nat /\ DOMAIN logs = 1..L /\ handle.file \in DOMAIN logs
  BY LogTypes
<1>3. /\ DOMAIN logs' = 1..L + 1 /\ DOMAIN (logs'[L + 1]) = {}
  BY <1>1, <1>2
<1>4. /\ \A i \in DOMAIN logs' : \A j \in DOMAIN (logs'[i]) : i \in DOMAIN logs /\ j \in DOMAIN logs[i]
      /\ \A i \in DOMAIN logs : i \in DOMAIN logs' /\ logs'[i] = logs[i]
  BY <1>1, <1>2, <1>3
<1>5. Escapes' /\ InLog'
  <2>1. Escapes'
    BY <1>1, <1>4 DEF RunInv, Escapes, Foreign
  <2>2. InLog'
    BY <1>1, <1>2 DEF RunInv, InLog
  <2> QED
    BY <2>1, <2>2
<1>6. Holding'
  <2> SUFFICES ASSUME NEW i \in DOMAIN logs, NEW j \in DOMAIN logs[i], Declared(logs[i][j])
               PROVE  \/ Holds(logs[i][j])
                      \/ \E m \in DOMAIN unlogged : Declared(unlogged[m])
                      \/ \E x \in DOMAIN logs' : \E y \in DOMAIN logs'[x] :
                           Later(x, y, i, j) /\ Declared(logs'[x][y])
    BY <1>1, <1>4 DEF RunInv, Holding, Holds, Declared, Later
  <2> QED
    BY <1>4 DEF RunInv, Holding
<1>7. BarrierLast'
  BY <1>1, <1>4 DEF RunInv, BarrierLast, Later, Asking
<1>8. ASSUME ~lost' PROVE Watching'
  <2>0. Watching
    BY <1>1, <1>8 DEF RunInv
  <2>1. \A i \in DOMAIN logs' : \A j \in DOMAIN (logs'[i]) : SeenAt(i, j)' /\ Foreign(logs'[i][j]) => outside'
    BY <1>1, <1>4, <2>0 DEF Watching, SeenAt, Foreign
  <2>2. complete' => \E i \in DOMAIN logs' : \E j \in DOMAIN (logs'[i]) : SeenAt(i, j)' /\ logs'[i][j] = Barrier
    BY <1>1, <1>4, <2>0 DEF Watching, SeenAt
  <2>3. ASSUME landed' # Unseen
        PROVE  \E i \in DOMAIN logs' : \E j \in DOMAIN (logs'[i]) :
                 /\ SeenAt(i, j)' /\ Declared(logs'[i][j]) /\ logs'[i][j].after = landed'
                 /\ \A x \in DOMAIN logs' : \A y \in DOMAIN (logs'[x]) :
                      SeenAt(x, y)' /\ Declared(logs'[x][y]) => ~Later(x, y, i, j)
    <3>1. PICK i \in DOMAIN logs : \E j \in DOMAIN logs[i] :
            /\ SeenAt(i, j) /\ Declared(logs[i][j]) /\ logs[i][j].after = landed
            /\ \A x \in DOMAIN logs : \A y \in DOMAIN logs[x] :
                 SeenAt(x, y) /\ Declared(logs[x][y]) => ~Later(x, y, i, j)
      BY <1>1, <2>0, <2>3 DEF Watching
    <3> QED
      BY <1>1, <1>4, <3>1 DEF SeenAt, Declared
  <2> QED
    BY <2>1, <2>2, <2>3 DEF Watching, SeenAt, Foreign, Declared, Later
<1> QED
  BY <1>5, <1>6, <1>7, <1>8 DEF RunInv

LEMMA RunReads == ASSUME TypeOK, RunInv, Read \/ CheckRotated PROVE RunInv'
<1>1. /\ pc \in {"reading", "rotated"}
      /\ UNCHANGED <<check, box, calls, failure, cluster, escaped, stuck>>
      /\ \/ pc' = "rotated" /\ UNCHANGED <<observed, lost>>
         \/ Observe(<<>>) /\ UNCHANGED <<handle, lost>>
         \/ \E g \in DOMAIN logs : \E a \in 0..Len(logs[g]) : \E lines \in Seq(Entry) : \E torn \in BOOLEAN :
              /\ Part(lines, g, a) /\ Observe(lines)
              /\ handle' = [file |-> g, lines |-> Len(logs[g]), torn |-> torn]
              /\ lost' \in BOOLEAN
              /\ ~lost' => ~lost /\ Onward(g, a)
  BY Reading DEF RunInv, InLog
<1>2. UNCHANGED <<logs, unlogged, target, escaped>>
  BY <1>1 DEF box, cluster
<1>3. ASSUME NEW lines, Observe(lines) PROVE ~Asking'
  BY <1>3 DEF Observe, Asking
<1>4. CASE pc' = "rotated" /\ UNCHANGED <<observed, lost>>
  BY <1>2, <1>4, RunQuiet DEF Asking
<1>5. CASE Observe(<<>>) /\ UNCHANGED <<handle, lost>>
  <2>1. <<>> \in Seq(Entry) /\ DOMAIN <<>> = {}
    OBVIOUS
  <2>2. landed' = landed
    BY <1>5, <2>1, Landing
  <2>3. outside' = outside /\ complete' = complete
    BY <1>5, <2>1 DEF Observe, MutationsIn, BarrierSeen, Range, TypeOK
  <2> QED
    BY <1>2, <1>3, <1>5, <2>2, <2>3, RunQuiet DEF observed
<1>6. ASSUME NEW g \in DOMAIN logs, NEW a \in 0..Len(logs[g]), NEW lines \in Seq(Entry), NEW torn \in BOOLEAN,
             Part(lines, g, a), Observe(lines), handle' = [file |-> g, lines |-> Len(logs[g]), torn |-> torn],
             ~lost' => ~lost /\ Onward(g, a)
      PROVE  RunInv'
  <2>1. Escapes' /\ Holding' /\ BarrierLast'
    <3>1. Escapes'
      BY <1>2 DEF RunInv, Escapes, Foreign
    <3>2. Holding'
      BY <1>2 DEF RunInv, Holding, Holds, Declared, Later
    <3>3. ~Asking'
      BY <1>3, <1>6
    <3>4. BarrierLast'
      BY <1>2, <3>3 DEF RunInv, BarrierLast, Later
    <3> QED
      BY <3>1, <3>2, <3>4
  <2>2. handle'.file = g /\ handle'.lines = Len(logs[g]) /\ Len(logs[g]) \in Nat
    BY <1>6, LogTypes
  <2>3. InLog'
    BY <1>2, <2>2 DEF InLog
  <2>4. ASSUME ~lost' PROVE Watching'
    BY <1>2, <1>6, <2>2, <2>4, WatchRead DEF RunInv
  <2> QED
    BY <2>1, <2>3, <2>4 DEF RunInv
<1> QED
  BY <1>1, <1>4, <1>5, <1>6

-----------------------------------------------------------------------------
(* A run that was watched to its barrier, with no line lost: all it did was seen. *)
LEMMA AllSeen ==
  ASSUME TypeOK, RunInv, ~lost, complete, pc = "judging"
  PROVE  /\ unlogged = <<>>
         /\ \A i \in DOMAIN logs : \A j \in DOMAIN logs[i] : SeenAt(i, j)
<1>1. PICK i \in DOMAIN logs : \E j \in DOMAIN logs[i] : SeenAt(i, j) /\ logs[i][j] = Barrier
  BY DEF RunInv, Watching
<1>2. PICK j \in DOMAIN logs[i] : SeenAt(i, j) /\ logs[i][j] = Barrier
  BY <1>1
<1>3. unlogged = <<>> /\ \A x \in DOMAIN logs : \A y \in DOMAIN logs[x] : ~Later(x, y, i, j)
  BY <1>2 DEF RunInv, BarrierLast
<1>4. ASSUME NEW x \in DOMAIN logs, NEW y \in DOMAIN logs[x] PROVE SeenAt(x, y)
  <2>1. x \in Nat /\ i \in Nat /\ y \in Nat /\ j \in Nat /\ handle.file \in Nat /\ handle.lines \in Nat
    BY LogTypes
  <2> QED
    BY <1>2, <1>3, <2>1 DEF SeenAt, Later
<1> QED
  BY <1>3, <1>4

LEMMA JudgedRight ==
  ASSUME TypeOK, RunInv, ~lost, pc = "judging",
         Verdict \in {"writer_failed", "nothing_observed", "observed_values_differ", "contained"}
  PROVE  ~escaped /\ (Verdict = "contained" => Restored(target))
<1>1. ~outside /\ complete
  BY DEF Verdict
<1>2. unlogged = <<>> /\ DOMAIN unlogged = {} /\ \A i \in DOMAIN logs : \A j \in DOMAIN logs[i] : SeenAt(i, j)
  BY <1>1, AllSeen
<1>3. ~escaped
  <2>1. ASSUME NEW i \in DOMAIN logs, NEW j \in DOMAIN logs[i], Foreign(logs[i][j]) PROVE FALSE
    BY <1>1, <1>2, <2>1 DEF RunInv, Watching
  <2> QED
    BY <1>2, <2>1 DEF RunInv, Escapes
<1>4. ASSUME Verdict = "contained" PROVE Restored(target)
  <2>1. landed # Unseen /\ landed # OtherMap /\ Restored(landed)
    BY <1>4 DEF Verdict
  <2>2. PICK i \in DOMAIN logs : \E j \in DOMAIN logs[i] :
          /\ SeenAt(i, j) /\ Declared(logs[i][j]) /\ logs[i][j].after = landed
          /\ \A x \in DOMAIN logs : \A y \in DOMAIN logs[x] :
               SeenAt(x, y) /\ Declared(logs[x][y]) => ~Later(x, y, i, j)
    BY <2>1 DEF RunInv, Watching
  <2>3. PICK j \in DOMAIN logs[i] :
          /\ Declared(logs[i][j]) /\ logs[i][j].after = landed
          /\ \A x \in DOMAIN logs : \A y \in DOMAIN logs[x] :
               SeenAt(x, y) /\ Declared(logs[x][y]) => ~Later(x, y, i, j)
    BY <2>2
  <2>4. Holds(logs[i][j])
    BY <1>2, <2>3 DEF RunInv, Holding
  <2> QED
    BY <2>1, <2>3, <2>4 DEF Holds
<1> QED
  BY <1>3, <1>4

LEMMA BoxInit == Init => BoxInv
<1> SUFFICES ASSUME Init PROVE BoxInv
  OBVIOUS
<1>1. TypeOK /\ Anchored
  BY TypeInit
<1>2. pc = "next" /\ report = NoReport /\ escaped = FALSE /\ logs = << <<>> >> /\ handle = [file |-> 1, lines |-> 0, torn |-> FALSE]
  BY DEF Init, NothingObserved
<1>3. InLog
  BY <1>2 DEF InLog
<1> QED
  BY <1>1, <1>2, <1>3, ReportAssumption DEF BoxInv, InRun, Between, ContainedMeansContained, Verdicts

LEMMA BoxNext == BoxInv /\ [Next]_vars => BoxInv'
<1> SUFFICES ASSUME BoxInv, [Next]_vars PROVE BoxInv'
  OBVIOUS
<1>1. TypeOK /\ Anchored /\ InLog /\ (InRun => RunInv) /\ Between /\ ContainedMeansContained
  BY DEF BoxInv
<1>2. CASE UNCHANGED vars
  <2>1. UNCHANGED <<todo, report, pc, namespace, created, target, calls, failure, unlogged, logs, half, handle, outside,
                    landed, complete, escaped, lost, stuck>>
    BY <1>2 DEF vars, check, box, cluster, observed
  <2>2. TypeOK' /\ Anchored' /\ InLog'
    BY <1>1, <2>1 DEF TypeOK, Anchored, InLog
  <2>3. Between' /\ ContainedMeansContained'
    BY <1>1, <2>1 DEF Between, ContainedMeansContained, Restored
  <2>4. InRun' => RunInv'
    BY <1>1, <2>1, RunQuiet DEF InRun, Asking, observed
  <2> QED
    BY <2>2, <2>3, <2>4 DEF BoxInv
<1>3. CASE NoHint \/ CannotOpen \/ Refuse
  <2>1. pc = "next" /\ pc' \in {"raised", "over", "next"} /\ UNCHANGED <<target, escaped, lost, logs, handle>>
        /\ UNCHANGED <<box, calls, failure, cluster, observed, escaped, lost, stuck>>
    BY <1>3 DEF NoHint, CannotOpen, Refuse, Judged, box, cluster, observed
  <2>2. TypeOK' /\ Anchored'
    BY <1>1, <1>3, TypeFlow
  <2>3. InLog'
    BY <1>1, <2>1 DEF InLog
  <2>4. pc' # "raised" => Refuse
    BY <1>3 DEF NoHint, CannotOpen
  <2>5. Refuse => /\ pc' # "next"
                  /\ report' \in {"declared_ref_not_concrete", "declared_ref_outside_radius", "nothing_observed"}
    BY DEF Refuse, Judged
  <2>6. Between'
    BY <2>1, <2>4, <2>5 DEF Between
  <2>7. ContainedMeansContained'
    <3>1. SUFFICES ASSUME Refuse, ~lost PROVE ~escaped
      BY <2>1, <2>4, <2>5 DEF ContainedMeansContained
    <3>2. report = NoReport \/ report = "contained"
      BY <1>1, <2>1 DEF Between
    <3> QED
      BY <1>1, <2>1, <3>1, <3>2 DEF Between, ContainedMeansContained
  <2> QED
    BY <2>1, <2>2, <2>3, <2>6, <2>7 DEF BoxInv, InRun
<1>4. CASE Open
  <2>1. pc' = "creating"
    BY <1>4 DEF Open
  <2>2. RunInv'
    BY <1>4, RunOpen
  <2>3. TypeOK' /\ Anchored'
    BY <1>1, <1>4, TypeFlow
  <2> QED
    BY <2>1, <2>2, <2>3 DEF BoxInv, RunInv, Between, ContainedMeansContained
<1>5. CASE CreateNamespace \/ Seed \/ WriterEnds \/ TimeIsUp \/ Teardown
  <2>1. /\ pc \in {"creating", "seeding", "running", "reading", "teardown", "raising"}
        /\ pc' \in {"seeding", "running", "barrier", "teardown", "judging", "raising", "raised"}
        /\ UNCHANGED <<logs, unlogged, target, escaped, observed, lost>>
        /\ InRun' => InRun
        /\ Asking' => Asking
    BY <1>5 DEF CreateNamespace, Seed, AfterFailedSeed, WriterEnds, TimeIsUp, Teardown, InRun, Asking, box, cluster
  <2>2. TypeOK' /\ Anchored'
    BY <1>1, <1>5, TypeFlow
  <2>3. InRun' => RunInv'
    BY <1>1, <2>1, RunQuiet
  <2>4. InLog'
    BY <1>1, <2>1 DEF InLog, observed
  <2> QED
    BY <2>1, <2>2, <2>3, <2>4 DEF BoxInv, Between, ContainedMeansContained
<1>6. CASE AskBarrier
  <2>1. pc = "barrier" /\ pc' = "reading" /\ InRun
    BY <1>6 DEF AskBarrier, InRun
  <2>2. RunInv'
    BY <1>1, <1>6, <2>1, RunBarrier
  <2>3. TypeOK' /\ Anchored'
    BY <1>1, <1>6, TypeFlow
  <2> QED
    BY <2>1, <2>2, <2>3 DEF BoxInv, RunInv, Between, ContainedMeansContained
<1>7. CASE Requested
  <2>1. pc' \in {"running", "barrier"} /\ InRun
    BY <1>1, <1>7, Requesting DEF InRun
  <2>2. RunInv'
    BY <1>1, <1>7, <2>1, RunRequest
  <2>3. TypeOK' /\ Anchored'
    BY <1>1, <1>7, TypeRequest
  <2> QED
    BY <2>1, <2>2, <2>3 DEF BoxInv, RunInv, Between, ContainedMeansContained
<1>8. CASE Read \/ CheckRotated
  <2>1. pc' \in {"rotated", "teardown", "reading"} /\ InRun
    BY <1>8 DEF Read, CheckRotated, Observe, InRun
  <2>2. RunInv'
    BY <1>1, <1>8, <2>1, RunReads
  <2>3. TypeOK' /\ Anchored'
    BY <1>1, <1>8, TypeLog DEF InLog
  <2> QED
    BY <2>1, <2>2, <2>3 DEF BoxInv, RunInv, Between, ContainedMeansContained
<1>9. CASE Judge
  <2>1. /\ pc = "judging" /\ InRun /\ pc' \in {"next", "over"} /\ report' = Verdict
        /\ pc' = "next" => Verdict = "contained"
        /\ UNCHANGED <<target, escaped, lost, logs, handle>>
    BY <1>9 DEF Judge, Judged, InRun, box, cluster, observed
  <2>2. TypeOK' /\ Anchored'
    BY <1>1, <1>9, TypeFlow
  <2>3. InLog'
    BY <1>1, <2>1 DEF InLog
  <2>4. Between'
    BY <2>1, ReportAssumption DEF Between, Verdicts
  <2>5. ContainedMeansContained'
    <3>1. SUFFICES ASSUME Verdict \in {"writer_failed", "nothing_observed", "observed_values_differ", "contained"}, ~lost
                   PROVE  ~escaped /\ (Verdict = "contained" => Restored(target))
      BY <2>1 DEF ContainedMeansContained, Restored
    <3> QED
      BY <1>1, <2>1, <3>1, JudgedRight
  <2> QED
    BY <2>1, <2>2, <2>3, <2>4, <2>5 DEF BoxInv, InRun
<1>10. CASE WriteHalf \/ WriteLine \/ Rotate
  <2>1. UNCHANGED <<report, pc, target, escaped, lost, observed>>
    BY <1>10 DEF WriteHalf, WriteLine, Rotate, box, check
  <2>2. TypeOK' /\ Anchored'
    BY <1>1, <1>10, TypeLog DEF InLog
  <2>4. InRun' => RunInv'
    <3>1. CASE WriteHalf
      <4>1. UNCHANGED <<logs, unlogged>>
        BY <3>1 DEF WriteHalf
      <4> QED
        BY <1>1, <2>1, <4>1, RunQuiet DEF Asking, InRun
    <3> QED
      BY <1>1, <1>10, <2>1, <3>1, RunWrites, RunRotates DEF InRun
  <2>5. InLog'
    <3>1. CASE WriteHalf
      BY <1>1, <2>1, <3>1 DEF WriteHalf, InLog, observed
    <3>2. CASE WriteLine
      BY <1>1, <3>2, NewPlace
    <3>3. CASE Rotate
      <4>1. handle.file \in DOMAIN logs /\ \A i \in DOMAIN logs : logs'[i] = logs[i]
        BY <1>1, <3>3, LogTypes, Rotating
      <4> QED
        BY <1>1, <2>1, <4>1 DEF InLog, observed
    <3> QED
      BY <1>10, <3>1, <3>2, <3>3
  <2>6. Between' /\ ContainedMeansContained'
    BY <1>1, <2>1 DEF Between, ContainedMeansContained, Restored
  <2> QED
    BY <2>2, <2>4, <2>5, <2>6 DEF BoxInv
<1> QED
  BY <1>2, <1>3, <1>4, <1>5, <1>6, <1>7, <1>8, <1>9, <1>10 DEF Next, Run, Requested

-----------------------------------------------------------------------------
(* judge gives a verdict that does not blame an escape only of a run that tried none, and *)
(* "contained" only where the resource holds what was asked for, however the log lags     *)
(* behind and is rotated, as long as no line was left behind.                             *)
THEOREM VerdictsAreRight == Spec => []ContainedMeansContained
<1>1. BoxInv => ContainedMeansContained
  BY DEF BoxInv
<1> QED
  BY <1>1, BoxInit, BoxNext, PTL DEF Spec

(* Whatever raises on the way, K8sSandbox deletes the namespace it made. *)
THEOREM BoxesAreGone == Spec => []NothingIsLeftBehind
<1>1. Init => Gone
  BY TypeInit
<1>2. Gone /\ [Next]_vars => Gone'
  BY GoneStep
<1>3. Gone => NothingIsLeftBehind
  BY DEF Gone, NothingIsLeftBehind
<1> QED
  BY <1>1, <1>2, <1>3, PTL DEF Spec

(* Every reachable state of a check is well typed. *)
THEOREM BoxTypes == Spec => []TypeOK
<1>1. BoxInv => TypeOK
  BY DEF BoxInv
<1> QED
  BY <1>1, BoxInit, BoxNext, PTL DEF Spec

-----------------------------------------------------------------------------
(* What the job pushes (GrowthCycle), for every set of gaps, writers and   *)
(* keys: it was checked, its evidence resolves in the ledger, and a        *)
(* generated writer was contained by a sandbox run of its own.             *)
(*                                                                         *)
(* The argument follows the evidence.  It is signed only over what the     *)
(* ledger holds and a run that was contained, and a person can amend a     *)
(* commit but not its evidence; a branch that is pushed was checked        *)
(* against its evidence in the same cycle, or is the base's already, which *)
(* holds only what had been pushed.                                        *)

(* A pull request is open only for a branch with a commit. *)
OpenCarries == \A c \in Candidates : pr[c] = "open" => Carries(remote[c])

(* The steps between a candidate and its outcome, and those that have its evidence. *)
Bundled == {"replay", "contain", "emit", "sync", "branch", "commit", "check", "list", "push", "create"}
Attested == {"sync", "branch", "commit", "check", "list", "push", "create"}

(* A gap of the third rung has a writer, in the bundle and on its branch. *)
Staged ==
  /\ stage = "contain" => rung[cur] = 3
  /\ stage \in Bundled /\ rung[cur] = 3 => bundle.module # NoModule
  /\ stage \in Attested => bundle.evidence.signed
  /\ \A c \in Candidates : rung[c] = 3 /\ Carries(branch[c]) => branch[c].module # NoModule

CycleTyped == CycleTypeOK /\ OpenCarries /\ Staged

USE DEF cycle, files, people, repository, forge

-----------------------------------------------------------------------------
(* Types. *)

LEMMA Records ==
  /\ EmptyBundle \in Bundles /\ EmptyBundle.verdict = FALSE /\ ~EmptyBundle.evidence.signed
  /\ NoBranch \in Branches /\ EmptyBranch \in Branches /\ Commits \subseteq Branches
  /\ ~Carries(NoBranch) /\ ~Carries(EmptyBranch) /\ \A b \in Commits : ~Carries(Squashed(b))
  /\ \A b \in Branches : Carries(b) <=> b \in Commits
  /\ \A e \in Evidence \cup {NoEvidence} : e.signed <=> e \in Evidence
<1>1. EmptyBundle \in Bundles /\ EmptyBundle.verdict = FALSE /\ ~EmptyBundle.evidence.signed
  BY DEF EmptyBundle, Bundles, NoEvidence
<1>2. ~Carries(NoBranch) /\ ~Carries(EmptyBranch)
  BY DEF NoBranch, EmptyBranch, Carries
<1>6. \A b \in Commits : ~Carries(Squashed(b))
  BY DEF Commits, Squashed, Carries
<1>3. \A b \in Commits : Carries(b)
  BY DEF Commits, Carries
<1>4. \A e \in Evidence : e.signed
  BY DEF Evidence
<1>5. ~NoEvidence.signed
  BY DEF NoEvidence
<1> QED
  BY <1>1, <1>2, <1>3, <1>4, <1>5, <1>6 DEF Branches

LEMMA Conclusion ==
  ASSUME CycleTypeOK, Conclude, gaps # <<>>
  PROVE  /\ stage' = "next" /\ gaps' \in Seq(Candidates) /\ seen' = seen /\ noted' = noted
         /\ synced' = synced /\ bundle' \in Bundles
         /\ bundle' = EmptyBundle
<1>1. Tail(gaps) \in Seq(Candidates) /\ Head(gaps) \in Candidates
  BY DEF CycleTypeOK
<1> QED
  BY <1>1, Records DEF Conclude, cur, CycleTypeOK

LEMMA CycleTypeInit == CycleInit => CycleTyped
<1> SUFFICES ASSUME CycleInit PROVE CycleTyped
  OBVIOUS
<1>1. CycleTypeOK
  <2>1. gaps \in Seq(Candidates) /\ bundle \in Bundles
    BY Records DEF CycleInit
  <2>2. branch \in [Candidates -> Branches] /\ remote \in [Candidates -> Branches]
    BY Records DEF CycleInit
  <2> QED
    BY CycleAssumption, <2>1, <2>2 DEF CycleInit, CycleTypeOK, Steps, OnBase
<1>2. OpenCarries
  BY DEF CycleInit, OpenCarries
<1>3. Staged
  BY Records DEF CycleInit, Staged, Bundled, Attested
<1> QED
  BY <1>1, <1>2, <1>3 DEF CycleTyped

LEMMA CurrentGap ==
  ASSUME CycleTypeOK, gaps # <<>>
  PROVE  cur \in Candidates
BY DEF CycleTypeOK, cur

LEMMA CycleTypeStep == CycleTyped /\ [CycleNext]_cycleVars => CycleTyped'
<1> SUFFICES ASSUME CycleTyped, [CycleNext]_cycleVars PROVE CycleTyped'
  OBVIOUS
<1> USE DEF CycleTyped, CycleTypeOK, OpenCarries, Steps, Staged, Bundled, Attested
<1>1. CASE StartCycle
  BY <1>1 DEF StartCycle, cur
<1>2. CASE LoadSignals
  BY <1>2 DEF LoadSignals, cur
<1>3. CASE Collect
  <2>1. seen' \subseteq Events /\ ledger \subseteq ledger' /\ ledger' \subseteq known'
    BY <1>3 DEF Collect
  <2>2. corpus' \subseteq Remediations
    BY <1>3, <2>1 DEF Collect
  <2>3. UNCHANGED <<known, fired, signals, corrected, stale, noted, synced, bundle, people, repository,
                    forge, contained>> /\ stage' = "next" /\ gaps' = CycleOrder
    BY <1>3 DEF Collect
  <2> QED
    BY CycleAssumption, <2>1, <2>2, <2>3
<1>4. CASE Author
  <2>1. cur \in Candidates /\ Cited(cur) \subseteq Events /\ gaps # <<>>
    BY <1>4, CurrentGap, CycleAssumption DEF Author, Cited, Demonstrations
  <2>2. PICK m \in Probed : bundle' = [cites |-> Cited(cur), module |-> m, verdict |-> FALSE, evidence |-> NoEvidence]
    BY <1>4 DEF Author, EmptyBundle
  <2>3. m \in Modules \cup {NoModule} /\ (rung[cur] = 3 => m # NoModule)
    BY CycleAssumption DEF Probed
  <2>4. bundle' \in Bundles
    BY <2>1, <2>2, <2>3 DEF Bundles
  <2>5. cur' = cur
    BY <1>4 DEF Author, cur
  <2> QED
    BY <1>4, <2>1, <2>2, <2>3, <2>4, <2>5 DEF Author
<1>5. CASE Expressed \/ NotAcceptable
  BY <1>5, Conclusion DEF Expressed, NotAcceptable
<1>6. CASE Replay
  BY <1>6, Conclusion DEF Replay, cur
<1>7. CASE Contain
  <2>1. bundle' \in Bundles /\ bundle'.module = bundle.module /\ bundle'.evidence = bundle.evidence
    BY <1>7 DEF Contain, Bundles
  <2>2. bundle.module \in Modules /\ cur \in Candidates /\ cur' = cur
    BY <1>7, CurrentGap DEF Contain, Bundles, cur
  <2> QED
    BY <1>7, <2>1, <2>2 DEF Contain
<1>8. CASE NotContained
  BY <1>8, Conclusion DEF NotContained
<1>9. CASE EmitAndAttest
  <2>1. cur \in Candidates /\ cur' = cur
    BY <1>9, CurrentGap DEF EmitAndAttest, cur
  <2>2. bundle'.evidence \in Evidence /\ bundle' \in Bundles /\ bundle'.module = bundle.module
    BY <1>9, <2>1 DEF EmitAndAttest, Bundles, Evidence
  <2>3. bundle'.evidence.signed
    BY <2>2, Records
  <2> QED
    BY <1>9, <2>1, <2>2, <2>3 DEF EmitAndAttest
<1>10. CASE SyncBase
  BY <1>10 DEF SyncBase, cur
<1>11. CASE MakeBranch
  BY <1>11, Records, CurrentGap DEF MakeBranch, cur
<1>12. CASE Commit
  <2>1. cur \in Candidates /\ cur' = cur
    BY <1>12, CurrentGap DEF Commit, cur
  <2>2. bundle.evidence \in Evidence
    BY <1>12, Records DEF Commit, Bundles
  <2>3. branch'[cur] \in Commits /\ branch'[cur].module = bundle.module
    BY <1>12, <2>1, <2>2 DEF Commit, Commits, Bundles
  <2>4. branch' \in [Candidates -> Branches] /\ \A c \in Candidates \ {cur} : branch'[c] = branch[c]
    BY <1>12, <2>1, <2>3, Records DEF Commit
  <2> QED
    BY <1>12, <2>1, <2>3, <2>4 DEF Commit
<1>13. CASE Check
  BY <1>13, Conclusion DEF Check, cur
<1>14. CASE ListPRs
  BY <1>14, Conclusion DEF ListPRs, cur
<1>15. CASE Push
  <2>1. cur \in Candidates /\ cur' = cur
    BY <1>15, CurrentGap DEF Push, cur
  <2>2. remote' \in [Candidates -> Branches] /\ \A c \in Candidates : Carries(remote[c]) => Carries(remote'[c])
    BY <1>15, <2>1, Records DEF Push, Pushable
  <2> QED
    BY <1>15, <2>1, <2>2 DEF Push
<1>16. CASE Create
  BY <1>16, Conclusion, CurrentGap DEF Create, Creatable
<1>17. CASE ForgeFails \/ ForgeRefuses
  BY <1>17, Conclusion DEF ForgeFails, ForgeRefuses
<1>18. CASE EndCycle \/ Abort \/ EvidenceUnresolved \/ CommitFails
  <2>1. NoCycle /\ UNCHANGED <<files, people, repository, forge, contained>>
    BY <1>18 DEF EndCycle, Abort, EvidenceUnresolved, CommitFails
  <2>2. gaps' \in Seq(Candidates)
    BY <2>1 DEF NoCycle
  <2> QED
    BY <2>1, <2>2, Records DEF NoCycle
<1>19. CASE \E e \in Events : RecordChange(e) \/ RecordSignal(e) \/ Correct(e)
  BY <1>19 DEF RecordChange, RecordSignal, Correct, cur
<1>20. ASSUME NEW c \in Candidates, CloseOrMerge(c)
       PROVE  CycleTyped'
  <2>1. remote[c] \in Commits
    BY <1>20, Records DEF CloseOrMerge
  <2>2. remote[c] \in OnBase /\ Squashed(remote[c]) \in OnBase
    BY <2>1 DEF OnBase
  <2>3. base' \in [Candidates -> OnBase]
    BY <1>20, <2>2 DEF CloseOrMerge
  <2> QED
    BY <1>20, <2>3 DEF CloseOrMerge, cur
<1>21. ASSUME NEW c \in Candidates, Deploy(c)
       PROVE  CycleTyped'
  BY <1>21 DEF Deploy, cur
<1>22. ASSUME NEW c \in Candidates, Amend(c)
       PROVE  CycleTyped'
  <2>1. branch[c] \in Commits
    BY <1>22, Records DEF Amend
  <2>a. NoModule \notin Modules
    BY CycleAssumption
  <2>2. branch'[c] \in Commits /\ (rung[c] = 3 => branch'[c].module # NoModule)
    <3>1. CASE \E m \in Modules \ {branch[c].module} : rung[c] = 3 /\ branch' = [branch EXCEPT ![c].module = m]
      <4>1. PICK m \in Modules \ {branch[c].module} : branch' = [branch EXCEPT ![c].module = m]
        BY <3>1
      <4>2. branch'[c] = [branch[c] EXCEPT !.module = m]
        BY <4>1
      <4> QED
        BY <2>1, <2>a, <4>1, <4>2 DEF Commits
    <3>2. CASE branch' = [branch EXCEPT ![c].cites = {}]
      <4>1. branch'[c] = [branch[c] EXCEPT !.cites = {}]
        BY <3>2
      <4>2. branch'[c] \in Commits /\ branch'[c].module = branch[c].module
        BY <2>1, <4>1 DEF Commits
      <4>3. Carries(branch[c])
        BY <1>22 DEF Amend
      <4> QED
        BY <4>2, <4>3
    <3> QED
      BY <1>22, <3>1, <3>2 DEF Amend
  <2>3. branch' \in [Candidates -> Branches] /\ \A d \in Candidates \ {c} : branch'[d] = branch[d]
    BY <1>22, <2>2, Records DEF Amend
  <2> QED
    BY <1>22, <2>2, <2>3 DEF Amend, cur
<1>23. ASSUME NEW c \in Candidates, DeleteBranch(c)
       PROVE  CycleTyped'
  BY <1>23, Records DEF DeleteBranch, cur
<1>24. CASE \E k \in EvidenceKeys : RotateKey(k)
  BY <1>24 DEF RotateKey, cur
<1>25. CASE UNCHANGED cycleVars
  BY <1>25 DEF cycleVars, cur
<1> QED
  BY <1>1, <1>2, <1>3, <1>4, <1>5, <1>6, <1>7, <1>8, <1>9, <1>10, <1>11, <1>12, <1>13, <1>14,
     <1>15, <1>16, <1>17, <1>18, <1>19, <1>20, <1>21, <1>22, <1>23, <1>24, <1>25 DEF CycleNext, Step

(* Every reachable state of the job, its files and its forge is well typed. *)
THEOREM CycleTypes == CycleSpec => []CycleTypeOK
<1>1. CycleTyped => CycleTypeOK
  BY DEF CycleTyped
<1> QED
  BY CycleTypeInit, CycleTypeStep, <1>1, PTL DEF CycleSpec

-----------------------------------------------------------------------------
(* What evidence vouches for, and what is kept of a commit that was let through. *)

Honest(e) ==
  e.signed => e.cites \subseteq ledger /\ (e.verdict => <<e.candidate, e.module>> \in contained)

Sound(c, x) ==
  Carries(x) => /\ ~EvidenceOnly(c, x) => x.cites # {} /\ x.cites \subseteq ledger
                /\ rung[c] = 3 => <<c, x.module>> \in contained

Vouched ==
  /\ seen \subseteq ledger
  /\ stage \in Bundled /\ bundle.verdict => <<cur, bundle.module>> \in contained
  /\ Honest(bundle.evidence)
  /\ \A c \in Candidates : Carries(branch[c]) => Honest(branch[c].evidence)
  /\ \A c \in Candidates : Sound(c, remote[c]) /\ Sound(c, base[c]) /\ Sound(c, fetched[c])
  /\ stage \in {"list", "push"} => ~Rejected(cur)

CycleInv == CycleTyped /\ Vouched

(* Neither the ledger nor the contained runs lose anything. *)
LEMMA Growth ==
  ASSUME ledger \subseteq ledger', contained \subseteq contained', rung' = rung
  PROVE  (\A e : Honest(e) => Honest(e)') /\ (\A c, x : Sound(c, x) => Sound(c, x)')
BY DEF Honest, Sound, EvidenceOnly

(* A branch that is not rejected is sound: it was checked, or the base has it. *)
LEMMA NotRejected ==
  ASSUME CycleInv, NEW c \in Candidates, ~Rejected(c)
  PROVE  Sound(c, branch[c])
<1> SUFFICES ASSUME Carries(branch[c]) PROVE Sound(c, branch[c])
  BY DEF Sound, EvidenceOnly
<1>1. CASE ~InRange(c)
  BY <1>1 DEF InRange, CycleInv, Vouched
<1>2. CASE InRange(c)
  <2>1. branch[c] \in Commits /\ branch[c].evidence \in Evidence
    BY Records DEF CycleInv, CycleTyped, CycleTypeOK, Commits
  <2>2. branch[c].evidence.signed
    BY <2>1, Records
  <2>3. ~EvidenceUnverified(c, branch[c]) /\ ~ContainmentUnverified(branch[c])
    BY <1>2 DEF Rejected, Violates
  <2>4. Honest(branch[c].evidence)
    BY DEF CycleInv, Vouched
  <2>5. rung[c] = 3 => branch[c].module # NoModule
    BY DEF CycleInv, CycleTyped, Staged
  <2> QED
    BY <2>2, <2>3, <2>4, <2>5 DEF Sound, Honest, EvidenceOnly, EvidenceUnverified, ContainmentUnverified
<1> QED
  BY <1>1, <1>2

LEMMA VouchedInit == CycleInit => Vouched
<1> SUFFICES ASSUME CycleInit PROVE Vouched
  OBVIOUS
<1>1. Honest(bundle.evidence) /\ ~bundle.verdict
  BY Records DEF CycleInit, Honest
<1>2. \A c \in Candidates : Sound(c, NoBranch)
  BY Records DEF Sound, EvidenceOnly
<1> QED
  BY <1>1, <1>2, Records DEF CycleInit, Vouched, Bundled

LEMMA VouchedStep == CycleInv /\ [CycleNext]_cycleVars => Vouched'
<1> SUFFICES ASSUME CycleInv, [CycleNext]_cycleVars PROVE Vouched'
  OBVIOUS
<1> USE DEF Vouched, Bundled
<1>0. CycleTyped /\ CycleTypeOK /\ Vouched /\ Staged
  BY DEF CycleInv, CycleTyped
<1>a. ASSUME Conclude, gaps # <<>>, UNCHANGED <<ledger, contained, key, rung, base, fetched, branch, remote>>
      PROVE  Vouched'
  <2>1. stage' = "next" /\ bundle' = EmptyBundle /\ seen' = seen
    BY <1>a, <1>0, Conclusion
  <2>2. Honest(EmptyBundle.evidence)'
    BY Records DEF Honest
  <2> QED
    BY <1>a, <1>0, <2>1, <2>2 DEF Honest, Sound, EvidenceOnly
<1>b. ASSUME UNCHANGED <<ledger, contained, key, rung, base, fetched, branch, remote, seen, bundle, gaps>>,
             stage' \notin {"list", "push"} \/ stage' = stage \/ ~Rejected(cur),
             stage' \in Bundled => stage \in Bundled
      PROVE  Vouched'
  <2>1. Rejected(cur)' <=> Rejected(cur)
    BY <1>b DEF Rejected, InRange, Violates, EvidenceUnverified, ContainmentUnverified, ModuleInvalid, cur, EvidenceOnly
  <2> QED
    BY <1>b, <1>0, <2>1 DEF Honest, Sound, cur, EvidenceOnly
<1>1. CASE StartCycle
  BY <1>1, <1>0 DEF StartCycle, Honest, Sound, EvidenceOnly
<1>2. CASE LoadSignals
  BY <1>2, <1>b DEF LoadSignals
<1>3. CASE Collect
  <2>1. ledger \subseteq ledger' /\ seen' \subseteq ledger' /\ stage' = "next"
    BY <1>3, <1>0 DEF Collect
  <2> QED
    BY <1>3, <1>0, <2>1, Growth DEF Collect
<1>4. CASE Author
  <2>1. bundle'.evidence = NoEvidence /\ bundle'.verdict = FALSE
    BY <1>4 DEF Author, EmptyBundle
  <2>2. Honest(bundle.evidence)'
    BY <2>1 DEF Honest, NoEvidence
  <2> QED
    BY <1>4, <1>0, <2>1, <2>2 DEF Author, Honest, Sound, EvidenceOnly
<1>5. CASE Expressed \/ NotAcceptable
  BY <1>5, <1>a DEF Expressed, NotAcceptable
<1>6. CASE Replay
  BY <1>6, <1>0, <1>a, <1>b DEF Replay, CycleTypeOK
<1>7. CASE Contain
  <2>1. bundle'.module = bundle.module /\ bundle'.evidence = bundle.evidence /\ cur' = cur
    BY <1>7, <1>0 DEF Contain, CycleTypeOK, Bundles, cur
  <2>2. <<cur, bundle.module>> \in contained' /\ contained \subseteq contained' /\ ledger' = ledger
    BY <1>7 DEF Contain
  <2> QED
    BY <1>7, <1>0, <2>1, <2>2, Growth DEF Contain
<1>8. CASE NotContained
  BY <1>8, <1>0, <1>a DEF NotContained, CycleTypeOK
<1>9. CASE EmitAndAttest
  <2>1. bundle'.verdict = bundle.verdict /\ bundle'.module = bundle.module /\ cur' = cur
    BY <1>9, <1>0 DEF EmitAndAttest, CycleTypeOK, Bundles, cur
  <2>2. bundle'.evidence = [signed |-> TRUE, candidate |-> cur, cites |-> bundle.cites,
                            redone |-> bundle.cites \cap corrected,
                            verdict |-> bundle.verdict, module |-> bundle.module, key |-> key]
    BY <1>9, <1>0 DEF EmitAndAttest, CycleTypeOK, Bundles
  <2>3. Honest(bundle.evidence)'
    BY <1>9, <1>0, <2>2 DEF EmitAndAttest, Resolves, Honest
  <2> QED
    BY <1>9, <1>0, <2>1, <2>3 DEF EmitAndAttest, Honest, Sound, EvidenceOnly
<1>10. CASE SyncBase
  BY <1>10, <1>0 DEF SyncBase, Honest, Sound, cur, EvidenceOnly
<1>11. CASE MakeBranch
  <2>1. \A c \in Candidates : Carries(branch'[c]) => branch'[c] = branch[c]
    BY <1>11, <1>0, Records, CurrentGap DEF MakeBranch, CycleTypeOK
  <2> QED
    BY <1>11, <1>0, <2>1 DEF MakeBranch, Honest, Sound, cur, EvidenceOnly
<1>12. CASE Commit
  <2>1. cur \in Candidates /\ branch'[cur].evidence = bundle.evidence
    BY <1>12, <1>0, CurrentGap DEF Commit, CycleTypeOK
  <2>2. \A c \in Candidates \ {cur} : branch'[c] = branch[c]
    BY <1>12, <1>0 DEF Commit, CycleTypeOK
  <2> QED
    BY <1>12, <1>0, <2>1, <2>2 DEF Commit, Honest, Sound, cur, EvidenceOnly
<1>13. CASE Check
  BY <1>13, <1>0, <1>a, <1>b DEF Check, CycleTypeOK
<1>14. CASE ListPRs
  BY <1>14, <1>0, <1>a, <1>b DEF ListPRs, CycleTypeOK
<1>15. CASE Push
  <2>1. cur \in Candidates /\ Sound(cur, branch[cur])
    BY <1>15, <1>0, CurrentGap, NotRejected DEF Push, CycleTypeOK
  <2>2. \A c \in Candidates : remote'[c] = IF c = cur THEN branch[cur] ELSE remote[c]
    BY <1>15, <1>0 DEF Push, CycleTypeOK
  <2>3. UNCHANGED <<ledger, contained, rung, base, fetched, branch, seen, bundle, gaps>> /\ stage' = "create"
    BY <1>15 DEF Push
  <2>4. \A c \in Candidates : Sound(c, remote[c])' /\ Sound(c, base[c])' /\ Sound(c, fetched[c])'
    <3> SUFFICES ASSUME NEW c \in Candidates
                 PROVE  Sound(c, remote[c])' /\ Sound(c, base[c])' /\ Sound(c, fetched[c])'
      OBVIOUS
    <3>1. Sound(c, remote'[c])
      BY <1>0, <2>1, <2>2
    <3> QED
      BY <1>0, <2>3, <3>1 DEF Sound, EvidenceOnly
  <2> QED
    BY <1>15, <1>0, <2>3, <2>4 DEF Push, Honest, cur
<1>16. CASE Create
  BY <1>16, <1>0, <1>a DEF Create, CycleTypeOK
<1>17. CASE ForgeFails \/ ForgeRefuses
  BY <1>17, <1>0, <1>a DEF ForgeFails, ForgeRefuses, CycleTypeOK
<1>18. CASE EndCycle \/ Abort \/ EvidenceUnresolved \/ CommitFails
  <2>1. NoCycle /\ UNCHANGED <<files, people, repository, forge, contained>>
    BY <1>18 DEF EndCycle, Abort, EvidenceUnresolved, CommitFails
  <2>2. Honest(EmptyBundle.evidence)'
    BY Records DEF Honest
  <2> QED
    BY <1>0, <2>1, <2>2 DEF NoCycle, Honest, Sound, EvidenceOnly
<1>19. CASE \E e \in Events : RecordChange(e) \/ RecordSignal(e) \/ Correct(e)
  <2>1. ledger \subseteq ledger' /\ UNCHANGED <<people, repository, forge, contained, cycle>>
    BY <1>19 DEF RecordChange, RecordSignal, Correct
  <2>2. Rejected(cur)' <=> Rejected(cur)
    BY <2>1 DEF Rejected, InRange, Violates, EvidenceUnverified, ContainmentUnverified, ModuleInvalid, cur, EvidenceOnly
  <2> QED
    BY <1>0, <2>1, <2>2, Growth DEF cur
<1>20. ASSUME NEW c \in Candidates, CloseOrMerge(c)
       PROVE  Vouched'
  <2>0. remote[c] \in Commits
    BY <1>20, <1>0, Records DEF CloseOrMerge, CycleTypeOK, CycleTyped, OpenCarries
  <2>1. \A d \in Candidates : base'[d] \in {base[d], remote[d]} \/ ~Carries(base'[d])
    BY <1>20, <1>0, <2>0, Records DEF CloseOrMerge, CycleTypeOK
  <2>2. \A d \in Candidates : Sound(d, base[d])'
    BY <1>20, <1>0, <2>1, Records DEF CloseOrMerge, Sound, EvidenceOnly
  <2>3. Rejected(cur)' <=> Rejected(cur)
    BY <1>20 DEF CloseOrMerge, Rejected, InRange, Violates, EvidenceUnverified, ContainmentUnverified, ModuleInvalid, cur, EvidenceOnly
  <2> QED
    BY <1>20, <1>0, <2>2, <2>3 DEF CloseOrMerge, Honest, Sound, cur, EvidenceOnly
<1>21. ASSUME NEW c \in Candidates, Deploy(c)
       PROVE  Vouched'
  BY <1>21, <1>b DEF Deploy
<1>22. ASSUME NEW c \in Candidates, Amend(c)
       PROVE  Vouched'
  <2>1. branch[c] \in Commits
    BY <1>22, <1>0, Records DEF Amend, CycleTypeOK
  <2>2. branch'[c].evidence = branch[c].evidence /\ Carries(branch[c])
    BY <1>22, <1>0, <2>1 DEF Amend, CycleTypeOK, Commits
  <2>3. \A d \in Candidates \ {c} : branch'[d] = branch[d]
    BY <1>22, <1>0 DEF Amend, CycleTypeOK
  <2> QED
    BY <1>22, <1>0, <2>2, <2>3 DEF Amend, Honest, Sound, EvidenceOnly
<1>23. ASSUME NEW c \in Candidates, DeleteBranch(c)
       PROVE  Vouched'
  <2>1. \A d \in Candidates : /\ Carries(branch'[d]) => branch'[d] = branch[d]
                              /\ Carries(remote'[d]) => remote'[d] = remote[d]
    BY <1>23, <1>0, Records DEF DeleteBranch, CycleTypeOK
  <2>2. UNCHANGED <<ledger, contained, rung, base, fetched, seen, bundle, gaps>> /\ stage' = "idle"
    BY <1>23 DEF DeleteBranch
  <2>3. \A d \in Candidates : Sound(d, remote[d])' /\ Sound(d, base[d])' /\ Sound(d, fetched[d])'
    <3> SUFFICES ASSUME NEW d \in Candidates
                 PROVE  Sound(d, remote[d])' /\ Sound(d, base[d])' /\ Sound(d, fetched[d])'
      OBVIOUS
    <3>1. Sound(d, remote'[d])
      <4>1. Sound(d, remote[d])
        BY <1>0
      <4> QED
        BY <2>1, <4>1 DEF Sound, EvidenceOnly
    <3> QED
      BY <1>0, <2>2, <3>1 DEF Sound, EvidenceOnly
  <2>4. \A d \in Candidates : Carries(branch'[d]) => Honest(branch[d].evidence)' /\ branch'[d] = branch[d]
    <3> SUFFICES ASSUME NEW d \in Candidates, Carries(branch'[d])
                 PROVE  Honest(branch[d].evidence)' /\ branch'[d] = branch[d]
      OBVIOUS
    <3>1. branch'[d] = branch[d] /\ Honest(branch[d].evidence)
      BY <1>0, <2>1
    <3> QED
      BY <2>2, <3>1 DEF Honest
  <2> QED
    BY <1>0, <2>2, <2>3, <2>4 DEF Honest
<1>24. CASE \E k \in EvidenceKeys : RotateKey(k)
  BY <1>24, <1>0 DEF RotateKey, Honest, Sound, EvidenceOnly
<1>25. CASE UNCHANGED cycleVars
  BY <1>25, <1>b DEF cycleVars
<1> QED
  BY <1>1, <1>2, <1>3, <1>4, <1>5, <1>6, <1>7, <1>8, <1>9, <1>10, <1>11, <1>12, <1>13, <1>14,
     <1>15, <1>16, <1>17, <1>18, <1>19, <1>20, <1>21, <1>22, <1>23, <1>24, <1>25 DEF CycleNext, Step

-----------------------------------------------------------------------------
(* In every reachable state the types hold and what was let through is sound. *)
THEOREM CycleInvariant == CycleSpec => []CycleInv
<1>1. CycleInit => CycleInv
  BY CycleTypeInit, VouchedInit DEF CycleInv
<1>2. CycleInv /\ [CycleNext]_cycleVars => CycleInv'
  <2> SUFFICES ASSUME CycleInv, [CycleNext]_cycleVars PROVE CycleInv'
    OBVIOUS
  <2>1. CycleTyped /\ CycleTyped'
    BY CycleTypeStep DEF CycleInv
  <2> QED
    BY <2>1, VouchedStep DEF CycleInv
<1> QED
  BY <1>1, <1>2, PTL DEF CycleSpec

(* run_cycle pushes a generated writer only after a sandbox run contained that very writer  *)
(* for that gap, whatever cycles authored, crashed, amended or rotated in between.          *)
THEOREM WriterWasContained == CycleSpec => []PushedWriterWasContained
<1>1. CycleInv => PushedWriterWasContained
  BY DEF CycleInv, Vouched, Sound, PushedWriterWasContained, EvidenceOnly
<1> QED
  BY <1>1, CycleInvariant, PTL

(* What open_pull_request pushed cites changes, and the ledger holds every one of them, but  *)
(* for a commit of evidence alone: attest_bundle's check survives the branch's later cycles. *)
THEOREM EvidenceResolves == CycleSpec => []PushedEvidenceResolves
<1>1. CycleInv => PushedEvidenceResolves
  BY DEF CycleInv, Vouched, Sound, PushedEvidenceResolves, EvidenceOnly
<1> QED
  BY <1>1, CycleInvariant, PTL

(* A step that leaves the remote alone pushes nothing. *)
LEMMA RemoteIsPushed ==
  ASSUME CycleInv, CycleNext
  PROVE  \/ UNCHANGED remote
         \/ Push
         \/ \E c \in Candidates : DeleteBranch(c)
<1> USE DEF forge
<1>1. CASE \/ StartCycle \/ LoadSignals \/ Collect \/ Author \/ Expressed \/ NotAcceptable \/ Replay
           \/ Contain \/ NotContained \/ EmitAndAttest \/ EvidenceUnresolved \/ CommitFails \/ SyncBase
  BY <1>1 DEF StartCycle, LoadSignals, Collect, Author, Expressed, NotAcceptable, Replay, Contain,
              NotContained, EmitAndAttest, EvidenceUnresolved, CommitFails, Abort, SyncBase
<1>2. CASE MakeBranch \/ Commit \/ Check \/ ListPRs \/ Create \/ ForgeRefuses \/ ForgeFails \/ EndCycle \/ Abort
  BY <1>2 DEF MakeBranch, Commit, Check, ListPRs, Create, ForgeRefuses, ForgeFails, EndCycle, Abort
<1>3. CASE \E e \in Events : RecordChange(e) \/ RecordSignal(e) \/ Correct(e)
  BY <1>3 DEF RecordChange, RecordSignal, Correct
<1>4. ASSUME NEW c \in Candidates, CloseOrMerge(c) \/ Deploy(c) \/ Amend(c)
      PROVE  UNCHANGED remote
  BY <1>4 DEF CloseOrMerge, Deploy, Amend
<1>5. CASE \E k \in EvidenceKeys : RotateKey(k)
  BY <1>5 DEF RotateKey
<1> QED
  BY <1>1, <1>2, <1>3, <1>4, <1>5 DEF CycleNext, Step

(* The branch check_agent_commits let through is the one open_pull_request pushes, under    *)
(* the key in use: nothing between the two, and no other step, changes what the remote has. *)
THEOREM WasChecked == CycleSpec => PushedWasChecked
<1>1. ASSUME CycleInv, [CycleNext]_cycleVars, NEW c \in Candidates,
             remote'[c] # remote[c], Carries(remote'[c])
      PROVE  ~Violates(c, remote'[c]) \/ remote'[c] = fetched[c]
  <2>0. CycleTyped /\ CycleTypeOK /\ Vouched
    BY <1>1 DEF CycleInv, CycleTyped
  <2>1. CycleNext /\ ~UNCHANGED remote
    BY <1>1 DEF cycleVars, forge
  <2>2. CASE Push
    <3>1. c = cur /\ remote'[c] = branch[c]
      BY <1>1, <2>0, <2>2 DEF Push, CycleTypeOK
    <3>2. ~Rejected(c)
      BY <2>0, <2>2, <3>1 DEF Push, Vouched
    <3> QED
      BY <1>1, <3>1, <3>2 DEF Rejected, InRange
  <2>3. ASSUME NEW d \in Candidates, DeleteBranch(d)
        PROVE  FALSE
    BY <1>1, <2>0, <2>3, Records DEF DeleteBranch, CycleTypeOK
  <2> QED
    BY <1>1, <2>1, <2>2, <2>3, RemoteIsPushed
<1>2. CycleInv /\ [CycleNext]_cycleVars
        => [\A c \in Candidates :
              /\ remote'[c] # remote[c] /\ Carries(remote'[c])
              => ~Violates(c, remote'[c]) \/ remote'[c] = fetched[c]]_cycleVars
  BY <1>1
<1> QED
  BY <1>2, CycleInvariant, PTL DEF CycleSpec, PushedWasChecked
=============================================================================
