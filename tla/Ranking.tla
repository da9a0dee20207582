------------------------------ MODULE Ranking ------------------------------
(***************************************************************************)
(* correlation/: the four features, their weighted sum, the order it puts  *)
(* the candidates in, and rank_stability's statement about that order;     *)
(* radius.py: the blast radius the first feature reads.                    *)
(*                                                                         *)
(* Feature values are integers in 0..Scale instead of floats in 0..1, and  *)
(* an age is a number of half-lives.  The weights keep their ratios.       *)
(***************************************************************************)
EXTENDS Integers, FiniteSets, Sequences, FiniteSetsExt

CONSTANTS
  Services,     \* the manifest's services
  DependsOn,    \* [Services -> SUBSET Services], depends_on
  AlertService, \* the alert's service
  MaxHops,      \* MAX_HOPS
  Attributes,   \* the events a collector may hand over
  Histories,    \* what the ledger may remember of earlier alerts
  Weightings,   \* the weight vectors config/weights.yaml may hold
  Priors,       \* priors.yaml's rows, in file order
  Default,      \* type_prior_default
  Span,         \* the window before the alert, in half-lives
  Count,        \* how many events the ledger holds (a bound)
  Scale         \* the integer that stands for 1.0

Features == {"radius_overlap", "temporal_proximity", "type_prior", "recurrence"}

ASSUME RankingAssumption ==
  /\ DependsOn \in [Services -> SUBSET Services]
  /\ MaxHops \in Nat /\ Scale \in Nat \ {0} /\ Default \in 0..Scale
  /\ Count \in Nat /\ Span \in Nat
  /\ Weightings \subseteq [Features -> Nat]
  /\ \A e \in Attributes : e.age \in Int
  /\ \A h \in Histories : Len(h) \in Nat
  /\ Len(Priors) \in Nat /\ \A n \in 1..Len(Priors) : Priors[n].level \in 0..Scale

VARIABLES
  events,    \* what the collectors handed over, by id
  history,   \* for each remembered alert of this signature, the shapes before it
  weights,   \* the loaded weights
  ranked,    \* the candidates, highest score first
  stability  \* rank_stability's answer

rankingVars == <<events, history, weights, ranked, stability>>

NotRanked == [decided |-> FALSE]
NoRanking == [decided |-> FALSE, ranked |-> TRUE]

---------------------------------------------------------------------------
(* The blast radius.                                                       *)

\* The services reached within n hops of depends_on.
Reached[n \in Nat] ==
  IF n = 0 THEN {AlertService}
  ELSE Reached[n - 1] \cup UNION {DependsOn[s] : s \in Reached[n - 1]}

Radius == IF AlertService \in Services THEN Reached[MaxHops] ELSE {}
Direct == Radius \cap {AlertService}

\* The ledger's answer: inside the radius, and in [fired_at - Span, fired_at).
Query == {i \in DOMAIN events :
            /\ events[i].owners \cap Radius # {}
            /\ 0 < events[i].age /\ events[i].age <= Span}

---------------------------------------------------------------------------
(* The features.  An event is the set of services its resource is keyed    *)
(* under, its age at the alert, its shape and whether a changed field has  *)
(* the name a qualifier asks for.                                          *)

RadiusOverlap(e) ==
  IF e.owners \cap Direct # {} THEN Scale
  ELSE IF e.owners \cap Radius # {} THEN Scale \div 2 ELSE 0

\* Scale halved once for each half-life, rounded down.
TemporalProximity(e) ==
  IF e.age < 0 THEN 0 ELSE Max({level \in 0..Scale : level * 2 ^ e.age <= Scale})

Matches(row, e) == row.shape = e.shape /\ (row.qualifier => e.qualified)

TypePrior(e) ==
  LET hits == {i \in 1..Len(Priors) : Matches(Priors[i], e)}
  IN IF hits = {} THEN Default ELSE Priors[Min(hits)].level

Recurrence(e) ==
  IF Len(history) = 0 THEN 0
  ELSE (Scale * Cardinality({i \in 1..Len(history) : e.shape \in history[i]}))
         \div Len(history)

FeaturesOf(e) ==
  [f \in Features |-> CASE f = "radius_overlap"     -> RadiusOverlap(e)
                        [] f = "temporal_proximity" -> TemporalProximity(e)
                        [] f = "type_prior"         -> TypePrior(e)
                        [] f = "recurrence"         -> Recurrence(e)]

Sum(w, x) ==
  w["radius_overlap"] * x["radius_overlap"] + w["temporal_proximity"] * x["temporal_proximity"]
    + w["type_prior"] * x["type_prior"] + w["recurrence"] * x["recurrence"]

---------------------------------------------------------------------------
(* The order.  The divisor is the same for every candidate, so the sums    *)
(* order as the scores do; ties go to the more recent, then to the id.     *)

Before(a, b) ==
  LET x == Sum(weights, FeaturesOf(events[a]))
      y == Sum(weights, FeaturesOf(events[b]))
  IN \/ x > y
     \/ x = y /\ events[a].age < events[b].age
     \/ x = y /\ events[a].age = events[b].age /\ a < b

\* The n-th candidate is the one that n - 1 others come before.
Scored ==
  [n \in 1..Cardinality(Query) |->
     CHOOSE i \in Query : Cardinality({k \in Query : Before(k, i)}) = n - 1]

---------------------------------------------------------------------------
(* rank_stability over a ranking `order`.  A weight it moves to is the     *)
(* fraction num/den.                                                       *)

Names == <<"radius_overlap", "recurrence", "temporal_proximity", "type_prior">>

Gap(order, j, f) == FeaturesOf(events[order[1]])[f] - FeaturesOf(events[order[j]])[f]

Lead(order, j) == Sum(weights, [f \in Features |-> Gap(order, j, f)])

\* Mutant: only the runner-up is compared with rank 1.
RunnerUpOnly(order) == IF Len(order) < 2 THEN {} ELSE {2}

Challengers(order) == 2..Len(order)

Dominant(order) ==
  \A j \in Challengers(order), f \in Features : Gap(order, j, f) >= 0

\* The draw that moving weight Names[i] reaches with challenger j.
Draw(order, j, i) ==
  LET f == Names[i]
      d == Gap(order, j, f)
      lead == Max({Lead(order, j), 0})
  IN IF d > 0 THEN [rank |-> j, name |-> i, lead |-> lead, den |-> d,
                    num |-> weights[f] * d - lead]
     ELSE [rank |-> j, name |-> i, lead |-> lead, den |-> -d,
           num |-> lead - weights[f] * d]

\* A negative weight is not one the scorer admits.
Draws(order) ==
  {draw \in {Draw(order, j, i) : j \in Challengers(order), i \in 1..Len(Names)} :
     draw.den > 0 /\ draw.num >= 0}

\* The loop keeps the first of the smallest changes.
Nearer(a, b) ==
  LET x == a.lead * b.den
      y == b.lead * a.den
  IN \/ x < y
     \/ x = y /\ a.rank < b.rank
     \/ x = y /\ a.rank = b.rank /\ a.name <= b.name

Nearest(order) ==
  CHOOSE draw \in Draws(order) : \A other \in Draws(order) : Nearer(draw, other)

Stability(order) ==
  CASE Len(order) < 2 -> NoRanking
    [] Len(order) >= 2 /\ Dominant(order) -> [dominant |-> TRUE, decided |-> TRUE]
    [] OTHER -> LET draw == Nearest(order)
                IN [dominant |-> FALSE, decided |-> TRUE, rank |-> draw.rank,
                    feature |-> Names[draw.name], num |-> draw.num, den |-> draw.den]

---------------------------------------------------------------------------
RankingInit ==
  /\ events \in UNION {[1..n -> Attributes] : n \in 0..Count}
  /\ history \in Histories
  /\ weights \in Weightings
  /\ ranked = <<>>
  /\ stability = NotRanked

\* One pass of _brief_from over what the collectors handed over.
Rank ==
  /\ stability = NotRanked /\ DOMAIN events # {}
  /\ ranked' = Scored
  /\ stability' = Stability(Scored)
  /\ UNCHANGED <<events, history, weights>>

\* The coverage watch folds a late event in and ranks the whole again.
FoldIn(e) ==
  /\ stability # NotRanked /\ Cardinality(DOMAIN events) < Count
  /\ events' = Append(events, e)
  /\ ranked' = <<>>
  /\ stability' = NotRanked
  /\ UNCHANGED <<history, weights>>

RankingNext == Rank \/ \E e \in Attributes : FoldIn(e)

RankingSpec == RankingInit /\ [][RankingNext]_rankingVars

---------------------------------------------------------------------------
(* The reference the property compares with: a score under any weights, a  *)
(* fraction p/q in place of one of them.                                   *)

Under(w, j) == Sum(w, FeaturesOf(events[ranked[j]]))

\* q times the lead of rank 1 over rank j when the weight of f is p/q.
LeadAt(j, f, p, q) ==
  LET x == FeaturesOf(events[ranked[1]])
      y == FeaturesOf(events[ranked[j]])
  IN q * (Under([weights EXCEPT ![f] = 0], 1) - Under([weights EXCEPT ![f] = 0], j))
       + p * (x[f] - y[f])

Differ(j, f) == Gap(ranked, j, f) # 0

\* The brief's "does rank 1 depend on the weights?" is answered exactly
\* (sensitivity.py): a ranking called dominant is first under every weighting
\* a grid holds, and otherwise the weight named brings the challenger named
\* exactly level, while no smaller move of any one weight, to a fraction of the
\* grid, lets any challenger it separates from rank 1 draw level.
StabilityIsExact ==
  stability.decided =>
    IF stability.dominant
    THEN \A w \in [Features -> 0..2], j \in 2..Len(ranked) : Under(w, 1) >= Under(w, j)
    ELSE /\ LeadAt(stability.rank, stability.feature, stability.num, stability.den) = 0
         /\ \A f \in Features, q \in {Scale - 1, Scale}, p \in 0..(12 * Scale), j \in 2..Len(ranked) :
              LET moved == weights[f] * q - p
                  said  == weights[stability.feature] * stability.den - stability.num
                  Size(x) == IF x < 0 THEN -x ELSE x
              IN Differ(j, f) /\ Size(moved) * stability.den < Size(said) * q
                   => LeadAt(j, f, p, q) > 0

=============================================================================
