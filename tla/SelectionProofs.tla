---------------------------- MODULE SelectionProofs ----------------------------
(***************************************************************************)
(* Proofs about Selection, for any agents, skills, queues and calls:       *)
(* SelectTypeOK, TagsSurvive, TurnsAreShared and RingsFirst.               *)
(*                                                                         *)
(* A step rings at most one agent, but from rows it has just changed: the  *)
(* parts of the invariant take the rows, the offer and the clock as        *)
(* parameters, so that one lemma says what Advance does from any of them.  *)
(* That round robin passes nobody over twice rests on the times of the     *)
(* last offers: whoever was passed over for a was offered before a was.    *)
(* That there is always one to ring rests on the order being total: times  *)
(* are numbers, and so is Score, a sum over a finite set of skills.        *)
(***************************************************************************)
EXTENDS Selection, FiniteSetTheorems, WellFoundedInduction, TLAPS

AgentRow ==
  [state: {"offline", "not_ready", "ready", "busy"}, since: Nat, seq: Nat, handled: Nat,
   lastOffered: Nat]

CallerRow ==
  [live: BOOLEAN, language: [base: Tongues, region: {"CH", ""}] \cup {NoOne},
   pinned: SUBSET Topics, preferred: Reps \cup {NoOne}, ai: {"none", "talking", "handed"}]

AskRow == [pc: {"idle", "tag", "ring"}, tags: SUBSET Topics, spoken: Language \cup {NoOne}]

\* Offer rows that ring one of V.
RingRow(V) ==
  [open: BOOLEAN, algorithm: RoutingAlgorithm, skills: SkillRequirement, callSkills: SUBSET Keys,
   relaxing: BOOLEAN, relaxed: BOOLEAN, preferred: Reps \cup {NoOne}, tried: SUBSET Reps,
   current: V, fallback: BOOLEAN, known: SUBSET Topics]

SelectTypes ==
  /\ config \in QueueConfig /\ userSkills \in UserSkill
  /\ catalogue \subseteq Topics /\ tool \subseteq Topics /\ tagged \subseteq Topics
  /\ reps \in [Reps -> AgentRow] /\ caller \in CallerRow /\ asking \in AskRow
  /\ \E V : ringing \in RingRow(V)
  /\ turn \in Nat /\ passed \in [Reps -> [Reps -> 0..2]]

\* The offer o asks for what the call was tagged with and what the configuration c
\* requires, but for what its relaxation dropped.
AsksEnough(o, c) ==
  /\ \A k \in o.callSkills : c.required[k] = 0
  /\ \A k \in Keys : k \in o.known \/ c.required[k] > 0 =>
       o.skills[k] > 0 \/ (o.relaxed /\ c.required[k] = 0)

\* An offer row of the live call, or none.
OfferInv(o, c) ==
  IF o.open THEN AsksEnough(o, c) /\ o.algorithm = c.algorithm ELSE o = NoRing

TagsInv ==
  /\ ~caller.live => caller = NoCaller /\ ringing = NoRing /\ asking = NotAsking
  /\ caller.live => tagged \subseteq caller.pinned
  /\ OfferInv(ringing, config)

\* Times lie before t, and nobody online connected at the same time as another.
Clock(rows, t) ==
  /\ \A a \in Reps : rows[a].lastOffered < t /\ rows[a].seq < t
  /\ \A a, b \in Reps : a # b /\ rows[a].state # "offline" /\ rows[b].state # "offline" =>
       rows[a].seq # rows[b].seq

\* Whoever was passed over for a is before a in the order.
InTurn(rows, p) ==
  \A a, b \in Reps :
    /\ p[b][a] < 2
    /\ p[b][a] > 0 => rows[a].state = "offline" \/ rows[b].lastOffered < rows[a].lastOffered

RingsOnline(o, rows) == o.current # NoOne => o.current \in Reps /\ rows[o.current].state # "offline"

InOrder(c, rows, t, p) == Clock(rows, t) /\ (c.algorithm = "round_robin" => InTurn(rows, p))

TurnsInv == InOrder(config, reps, turn, passed) /\ RingsOnline(ringing, reps)

SelectInv == SelectTypes /\ TagsInv /\ TurnsInv

-----------------------------------------------------------------------------
LEMMA Least ==
  ASSUME NEW S, S \subseteq Nat, S # {} PROVE \E m \in S : \A n \in S : m <= n
<1> DEFINE R == OpToRel(<, Nat)
<1>1. IsWellFoundedOn(R, Nat)
  BY NatLessThanWellFounded
<1>2. \A x, y \in Nat : x < y => <<x, y>> \in R
  BY DEF OpToRel
<1> HIDE DEF R
<1>3. PICK x \in S : \A y \in S : ~(<<y, x>> \in R)
  BY <1>1, WFMin
<1>4. \A n \in S : ~(n < x)
  BY <1>2, <1>3
<1> QED
  BY <1>4

-----------------------------------------------------------------------------
\* What Score folds: the sums of w over the subsets of S, each of an element and the sum of
\* the rest.
One(s) == CHOOSE x \in s : TRUE

Adds(g, w, D) ==
  \A s \in D : g[s] = IF s = {} THEN 0 ELSE w[One(s)] + g[s \ {One(s)}]

Sums(w, S) ==
  CHOOSE g : g = [s \in SUBSET S |-> IF s = {} THEN 0 ELSE w[One(s)] + g[s \ {One(s)}]]

\* The finite sets have sums, by the least size that had none.
LEMMA SumsExist ==
  ASSUME NEW S, IsFiniteSet(S), NEW w, \A k \in S : w[k] \in Nat
  PROVE  \E g \in [SUBSET S -> Nat] : Adds(g, w, SUBSET S)
<1> DEFINE Upto(n) == {s \in SUBSET S : Cardinality(s) <= n}
           Has(n) == \E g \in [Upto(n) -> Nat] : Adds(g, w, Upto(n))
           Bad == {n \in Nat : ~Has(n)}
<1>1. ASSUME NEW s \in SUBSET S
      PROVE  /\ IsFiniteSet(s) /\ Cardinality(s) \in Nat
             /\ Cardinality(s) = 0 <=> s = {}
             /\ s # {} => /\ One(s) \in s /\ s \ {One(s)} \in SUBSET S /\ w[One(s)] \in Nat
                          /\ Cardinality(s \ {One(s)}) = Cardinality(s) - 1
  <2>1. IsFiniteSet(s)
    BY FS_Subset
  <2>2. s # {} => One(s) \in s
    BY DEF One
  <2>3. Cardinality(s) \in Nat /\ (Cardinality(s) = 0 <=> s = {})
    BY <2>1, FS_CardinalityType, FS_EmptySet
  <2>4. s # {} => Cardinality(s \ {One(s)}) = Cardinality(s) - 1
    BY <2>1, <2>2, FS_RemoveElement
  <2> QED
    BY <2>1, <2>2, <2>3, <2>4
<1>u. ASSUME NEW n \in Nat, NEW s PROVE s \in Upto(n) <=> s \in SUBSET S /\ Cardinality(s) <= n
  OBVIOUS
<1>s. \A s \in SUBSET S : Cardinality(s) \in Nat /\ (Cardinality(s) = 0 <=> s = {})
  BY <1>1
<1> HIDE DEF Upto
<1>2. Has(0)
  <2> DEFINE g == [s \in Upto(0) |-> 0]
  <2>1. ASSUME NEW s \in Upto(0) PROVE s = {}
    <3>1. s \in SUBSET S /\ Cardinality(s) <= 0
      BY <1>u
    <3> QED
      BY <1>s, <3>1
  <2>2. g \in [Upto(0) -> Nat] /\ Adds(g, w, Upto(0))
    BY <2>1 DEF Adds
  <2> QED
    BY <2>2
<1>3. ASSUME NEW n \in Nat, Has(n) PROVE Has(n + 1)
  <2>1. PICK g \in [Upto(n) -> Nat] : Adds(g, w, Upto(n))
    BY <1>3
  <2> DEFINE h == [s \in Upto(n + 1) |-> IF s \in Upto(n) THEN g[s] ELSE w[One(s)] + g[s \ {One(s)}]]
  <2>2. ASSUME NEW s \in Upto(n) PROVE s \in Upto(n + 1)
    <3>1. s \in SUBSET S /\ Cardinality(s) <= n
      BY <1>u
    <3>2. Cardinality(s) <= n + 1
      BY <1>s, <3>1
    <3> QED
      BY <1>u, <3>1, <3>2
  <2>3. ASSUME NEW s \in Upto(n + 1), s # {}
        PROVE  s \ {One(s)} \in Upto(n) /\ w[One(s)] \in Nat
    <3>1. s \in SUBSET S /\ Cardinality(s) <= n + 1
      BY <1>u
    <3>2. s \ {One(s)} \in SUBSET S /\ w[One(s)] \in Nat /\ Cardinality(s \ {One(s)}) = Cardinality(s) - 1
      BY <1>1, <2>3, <3>1
    <3>3. Cardinality(s \ {One(s)}) <= n
      BY <1>s, <3>1, <3>2
    <3> QED
      BY <1>u, <3>2, <3>3
  <2>4. {} \in Upto(n)
    <3>1. {} \in SUBSET S /\ Cardinality({}) = 0
      BY <1>s
    <3> QED
      BY <1>u, <3>1
  <2>5. h \in [Upto(n + 1) -> Nat]
    <3>1. ASSUME NEW s \in Upto(n + 1)
          PROVE  (IF s \in Upto(n) THEN g[s] ELSE w[One(s)] + g[s \ {One(s)}]) \in Nat
      <4>1. CASE s \in Upto(n)
        BY <2>1, <4>1
      <4>2. CASE s \notin Upto(n)
        <5>1. s # {}
          BY <2>4, <4>2
        <5>2. w[One(s)] \in Nat /\ g[s \ {One(s)}] \in Nat
          BY <2>1, <2>3, <5>1
        <5> QED
          BY <4>2, <5>2
      <4> QED
        BY <4>1, <4>2
    <3> QED
      BY <3>1
  <2>6. ASSUME NEW s \in Upto(n + 1)
        PROVE  h[s] = IF s = {} THEN 0 ELSE w[One(s)] + h[s \ {One(s)}]
    <3>1. CASE s = {}
      <4>1. h[s] = g[s] /\ g[s] = 0
        BY <2>1, <2>4, <3>1 DEF Adds
      <4> QED
        BY <3>1, <4>1
    <3>2. CASE s # {}
      <4>1. s \ {One(s)} \in Upto(n)
        BY <2>3, <3>2
      <4>2. h[s \ {One(s)}] = g[s \ {One(s)}]
        BY <2>2, <4>1
      <4>3. h[s] = w[One(s)] + g[s \ {One(s)}]
        <5>1. CASE s \in Upto(n)
          BY <2>1, <3>2, <5>1 DEF Adds
        <5>2. CASE s \notin Upto(n)
          BY <5>2
        <5> QED
          BY <5>1, <5>2
      <4> QED
        BY <3>2, <4>2, <4>3
    <3> QED
      BY <3>1, <3>2
  <2> HIDE DEF h
  <2>7. Adds(h, w, Upto(n + 1))
    BY <2>6 DEF Adds
  <2> QED
    BY <2>5, <2>7
<1> HIDE DEF Has
<1>4. Bad = {}
  <2> SUFFICES ASSUME Bad # {} PROVE FALSE
    OBVIOUS
  <2>1. PICK m \in Bad : \A n \in Bad : m <= n
    <3>1. Bad \subseteq Nat
      OBVIOUS
    <3> HIDE DEF Bad
    <3> QED
      BY <3>1, Least
  <2>2. CASE m = 0
    BY <1>2, <2>1, <2>2
  <2>3. CASE m # 0
    <3>1. (m - 1) \in Nat /\ (m - 1) + 1 = m /\ m - 1 < m
      BY <2>1, <2>3
    <3>2. Has(m - 1)
      BY <2>1, <3>1
    <3> QED
      BY <1>3, <2>1, <3>1, <3>2
  <2> QED
    BY <2>2, <2>3
<1>5. Cardinality(S) \in Nat /\ Upto(Cardinality(S)) = SUBSET S
  <2>1. Cardinality(S) \in Nat
    BY FS_CardinalityType
  <2>2. \A s \in SUBSET S : Cardinality(s) <= Cardinality(S)
    BY FS_Subset
  <2> QED
    BY <1>u, <2>1, <2>2
<1>6. Has(Cardinality(S))
  BY <1>4, <1>5
<1> QED
  BY <1>5, <1>6 DEF Has

\* The sum of a finite set of numbers is what the fold says, and a number.
LEMMA SumsNat ==
  ASSUME NEW S, IsFiniteSet(S), NEW w, \A k \in S : w[k] \in Nat
  PROVE  /\ Sums(w, S) = [s \in SUBSET S |-> IF s = {} THEN 0
                                             ELSE w[One(s)] + Sums(w, S)[s \ {One(s)}]]
         /\ \A s \in SUBSET S : Sums(w, S)[s] \in Nat
<1> DEFINE Eq(g) == g = [s \in SUBSET S |-> IF s = {} THEN 0 ELSE w[One(s)] + g[s \ {One(s)}]]
           G == Sums(w, S)
<1>1. \E g : Eq(g)
  <2>1. PICK g \in [SUBSET S -> Nat] : Adds(g, w, SUBSET S)
    BY SumsExist
  <2>2. Eq(g)
    BY <2>1 DEF Adds
  <2> QED
    BY <2>2
<1>2. G = CHOOSE g : Eq(g)
  BY DEF Sums
<1>3. Eq(G)
  <2> HIDE DEF Eq, G
  <2> QED
    BY <1>1, <1>2
<1> HIDE DEF G
<1>4. \A s \in SUBSET S : G[s] = IF s = {} THEN 0 ELSE w[One(s)] + G[s \ {One(s)}]
  BY <1>3
<1> DEFINE Bad == {s \in SUBSET S : G[s] \notin Nat}
           Sizes == {Cardinality(s) : s \in Bad}
<1>5. ASSUME NEW s \in Bad PROVE \E r \in Bad : Cardinality(r) < Cardinality(s)
  <2>1. IsFiniteSet(s) /\ s # {} /\ G[s] \notin Nat
    <3>1. s \in SUBSET S /\ G[s] \notin Nat
      BY <1>5
    <3>2. G[s] = IF s = {} THEN 0 ELSE w[One(s)] + G[s \ {One(s)}]
      BY <1>4, <3>1
    <3> QED
      BY <3>1, <3>2, FS_Subset
  <2>2. One(s) \in s
    BY <2>1 DEF One
  <2>3. Cardinality(s \ {One(s)}) = Cardinality(s) - 1 /\ Cardinality(s) \in Nat
    BY <2>1, <2>2, FS_RemoveElement, FS_CardinalityType
  <2>4. s \ {One(s)} \in Bad
    <3>1. s \in SUBSET S /\ s \ {One(s)} \in SUBSET S /\ w[One(s)] \in Nat
      BY <1>5, <2>2
    <3>2. G[s] = w[One(s)] + G[s \ {One(s)}]
      BY <1>4, <2>1, <3>1
    <3> QED
      BY <2>1, <3>1, <3>2
  <2> QED
    BY <2>3, <2>4
<1>6. Sizes \subseteq Nat
  BY FS_Subset, FS_CardinalityType
<1>7. Bad = {}
  <2> SUFFICES ASSUME Sizes # {} PROVE FALSE
    OBVIOUS
  <2>1. PICK m \in Sizes : \A n \in Sizes : m <= n
    <3> HIDE DEF Sizes
    <3> QED
      BY <1>6, Least
  <2>2. PICK s \in Bad : Cardinality(s) = m
    BY <2>1
  <2>3. PICK r \in Bad : Cardinality(r) < m
    BY <1>5, <2>2
  <2> QED
    BY <1>6, <2>1, <2>3
<1> QED
  BY <1>3, <1>7 DEF G

LEMMA KeysFinite == IsFiniteSet(Keys)
<1> DEFINE L == {LangSkill(l) : l \in Tongues}
           f == [l \in Tongues |-> LangSkill(l)]
<1>1. IsFiniteSet(L)
  <2>1. f \in Surjection(Tongues, L)
    BY DEF Surjection
  <2> QED
    BY <2>1, FS_Surjection, SelectionAssumption
<1> HIDE DEF L
<1>2. IsFiniteSet(Topics \cup L)
  BY <1>1, FS_Union, SelectionAssumption
<1> QED
  BY <1>2 DEF Keys, L

\* A Score adds proficiencies.
LEMMA ScoreNat ==
  ASSUME NEW a \in Reps, NEW o, userSkills \in UserSkill
  PROVE  Score(a, o) \in Nat
<1> DEFINE asked == {k \in Keys : o.skills[k] > 0}
           S == IF asked = {} THEN Keys ELSE asked
           w == userSkills[a]
<1>1. Score(a, o) = Sums(w, S)[S]
  BY DEF Score, MapThenSumSet, MapThenFoldSet, Sums, One
<1>2. IsFiniteSet(S) /\ \A k \in S : w[k] \in Nat
  <2>1. asked \subseteq Keys /\ IsFiniteSet(Keys)
    BY KeysFinite
  <2>2. \A k \in Keys : w[k] \in 0..2
    BY DEF UserSkill
  <2> HIDE DEF asked, w
  <2> QED
    BY <2>1, <2>2, FS_Subset
<1> HIDE DEF S, w
<1>3. S \in SUBSET S
  OBVIOUS
<1>4. Sums(w, S)[S] \in Nat
  BY <1>2, <1>3, SumsNat
<1>5. Score(a, o) = Sums(w, S)[S]
  BY <1>1 DEF S, w
<1> QED
  BY <1>4, <1>5

-----------------------------------------------------------------------------
\* The order in which the agents are rung.
Before(rows, o, a, b) ==
  \/ Rank(rows, o, a) < Rank(rows, o, b)
  \/ Rank(rows, o, a) = Rank(rows, o, b) /\ rows[a].seq < rows[b].seq

LEMMA RankInt ==
  ASSUME NEW rows \in [Reps -> AgentRow], NEW o, o.algorithm \in RoutingAlgorithm,
         userSkills \in UserSkill, NEW a \in Reps
  PROVE  Rank(rows, o, a) \in Int /\ rows[a].seq \in Int
<1>1. Score(a, o) \in Nat
  BY ScoreNat
<1>2. rows[a].since \in Nat /\ rows[a].handled \in Nat /\ rows[a].lastOffered \in Nat /\ rows[a].seq \in Nat
  BY DEF AgentRow
<1> QED
  BY <1>1, <1>2 DEF Rank, RoutingAlgorithm

\* Every algorithm has one to ring: the call's own agent, or else the first in the order.
LEMMA FirstIsRung ==
  ASSUME NEW rows \in [Reps -> AgentRow], NEW o, o.algorithm \in RoutingAlgorithm,
         userSkills \in UserSkill, NEW pool, pool \subseteq Reps, pool # {},
         \A a, b \in pool : a # b => rows[a].seq # rows[b].seq
  PROVE  /\ Candidate(rows, o, pool) \in pool
         /\ Candidate(rows, o, pool) # o.preferred =>
              o.preferred \notin pool
              /\ \A b \in pool \ {Candidate(rows, o, pool)} : Before(rows, o, Candidate(rows, o, pool), b)
<1> DEFINE First(a) == \A b \in pool \ {a} : Before(rows, o, a, b)
           Ahead(a) == {b \in pool : Before(rows, o, b, a)}
           Sizes == {Cardinality(Ahead(a)) : a \in pool}
<1>1. ASSUME NEW a \in pool PROVE Rank(rows, o, a) \in Int /\ rows[a].seq \in Int
  BY RankInt
<1>2. ASSUME NEW a \in pool, NEW b \in pool
      PROVE  /\ a # b => Before(rows, o, a, b) \/ Before(rows, o, b, a)
             /\ ~Before(rows, o, a, a)
  BY <1>1 DEF Before
<1>3. ASSUME NEW a \in pool, NEW b \in pool, NEW c \in pool,
             Before(rows, o, c, b), Before(rows, o, b, a)
      PROVE  Before(rows, o, c, a)
  BY <1>1, <1>3 DEF Before
<1>4. \A a \in pool : IsFiniteSet(Ahead(a)) /\ Cardinality(Ahead(a)) \in Nat
  BY SelectionAssumption, FS_Subset, FS_CardinalityType
<1>5. PICK m \in Sizes : \A n \in Sizes : m <= n
  <2>1. Sizes \subseteq Nat /\ Sizes # {}
    BY <1>4
  <2> HIDE DEF Sizes
  <2> QED
    BY <2>1, Least
<1>6. PICK a \in pool : Cardinality(Ahead(a)) = m
  BY <1>5
<1>7. Ahead(a) = {}
  <2> SUFFICES ASSUME NEW b \in Ahead(a) PROVE FALSE
    OBVIOUS
  <2>1. b \in pool /\ Before(rows, o, b, a)
    OBVIOUS
  <2>2. Ahead(b) \subseteq Ahead(a) /\ b \notin Ahead(b)
    BY <1>2, <1>3, <2>1
  <2>3. Cardinality(Ahead(b)) < Cardinality(Ahead(a))
    <3>1. Ahead(b) # Ahead(a)
      BY <2>2
    <3>2. /\ Ahead(b) \in SUBSET Ahead(a) /\ IsFiniteSet(Ahead(a))
          /\ Cardinality(Ahead(a)) \in Nat /\ Cardinality(Ahead(b)) \in Nat
      BY <1>4, <2>1, <2>2
    <3> HIDE DEF Ahead
    <3>3. Cardinality(Ahead(b)) <= Cardinality(Ahead(a))
          /\ (Cardinality(Ahead(a)) = Cardinality(Ahead(b)) => Ahead(a) = Ahead(b))
      BY <3>2, FS_Subset
    <3> QED
      BY <3>1, <3>2, <3>3
  <2>4. m <= Cardinality(Ahead(b))
    BY <1>5, <2>1
  <2> QED
    BY <1>4, <1>6, <2>1, <2>3, <2>4
<1>8. First(a)
  BY <1>2, <1>7
<1> DEFINE n == CHOOSE x \in pool : First(x)
<1>9. n \in pool /\ First(n)
  <2> HIDE DEF First
  <2> QED
    BY <1>8
<1>10. Candidate(rows, o, pool) = IF o.preferred \in pool THEN o.preferred ELSE n
  BY DEF Candidate, Before
<1> HIDE DEF n
<1> QED
  BY <1>9, <1>10

-----------------------------------------------------------------------------
\* What Advance can come to.
Waits(rows, o) == ringing' = o /\ reps' = rows /\ UNCHANGED <<caller, turn, passed>>

Rings(rows, o, pool) == pool # {} /\ RingNext(rows, o, pool)

LEMMA Relaxed ==
  ASSUME NEW V, NEW o \in RingRow(V), NEW c \in QueueConfig, o.open, AsksEnough(o, c)
  PROVE  /\ Relax(o) \in RingRow(V) /\ Relax(o).open /\ Relax(o).algorithm = o.algorithm
         /\ AsksEnough(Relax(o), c)
<1> DEFINE skills == [k \in Keys |-> IF k \in o.callSkills THEN 0 ELSE o.skills[k]]
           r == [o EXCEPT !.skills = skills, !.relaxing = FALSE, !.relaxed = TRUE]
<1>1. Relax(o) = r
  BY DEF Relax
<1>2. skills \in SkillRequirement
  BY DEF RingRow, SkillRequirement
<1>3. r \in RingRow(V) /\ r.open /\ r.algorithm = o.algorithm /\ r.skills = skills /\ r.relaxed
      /\ r.callSkills = o.callSkills /\ r.known = o.known
  <2> HIDE DEF skills
  <2> QED
    BY <1>2 DEF RingRow
<1> HIDE DEF r
<1>4. AsksEnough(r, c)
  BY <1>3 DEF AsksEnough
<1> QED
  BY <1>1, <1>3, <1>4

LEMMA Outcomes ==
  ASSUME NEW V, NEW row \in RingRow(V), NEW c \in QueueConfig, row.open, AsksEnough(row, c),
         NEW rows, NEW tried \in SUBSET Reps, Advance(rows, row, tried)
  PROVE  \E o \in RingRow(V \cup {NoOne}) :
           /\ o.open /\ o.algorithm = row.algorithm /\ o.current = NoOne /\ AsksEnough(o, c)
           /\ \/ GiveUp(rows, o) \/ Waits(rows, o) \/ Rings(rows, o, Eligible(rows, o, o.tried))
<1>1. PICK due \in {row.relaxing, FALSE}, late \in {row.fallback, FALSE} :
        LET o == [IF due THEN Relax(row) ELSE row EXCEPT !.tried = tried, !.current = NoOne]
            pool == Eligible(rows, o, tried)
        IN  IF late \/ (pool = {} /\ ~o.relaxing) THEN GiveUp(rows, o)
            ELSE IF pool = {} THEN ringing' = o /\ reps' = rows /\ UNCHANGED <<caller, turn, passed>>
            ELSE RingNext(rows, o, pool)
  BY DEF Advance
<1> DEFINE r == IF due THEN Relax(row) ELSE row
           o == [r EXCEPT !.tried = tried, !.current = NoOne]
           pool == Eligible(rows, o, tried)
<1>2. GiveUp(rows, o) \/ Waits(rows, o) \/ Rings(rows, o, pool)
  BY <1>1 DEF Waits, Rings
<1>4. r \in RingRow(V) /\ r.open /\ r.algorithm = row.algorithm /\ AsksEnough(r, c)
  BY Relaxed
<1> HIDE DEF r
<1>5. o \in RingRow(V \cup {NoOne}) /\ o.open /\ o.algorithm = r.algorithm /\ o.current = NoOne
      /\ o.callSkills = r.callSkills /\ o.skills = r.skills /\ o.relaxed = r.relaxed
      /\ o.known = r.known /\ o.tried = tried
  BY <1>4 DEF RingRow
<1>7. pool = Eligible(rows, o, o.tried)
  BY <1>5
<1> HIDE DEF o, pool
<1>6. AsksEnough(o, c)
  BY <1>4, <1>5 DEF AsksEnough
<1> QED
  BY <1>2, <1>4, <1>5, <1>6, <1>7

LEMMA EligibleAre ==
  ASSUME NEW rows, NEW o, NEW tried
  PROVE  Eligible(rows, o, tried) \in SUBSET Reps
         /\ \A a \in Eligible(rows, o, tried) : rows[a].state = "ready"
  BY DEF Eligible

-----------------------------------------------------------------------------
\* What an advance of a live call leaves: the types and the tags,
LEMMA AdvanceTags ==
  ASSUME SelectTypes, TagsInv, caller.live, config' = config, tagged' = tagged,
         NEW V, NEW row \in RingRow(V), row.open, AsksEnough(row, config),
         row.algorithm = config.algorithm,
         NEW rows \in [Reps -> AgentRow], NEW tried \in SUBSET Reps, Advance(rows, row, tried)
  PROVE  /\ reps' \in [Reps -> AgentRow] /\ caller' \in CallerRow /\ caller'.live
         /\ \E W : ringing' \in RingRow(W)
         /\ turn' \in Nat /\ passed' \in [Reps -> [Reps -> 0..2]]
         /\ OfferInv(ringing, config)'
         /\ tagged' \subseteq caller'.pinned
<1>1. PICK o \in RingRow(V \cup {NoOne}) :
        /\ o.open /\ o.algorithm = row.algorithm /\ o.current = NoOne /\ AsksEnough(o, config)
        /\ \/ GiveUp(rows, o) \/ Waits(rows, o) \/ Rings(rows, o, Eligible(rows, o, o.tried))
  <2>1. config \in QueueConfig
    BY DEF SelectTypes
  <2> QED
    BY <2>1, Outcomes
<1>2. CASE GiveUp(rows, o)
  <2> DEFINE who == [caller EXCEPT !.ai = IF o.fallback THEN "talking" ELSE @]
  <2>1. who \in CallerRow /\ who.live = caller.live /\ who.pinned = caller.pinned
    BY DEF SelectTypes, CallerRow
  <2> HIDE DEF who
  <2>2. caller' = who /\ ringing' = NoRing /\ reps' = rows /\ UNCHANGED <<turn, passed>>
    BY <1>2 DEF GiveUp, who
  <2>3. ~NoRing.open /\ NoRing \in RingRow({NoOne})
    BY DEF NoRing, RingRow, RoutingAlgorithm, SkillRequirement
  <2> QED
    BY <2>1, <2>2, <2>3 DEF SelectTypes, TagsInv, OfferInv
<1>3. CASE Waits(rows, o)
  BY <1>1, <1>3 DEF Waits, SelectTypes, TagsInv, OfferInv
<1>4. ASSUME NEW pool \in SUBSET Reps, Rings(rows, o, pool)
      PROVE  /\ reps' \in [Reps -> AgentRow] /\ caller' = caller
             /\ \E W : ringing' \in RingRow(W)
             /\ turn' \in Nat /\ passed' \in [Reps -> [Reps -> 0..2]]
             /\ OfferInv(ringing, config)'
  <2> DEFINE n == Candidate(rows, o, pool)
  <2>1. /\ ringing' = [o EXCEPT !.current = n] /\ reps' = [rows EXCEPT ![n].lastOffered = turn]
        /\ passed' = Passed(o, pool, n) /\ turn' = turn + 1 /\ caller' = caller
    BY <1>4 DEF Rings, RingNext, Turn
  <2> HIDE DEF n
  <2>2. turn \in Nat
    BY DEF SelectTypes
  <2>3. reps' \in [Reps -> AgentRow]
    BY <2>1, <2>2 DEF AgentRow
  <2>4. Passed(o, pool, n) \in [Reps -> [Reps -> 0..2]]
    <3>1. ASSUME NEW b \in Reps
          PROVE  (IF b = n THEN [a \in Reps |-> 0]
                  ELSE IF b \in pool /\ n # o.preferred
                       THEN [passed[b] EXCEPT ![n] = IF @ = 2 THEN 2 ELSE @ + 1] ELSE passed[b])
                   \in [Reps -> 0..2]
      <4>1. passed[b] \in [Reps -> 0..2]
        BY DEF SelectTypes
      <4>2. [passed[b] EXCEPT ![n] = IF @ = 2 THEN 2 ELSE @ + 1] \in [Reps -> 0..2]
        <5> DEFINE v == IF passed[b][n] = 2 THEN 2 ELSE passed[b][n] + 1
        <5>1. n \in Reps => v \in 0..2
          BY <4>1
        <5> HIDE DEF v
        <5>2. [passed[b] EXCEPT ![n] = v] \in [Reps -> 0..2]
          BY <4>1, <5>1
        <5> QED
          BY <5>2 DEF v
      <4> QED
        BY <4>1, <4>2
    <3> QED
      BY <3>1 DEF Passed
  <2> DEFINE r == [o EXCEPT !.current = n]
  <2>5. r \in RingRow(V \cup {NoOne, n}) /\ r.open /\ r.algorithm = o.algorithm
        /\ r.callSkills = o.callSkills /\ r.skills = o.skills /\ r.relaxed = o.relaxed
        /\ r.known = o.known
    BY <1>1 DEF RingRow
  <2> HIDE DEF r
  <2>6. AsksEnough(r, config)
    BY <1>1, <2>5 DEF AsksEnough
  <2>7. ringing' = r
    BY <2>1 DEF r
  <2>8. AsksEnough(ringing', config') /\ ringing'.open /\ ringing'.algorithm = config'.algorithm
    BY <1>1, <2>5, <2>6, <2>7
  <2>9. OfferInv(ringing, config)'
    BY <2>8 DEF OfferInv
  <2>10. turn' \in Nat
    BY <2>1, <2>2
  <2> QED
    BY <2>1, <2>3, <2>4, <2>5, <2>7, <2>9, <2>10
<1>5. ASSUME NEW pool \in SUBSET Reps, Rings(rows, o, pool)
      PROVE  caller' \in CallerRow /\ caller'.live /\ tagged' \subseteq caller'.pinned
  BY <1>4, <1>5 DEF SelectTypes, TagsInv
<1> QED
  BY <1>1, <1>2, <1>3, <1>4, <1>5, EligibleAre

\* Whom a step rings could be rung before it: ready, untried and skilled, and either the
\* call's own agent or the first of all such by the queue's algorithm (Routing.candidate).
RingsFirst ==
  ringing'.current # NoOne /\ ringing' # ringing =>
    LET n == ringing'.current
        waiting == [a \in Reps |-> [reps'[a] EXCEPT !.lastOffered = reps[a].lastOffered]]
        pool == Eligible(waiting, ringing', ringing'.tried)
    IN  /\ n \in pool
        /\ n # ringing'.preferred =>
             ringing'.preferred \notin pool
             /\ \A b \in pool \ {n} : Before(waiting, ringing', n, b)

\* Whatever advance() decides keeps the turns, where a ring of the call's own agent counts for
\* nobody's, and rings who is first.
LEMMA AdvanceTurns ==
  ASSUME SelectTypes, config' = config,
         NEW V, NEW row \in RingRow(V), row.open, AsksEnough(row, config),
         row.algorithm = config.algorithm, NEW rows \in [Reps -> AgentRow],
         InOrder(config, rows, turn, passed),
         \A a \in Reps : rows[a].state # "offline" => rows[a].lastOffered = reps[a].lastOffered,
         NEW tried \in SUBSET Reps, Advance(rows, row, tried)
  PROVE  InOrder(config, reps, turn, passed)' /\ RingsOnline(ringing, reps)' /\ RingsFirst
<1>1. PICK o \in RingRow(V \cup {NoOne}) :
        /\ o.open /\ o.algorithm = row.algorithm /\ o.current = NoOne /\ AsksEnough(o, config)
        /\ \/ GiveUp(rows, o) \/ Waits(rows, o) \/ Rings(rows, o, Eligible(rows, o, o.tried))
  <2>1. config \in QueueConfig
    BY DEF SelectTypes
  <2> QED
    BY <2>1, Outcomes
<1>2. CASE GiveUp(rows, o)
  <2>1. NoRing.current = NoOne
    BY DEF NoRing
  <2> QED
    BY <1>2, <2>1 DEF GiveUp, RingsOnline, InOrder, RingsFirst
<1>3. CASE Waits(rows, o)
  BY <1>1, <1>3 DEF Waits, RingsOnline, InOrder, RingsFirst
<1>4. ASSUME NEW pool, pool = Eligible(rows, o, o.tried), Rings(rows, o, pool)
      PROVE  InOrder(config, reps, turn, passed)' /\ RingsOnline(ringing, reps)' /\ RingsFirst
  <2> DEFINE n == Candidate(rows, o, pool)
  <2>0. pool \in SUBSET Reps /\ (\A a \in pool : rows[a].state = "ready") /\ Clock(rows, turn)
        /\ userSkills \in UserSkill /\ o.algorithm \in RoutingAlgorithm
    BY <1>4, EligibleAre DEF InOrder, SelectTypes, RingRow
  <2>1. /\ ringing' = [o EXCEPT !.current = n] /\ reps' = [rows EXCEPT ![n].lastOffered = turn]
        /\ passed' = Passed(o, pool, n) /\ turn' = turn + 1 /\ pool # {}
    BY <1>4 DEF Rings, RingNext, Turn
  <2>2. n \in pool
        /\ (n # o.preferred => o.preferred \notin pool
                               /\ \A b \in pool \ {n} : Before(rows, o, n, b))
    <3>1. \A a, b \in pool : a # b => rows[a].seq # rows[b].seq
      BY <2>0 DEF Clock
    <3> QED
      BY <2>0, <2>1, <3>1, FirstIsRung
  <2> HIDE DEF n
  <2>3. /\ n \in Reps /\ turn \in Nat /\ passed \in [Reps -> [Reps -> 0..2]]
        /\ rows[n].state = "ready"
    BY <2>0, <2>2 DEF SelectTypes
  <2>4. \A a \in Reps : /\ rows[a].lastOffered \in Nat /\ rows[a].seq \in Nat
                        /\ reps'[a].seq = rows[a].seq /\ reps'[a].state = rows[a].state
                        /\ reps'[a].lastOffered = (IF a = n THEN turn ELSE rows[a].lastOffered)
    BY <2>1, <2>3 DEF AgentRow
  <2>5. Clock(reps', turn')
    BY <2>0, <2>1, <2>3, <2>4 DEF Clock
  <2>6. ASSUME InTurn(rows, passed), config.algorithm = "round_robin", NEW a \in Reps, NEW b \in Reps
        PROVE  /\ passed'[b][a] < 2
               /\ passed'[b][a] > 0 =>
                    reps'[a].state = "offline" \/ reps'[b].lastOffered < reps'[a].lastOffered
    <3>1. passed'[b] = IF b = n THEN [x \in Reps |-> 0]
                       ELSE IF b \in pool /\ n # o.preferred
                            THEN [passed[b] EXCEPT ![n] = IF @ = 2 THEN 2 ELSE @ + 1] ELSE passed[b]
      BY <2>1 DEF Passed
    <3>2. CASE b = n
      BY <3>1, <3>2
    <3>3. CASE b # n /\ a # n
      <4>1. passed'[b][a] = passed[b][a]
        BY <2>3, <3>1, <3>3
      <4> QED
        BY <2>4, <2>6, <3>3, <4>1 DEF InTurn
    <3>4. CASE b # n /\ a = n
      <4>1. reps'[b].lastOffered < reps'[a].lastOffered
        BY <2>0, <2>3, <2>4, <3>4 DEF Clock
      <4>2. ASSUME b \in pool, n # o.preferred PROVE passed[b][n] = 0
        <5>1. Rank(rows, o, n) = rows[n].lastOffered /\ Rank(rows, o, b) = rows[b].lastOffered
          BY <1>1, <2>6 DEF Rank
        <5>2. rows[n].lastOffered <= rows[b].lastOffered
          BY <2>2, <2>3, <2>4, <3>4, <4>2, <5>1 DEF Before
        <5> QED
          BY <2>3, <2>4, <2>6, <5>2 DEF InTurn
      <4>3. passed'[b][a] < 2
        <5>1. passed[b][n] < 2 /\ passed[b][n] \in 0..2
          BY <2>3, <2>6 DEF InTurn
        <5>2. CASE b \in pool /\ n # o.preferred
          BY <2>3, <3>1, <3>4, <4>2, <5>2
        <5>3. CASE ~(b \in pool /\ n # o.preferred)
          BY <3>1, <3>4, <5>1, <5>3
        <5> QED
          BY <5>2, <5>3
      <4> QED
        BY <4>1, <4>3
    <3> QED
      BY <3>2, <3>3, <3>4
  <2>7. InOrder(config, reps, turn, passed)'
    <3>1. config.algorithm = "round_robin" => InTurn(rows, passed)
      BY DEF InOrder
    <3>2. config'.algorithm = "round_robin" => InTurn(reps', passed')
      BY <2>6, <3>1 DEF InTurn
    <3> QED
      BY <2>5, <3>2 DEF InOrder
  <2> DEFINE r == [o EXCEPT !.current = n]
             waiting == [a \in Reps |-> [reps'[a] EXCEPT !.lastOffered = reps[a].lastOffered]]
  <2>8. r.current = n /\ r.skills = o.skills /\ r.algorithm = o.algorithm
        /\ r.preferred = o.preferred /\ r.tried = o.tried /\ ringing' = r
    BY <2>1 DEF RingRow
  <2>9. RingsOnline(ringing, reps)'
    BY <2>3, <2>4, <2>8 DEF RingsOnline
  <2>10. ASSUME NEW a \in Reps
         PROVE  /\ waiting[a].state = rows[a].state
                /\ rows[a].state # "offline" => waiting[a] = rows[a]
    <3>1. rows[a].state # "offline" => rows[a].lastOffered = reps[a].lastOffered
      OBVIOUS
    <3>2. rows[a] \in AgentRow /\ waiting[a] = [reps'[a] EXCEPT !.lastOffered = reps[a].lastOffered]
      OBVIOUS
    <3>3. reps'[a] = IF a = n THEN [rows[a] EXCEPT !.lastOffered = turn] ELSE rows[a]
      BY <2>1, <2>3
    <3> HIDE DEF waiting
    <3>4. waiting[a].state = rows[a].state
      BY <3>2, <3>3 DEF AgentRow
    <3>5. [[rows[a] EXCEPT !.lastOffered = turn] EXCEPT !.lastOffered = rows[a].lastOffered] = rows[a]
          /\ [rows[a] EXCEPT !.lastOffered = rows[a].lastOffered] = rows[a]
      BY <3>2 DEF AgentRow
    <3>6. rows[a].state # "offline" => waiting[a] = rows[a]
      BY <3>1, <3>2, <3>3, <3>5
    <3> QED
      BY <3>4, <3>6
  <2> HIDE DEF r, waiting
  <2>11. Eligible(waiting, r, r.tried) = pool
    BY <1>4, <2>8, <2>10 DEF Eligible
  <2>12. ASSUME NEW a \in pool, NEW b \in pool, Before(rows, o, a, b) PROVE Before(waiting, r, a, b)
    <3>1. waiting[a] = rows[a] /\ waiting[b] = rows[b]
      BY <2>0, <2>10
    <3>2. Score(a, r) = Score(a, o) /\ Score(b, r) = Score(b, o)
      BY <2>8 DEF Score
    <3>3. Rank(waiting, r, a) = Rank(rows, o, a) /\ Rank(waiting, r, b) = Rank(rows, o, b)
      BY <2>8, <3>1, <3>2 DEF Rank
    <3> QED
      BY <2>12, <3>1, <3>3 DEF Before
  <2>13. RingsFirst
    BY <2>2, <2>8, <2>11, <2>12 DEF RingsFirst, waiting
  <2> QED
    BY <2>7, <2>9, <2>13
<1> QED
  BY <1>1, <1>2, <1>3, <1>4

-----------------------------------------------------------------------------
LEMMA KeysOfCall ==
  ASSUME SelectTypes
  PROVE  /\ Topics \subseteq Keys /\ CallSkills \subseteq Keys
         /\ \A k \in CallSkills : config.required[k] = 0
         /\ \A k \in Topics : k \in caller.pinned /\ config.required[k] = 0 => k \in CallSkills
         /\ config.required \in SkillRequirement
<1>1. config.required \in SkillRequirement /\ \A k \in Keys : config.required[k] \in 0..2
  BY DEF SelectTypes, QueueConfig, SkillRequirement
<1>2. Topics \subseteq Keys /\ caller.pinned \subseteq Topics
  BY DEF Keys, SelectTypes, CallerRow
<1>3. CallSkills \subseteq Keys
  <2>1. ASSUME caller.language # NoOne PROVE LangSkill(BaseLanguage(caller.language)) \in Keys
    <3>1. caller.language.base \in Tongues
      BY <2>1 DEF SelectTypes, CallerRow
    <3> QED
      BY <3>1 DEF Keys, BaseLanguage
  <2> QED
    BY <1>2, <2>1 DEF CallSkills
<1>4. \A k \in CallSkills : config.required[k] = 0
  BY <1>1, <1>3 DEF CallSkills
<1>5. \A k \in Topics : k \in caller.pinned /\ config.required[k] = 0 => k \in CallSkills
  BY <1>1, <1>2 DEF CallSkills
<1> QED
  BY <1>1, <1>2, <1>3, <1>4, <1>5

\* Every ring of a live call starts from all that is known of the call.
LEMMA OfferAsks ==
  ASSUME SelectTypes, TagsInv, caller.live
  PROVE  /\ RoutingOf \in RingRow({NoOne}) /\ RoutingOf.open
         /\ RoutingOf.algorithm = config.algorithm /\ AsksEnough(RoutingOf, config)
         /\ \A who \in Reps \cup {NoOne}, late \in BOOLEAN :
              LET o == [RoutingOf EXCEPT !.preferred = who, !.fallback = late]
              IN  o \in RingRow({NoOne}) /\ o.open /\ o.algorithm = config.algorithm
                  /\ AsksEnough(o, config)
<1> DEFINE skills == [k \in Keys |-> IF k \in CallSkills THEN 1 ELSE config.required[k]]
           relaxing == config.relaxes /\ CallSkills # {}
<1>1. skills \in SkillRequirement
  BY KeysOfCall DEF SkillRequirement
<1>2. \A k \in Keys : skills[k] = IF k \in CallSkills THEN 1 ELSE config.required[k]
  OBVIOUS
<1>3. config.algorithm \in RoutingAlgorithm /\ relaxing \in BOOLEAN
      /\ caller.preferred \in Reps \cup {NoOne} /\ tagged \subseteq Topics /\ tagged \subseteq caller.pinned
  BY DEF SelectTypes, QueueConfig, CallerRow, TagsInv
<1>4. NoRing \in RingRow({NoOne}) /\ ~NoRing.relaxed
  BY DEF NoRing, RingRow, RoutingAlgorithm, SkillRequirement
<1> DEFINE r == [NoRing EXCEPT !.open = TRUE, !.algorithm = config.algorithm, !.callSkills = CallSkills,
                   !.skills = skills, !.relaxing = relaxing, !.preferred = caller.preferred,
                   !.known = tagged]
<1>5. RoutingOf = r
  BY DEF RoutingOf
<1> HIDE DEF skills, relaxing
<1>6. /\ r \in RingRow({NoOne}) /\ r.open /\ r.algorithm = config.algorithm
      /\ r.callSkills = CallSkills /\ r.skills = skills /\ r.known = tagged
  BY <1>1, <1>3, <1>4, KeysOfCall DEF RingRow
<1> HIDE DEF r
<1>7. AsksEnough(r, config)
  <2>1. ASSUME NEW k \in Keys, k \in tagged \/ config.required[k] > 0 PROVE skills[k] > 0
    <3>1. CASE config.required[k] > 0
      <4>1. config.required[k] # 0
        BY <3>1
      <4>2. k \notin CallSkills
        BY <4>1, KeysOfCall
      <4> QED
        BY <1>2, <3>1, <4>2
    <3>2. CASE ~(config.required[k] > 0)
      <4>1. config.required[k] = 0
        BY <3>2, KeysOfCall DEF SkillRequirement
      <4>2. k \in CallSkills
        BY <1>3, <2>1, <3>2, <4>1, KeysOfCall
      <4> QED
        BY <1>2, <4>2
    <3> QED
      BY <3>1, <3>2
  <2> QED
    BY <1>6, <2>1, KeysOfCall DEF AsksEnough
<1>8. ASSUME NEW who \in Reps \cup {NoOne}, NEW late \in BOOLEAN, NEW o,
             o = [r EXCEPT !.preferred = who, !.fallback = late]
      PROVE  o \in RingRow({NoOne}) /\ o.open /\ o.algorithm = config.algorithm /\ AsksEnough(o, config)
  <2>1. /\ o \in RingRow({NoOne}) /\ o.open /\ o.algorithm = r.algorithm
        /\ o.callSkills = r.callSkills /\ o.skills = r.skills /\ o.known = r.known
        /\ o.relaxed = r.relaxed
    BY <1>6, <1>8 DEF RingRow
  <2> QED
    BY <1>6, <1>7, <2>1 DEF AsksEnough
<1> QED
  BY <1>5, <1>6, <1>7, <1>8

-----------------------------------------------------------------------------
\* One agent's row changes: the agent leaves, or stays with its place in the order.
LEMMA RowSet ==
  ASSUME NEW rows \in [Reps -> AgentRow], NEW a \in Reps, NEW r \in AgentRow,
         NEW t \in Nat, NEW p \in [Reps -> [Reps -> 0..2]], NEW new, new = [rows EXCEPT ![a] = r],
         NEW c
  PROVE  /\ new \in [Reps -> AgentRow]
         /\ InOrder(c, rows, t, p)
              /\ (r = Out \/ (rows[a].state # "offline" /\ r.seq = rows[a].seq
                              /\ r.lastOffered = rows[a].lastOffered))
            => InOrder(c, new, t, p)
<1>1. new \in [Reps -> AgentRow] /\ \A b \in Reps : new[b] = IF b = a THEN r ELSE rows[b]
  OBVIOUS
<1>2. \A b \in Reps : rows[b].seq \in Nat /\ rows[b].lastOffered \in Nat
  BY DEF AgentRow
<1>3. ASSUME Clock(rows, t), r = Out PROVE Clock(new, t) /\ (InTurn(rows, p) => InTurn(new, p))
  <2>1. r.state = "offline" /\ r.seq = 0 /\ r.lastOffered = 0
    BY <1>3 DEF Out
  <2>2. 0 < t
    BY <1>2, <1>3 DEF Clock
  <2>3. Clock(new, t)
    BY <1>1, <1>3, <2>1, <2>2 DEF Clock
  <2>4. ASSUME InTurn(rows, p), NEW x \in Reps, NEW b \in Reps
        PROVE  p[b][x] < 2 /\ (p[b][x] > 0 => new[x].state = "offline" \/ new[b].lastOffered < new[x].lastOffered)
    <3>1. p[b][x] < 2 /\ (p[b][x] > 0 => rows[x].state = "offline" \/ rows[b].lastOffered < rows[x].lastOffered)
      BY <2>4 DEF InTurn
    <3>2. CASE x = a
      BY <1>1, <2>1, <3>1, <3>2
    <3>3. CASE x # a
      BY <1>1, <1>2, <2>1, <3>1, <3>3
    <3> QED
      BY <3>2, <3>3
  <2> QED
    BY <2>3, <2>4 DEF InTurn
<1>4. ASSUME Clock(rows, t), rows[a].state # "offline", r.seq = rows[a].seq,
             r.lastOffered = rows[a].lastOffered
      PROVE  Clock(new, t) /\ (InTurn(rows, p) => InTurn(new, p))
  <2>1. \A b \in Reps : /\ new[b].seq = rows[b].seq /\ new[b].lastOffered = rows[b].lastOffered
                        /\ rows[b].state = "offline" => new[b].state = "offline"
                        /\ b # a => new[b].state = rows[b].state
    BY <1>1, <1>4
  <2>2. Clock(new, t)
    BY <1>4, <2>1 DEF Clock
  <2>3. InTurn(rows, p) => InTurn(new, p)
    BY <1>4, <2>1 DEF InTurn
  <2> QED
    BY <2>2, <2>3
<1> QED
  BY <1>1, <1>3, <1>4 DEF InOrder

LEMMA EnteredRow ==
  ASSUME NEW row \in AgentRow, turn \in Nat, NEW state \in {"not_ready", "ready", "busy"}
  PROVE  /\ Entered(row, state) \in AgentRow /\ Entered(row, state).state = state
         /\ Entered(row, state).seq = row.seq /\ Entered(row, state).lastOffered = row.lastOffered
         /\ Entered(row, state).handled = row.handled
  BY DEF Entered, AgentRow

LEMMA OutRow == Out \in AgentRow /\ Out.state = "offline"
  BY DEF Out, AgentRow

-----------------------------------------------------------------------------
LEMMA SelectInitInv == SelectInit => SelectInv
<1> SUFFICES ASSUME SelectInit PROVE SelectInv
  OBVIOUS
<1>1. Cardinality(Reps) \in Nat
  BY FS_CardinalityType, SelectionAssumption
<1> DEFINE row(a) == [Out EXCEPT !.state = "ready", !.seq = Seat[a]]
<1>2. ASSUME NEW a \in Reps
      PROVE  row(a) \in AgentRow /\ row(a).state = "ready" /\ row(a).seq = Seat[a] /\ row(a).lastOffered = 0
             /\ Seat[a] \in 1..Cardinality(Reps)
  <2>1. Seat[a] \in 1..Cardinality(Reps) /\ Seat[a] \in Nat
    BY SelectionAssumption, <1>1
  <2> QED
    BY <2>1 DEF Out, AgentRow
<1>3. reps = [a \in Reps |-> row(a)] /\ turn = Cardinality(Reps) + 1
  BY DEF SelectInit
<1> HIDE DEF row
<1>4. Clock(reps, turn)
  <2>1. \A a, b \in Reps : Seat[a] = Seat[b] => a = b
    BY SelectionAssumption
  <2> QED
    BY <1>1, <1>2, <1>3, <2>1 DEF Clock
<1>5. passed = [b \in Reps |-> [a \in Reps |-> 0]]
  BY DEF SelectInit
<1>6. InTurn(reps, passed) /\ passed \in [Reps -> [Reps -> 0..2]]
  BY <1>5 DEF InTurn
<1>7. NoRing \in RingRow({NoOne}) /\ ~NoRing.open /\ NoRing.current = NoOne
  BY DEF NoRing, RingRow, RoutingAlgorithm, SkillRequirement
<1>8. NoCaller \in CallerRow /\ ~NoCaller.live /\ NotAsking \in AskRow
  BY DEF NoCaller, CallerRow, NotAsking, AskRow
<1>9. SelectTypes
  <2>1. config \in QueueConfig /\ userSkills \in UserSkill
    BY SelectionAssumption DEF SelectInit
  <2>2. reps \in [Reps -> AgentRow] /\ turn \in Nat
    BY <1>1, <1>2, <1>3
  <2>3. \E V : ringing \in RingRow(V)
    BY <1>7 DEF SelectInit
  <2> QED
    BY <1>6, <1>8, <2>1, <2>2, <2>3 DEF SelectInit, SelectTypes
<1>10. TagsInv
  BY <1>7, <1>8 DEF SelectInit, TagsInv, OfferInv
<1>11. TurnsInv
  BY <1>4, <1>6, <1>7 DEF SelectInit, TurnsInv, InOrder, RingsOnline
<1> QED
  BY <1>9, <1>10, <1>11 DEF SelectInv

\* An advance keeps the invariant and the order.
LEMMA AdvanceStep ==
  ASSUME SelectInv, caller.live, UNCHANGED setup, UNCHANGED <<tool, tagged>>, asking' \in AskRow,
         NEW V, NEW row \in RingRow(V), row.open, AsksEnough(row, config),
         row.algorithm = config.algorithm, NEW rows \in [Reps -> AgentRow],
         InOrder(config, rows, turn, passed),
         \A a \in Reps : rows[a].state # "offline" => rows[a].lastOffered = reps[a].lastOffered,
         NEW tried \in SUBSET Reps, Advance(rows, row, tried)
  PROVE  SelectInv' /\ RingsFirst
<1>1. UNCHANGED <<config, userSkills, catalogue, tool, tagged>>
  BY DEF setup
<1>2. SelectTypes /\ TagsInv /\ config' = config /\ tagged' = tagged
  BY <1>1 DEF SelectInv
<1>3. /\ reps' \in [Reps -> AgentRow] /\ caller' \in CallerRow /\ caller'.live
      /\ \E W : ringing' \in RingRow(W)
      /\ turn' \in Nat /\ passed' \in [Reps -> [Reps -> 0..2]]
      /\ OfferInv(ringing, config)' /\ tagged' \subseteq caller'.pinned
  BY <1>2, AdvanceTags
<1>4. SelectTypes'
  BY <1>1, <1>2, <1>3 DEF SelectTypes
<1>5. TagsInv'
  BY <1>1, <1>3 DEF TagsInv
<1>6. InOrder(config, reps, turn, passed)' /\ RingsOnline(ringing, reps)' /\ RingsFirst
  BY <1>2, AdvanceTurns
<1>7. TurnsInv'
  BY <1>6 DEF TurnsInv
<1> QED
  BY <1>4, <1>5, <1>6, <1>7 DEF SelectInv

\* A ring under way is the live call's; whom it rings is online.
LEMMA RingUnderWay ==
  ASSUME SelectInv
  PROVE  /\ ringing.open => /\ caller.live /\ AsksEnough(ringing, config)
                            /\ ringing.algorithm = config.algorithm
         /\ \A a \in Reps : ringing.current = a => ringing.open
         /\ \E V : ringing \in RingRow(V)
         /\ \A a \in Reps : ringing.tried \cup {a} \in SUBSET Reps
         /\ ringing.tried \in SUBSET Reps
         /\ asking \in AskRow /\ turn \in Nat /\ passed \in [Reps -> [Reps -> 0..2]]
         /\ reps \in [Reps -> AgentRow] /\ config \in QueueConfig
<1>1. PICK V : ringing \in RingRow(V)
  BY DEF SelectInv, SelectTypes
<1>2. ringing.tried \in SUBSET Reps
  BY <1>1 DEF RingRow
<1>3. ~NoRing.open /\ NoRing.current \notin Reps
  BY SelectionAssumption DEF NoRing
<1> QED
  BY <1>1, <1>2, <1>3 DEF SelectInv, SelectTypes, TagsInv, OfferInv

-----------------------------------------------------------------------------
\* Agents.
LEMMA OfflineStep ==
  ASSUME SelectInv, NEW a \in Reps, GoesOffline(a) PROVE SelectInv' /\ RingsFirst
<1> DEFINE rows == [reps EXCEPT ![a] = Out]
<1>1. /\ rows \in [Reps -> AgentRow] /\ InOrder(config, rows, turn, passed)
      /\ \A b \in Reps : rows[b].state # "offline" => rows[b].lastOffered = reps[b].lastOffered
  BY RingUnderWay, RowSet, OutRow DEF SelectInv, TurnsInv
<1>2. reps[a].state # "offline" /\ UNCHANGED setup /\ UNCHANGED <<tool, asking, asks, tagged>>
  BY DEF GoesOffline, callVars
<1>3. CASE ringing.current = a
  <2>1. Advance(rows, ringing, ringing.tried \cup {a})
    BY <1>3 DEF GoesOffline
  <2> HIDE DEF rows
  <2>2. caller.live /\ ringing.open /\ AsksEnough(ringing, config) /\ ringing.algorithm = config.algorithm
    BY <1>3, RingUnderWay
  <2>3. PICK V : ringing \in RingRow(V)
    BY RingUnderWay
  <2>4. asking' \in AskRow
    BY <1>2, RingUnderWay
  <2> QED
    BY <1>1, <1>2, <2>1, <2>2, <2>3, <2>4, RingUnderWay, AdvanceStep
<1>4. CASE ringing.current # a
  <2>1. reps' = rows /\ UNCHANGED <<ringing, caller, turn, passed>>
    BY <1>4 DEF GoesOffline
  <2>2. \A b \in Reps : b # a => rows[b] = reps[b]
    BY RingUnderWay
  <2> HIDE DEF rows
  <2>3. RingsOnline(ringing, reps) => RingsOnline(ringing, rows)
    BY <1>4, <2>2 DEF RingsOnline
  <2>4. UNCHANGED <<config, userSkills, catalogue>>
    BY <1>2 DEF setup
  <2>5. SelectTypes'
    BY <1>1, <1>2, <2>1, <2>4 DEF SelectInv, SelectTypes
  <2>6. TagsInv'
    BY <1>2, <2>1, <2>4 DEF SelectInv, TagsInv
  <2>7. TurnsInv'
    BY <1>1, <2>1, <2>3, <2>4 DEF SelectInv, TurnsInv
  <2> QED
    BY <2>1, <2>5, <2>6, <2>7 DEF SelectInv, RingsFirst
<1> QED
  BY <1>3, <1>4

LEMMA DeclinedStep ==
  ASSUME SelectInv, NEW a \in Reps, NEW rona \in BOOLEAN, Declines(a, rona)
  PROVE  SelectInv' /\ RingsFirst
<1> DEFINE r == IF rona /\ reps[a].state = "ready" THEN Entered(reps[a], "not_ready") ELSE reps[a]
           rows == [reps EXCEPT ![a] = r]
<1>1. Advance(rows, ringing, ringing.tried \cup {a})
  BY DEF Declines
<1>2. ringing.current = a /\ UNCHANGED setup /\ UNCHANGED <<tool, asking, asks, tagged>>
  BY DEF Declines, callVars
<1>3. r \in AgentRow /\ r.seq = reps[a].seq /\ r.lastOffered = reps[a].lastOffered
  BY EnteredRow, RingUnderWay
<1> HIDE DEF r
<1>4. reps[a].state # "offline"
  BY <1>2, SelectionAssumption DEF SelectInv, TurnsInv, RingsOnline
<1>5. /\ rows \in [Reps -> AgentRow] /\ InOrder(config, rows, turn, passed)
      /\ \A b \in Reps : rows[b].state # "offline" => rows[b].lastOffered = reps[b].lastOffered
  BY <1>3, <1>4, RingUnderWay, RowSet DEF SelectInv, TurnsInv
<1> HIDE DEF rows
<1>6. caller.live /\ ringing.open /\ AsksEnough(ringing, config) /\ ringing.algorithm = config.algorithm
  BY <1>2, RingUnderWay
<1>7. PICK V : ringing \in RingRow(V)
  BY RingUnderWay
<1>8. asking' \in AskRow
  BY <1>2, RingUnderWay
<1> QED
  BY <1>1, <1>2, <1>5, <1>6, <1>7, <1>8, RingUnderWay, AdvanceStep

LEMMA TickStep == ASSUME SelectInv, TickRelaxes PROVE SelectInv' /\ RingsFirst
<1>1. ringing.open /\ Advance(reps, Relax(ringing), ringing.tried)
      /\ UNCHANGED setup /\ UNCHANGED <<tool, asking, asks, tagged>>
  BY DEF TickRelaxes, callVars
<1>2. caller.live /\ AsksEnough(ringing, config) /\ ringing.algorithm = config.algorithm
  BY <1>1, RingUnderWay
<1>3. PICK V : ringing \in RingRow(V)
  BY RingUnderWay
<1>4. /\ Relax(ringing) \in RingRow(V) /\ Relax(ringing).open
      /\ Relax(ringing).algorithm = ringing.algorithm /\ AsksEnough(Relax(ringing), config)
  BY <1>1, <1>2, <1>3, RingUnderWay, Relaxed
<1>5. asking' \in AskRow
  BY <1>1, RingUnderWay
<1>6. InOrder(config, reps, turn, passed)
  BY DEF SelectInv, TurnsInv
<1>7. Relax(ringing).algorithm = config.algorithm
  BY <1>2, <1>4
<1> QED
  BY <1>1, <1>2, <1>4, <1>5, <1>6, <1>7, RingUnderWay, AdvanceStep

LEMMA OnlineStep == ASSUME SelectInv, NEW a \in Reps, GoesOnline(a) PROVE SelectInv' /\ RingsFirst
<1> DEFINE r == [Out EXCEPT !.state = "not_ready", !.since = turn, !.seq = turn]
<1>1. /\ reps[a].state = "offline" /\ turn' = turn + 1 /\ reps' = [reps EXCEPT ![a] = r]
      /\ passed' = [b \in Reps |-> [passed[b] EXCEPT ![a] = 0]]
      /\ UNCHANGED <<config, userSkills, catalogue, caller, ringing, tool, asking, asks, tagged>>
  BY DEF GoesOnline, Turn, setup, callVars
<1>2. r \in AgentRow /\ r.seq = turn /\ r.lastOffered = 0 /\ r.state # "offline"
  BY RingUnderWay DEF Out, AgentRow
<1> HIDE DEF r
<1>3. /\ reps' \in [Reps -> AgentRow] /\ turn \in Nat /\ turn' \in Nat
      /\ \A b \in Reps : /\ reps'[b] = (IF b = a THEN r ELSE reps[b])
                         /\ reps[b].seq \in Nat /\ reps[b].lastOffered \in Nat
  BY <1>1, <1>2, RingUnderWay DEF AgentRow
<1>4. /\ passed' \in [Reps -> [Reps -> 0..2]]
      /\ \A b, x \in Reps : passed'[b][x] = IF x = a THEN 0 ELSE passed[b][x]
  BY <1>1, RingUnderWay
<1>5. SelectTypes'
  BY <1>1, <1>3, <1>4 DEF SelectInv, SelectTypes
<1>6. TagsInv'
  BY <1>1 DEF SelectInv, TagsInv
<1>7. Clock(reps', turn') /\ (InTurn(reps, passed) => InTurn(reps', passed'))
      /\ RingsOnline(ringing, reps')
  <2>1. Clock(reps, turn) /\ RingsOnline(ringing, reps)
    BY DEF SelectInv, TurnsInv, InOrder
  <2>2. Clock(reps', turn')
    BY <1>1, <1>2, <1>3, <2>1 DEF Clock
  <2>3. ASSUME InTurn(reps, passed), NEW x \in Reps, NEW b \in Reps
        PROVE  passed'[b][x] < 2
               /\ (passed'[b][x] > 0 => reps'[x].state = "offline" \/ reps'[b].lastOffered < reps'[x].lastOffered)
    <3>1. CASE x = a
      BY <1>4, <3>1
    <3>2. CASE x # a
      <4>1. passed[b][x] < 2
            /\ (passed[b][x] > 0 => reps[x].state = "offline" \/ reps[b].lastOffered < reps[x].lastOffered)
        BY <2>3 DEF InTurn
      <4>2. reps'[b].lastOffered <= reps[b].lastOffered /\ reps'[x] = reps[x]
        BY <1>2, <1>3, <3>2
      <4>3. reps'[b].lastOffered \in Nat
        BY <1>2, <1>3
      <4> QED
        BY <1>3, <1>4, <3>2, <4>1, <4>2, <4>3
    <3> QED
      BY <3>1, <3>2
  <2>4. RingsOnline(ringing, reps')
    BY <1>1, <1>2, <1>3, <2>1 DEF RingsOnline
  <2> QED
    BY <2>2, <2>3, <2>4 DEF InTurn
<1>8. TurnsInv'
  BY <1>1, <1>7 DEF SelectInv, TurnsInv, InOrder
<1> QED
  BY <1>1, <1>5, <1>6, <1>8 DEF SelectInv, RingsFirst

\* The row of one who stays online is written, and time passes.
LEMMA StaysOnline ==
  ASSUME SelectInv, NEW a \in Reps, NEW r \in AgentRow, r.state # "offline",
         reps[a].state # "offline", r.seq = reps[a].seq, r.lastOffered = reps[a].lastOffered,
         reps' = [reps EXCEPT ![a] = r], turn' = turn + 1 \/ turn' = turn, passed' = passed,
         config' = config
  PROVE  /\ reps' \in [Reps -> AgentRow] /\ turn' \in Nat
         /\ InOrder(config, reps, turn, passed)'
         /\ \A b \in Reps : reps[b].state # "offline" => reps'[b].state # "offline"
<1>1. /\ reps' \in [Reps -> AgentRow] /\ turn' \in Nat
      /\ \A b \in Reps : reps[b].state # "offline" => reps'[b].state # "offline"
  BY RingUnderWay
<1>2. InOrder(config, reps', turn, passed)
  <2>1. reps \in [Reps -> AgentRow] /\ turn \in Nat /\ passed \in [Reps -> [Reps -> 0..2]]
    BY RingUnderWay
  <2>2. InOrder(config, reps, turn, passed)
    BY DEF SelectInv, TurnsInv
  <2> QED
    BY <2>1, <2>2, RowSet
<1>3. Clock(reps', turn) => Clock(reps', turn')
  <2>1. \A b \in Reps : reps'[b].seq \in Nat /\ reps'[b].lastOffered \in Nat
    BY <1>1 DEF AgentRow
  <2> QED
    BY <2>1, RingUnderWay DEF Clock
<1> QED
  BY <1>1, <1>2, <1>3 DEF InOrder

LEMMA SetsStateStep ==
  ASSUME SelectInv, NEW a \in Reps, NEW state \in {"ready", "not_ready"}, SetsState(a, state)
  PROVE  SelectInv' /\ RingsFirst
<1> DEFINE r == Entered(reps[a], state)
<1>1. /\ reps[a].state # "offline" /\ turn' = turn + 1 /\ reps' = [reps EXCEPT ![a] = r]
      /\ UNCHANGED <<config, userSkills, catalogue, caller, ringing, passed, tool, asking, asks, tagged>>
  BY DEF SetsState, Turn, setup, callVars
<1>2. r \in AgentRow /\ r.seq = reps[a].seq /\ r.lastOffered = reps[a].lastOffered /\ r.state # "offline"
  BY EnteredRow, RingUnderWay
<1> HIDE DEF r
<1>3. /\ reps' \in [Reps -> AgentRow] /\ turn' \in Nat /\ InOrder(config, reps, turn, passed)'
      /\ \A b \in Reps : reps[b].state # "offline" => reps'[b].state # "offline"
  BY <1>1, <1>2, StaysOnline
<1>4. SelectTypes'
  BY <1>1, <1>3 DEF SelectInv, SelectTypes
<1>5. TagsInv'
  BY <1>1 DEF SelectInv, TagsInv
<1>6. TurnsInv'
  BY <1>1, <1>3 DEF SelectInv, TurnsInv, RingsOnline
<1> QED
  BY <1>1, <1>4, <1>5, <1>6 DEF SelectInv, RingsFirst

LEMMA AnsweredStep ==
  ASSUME SelectInv, NEW a \in Reps, Answers(a) PROVE SelectInv' /\ RingsFirst
<1> DEFINE e == Entered(reps[a], "busy")
           r == [e EXCEPT !.handled = @ + 1]
           who == [caller EXCEPT !.preferred = a]
<1>1. /\ ringing.current = a /\ turn' = turn + 1 /\ reps' = [reps EXCEPT ![a] = r]
      /\ ringing' = NoRing /\ caller' = who
      /\ UNCHANGED <<config, userSkills, catalogue, passed, tool, asking, asks, tagged>>
  <2>1. reps' = [reps EXCEPT ![a] = r]
    BY DEF Answers
  <2> QED
    BY <2>1 DEF Answers, Turn, setup, callVars
<1>2. e \in AgentRow /\ e.seq = reps[a].seq /\ e.lastOffered = reps[a].lastOffered /\ e.state = "busy"
  BY EnteredRow, RingUnderWay
<1> HIDE DEF e
<1>3. r \in AgentRow /\ r.seq = reps[a].seq /\ r.lastOffered = reps[a].lastOffered /\ r.state # "offline"
  BY <1>2 DEF AgentRow
<1>4. who \in CallerRow /\ who.live = caller.live /\ who.pinned = caller.pinned
  BY DEF SelectInv, SelectTypes, CallerRow
<1> HIDE DEF r, who
<1>5. reps[a].state # "offline"
  BY <1>1, SelectionAssumption DEF SelectInv, TurnsInv, RingsOnline
<1>6. reps' \in [Reps -> AgentRow] /\ turn' \in Nat /\ InOrder(config, reps, turn, passed)'
  BY <1>1, <1>3, <1>5, StaysOnline
<1>7. NoRing \in RingRow({NoOne}) /\ ~NoRing.open /\ NoRing.current = NoOne
  BY DEF NoRing, RingRow, RoutingAlgorithm, SkillRequirement
<1>8. caller.live
  BY <1>1, RingUnderWay
<1>9. SelectTypes'
  BY <1>1, <1>4, <1>6, <1>7 DEF SelectInv, SelectTypes
<1>10. TagsInv'
  BY <1>1, <1>4, <1>7, <1>8 DEF SelectInv, TagsInv, OfferInv
<1>11. TurnsInv'
  BY <1>1, <1>6, <1>7 DEF TurnsInv, RingsOnline
<1> QED
  BY <1>1, <1>7, <1>9, <1>10, <1>11 DEF SelectInv, RingsFirst

-----------------------------------------------------------------------------
\* The call.

\* Steps that leave the agents and the turns alone.
LEMMA TurnsStay ==
  ASSUME TurnsInv, UNCHANGED <<config, reps, turn, passed>>,
         ringing' = ringing \/ ringing' = NoRing
  PROVE  TurnsInv' /\ RingsFirst
<1>1. NoRing.current = NoOne
  BY DEF NoRing
<1> QED
  BY <1>1 DEF TurnsInv, RingsOnline, RingsFirst

LEMMA RoomStep ==
  ASSUME SelectInv, NEW a \in Reps, EntersRoom(a) PROVE SelectInv' /\ RingsFirst
<1> DEFINE who == [caller EXCEPT !.ai = "handed"]
<1>1. /\ caller.preferred = a /\ caller' = who
      /\ UNCHANGED <<config, userSkills, catalogue, reps, ringing, turn, passed, tool, asking, asks, tagged>>
  BY DEF EntersRoom, setup, callVars
<1>2. who \in CallerRow /\ who.live = caller.live /\ who.pinned = caller.pinned
  BY DEF SelectInv, SelectTypes, CallerRow
<1> HIDE DEF who
<1>3. caller.live
  BY <1>1, SelectionAssumption DEF SelectInv, TagsInv, NoCaller
<1>4. SelectTypes'
  BY <1>1, <1>2 DEF SelectInv, SelectTypes
<1>5. TagsInv'
  BY <1>1, <1>2, <1>3 DEF SelectInv, TagsInv
<1> QED
  BY <1>1, <1>4, <1>5, TurnsStay DEF SelectInv

LEMMA NextCallStep ==
  ASSUME SelectInv, NEW aiFirst \in BOOLEAN, NEW language \in Language \cup {NoOne},
         NextCall(aiFirst, language)
  PROVE  SelectInv' /\ RingsFirst
<1> DEFINE who == [NoCaller EXCEPT !.live = TRUE, !.language = language,
                                   !.ai = IF aiFirst THEN "talking" ELSE "none"]
<1>1. /\ ~caller.live /\ tagged' = {} /\ tool' = catalogue /\ asking' = NotAsking /\ caller' = who
      /\ UNCHANGED <<config, userSkills, catalogue, reps, ringing, turn, passed>>
  BY DEF NextCall, setup
<1>2. who \in CallerRow /\ who.live
  BY DEF NoCaller, CallerRow, Language
<1> HIDE DEF who
<1>3. NotAsking \in AskRow
  BY DEF NotAsking, AskRow
<1>4. SelectTypes'
  BY <1>1, <1>2, <1>3 DEF SelectInv, SelectTypes
<1>5. TagsInv'
  BY <1>1, <1>2 DEF SelectInv, TagsInv
<1> QED
  BY <1>1, <1>4, <1>5, TurnsStay DEF SelectInv

\* A ring begins for the call as it is known.
LEMMA OfferStep ==
  ASSUME SelectInv, caller.live, NEW who \in Reps \cup {NoOne}, NEW late \in BOOLEAN,
         NEW o, o = [RoutingOf EXCEPT !.preferred = who, !.fallback = late],
         UNCHANGED setup, UNCHANGED <<tool, tagged>>, asking' \in AskRow,
         NEW rows \in [Reps -> AgentRow],
         InOrder(config, rows, turn, passed),
         \A a \in Reps : rows[a].state # "offline" => rows[a].lastOffered = reps[a].lastOffered,
         Advance(rows, o, {})
  PROVE  SelectInv' /\ RingsFirst
<1>1. o \in RingRow({NoOne}) /\ o.open /\ o.algorithm = config.algorithm /\ AsksEnough(o, config)
  BY OfferAsks DEF SelectInv
<1>2. {} \in SUBSET Reps
  OBVIOUS
<1> QED
  BY <1>1, <1>2, AdvanceStep

LEMMA RoutingIs ==
  ASSUME SelectInv, caller.live
  PROVE  /\ RoutingOf = [RoutingOf EXCEPT !.preferred = caller.preferred, !.fallback = FALSE]
         /\ [RoutingOf EXCEPT !.fallback = TRUE]
              = [RoutingOf EXCEPT !.preferred = caller.preferred, !.fallback = TRUE]
         /\ TransferRouting = [RoutingOf EXCEPT !.preferred = NoOne, !.fallback = FALSE]
         /\ caller.preferred \in Reps \cup {NoOne}
<1>1. RoutingOf \in RingRow({NoOne})
  BY OfferAsks DEF SelectInv
<1>2. RoutingOf.preferred = caller.preferred /\ RoutingOf.fallback = FALSE
  BY DEF RoutingOf, NoRing
<1>3. caller.preferred \in Reps \cup {NoOne}
  BY DEF SelectInv, SelectTypes, CallerRow
<1> QED
  BY <1>1, <1>2, <1>3 DEF TransferRouting, RingRow

LEMMA TurnsNow ==
  ASSUME SelectInv
  PROVE  InOrder(config, reps, turn, passed)
  BY DEF SelectInv, TurnsInv

LEMMA HumanFirstStep == ASSUME SelectInv, HumanFirst PROVE SelectInv' /\ RingsFirst
<1>1. /\ caller.live /\ Advance(reps, [RoutingOf EXCEPT !.fallback = TRUE], {})
      /\ UNCHANGED setup /\ UNCHANGED <<tool, asking, asks, tagged>>
  BY DEF HumanFirst, callVars
<1> DEFINE o == [RoutingOf EXCEPT !.preferred = caller.preferred, !.fallback = TRUE]
<1>2. [RoutingOf EXCEPT !.fallback = TRUE] = o /\ caller.preferred \in Reps \cup {NoOne}
  BY <1>1, RoutingIs
<1>3. Advance(reps, o, {})
  BY <1>1, <1>2
<1>4. asking' \in AskRow /\ reps \in [Reps -> AgentRow]
  BY <1>1, RingUnderWay
<1> QED
  BY <1>1, <1>2, <1>3, <1>4, OfferStep, TurnsNow

LEMMA AskStep ==
  ASSUME SelectInv, NEW tags, NEW spoken \in Language \cup {NoOne}, AskHuman(tags, spoken)
  PROVE  SelectInv' /\ RingsFirst
<1> DEFINE ask == [pc |-> "tag", tags |-> tags, spoken |-> spoken]
<1>1. /\ caller.live /\ tags \subseteq tool /\ asking' = ask
      /\ UNCHANGED <<config, userSkills, catalogue, reps, caller, ringing, turn, tool, tagged, passed>>
  BY DEF AskHuman, setup
<1>2. ask \in AskRow
  BY <1>1 DEF SelectInv, SelectTypes, AskRow
<1> HIDE DEF ask
<1>3. SelectTypes'
  BY <1>1, <1>2 DEF SelectInv, SelectTypes
<1>4. TagsInv'
  BY <1>1 DEF SelectInv, TagsInv
<1> QED
  BY <1>1, <1>3, <1>4, TurnsStay DEF SelectInv

LEMMA TagStep == ASSUME SelectInv, TagCall PROVE SelectInv' /\ RingsFirst
<1> DEFINE known == asking.tags \cap catalogue
           spoken == IF asking.spoken = NoOne THEN caller.language
                     ELSE [base |-> BaseLanguage(asking.spoken), region |-> ""]
           who == [caller EXCEPT !.pinned = @ \cup known, !.language = spoken]
           ask == [asking EXCEPT !.pc = "ring"]
<1>1. /\ asking.pc = "tag" /\ asking' = ask /\ caller' = who /\ tagged' = tagged \cup known
      /\ UNCHANGED <<config, userSkills, catalogue, reps, ringing, turn, tool, passed>>
  BY DEF TagCall, setup
<1>2. ask \in AskRow
  BY DEF SelectInv, SelectTypes, AskRow
<1>3. known \subseteq Topics
  BY DEF SelectInv, SelectTypes
<1>4. spoken \in [base: Tongues, region: {"CH", ""}] \cup {NoOne}
  <2>1. caller.language \in [base: Tongues, region: {"CH", ""}] \cup {NoOne}
    BY DEF SelectInv, SelectTypes, CallerRow
  <2>2. asking.spoken \in Language \cup {NoOne}
    BY DEF SelectInv, SelectTypes, AskRow
  <2>3. asking.spoken # NoOne => asking.spoken.base \in Tongues
    BY <2>2 DEF Language
  <2> QED
    BY <2>1, <2>3 DEF BaseLanguage
<1>5. caller.live
  <2>1. NotAsking.pc # "tag"
    BY DEF NotAsking
  <2> QED
    BY <1>1, <2>1 DEF SelectInv, TagsInv
<1> HIDE DEF known, spoken, ask
<1>6. who \in CallerRow /\ who.live = caller.live /\ who.pinned = caller.pinned \cup known
  BY <1>3, <1>4 DEF SelectInv, SelectTypes, CallerRow
<1> HIDE DEF who
<1>7. SelectTypes'
  BY <1>1, <1>2, <1>3, <1>6 DEF SelectInv, SelectTypes
<1>8. TagsInv'
  BY <1>1, <1>5, <1>6 DEF SelectInv, TagsInv
<1> QED
  BY <1>1, <1>7, <1>8, TurnsStay DEF SelectInv

LEMMA EscalateStep == ASSUME SelectInv, Escalate PROVE SelectInv' /\ RingsFirst
<1>1. /\ asking.pc = "ring" /\ asking' = NotAsking /\ UNCHANGED setup /\ UNCHANGED <<tool, tagged>>
  BY DEF Escalate
<1>2. NotAsking \in AskRow /\ NotAsking.pc # "ring"
  BY DEF NotAsking, AskRow
<1>3. caller.live
  BY <1>1, <1>2 DEF SelectInv, TagsInv
<1>4. CASE ringing.open
  <2>1. UNCHANGED <<config, userSkills, catalogue, reps, caller, ringing, turn, passed>>
    BY <1>1, <1>4 DEF Escalate, setup
  <2>2. SelectTypes'
    BY <1>1, <1>2, <2>1 DEF SelectInv, SelectTypes
  <2>3. TagsInv'
    BY <1>1, <1>3, <2>1 DEF SelectInv, TagsInv
  <2> QED
    BY <2>1, <2>2, <2>3, TurnsStay DEF SelectInv
<1>5. CASE ~ringing.open
  <2>1. Advance(reps, RoutingOf, {})
    BY <1>5 DEF Escalate
  <2> DEFINE o == [RoutingOf EXCEPT !.preferred = caller.preferred, !.fallback = FALSE]
  <2>2. RoutingOf = o /\ caller.preferred \in Reps \cup {NoOne}
    BY <1>3, RoutingIs
  <2>3. Advance(reps, o, {})
    BY <2>1, <2>2
  <2> QED
    BY <1>1, <1>2, <1>3, <2>2, <2>3, RingUnderWay, OfferStep, TurnsNow
<1> QED
  BY <1>4, <1>5

LEMMA TransferStep ==
  ASSUME SelectInv, NEW a \in Reps, TransferToQueue(a) PROVE SelectInv' /\ RingsFirst
<1> DEFINE r == Entered(reps[a], "ready")
           rows == [reps EXCEPT ![a] = r]
           o == [RoutingOf EXCEPT !.preferred = NoOne, !.fallback = FALSE]
<1>1. /\ caller.ai = "handed" /\ reps[a].state = "busy" /\ Advance(rows, TransferRouting, {})
      /\ UNCHANGED setup /\ UNCHANGED <<tool, asking, asks, tagged>>
  BY DEF TransferToQueue, callVars
<1>2. caller.live
  <2>1. NoCaller.ai # "handed"
    BY DEF NoCaller
  <2> QED
    BY <1>1, <2>1 DEF SelectInv, TagsInv
<1>3. r \in AgentRow /\ r.seq = reps[a].seq /\ r.lastOffered = reps[a].lastOffered
  BY EnteredRow, RingUnderWay
<1> HIDE DEF r
<1>4. /\ rows \in [Reps -> AgentRow] /\ InOrder(config, rows, turn, passed)
      /\ \A b \in Reps : rows[b].state # "offline" => rows[b].lastOffered = reps[b].lastOffered
  <2>1. reps \in [Reps -> AgentRow] /\ turn \in Nat /\ passed \in [Reps -> [Reps -> 0..2]]
    BY RingUnderWay
  <2>2. reps[a].state # "offline"
    BY <1>1
  <2>3. rows \in [Reps -> AgentRow] /\ InOrder(config, rows, turn, passed)
    BY <1>3, <2>1, <2>2, RowSet, TurnsNow
  <2> QED
    BY <1>3, <2>1, <2>3
<1>5. TransferRouting = o
  BY <1>2, RoutingIs
<1>6. asking' \in AskRow
  BY <1>1, RingUnderWay
<1> HIDE DEF rows
<1>7. Advance(rows, o, {})
  BY <1>1, <1>5
<1> QED
  BY <1>1, <1>2, <1>4, <1>6, <1>7, OfferStep

LEMMA EndedStep == ASSUME SelectInv, EndsCall PROVE SelectInv' /\ RingsFirst
<1>1. /\ caller' = NoCaller /\ ringing' = NoRing /\ asking' = NotAsking
      /\ reps' = [a \in Reps |-> IF reps[a].state = "busy" THEN Entered(reps[a], "ready") ELSE reps[a]]
      /\ UNCHANGED <<config, userSkills, catalogue, turn, tool, tagged, passed>>
  BY DEF EndsCall, setup
<1>2. \A a \in Reps : /\ reps'[a] \in AgentRow /\ reps'[a].seq = reps[a].seq
                      /\ reps'[a].lastOffered = reps[a].lastOffered
                      /\ reps'[a].state = "offline" <=> reps[a].state = "offline"
  BY <1>1, EnteredRow, RingUnderWay
<1>3. reps' \in [Reps -> AgentRow]
  BY <1>1, <1>2
<1>4. NoRing \in RingRow({NoOne}) /\ ~NoRing.open /\ NoRing.current = NoOne
  BY DEF NoRing, RingRow, RoutingAlgorithm, SkillRequirement
<1>5. NoCaller \in CallerRow /\ ~NoCaller.live /\ NotAsking \in AskRow
  BY DEF NoCaller, CallerRow, NotAsking, AskRow
<1>6. SelectTypes'
  BY <1>1, <1>3, <1>4, <1>5 DEF SelectInv, SelectTypes
<1>7. TagsInv'
  BY <1>1, <1>4, <1>5 DEF TagsInv, OfferInv
<1>8. TurnsInv'
  <2>1. InOrder(config, reps, turn, passed)
    BY TurnsNow
  <2>2. Clock(reps', turn)
    BY <1>2, <2>1 DEF Clock, InOrder
  <2>3. InTurn(reps, passed) => InTurn(reps', passed)
    BY <1>2 DEF InTurn
  <2> QED
    BY <1>1, <1>4, <2>1, <2>2, <2>3 DEF TurnsInv, InOrder, RingsOnline
<1> QED
  BY <1>1, <1>4, <1>6, <1>7, <1>8 DEF SelectInv, RingsFirst

LEMMA CatalogueStep ==
  ASSUME SelectInv, NEW k \in Topics, EditCatalogue(k) PROVE SelectInv' /\ RingsFirst
<1>1. /\ catalogue' = catalogue \ {k}
      /\ UNCHANGED <<config, userSkills, reps, caller, ringing, turn, passed, tool, asking, tagged>>
  BY DEF EditCatalogue, callVars
<1>2. SelectTypes'
  BY <1>1 DEF SelectInv, SelectTypes
<1>3. TagsInv'
  BY <1>1 DEF SelectInv, TagsInv
<1> QED
  BY <1>1, <1>2, <1>3, TurnsStay DEF SelectInv

LEMMA SelectStep == SelectInv /\ [SelectNext]_selectVars => SelectInv' /\ RingsFirst
<1>1. ASSUME SelectInv, UNCHANGED selectVars PROVE SelectInv' /\ RingsFirst
  <2>1. UNCHANGED <<config, userSkills, catalogue, reps, caller, tool, asking, ringing, turn, tagged, passed>>
    BY <1>1 DEF selectVars
  <2>2. SelectTypes'
    BY <1>1, <2>1 DEF SelectInv, SelectTypes
  <2>3. TagsInv'
    BY <1>1, <2>1 DEF SelectInv, TagsInv
  <2> QED
    BY <1>1, <2>1, <2>2, <2>3, TurnsStay DEF SelectInv
<1>2. ASSUME SelectInv, NEW a \in Reps,
             \/ GoesOnline(a) \/ GoesOffline(a) \/ Answers(a) \/ EntersRoom(a) \/ TransferToQueue(a)
             \/ \E state \in {"ready", "not_ready"} : SetsState(a, state)
             \/ \E rona \in BOOLEAN : Declines(a, rona)
      PROVE  SelectInv' /\ RingsFirst
  BY <1>2, OnlineStep, OfflineStep, AnsweredStep, RoomStep, TransferStep, SetsStateStep, DeclinedStep
<1>3. ASSUME SelectInv, NEW aiFirst \in BOOLEAN, NEW language \in Language \cup {NoOne},
             NextCall(aiFirst, language)
      PROVE  SelectInv' /\ RingsFirst
  BY <1>3, NextCallStep
<1>4. ASSUME SelectInv, NEW tags, NEW spoken \in Language \cup {NoOne}, AskHuman(tags, spoken)
      PROVE  SelectInv' /\ RingsFirst
  BY <1>4, AskStep
<1>5. ASSUME SelectInv, TickRelaxes \/ HumanFirst \/ TagCall \/ Escalate \/ EndsCall
      PROVE  SelectInv' /\ RingsFirst
  BY <1>5, TickStep, HumanFirstStep, TagStep, EscalateStep, EndedStep
<1>6. ASSUME SelectInv, NEW k \in Topics, EditCatalogue(k) PROVE SelectInv' /\ RingsFirst
  BY <1>6, CatalogueStep
<1> QED
  BY <1>1, <1>2, <1>3, <1>4, <1>5, <1>6 DEF SelectNext

-----------------------------------------------------------------------------
\* Every ring under way is the live call's and asks for its tags; only agents who are online
\* are rung, no two of whom connected at the same time, and in a round-robin queue whoever
\* was passed over for a colleague is before that one.
THEOREM SelectInvariant == SelectSpec => []SelectInv
  BY SelectInitInv, SelectStep, PTL DEF SelectSpec

\* Presence, offer and call rows stay in their types: above all, a ring rings a member of
\* the queue.
THEOREM SelectTypeHolds == SelectSpec => []SelectTypeOK
<1>1. SelectInv => SelectTypeOK
  <2> SUFFICES ASSUME SelectInv PROVE SelectTypeOK
    OBVIOUS
  <2>1. ringing.current \in Reps \cup {NoOne}
    BY DEF SelectInv, TurnsInv, RingsOnline
  <2>2. ringing.skills \in SkillRequirement /\ caller.pinned \subseteq Topics
        /\ catalogue \subseteq Topics /\ asking.pc \in {"idle", "tag", "ring"}
    BY DEF SelectInv, SelectTypes, RingRow, CallerRow, AskRow
  <2>3. \A a \in Reps : reps[a].state \in {"offline", "not_ready", "ready", "busy"}
    BY DEF SelectInv, SelectTypes, AgentRow
  <2> QED
    BY <2>1, <2>2, <2>3 DEF SelectTypeOK
<1> QED
  BY <1>1, SelectInvariant, PTL

\* Whoever a step rings is ready, has not been tried in this ring cycle, has the skills it
\* asks for, and is the call's own agent or else the first by the queue's algorithm, with ties
\* by the order of connection: for all six algorithms, and scores over any finite catalogue
\* (Routing.candidate).
THEOREM RingsFirstHolds == SelectSpec => [][RingsFirst]_selectVars
<1>1. SelectInv /\ [SelectNext]_selectVars => [RingsFirst]_selectVars
  BY SelectStep
<1> QED
  BY <1>1, SelectInvariant, PTL DEF SelectSpec

\* The tags of a call and the skills of its queue are asked by every ring cycle that
\* begins after they were known, for any catalogue, queue and rows of user_skill
\* (internal.ts, Flow.routingOf).
THEOREM TagsSurviveHolds == SelectSpec => []TagsSurvive
<1>1. SelectInv => TagsSurvive
  BY DEF SelectInv, TagsInv, OfferInv, AsksEnough, TagsSurvive
<1> QED
  BY <1>1, SelectInvariant, PTL

\* No agent of a round-robin queue is rung twice ahead of a colleague who could have
\* taken both calls, for any number of agents, skills and calls (Routing.candidate).
THEOREM TurnsAreSharedHolds == SelectSpec => []TurnsAreShared
<1>1. SelectInv => TurnsAreShared
  BY DEF SelectInv, TurnsInv, InOrder, InTurn, TurnsAreShared
<1> QED
  BY <1>1, SelectInvariant, PTL
================================================================================
