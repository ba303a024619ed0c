--------------------------- MODULE Contest_proofs ---------------------------
(***************************************************************************)
(* The contest service: the projection of judge results into contest       *)
(* results and summaries, and the life cycle of a contest, for any number  *)
(* of participants, problems, submissions, calls and attempts.             *)
(***************************************************************************)
EXTENDS ContestProjection, ContestLifecycle, FiniteSetTheorems, TLAPS

-----------------------------------------------------------------------------
(***************************************************************************)
(* Proofs about the contest service's projection of judged submissions:    *)
(* the scoring pass computes the contest's rules, whatever order events    *)
(* come in the stored facts are the right ones, and concurrent             *)
(* transactions leave every result, total and snapshot what the stored     *)
(* facts say.                                                              *)
(***************************************************************************)

(***************************************************************************)
(* Induction over finite sets without an induction rule: a set that        *)
(* contains a subset of a finite set contains a smallest one.              *)
(***************************************************************************)
LEMMA SmallestSubset ==
    ASSUME NEW S, IsFiniteSet(S), NEW T, T \subseteq SUBSET S, T # {}
    PROVE  \E s \in T : \A x \in s : s \ {x} \notin T
<1>1. IsWellFoundedOn(StrictSubsetOrdering(S), SUBSET S)
  BY FS_StrictSubsetOrderingWellFounded, FS_FiniteSubsetsOfFinite
<1>2. PICK s \in T : \A r \in T : ~(<<r, s>> \in StrictSubsetOrdering(S))
  BY <1>1, WFMin
<1>3. \A x \in s : <<s \ {x}, s>> \in StrictSubsetOrdering(S)
  BY DEF StrictSubsetOrdering
<1> QED
  BY <1>2, <1>3

(* A finite set has a greatest element in every total order. *)
Total(R, S) ==
    /\ \A x, y \in S : x = y \/ <<x, y>> \in R \/ <<y, x>> \in R
    /\ \A x, y, z \in S : <<x, y>> \in R /\ <<y, z>> \in R => <<x, z>> \in R
Greatest(R, S, m) == m \in S /\ \A x \in S : x = m \/ <<x, m>> \in R

LEMMA GreatestExists ==
    ASSUME NEW S, IsFiniteSet(S), S # {}, NEW R, Total(R, S)
    PROVE  \E m : Greatest(R, S, m)
<1> SUFFICES ASSUME ~(\E m : Greatest(R, S, m)) PROVE FALSE
  OBVIOUS
<1> DEFINE T == {s \in SUBSET S : s # {} /\ ~(\E m : Greatest(R, s, m))}
<1>1. S \in T /\ T \subseteq SUBSET S
  OBVIOUS
<1>2. PICK s \in T : \A x \in s : s \ {x} \notin T
  <2> HIDE DEF T
  <2> QED
    BY <1>1, SmallestSubset
<1>3. PICK x : x \in s
  OBVIOUS
<1>4. s \ {x} = {} \/ \E m : Greatest(R, s \ {x}, m)
  BY <1>2, <1>3
<1>5. CASE s \ {x} = {}
  <2>1. Greatest(R, s, x)
    BY <1>3, <1>5 DEF Greatest
  <2> QED
    BY <2>1
<1>6. CASE \E m : Greatest(R, s \ {x}, m)
  <2>1. PICK m : Greatest(R, s \ {x}, m)
    BY <1>6
  <2>2. <<x, m>> \in R \/ <<m, x>> \in R
    BY <2>1, <1>3 DEF Greatest, Total
  <2>3. Greatest(R, s, m) \/ Greatest(R, s, x)
    BY <2>1, <2>2, <1>3 DEF Greatest, Total
  <2> QED
    BY <2>3
<1> QED
  BY <1>4, <1>5, <1>6

(***************************************************************************)
(* Facts as they come from contest_submission_results: times and ids are   *)
(* numbers and the submission's id is the key.  ORDER BY is then a total   *)
(* order.                                                                  *)
(***************************************************************************)
Keyed(F) ==
    /\ IsFiniteSet(F)
    /\ \A f \in F : f.sub \in Nat /\ f.submittedAt \in Nat /\ f.invalidated \in BOOLEAN
    /\ \A f, g \in F : f.sub = g.sub => f = g

LEMMA KeyedSubset ==
    ASSUME NEW F, Keyed(F), NEW G, G \subseteq F
    PROVE  Keyed(G)
BY FS_Subset DEF Keyed

LEMMA BeforeIsTotal ==
    ASSUME NEW F, Keyed(F)
    PROVE  /\ \A f, g \in F : f = g \/ Before(f, g) \/ Before(g, f)
           /\ \A f, g, h \in F : Before(f, g) /\ Before(g, h) => Before(f, h)
           /\ \A f, g \in F : Before(f, g) => f # g /\ ~Before(g, f)
<1>1. \A f, g \in F : f = g \/ Before(f, g) \/ Before(g, f)
  BY DEF Keyed, Before
<1>2. \A f, g, h \in F : Before(f, g) /\ Before(g, h) => Before(f, h)
  BY DEF Keyed, Before
<1>3. \A f, g \in F : Before(f, g) => f # g /\ ~Before(g, f)
  BY DEF Keyed, Before
<1> QED
  BY <1>1, <1>2, <1>3

(* There are a first and a last fact. *)
LEMMA FirstAndLast ==
    ASSUME NEW F, Keyed(F), F # {}
    PROVE  /\ \E m \in F : \A f \in F : f = m \/ Before(f, m)
           /\ \E m \in F : \A f \in F : f = m \/ Before(m, f)
<1> DEFINE Up == {r \in F \X F : Before(r[1], r[2])}
           Down == {r \in F \X F : Before(r[2], r[1])}
<1>0. IsFiniteSet(F)
  BY DEF Keyed
<1>1. Total(Up, F)
  BY BeforeIsTotal DEF Total
<1>2. Total(Down, F)
  BY BeforeIsTotal DEF Total
<1>3. \E m : Greatest(Up, F, m)
  <2> HIDE DEF Up
  <2> QED
    BY <1>0, <1>1, GreatestExists
<1>4. \E m : Greatest(Down, F, m)
  <2> HIDE DEF Down
  <2> QED
    BY <1>0, <1>2, GreatestExists
<1> QED
  BY <1>3, <1>4 DEF Greatest

(* The facts can be put in order, each once. *)
Ascending(s) == \A i, j \in DOMAIN s : i < j => Before(s[i], s[j])

LEMMA OrderExists ==
    ASSUME NEW F, Keyed(F)
    PROVE  \E s \in SetToSeqs(F) : Ascending(s)
<1> SUFFICES ASSUME ~(\E s \in SetToSeqs(F) : Ascending(s)) PROVE FALSE
  OBVIOUS
<1> DEFINE T == {G \in SUBSET F : ~(\E s \in SetToSeqs(G) : Ascending(s))}
<1>1. F \in T /\ T \subseteq SUBSET F
  OBVIOUS
<1>2. PICK G \in T : \A x \in G : G \ {x} \notin T
  <2>1. IsFiniteSet(F)
    BY DEF Keyed
  <2> HIDE DEF T
  <2> QED
    BY <1>1, <2>1, SmallestSubset
<1>3. Keyed(G)
  BY KeyedSubset
<1>4. G # {}
  <2> SUFFICES ASSUME G = {} PROVE FALSE
    OBVIOUS
  <2>1. Cardinality({}) = 0
    BY FS_EmptySet
  <2>2. 1..0 = {}
    OBVIOUS
  <2>3. <<>> \in SetToSeqs({})
    BY <2>1, <2>2 DEF SetToSeqs
  <2>4. Ascending(<<>>)
    BY DEF Ascending
  <2> QED
    BY <2>3, <2>4
<1>5. PICK m \in G : \A f \in G : f = m \/ Before(f, m)
  BY <1>3, <1>4, FirstAndLast
<1>6. PICK H : H = G \ {m}
  OBVIOUS
<1>7. PICK s \in SetToSeqs(H) : Ascending(s)
  BY <1>2, <1>5, <1>6
<1>8. PICK n : n = Cardinality(H)
  OBVIOUS
<1>9. n \in Nat /\ Cardinality(G) = n + 1
  <2>1. IsFiniteSet(G)
    BY <1>3 DEF Keyed
  <2>2. IsFiniteSet(H) /\ Cardinality(H) = Cardinality(G) - 1
    BY <2>1, <1>5, <1>6, FS_RemoveElement
  <2>3. Cardinality(H) \in Nat /\ Cardinality(G) \in Nat
    BY <2>1, <2>2, FS_CardinalityType
  <2> QED
    BY <2>2, <2>3, <1>8
<1>10. s \in [1..n -> H] /\ \A i, j \in 1..n : i # j => s[i] # s[j]
  BY <1>8 DEF SetToSeqs
<1> DEFINE t == [i \in 1..(n + 1) |-> IF i = n + 1 THEN m ELSE s[i]]
<1>11. t \in SetToSeqs(G)
  <2>1. t \in [1..(n + 1) -> G]
    BY <1>5, <1>6, <1>9, <1>10
  <2>2. \A i, j \in 1..(n + 1) : i # j => t[i] # t[j]
    BY <1>6, <1>9, <1>10
  <2> QED
    BY <2>1, <2>2, <1>9 DEF SetToSeqs
<1>12. Ascending(t)
  <2> SUFFICES ASSUME NEW i \in 1..(n + 1), NEW j \in 1..(n + 1), i < j PROVE Before(t[i], t[j])
    BY DEF Ascending
  <2>1. i \in 1..n /\ t[i] = s[i] /\ s[i] \in H
    BY <1>9, <1>10
  <2>2. CASE j = n + 1
    BY <2>1, <2>2, <1>5, <1>6
  <2>3. CASE j # n + 1
    <3>1. j \in 1..n /\ t[j] = s[j]
      BY <2>3, <1>9
    <3>2. DOMAIN s = 1..n
      BY <1>10
    <3> QED
      BY <2>1, <3>1, <3>2, <1>7 DEF Ascending
  <2> QED
    BY <2>2, <2>3
<1> QED
  BY <1>11, <1>12

(* What Rebuild passes over: every fact once, in order. *)
Enumerates(s, F) ==
    /\ s \in [1..Cardinality(F) -> F] /\ Cardinality(F) \in Nat
    /\ Ascending(s)
    /\ F = {s[i] : i \in 1..Cardinality(F)}

LEMMA InOrderEnumerates ==
    ASSUME NEW F, Keyed(F)
    PROVE  Enumerates(InOrder(F), F)
<1>0. PICK n : n = Cardinality(F)
  OBVIOUS
<1>s. PICK s : s = InOrder(F)
  OBVIOUS
<1>1. IsFiniteSet(F) /\ n \in Nat
  BY <1>0, FS_CardinalityType DEF Keyed
<1>2. s \in SetToSeqs(F) /\ Ascending(s)
  <2>1. \E t \in SetToSeqs(F) : \A i, j \in DOMAIN t : i < j => Before(t[i], t[j])
    BY OrderExists DEF Ascending
  <2> QED
    BY <2>1, <1>s DEF InOrder, Ascending
<1>3. s \in [1..n -> F] /\ \A i, j \in 1..n : i # j => s[i] # s[j]
  BY <1>0, <1>2 DEF SetToSeqs
<1>4. s \in Injection(1..n, F)
  BY <1>3 DEF Injection, IsInjective
<1>5. Cardinality(1..n) = n
  BY <1>1, FS_Interval
<1>6. s \in Surjection(1..n, F)
  BY <1>0, <1>1, <1>4, <1>5, FS_Injection
<1>7. F = {s[i] : i \in 1..n}
  BY <1>3, <1>6 DEF Surjection
<1> QED
  BY <1>0, <1>s, <1>1, <1>2, <1>3, <1>7 DEF Enumerates

(***************************************************************************)
(* The rules, one fact at a time.                                          *)
(***************************************************************************)
First(F) == CHOOSE f \in Accepted(F) : \A g \in Accepted(F) : g = f \/ Before(f, g)
WrongBefore(F, f) == {g \in WrongIn(F) : Before(g, f)}

LEMMA FirstFacts ==
    ASSUME NEW F, Keyed(F), NEW f \in Accepted(F), \A g \in Accepted(F) : g = f \/ Before(f, g)
    PROVE  First(F) = f
<1>1. \A h \in Accepted(F) : (\A g \in Accepted(F) : g = h \/ Before(h, g)) => h = f
  <2>1. Accepted(F) \subseteq F
    BY DEF Accepted, Counting
  <2> QED
    BY <2>1, BeforeIsTotal
<1> QED
  BY <1>1 DEF First

LEMMA FirstExists ==
    ASSUME NEW F, Keyed(F), Accepted(F) # {}
    PROVE  First(F) \in Accepted(F) /\ \A g \in Accepted(F) : g = First(F) \/ Before(First(F), g)
<1>1. Accepted(F) \subseteq F
  BY DEF Accepted, Counting
<1>2. Keyed(Accepted(F))
  BY <1>1, KeyedSubset
<1>3. PICK f \in Accepted(F) : \A g \in Accepted(F) : g = f \/ Before(f, g)
  BY <1>2, FirstAndLast
<1> QED
  BY <1>3, FirstFacts

(* What the updates of ScoreFact make of an unsolved score. *)
UnsolvedScore(k) == [solved |-> FALSE, wrong |-> k, acceptedId |-> NoSubmission, acceptedAt |-> 0, penalty |-> 0]
SolvedScore(k, a, b, p) == [solved |-> TRUE, wrong |-> k, acceptedId |-> a, acceptedAt |-> b, penalty |-> p]
WithWrong(r, l) == [r EXCEPT !.wrong = l]
WithSolved(r, a, b, p) == [r EXCEPT !.solved = TRUE, !.acceptedId = a, !.acceptedAt = b, !.penalty = p]

LEMMA ScoreUpdates ==
    ASSUME NEW k, NEW l, NEW a, NEW b, NEW p
    PROVE  /\ WithWrong(UnsolvedScore(k), l) = UnsolvedScore(l)
           /\ WithSolved(UnsolvedScore(k), a, b, p) = SolvedScore(k, a, b, p)
<1>n. PICK n : n = NoSubmission
  OBVIOUS
<1>z. PICK z : z = 0
  OBVIOUS
<1>r. PICK r : r = UnsolvedScore(k)
  OBVIOUS
<1>0. r = [solved |-> FALSE, wrong |-> k, acceptedId |-> n, acceptedAt |-> z, penalty |-> z]
  BY <1>n, <1>z, <1>r DEF UnsolvedScore
<1>1. PICK t : t = [r EXCEPT !.wrong = l]
  OBVIOUS
<1>2. t = [solved |-> FALSE, wrong |-> l, acceptedId |-> n, acceptedAt |-> z, penalty |-> z]
  BY <1>0, <1>1
<1>3. PICK t1 : t1 = [r EXCEPT !.solved = TRUE]
  OBVIOUS
<1>4. t1 = [solved |-> TRUE, wrong |-> k, acceptedId |-> n, acceptedAt |-> z, penalty |-> z]
  BY <1>0, <1>3
<1>5. PICK t2 : t2 = [t1 EXCEPT !.acceptedId = a]
  OBVIOUS
<1>6. t2 = [solved |-> TRUE, wrong |-> k, acceptedId |-> a, acceptedAt |-> z, penalty |-> z]
  BY <1>4, <1>5
<1>7. PICK t3 : t3 = [t2 EXCEPT !.acceptedAt = b]
  OBVIOUS
<1>8. t3 = [solved |-> TRUE, wrong |-> k, acceptedId |-> a, acceptedAt |-> b, penalty |-> z]
  BY <1>6, <1>7
<1>9. PICK t4 : t4 = [t3 EXCEPT !.penalty = p]
  OBVIOUS
<1>10. t4 = [solved |-> TRUE, wrong |-> k, acceptedId |-> a, acceptedAt |-> b, penalty |-> p]
  BY <1>8, <1>9
<1>11. t4 = [r EXCEPT !.solved = TRUE, !.acceptedId = a, !.acceptedAt = b, !.penalty = p]
  BY <1>3, <1>5, <1>7, <1>9, Zenon
<1>12. WithWrong(r, l) = UnsolvedScore(l)
  BY <1>1, <1>2, <1>n, <1>z DEF WithWrong, UnsolvedScore
<1>13. WithSolved(r, a, b, p) = SolvedScore(k, a, b, p)
  BY <1>10, <1>11 DEF WithSolved, SolvedScore
<1> QED
  BY <1>12, <1>13, <1>r

(* Without a fact the problem is unsolved. *)
LEMMA RulesOfNothing == ScoreByRules({}) = Unsolved
<1>1. Accepted({}) = {} /\ WrongIn({}) = {}
  BY DEF Accepted, WrongIn, Counting
<1>2. Cardinality(WrongIn({})) = 0
  BY <1>1, FS_EmptySet
<1>3. ScoreByRules({}) = WithWrong(UnsolvedScore(0), 0)
  BY <1>1, <1>2 DEF ScoreByRules, Unsolved, UnsolvedScore, WithWrong
<1> QED
  BY <1>3, ScoreUpdates DEF Unsolved, UnsolvedScore

(* A fact after all others changes what the rules say exactly as ScoreFact  *)
(* does.                                                                    *)
LEMMA RulesStep ==
    ASSUME NEW F, NEW x, Keyed(F \cup {x}), x \notin F, \A f \in F : Before(f, x)
    PROVE  ScoreByRules(F \cup {x}) = ScoreFact(ScoreByRules(F), x)
<1>g. PICK G : G = F \cup {x}
  OBVIOUS
<1>0. Keyed(F) /\ Keyed(G) /\ IsFiniteSet(F) /\ x \in G /\ F \subseteq G
  BY <1>g, KeyedSubset DEF Keyed
<1>1. Accepted(F) \subseteq F /\ WrongIn(F) \subseteq F
  BY DEF Accepted, WrongIn, Counting
<1>2. IsFiniteSet(WrongIn(F)) /\ Cardinality(WrongIn(F)) \in Nat
  BY <1>0, <1>1, FS_Subset, FS_CardinalityType
<1>3. CASE Accepted(F) # {}
  <2>1. PICK f : f = First(F)
    OBVIOUS
  <2>2. f \in Accepted(F) /\ \A g \in Accepted(F) : g = f \/ Before(f, g)
    BY <1>0, <1>3, <2>1, FirstExists
  <2>3. Before(f, x) /\ ~Before(x, f)
    BY <1>0, <1>1, <2>2, BeforeIsTotal
  <2>4. f \in Accepted(G) /\ \A g \in Accepted(G) : g = f \/ Before(f, g)
    BY <2>2, <2>3, <1>g DEF Accepted, Counting
  <2>5. First(G) = f
    BY <2>4, <1>0, FirstFacts
  <2>6. WrongBefore(G, f) = WrongBefore(F, f)
    BY <2>3, <1>g DEF WrongBefore, WrongIn, Counting
  <2>7. ScoreByRules(G) = ScoreByRules(F)
    BY <1>3, <2>1, <2>4, <2>5, <2>6 DEF ScoreByRules, First, WrongBefore
  <2>8. ScoreByRules(F).solved
    BY <1>3 DEF ScoreByRules
  <2> QED
    BY <2>7, <2>8, <1>g DEF ScoreFact
<1>4. CASE Accepted(F) = {}
  <2>k. PICK k : k = Cardinality(WrongIn(F))
    OBVIOUS
  <2>1. ScoreByRules(F) = WithWrong(UnsolvedScore(0), k)
    BY <1>4, <2>k DEF ScoreByRules, Unsolved, UnsolvedScore, WithWrong
  <2>2. ScoreByRules(F) = UnsolvedScore(k) /\ ScoreByRules(F).wrong = k /\ ~ScoreByRules(F).solved
    BY <2>1, ScoreUpdates DEF UnsolvedScore
  <2>3. CASE x.invalidated
    <3>1. Counting(G) = Counting(F)
      BY <2>3, <1>g DEF Counting
    <3>2. ScoreByRules(G) = ScoreByRules(F)
      BY <3>1, <1>4 DEF ScoreByRules, Accepted, WrongIn
    <3> QED
      BY <3>2, <2>3, <1>g DEF ScoreFact
  <2>4. CASE ~x.invalidated /\ x.verdict = "AC"
    <3>1. Accepted(G) = {x}
      BY <2>4, <1>4, <1>g DEF Accepted, Counting
    <3>2. First(G) = x
      BY <3>1, <1>0, FirstFacts
    <3>3. WrongBefore(G, x) = WrongIn(F)
      <4>1. x \notin WrongIn(G)
        BY <2>4 DEF WrongIn, WrongVerdicts
      <4>2. WrongIn(G) = WrongIn(F)
        BY <4>1, <1>g DEF WrongIn, Counting
      <4> QED
        BY <4>2, <1>1 DEF WrongBefore
    <3>4. PICK p : p = (x.submittedAt - StartAt) \div TicksPerSecond + k * WrongPenalty
      OBVIOUS
    <3>5. ScoreByRules(G) = SolvedScore(k, x.sub, x.submittedAt, p)
      BY <3>1, <3>2, <3>3, <3>4, <2>k DEF ScoreByRules, First, WrongBefore, SolvedScore
    <3>6. PICK r : r = ScoreByRules(F)
      OBVIOUS
    <3>7. r.wrong = k /\ ~r.solved
      BY <3>6, <2>2
    <3>8. ScoreFact(r, x) = WithSolved(r, x.sub, x.submittedAt, p)
      BY <3>4, <3>7, <2>4 DEF ScoreFact, WithSolved
    <3> QED
      BY <3>5, <3>6, <3>8, <2>2, <1>g, ScoreUpdates
  <2>5. CASE ~x.invalidated /\ x.verdict # "AC"
    <3>1. Accepted(G) = {}
      BY <2>5, <1>4, <1>g DEF Accepted, Counting
    <3>2. CASE x.verdict \in WrongVerdicts
      <4>1. WrongIn(G) = WrongIn(F) \cup {x}
        BY <3>2, <2>5, <1>g DEF WrongIn, Counting
      <4>2. Cardinality(WrongIn(G)) = k + 1
        BY <4>1, <1>1, <1>2, <2>k, FS_AddElement
      <4>3. ScoreByRules(G) = WithWrong(UnsolvedScore(0), k + 1)
        BY <3>1, <4>2 DEF ScoreByRules, Unsolved, UnsolvedScore, WithWrong
      <4>4. ScoreFact(ScoreByRules(F), x) = WithWrong(ScoreByRules(F), k + 1)
        BY <3>2, <2>5, <2>2 DEF ScoreFact, WithWrong
      <4> QED
        BY <4>3, <4>4, <2>2, <1>g, ScoreUpdates
    <3>3. CASE x.verdict \notin WrongVerdicts
      <4>1. WrongIn(G) = WrongIn(F)
        BY <3>3, <1>g DEF WrongIn, Counting
      <4>2. ScoreByRules(G) = ScoreByRules(F)
        BY <3>1, <4>1, <1>4 DEF ScoreByRules
      <4> QED
        BY <4>2, <3>3, <2>5, <2>2, <1>g DEF ScoreFact
    <3> QED
      BY <3>2, <3>3
  <2> QED
    BY <2>3, <2>4, <2>5
<1> QED
  BY <1>3, <1>4

(***************************************************************************)
(* The pass computes the rules: what they say of a part of the sequence    *)
(* satisfies the fold's recursion, and the recursion has one solution.     *)
(***************************************************************************)
LEMMA RebuildFollowsRules ==
    ASSUME NEW F, Keyed(F)
    PROVE  Rebuild(F) = ScoreByRules(F)
<1>s. PICK s : s = InOrder(F)
  OBVIOUS
<1>n. PICK n : n = Cardinality(F)
  OBVIOUS
<1>1. s \in [1..n -> F] /\ n \in Nat /\ Ascending(s) /\ F = {s[i] : i \in 1..n}
  BY <1>s, <1>n, InOrderEnumerates DEF Enumerates
<1>d. PICK D : D = 1..n
  OBVIOUS
<1>2. IsFiniteSet(D) /\ D \subseteq Nat /\ DOMAIN s = D
  <2>1. 0 \in Int /\ 1 \in Int /\ n \in Int /\ 1..n \subseteq Nat /\ DOMAIN s = 1..n
    BY <1>1
  <2>2. IsFiniteSet(1..n)
    BY <2>1, FS_Interval
  <2> QED
    BY <2>1, <2>2, <1>d
<1> DEFINE Part(I) == {s[i] : i \in I}
           IsPass(g) == g = [I \in SUBSET D |-> IF I = {} THEN Unsolved ELSE ScoreFact(g[I \ {Max(I)}], s[Max(I)])]
           iter == CHOOSE g : IsPass(g)
           G == [I \in SUBSET D |-> ScoreByRules(Part(I))]
<1>3. Rebuild(F) = iter[D]
  BY <1>s, <1>2 DEF Rebuild, FoldLeft, MapThenFoldSet
<1>4. ASSUME NEW I \in SUBSET D, I # {}
      PROVE  Max(I) \in I /\ \A i \in I : i <= Max(I)
  <2> DEFINE R == {r \in I \X I : r[1] <= r[2]}
  <2>1. IsFiniteSet(I)
    BY <1>2, FS_Subset
  <2>2. Total(R, I)
    BY <1>2 DEF Total
  <2>3. \E m : Greatest(R, I, m)
    <3> HIDE DEF R
    <3> QED
      BY <1>4, <2>1, <2>2, GreatestExists
  <2>4. PICK m : Greatest(R, I, m)
    BY <2>3
  <2>5. \E x \in I : \A y \in I : x >= y
    <3>1. m \in I /\ \A i \in I : i = m \/ <<i, m>> \in R
      BY <2>4 DEF Greatest
    <3>2. ASSUME NEW i \in I PROVE i <= m
      <4>1. i \in Nat /\ m \in Nat
        BY <3>1, <1>2
      <4>2. CASE i = m
        BY <4>1, <4>2
      <4>3. CASE <<i, m>> \in R
        BY <4>3
      <4> QED
        BY <3>1, <4>2, <4>3
    <3> QED
      BY <3>1, <3>2, <1>2
  <2> QED
    BY <2>5, <1>2 DEF Max
<1>5. ScoreByRules({}) = Unsolved
  BY RulesOfNothing
<1>6. ASSUME NEW I \in SUBSET D, I # {}, NEW m, m = Max(I)
      PROVE  ScoreByRules(Part(I)) = ScoreFact(ScoreByRules(Part(I \ {m})), s[m])
  <2>1. m \in I /\ \A i \in I : i <= m
    BY <1>4, <1>6
  <2>2. Part(I) = Part(I \ {m}) \cup {s[m]}
    BY <2>1
  <2>3. \A f \in Part(I \ {m}) : Before(f, s[m])
    BY <2>1, <1>1, <1>2 DEF Ascending
  <2>4. Keyed(Part(I))
    <3>1. Part(I) \subseteq F
      BY <1>1, <1>d
    <3> HIDE DEF Part
    <3> QED
      BY <3>1, KeyedSubset
  <2>5. s[m] \notin Part(I \ {m})
    <3>1. Part(I \ {m}) \subseteq Part(I) /\ s[m] \in Part(I)
      BY <2>1
    <3> HIDE DEF Part
    <3> QED
      BY <2>3, <2>4, <3>1, BeforeIsTotal
  <2> HIDE DEF Part
  <2> QED
    BY <2>2, <2>3, <2>4, <2>5, RulesStep
<1>7. IsPass(G)
  <2>1. \A I \in SUBSET D : G[I] = IF I = {} THEN Unsolved ELSE ScoreFact(G[I \ {Max(I)}], s[Max(I)])
    <3> SUFFICES ASSUME NEW I \in SUBSET D
                 PROVE  G[I] = IF I = {} THEN Unsolved ELSE ScoreFact(G[I \ {Max(I)}], s[Max(I)])
      OBVIOUS
    <3>1. CASE I = {}
      <4>1. Part(I) = {}
        BY <3>1
      <4> HIDE DEF Part
      <4> QED
        BY <3>1, <4>1, <1>5
    <3>2. CASE I # {}
      <4> HIDE DEF Part
      <4> QED
        BY <3>2, <1>6
    <3> QED
      BY <3>1, <3>2
  <2> HIDE DEF Part
  <2> QED
    BY <2>1
<1>8. IsPass(iter)
  <2> HIDE DEF G
  <2> QED
    BY <1>7
<1> HIDE DEF iter, Part
<1>9. iter[D] = G[D]
  <2>1. SUFFICES ASSUME iter[D] # G[D] PROVE FALSE
    OBVIOUS
  <2> DEFINE T == {I \in SUBSET D : iter[I] # G[I]}
  <2>2. T # {} /\ T \subseteq SUBSET D
    BY <2>1
  <2>3. PICK I \in T : \A x \in I : I \ {x} \notin T
    <3> HIDE DEF T
    <3> QED
      BY <1>2, <2>2, SmallestSubset
  <2>4. I # {}
    BY <1>7, <1>8
  <2>5. Max(I) \in I
    BY <2>4, <1>4
  <2>6. iter[I \ {Max(I)}] = G[I \ {Max(I)}]
    BY <2>3, <2>5
  <2>7. iter[I] = ScoreFact(iter[I \ {Max(I)}], s[Max(I)])
    BY <1>8, <2>4
  <2>8. G[I] = ScoreFact(G[I \ {Max(I)}], s[Max(I)])
    <3> HIDE DEF G
    <3> QED
      BY <1>7, <2>4
  <2> QED
    BY <2>6, <2>7, <2>8
<1>10. Part(D) = F
  BY <1>1, <1>d DEF Part
<1> QED
  BY <1>3, <1>9, <1>10

-----------------------------------------------------------------------------
(***************************************************************************)
(* The projection.  What a transaction read stays true until it commits:   *)
(* the participant's lock keeps other transactions away from the user's    *)
(* facts, and the row's lock from the fact itself.  So the invariant       *)
(* carries the transaction's reading forward to its commit.                *)
(***************************************************************************)
Busy(c) == tx[c].pc # "idle"

(* The tables and the transactions have their domains and fields. *)
TxShape(t) ==
    \/ t = NoTx
    \/ t.pc \in {"begun", "locked"} /\ t = [pc |-> t.pc, event |-> t.event]
    \/ t.pc = "stored" /\ t = [pc |-> t.pc, event |-> t.event, score |-> t.score]

ProjectionShape ==
    /\ facts = [s \in SubIds |-> facts[s]]
    /\ tx = [c \in Consumers |-> tx[c]] /\ \A c \in Consumers : TxShape(tx[c])
    /\ scores = [u \in Participants |-> scores[u]]
    /\ \A u \in Participants : scores[u] = [p \in Problems |-> scores[u][p]]

(* An open transaction handles an event that is not processed, alone; the   *)
(* locks on participants and rows are held by one transaction each.         *)
LocksHeld ==
    /\ \A c \in Consumers : Busy(c) =>
         tx[c].pc \in {"begun", "locked", "stored"} /\ tx[c].event \in Events /\ tx[c].event.id \notin processed
    /\ \A c, d \in Consumers : c # d /\ Busy(c) /\ Busy(d) =>
         /\ tx[c].event # tx[d].event
         /\ tx[c].pc # "begun" /\ tx[d].pc # "begun" => tx[c].event.user # tx[d].event.user
         /\ tx[c].pc = "stored" /\ tx[d].pc = "stored" => tx[c].event.sub # tx[d].event.sub

(* What a transaction has seen and computed is still so. *)
StillTrue(c) ==
    LET e == tx[c].event IN
    /\ Admissible(e) /\ SameIdentity(e, facts[e.sub])
    /\ facts[e.sub] # NoFact => Supersedes(e, facts[e.sub])
    /\ tx[c].score = Rebuild(VisibleFacts(e))
ReadingsHold == \A c \in Consumers : tx[c].pc = "stored" => StillTrue(c)

(* Only finitely many rows are there at any time. *)
StoredRows == {s \in SubIds : facts[s] # NoFact}
FinitelyMany == IsFiniteSet(StoredRows)

(* Only facts of the contest are stored. *)
FactsAdmissible == \A s \in SubIds : facts[s] # NoFact => Admissible(facts[s])

(* Every problem result is the pass of scoring.go over the facts that are   *)
(* stored for the user and the problem.                                     *)
ResultOf(F) == IF F = {} THEN Unsolved ELSE Rebuild(F)
ScoresAreRebuilt == \A u \in Participants, p \in Problems : scores[u][p] = ResultOf(FactsOf(u, p))

ProjectionInv ==
    /\ ProjectionShape /\ LocksHeld /\ ReadingsHold
    /\ FactsAdmissible /\ FinitelyMany /\ FactsFollowEvents /\ ScoresAreRebuilt

-----------------------------------------------------------------------------
(* An event is no empty row, and an id stands for one event. *)
LEMMA EventFacts ==
    ASSUME NEW e \in Events
    PROVE  /\ e # NoFact /\ e.sub \in SubIds
           /\ e.judgedAt \in Nat /\ e.submittedAt \in Nat /\ e.invalidated \in BOOLEAN
           /\ \A f \in Events : e.id = f.id => e = f
<1>1. DOMAIN e = {"id", "sub", "user", "problem", "verdict", "submittedAt", "judgedAt", "invalidated"}
  BY ProjectionEvents
<1>2. DOMAIN NoFact = {"id"}
  BY DEF NoFact
<1>3. e # NoFact
  BY <1>1, <1>2
<1> QED
  BY <1>3, ProjectionEvents

(* A stored fact is a processed event of its submission. *)
LEMMA StoredFacts ==
    ASSUME FactsFollowEvents, NEW s \in SubIds, facts[s] # NoFact
    PROVE  facts[s] \in Events /\ facts[s].sub = s /\ facts[s].id \in processed
<1>1. facts[s] \in ProcessedOf(s)
  BY DEF FactsFollowEvents
<1> QED
  BY <1>1 DEF ProcessedOf

(* The initial tables satisfy the projection's invariant. *)
LEMMA ProjectionInvInit == ProjectionInit => ProjectionInv
<1> SUFFICES ASSUME ProjectionInit PROVE ProjectionInv
  OBVIOUS
<1>1. ProjectionShape
  <2>1. \A c \in Consumers : tx[c] = NoTx
    BY DEF ProjectionInit
  <2>2. \A c \in Consumers : TxShape(tx[c])
    BY <2>1 DEF TxShape
  <2>3. tx = [c \in Consumers |-> tx[c]]
    BY DEF ProjectionInit
  <2>4. facts = [s \in SubIds |-> facts[s]]
    BY DEF ProjectionInit
  <2>5. scores = [u \in Participants |-> scores[u]]
    BY DEF ProjectionInit
  <2>6. \A u \in Participants : scores[u] = [p \in Problems |-> scores[u][p]]
    BY DEF ProjectionInit
  <2> QED
    BY <2>2, <2>3, <2>4, <2>5, <2>6 DEF ProjectionShape
<1>2. \A c \in Consumers : tx[c].pc = "idle"
  BY DEF ProjectionInit, NoTx
<1>3. LocksHeld
  BY <1>2 DEF LocksHeld, Busy
<1>4. ReadingsHold
  BY <1>2 DEF ReadingsHold
<1>5. \A s \in SubIds : facts[s] = NoFact
  BY DEF ProjectionInit
<1>6. FactsAdmissible
  BY <1>5 DEF FactsAdmissible
<1>7. FactsFollowEvents
  <2>1. \A s \in SubIds : ProcessedOf(s) = {}
    BY DEF ProjectionInit, ProcessedOf
  <2> QED
    BY <2>1, <1>5 DEF FactsFollowEvents
<1>8. ScoresAreRebuilt
  <2>1. \A u \in Participants, p \in Problems : FactsOf(u, p) = {}
    BY <1>5 DEF FactsOf
  <2>2. \A u \in Participants, p \in Problems : scores[u][p] = Unsolved
    BY DEF ProjectionInit
  <2> QED
    BY <2>1, <2>2 DEF ScoresAreRebuilt, ResultOf
<1> QED
  <2>1. StoredRows = {}
    BY <1>5 DEF StoredRows
  <2>2. FinitelyMany
    BY <2>1, FS_EmptySet DEF FinitelyMany
  <2> QED
    BY <2>2, <1>1, <1>3, <1>4, <1>6, <1>7, <1>8 DEF ProjectionInv

(* A step that changes one transaction and nothing else leaves what is said *)
(* of the tables alone, and what other transactions have read.              *)
OnlyTransaction(c, t) == UNCHANGED <<processed, facts, scores>> /\ tx' = [tx EXCEPT ![c] = t]
OthersStay(c, t) ==
    /\ tx'[c] = t
    /\ \A d \in Consumers \ {c} : tx'[d] = tx[d]
    /\ \A d \in Consumers \ {c} : StillTrue(d) => StillTrue(d)'
TablesHold == FactsAdmissible /\ FinitelyMany /\ FactsFollowEvents /\ ScoresAreRebuilt

LEMMA TransactionStep ==
    ASSUME ProjectionInv, NEW c \in Consumers, NEW t, OnlyTransaction(c, t), TxShape(t)
    PROVE  OthersStay(c, t) /\ TablesHold' /\ ProjectionShape'
<1> USE DEF OnlyTransaction
<1>1. tx = [d \in Consumers |-> tx[d]]
  BY DEF ProjectionInv, ProjectionShape
<1>2. tx'[c] = t /\ \A d \in Consumers \ {c} : tx'[d] = tx[d]
  BY <1>1
<1>3. ASSUME NEW d \in Consumers \ {c}, StillTrue(d) PROVE StillTrue(d)'
  <2>1. tx'[d] = tx[d] /\ facts' = facts
    BY <1>2
  <2>2. VisibleFacts(tx[d].event)' = VisibleFacts(tx[d].event)
    BY <2>1 DEF VisibleFacts
  <2> QED
    BY <1>3, <2>1, <2>2 DEF StillTrue, VisibleFacts
<1>4. FactsAdmissible'
  BY DEF ProjectionInv, FactsAdmissible
<1>5. FactsFollowEvents'
  <2>1. \A s \in SubIds : ProcessedOf(s)' = ProcessedOf(s)
    BY DEF ProcessedOf
  <2> QED
    BY <2>1 DEF ProjectionInv, FactsFollowEvents
<1>6. ScoresAreRebuilt'
  <2>1. \A u \in Participants, p \in Problems : FactsOf(u, p)' = FactsOf(u, p)
    BY DEF FactsOf
  <2> QED
    BY <2>1 DEF ProjectionInv, ScoresAreRebuilt
<1>7. ProjectionShape'
  <2>1. \A d \in Consumers : TxShape(tx'[d])
    BY <1>2 DEF ProjectionInv, ProjectionShape
  <2>2. tx' = [d \in Consumers |-> tx'[d]]
    BY <1>1
  <2> QED
    BY <2>1, <2>2 DEF ProjectionInv, ProjectionShape
<1>8. FinitelyMany'
  BY DEF ProjectionInv, FinitelyMany, StoredRows
<1> QED
  BY <1>2, <1>3, <1>4, <1>5, <1>6, <1>7, <1>8 DEF OthersStay, TablesHold

(* The locks stay one holder's if the changed transaction takes only free   *)
(* ones.                                                                    *)
TakesFreeLocks(c, t) ==
    t.pc # "idle" =>
      /\ t.pc \in {"begun", "locked", "stored"} /\ t.event \in Events /\ t.event.id \notin processed
      /\ \A d \in Consumers \ {c} : Busy(d) =>
           /\ t.event # tx[d].event
           /\ t.pc # "begun" /\ tx[d].pc # "begun" => t.event.user # tx[d].event.user
           /\ t.pc = "stored" /\ tx[d].pc = "stored" => t.event.sub # tx[d].event.sub

LEMMA LocksAfter ==
    ASSUME ProjectionInv, NEW c \in Consumers, NEW t, OnlyTransaction(c, t), TxShape(t), TakesFreeLocks(c, t),
           t.pc = "stored" => StillTrue(c)'
    PROVE  ProjectionInv'
<1>1. OthersStay(c, t) /\ TablesHold' /\ ProjectionShape'
  BY TransactionStep
<1>2. tx'[c] = t /\ \A d \in Consumers \ {c} : tx'[d] = tx[d]
  BY <1>1 DEF OthersStay
<1>3. processed' = processed
  BY DEF OnlyTransaction
<1>4. LocksHeld'
  BY <1>2, <1>3 DEF ProjectionInv, LocksHeld, Busy, TakesFreeLocks
<1>5. ReadingsHold'
  <2> SUFFICES ASSUME NEW d \in Consumers, tx'[d].pc = "stored" PROVE StillTrue(d)'
    BY DEF ReadingsHold
  <2>1. CASE d = c
    BY <2>1, <1>2
  <2>2. CASE d # c
    <3>1. StillTrue(d)
      BY <2>2, <1>2 DEF ProjectionInv, ReadingsHold
    <3> QED
      BY <3>1, <2>2, <1>1 DEF OthersStay
  <2> QED
    BY <2>1, <2>2
<1> QED
  BY <1>1, <1>4, <1>5 DEF ProjectionInv, TablesHold

(* The steps before the transaction writes keep the invariant. *)
LEMMA BeginProjectionKeeps ==
    ASSUME ProjectionInv, NEW c \in Consumers, NEW e \in Events, BeginProjection(c, e)
    PROVE  ProjectionInv'
<1> DEFINE t == [pc |-> "begun", event |-> e]
<1>1. OnlyTransaction(c, t)
  BY DEF BeginProjection, OnlyTransaction
<1>2. t.pc = "begun" /\ t.event = e
  OBVIOUS
<1>3. TxShape(t)
  BY DEF TxShape
<1>4. TakesFreeLocks(c, t)
  BY <1>2 DEF BeginProjection, TakesFreeLocks, Others, Busy
<1> HIDE DEF t
<1> QED
  BY <1>1, <1>2, <1>3, <1>4, LocksAfter

LEMMA LockParticipantKeeps ==
    ASSUME ProjectionInv, NEW c \in Consumers, LockParticipant(c)
    PROVE  ProjectionInv'
<1> DEFINE t == [pc |-> "locked", event |-> tx[c].event]
<1>1. tx[c].pc = "begun" /\ tx[c] = [pc |-> "begun", event |-> tx[c].event]
  BY DEF LockParticipant, Open, ProjectionInv, ProjectionShape, TxShape, NoTx
<1>2. OnlyTransaction(c, t)
  <2>1. [tx[c] EXCEPT !.pc = "locked"] = t
    BY <1>1
  <2>2. tx' = [tx EXCEPT ![c] = t]
    BY <2>1 DEF LockParticipant
  <2> QED
    BY <2>2 DEF LockParticipant, OnlyTransaction
<1>3. t.pc = "locked" /\ t.event = tx[c].event
  OBVIOUS
<1>4. TxShape(t)
  BY DEF TxShape
<1>5. TakesFreeLocks(c, t)
  <2>1. \A d \in Consumers \ {c} : Busy(d) => (tx[d].event.user = tx[c].event.user => tx[d].pc = "begun")
    BY DEF LockParticipant, ParticipantFree, Others, Busy
  <2>2. Busy(c)
    BY <1>1 DEF Busy
  <2>3. tx[c].event \in Events /\ tx[c].event.id \notin processed
    BY <2>2 DEF ProjectionInv, LocksHeld
  <2>4. \A d \in Consumers \ {c} : Busy(d) => tx[c].event # tx[d].event
    BY <2>2 DEF ProjectionInv, LocksHeld
  <2> HIDE DEF t
  <2> QED
    BY <1>3, <2>1, <2>3, <2>4 DEF TakesFreeLocks
<1> HIDE DEF t
<1> QED
  BY <1>2, <1>3, <1>4, <1>5, LocksAfter

LEMMA TransactionEndsKeeps ==
    ASSUME ProjectionInv, NEW c \in Consumers, RefuseEvent(c) \/ RollBack(c)
    PROVE  ProjectionInv'
<1>1. OnlyTransaction(c, NoTx)
  BY DEF RefuseEvent, RollBack, OnlyTransaction
<1>2. NoTx.pc = "idle" /\ TxShape(NoTx)
  BY DEF NoTx, TxShape
<1>3. TakesFreeLocks(c, NoTx)
  BY <1>2 DEF TakesFreeLocks
<1> QED
  BY <1>1, <1>2, <1>3, LocksAfter

LEMMA StoreFactKeeps ==
    ASSUME ProjectionInv, NEW c \in Consumers, StoreFact(c)
    PROVE  ProjectionInv'
<1>e. PICK e : e = tx[c].event
  OBVIOUS
<1>k. PICK k : k = Rebuild(VisibleFacts(e))
  OBVIOUS
<1> DEFINE t == [pc |-> "stored", event |-> e, score |-> k]
<1>1. tx[c].pc = "locked" /\ Admissible(e) /\ SameIdentity(e, facts[e.sub])
      /\ RowFree(c, e.sub)
  BY <1>e DEF StoreFact, Welcome, Open
<1>2. facts[e.sub] # NoFact => Supersedes(e, facts[e.sub])
  BY <1>e DEF StoreFact
<1>3. OnlyTransaction(c, t)
  BY <1>e, <1>k DEF StoreFact, OnlyTransaction
<1>4. t.pc = "stored" /\ t.event = e /\ t.score = k
  OBVIOUS
<1>5. TxShape(t)
  BY DEF TxShape
<1> HIDE DEF t
<1>6. TakesFreeLocks(c, t)
  <2>1. Busy(c)
    BY <1>1 DEF Busy
  <2>2. e \in Events /\ e.id \notin processed
    BY <2>1, <1>e DEF ProjectionInv, LocksHeld
  <2>3. \A d \in Consumers \ {c} : Busy(d) => e # tx[d].event /\ (tx[d].pc # "begun" => e.user # tx[d].event.user)
    BY <2>1, <1>1, <1>e DEF ProjectionInv, LocksHeld
  <2>4. \A d \in Consumers \ {c} : Busy(d) => (tx[d].pc = "stored" => tx[d].event.sub # e.sub)
    BY <1>1 DEF RowFree, Others, Busy
  <2> QED
    BY <1>4, <2>2, <2>3, <2>4 DEF TakesFreeLocks
<1>7. StillTrue(c)'
  <2>1. OthersStay(c, t)
    BY <1>3, <1>5, TransactionStep
  <2>2. tx'[c] = t
    BY <2>1 DEF OthersStay
  <2>3. facts' = facts
    BY DEF StoreFact
  <2>4. VisibleFacts(e)' = VisibleFacts(e)
    BY <2>3 DEF VisibleFacts
  <2>5. k = Rebuild(VisibleFacts(e)')
    BY <1>k, <2>4
  <2>6. (tx[c].score)' = Rebuild(VisibleFacts(e)') /\ (tx[c].event)' = e
    BY <2>2, <2>5, <1>4
  <2> QED
    BY <2>6, <2>3, <1>1, <1>2 DEF StillTrue
<1> QED
  BY <1>3, <1>4, <1>5, <1>6, <1>7, LocksAfter

(***************************************************************************)
(* The two steps that commit.                                              *)
(***************************************************************************)
Commits(c, e) == processed' = processed \cup {e.id} /\ tx' = [tx EXCEPT ![c] = NoTx]

(* Exactly the committed event is new among the processed ones, and the     *)
(* other transactions keep their events and locks.                          *)
LEMMA CommitStep ==
    ASSUME ProjectionInv, NEW c \in Consumers, NEW e, e = tx[c].event, Busy(c), Commits(c, e)
    PROVE  /\ e \in Events /\ e.sub \in SubIds /\ e.id \notin processed
           /\ \A s \in SubIds \ {e.sub} : ProcessedOf(s)' = ProcessedOf(s)
           /\ ProcessedOf(e.sub)' = ProcessedOf(e.sub) \cup {e}
           /\ tx'[c] = NoTx /\ \A d \in Consumers \ {c} : tx'[d] = tx[d]
           /\ tx' = [d \in Consumers |-> tx'[d]] /\ \A d \in Consumers : TxShape(tx'[d])
           /\ LocksHeld'
<1> USE DEF Commits
<1>1. e \in Events /\ e.id \notin processed
  BY DEF ProjectionInv, LocksHeld
<1>2. e.sub \in SubIds /\ \A f \in Events : e.id = f.id => e = f
  BY <1>1, EventFacts
<1>3. \A s \in SubIds \ {e.sub} : ProcessedOf(s)' = ProcessedOf(s)
  BY <1>1, <1>2 DEF ProcessedOf
<1>4. ProcessedOf(e.sub)' = ProcessedOf(e.sub) \cup {e}
  BY <1>1, <1>2 DEF ProcessedOf
<1>5. tx = [d \in Consumers |-> tx[d]]
  BY DEF ProjectionInv, ProjectionShape
<1>6. tx'[c] = NoTx /\ \A d \in Consumers \ {c} : tx'[d] = tx[d]
  BY <1>5
<1>7. tx' = [d \in Consumers |-> tx'[d]]
  BY <1>5
<1>8. \A d \in Consumers : TxShape(tx'[d])
  BY <1>6 DEF ProjectionInv, ProjectionShape, TxShape
<1>9. LocksHeld'
  <2>1. tx'[c].pc = "idle"
    BY <1>6 DEF NoTx
  <2>2. \A d \in Consumers \ {c} : Busy(d) => tx[d].event \in Events /\ e # tx[d].event
    BY DEF ProjectionInv, LocksHeld
  <2>3. \A d \in Consumers \ {c} : Busy(d) => tx[d].event.id # e.id
    BY <2>2, <1>2
  <2> QED
    BY <2>1, <2>3, <1>6 DEF ProjectionInv, LocksHeld, Busy
<1> QED
  BY <1>1, <1>2, <1>3, <1>4, <1>6, <1>7, <1>8, <1>9

LEMMA SkipFactKeeps ==
    ASSUME ProjectionInv, NEW c \in Consumers, SkipFact(c)
    PROVE  ProjectionInv'
<1>e. PICK e : e = tx[c].event
  OBVIOUS
<1>1. Busy(c) /\ Commits(c, e) /\ facts' = facts /\ scores' = scores
  BY <1>e DEF SkipFact, Welcome, Open, Busy, Commits
<1>2. facts[e.sub] # NoFact /\ ~Supersedes(e, facts[e.sub])
  BY <1>e DEF SkipFact
<1>3. /\ e \in Events /\ e.sub \in SubIds /\ e.id \notin processed
      /\ \A s \in SubIds \ {e.sub} : ProcessedOf(s)' = ProcessedOf(s)
      /\ ProcessedOf(e.sub)' = ProcessedOf(e.sub) \cup {e}
      /\ tx'[c] = NoTx /\ \A d \in Consumers \ {c} : tx'[d] = tx[d]
      /\ tx' = [d \in Consumers |-> tx'[d]] /\ \A d \in Consumers : TxShape(tx'[d])
      /\ LocksHeld'
  BY <1>1, <1>e, CommitStep
<1>4. ProjectionShape'
  BY <1>1, <1>3 DEF ProjectionInv, ProjectionShape
<1>5. ReadingsHold'
  <2> SUFFICES ASSUME NEW d \in Consumers, tx'[d].pc = "stored" PROVE StillTrue(d)'
    BY DEF ReadingsHold
  <2>1. d # c
    BY <1>3 DEF NoTx
  <2>2. tx'[d] = tx[d]
    BY <2>1, <1>3
  <2>3. StillTrue(d)
    BY <2>2 DEF ProjectionInv, ReadingsHold
  <2>4. VisibleFacts(tx[d].event)' = VisibleFacts(tx[d].event)
    BY <1>1, <2>2 DEF VisibleFacts
  <2> QED
    BY <2>2, <2>3, <2>4, <1>1 DEF StillTrue, VisibleFacts
<1>6. FactsAdmissible'
  BY <1>1 DEF ProjectionInv, FactsAdmissible
<1>7. FactsFollowEvents'
  <2>s. SUFFICES ASSUME NEW s \in SubIds
                 PROVE  IF ProcessedOf(s)' = {} THEN facts[s] = NoFact
                        ELSE /\ facts[s] \in ProcessedOf(s)'
                             /\ facts[s].invalidated <=> \E f \in ProcessedOf(s)' : f.invalidated
                             /\ ~facts[s].invalidated => \A f \in ProcessedOf(s)' : f.judgedAt <= facts[s].judgedAt
    BY <1>1 DEF FactsFollowEvents
  <2>1. CASE s # e.sub
    BY <2>1, <1>3 DEF ProjectionInv, FactsFollowEvents
  <2>2. CASE s = e.sub
    <3>1. facts[s] \in Events
      BY <2>2, <1>2, StoredFacts DEF ProjectionInv
    <3>2. facts[s].judgedAt \in Nat /\ e.judgedAt \in Nat
      BY <3>1, <1>3, EventFacts
    <3>3. ProcessedOf(s) # {} /\ facts[s] \in ProcessedOf(s)
          /\ (facts[s].invalidated <=> \E f \in ProcessedOf(s) : f.invalidated)
          /\ (~facts[s].invalidated => \A f \in ProcessedOf(s) : f.judgedAt <= facts[s].judgedAt)
      BY <2>2, <1>2 DEF ProjectionInv, FactsFollowEvents
    <3>4. facts[s].invalidated \/ (~e.invalidated /\ e.judgedAt <= facts[s].judgedAt)
      BY <2>2, <1>2, <3>2 DEF Supersedes
    <3> QED
      BY <3>3, <3>4, <2>2, <1>3
  <2> QED
    BY <2>1, <2>2
<1>8. ScoresAreRebuilt'
  <2>1. \A u \in Participants, p \in Problems : FactsOf(u, p)' = FactsOf(u, p)
    BY <1>1 DEF FactsOf
  <2> QED
    BY <2>1, <1>1 DEF ProjectionInv, ScoresAreRebuilt
<1>9. FinitelyMany'
  BY <1>1 DEF ProjectionInv, FinitelyMany, StoredRows
<1> QED
  BY <1>3, <1>4, <1>5, <1>6, <1>7, <1>8, <1>9 DEF ProjectionInv

LEMMA enqueueLeaderboardKeeps ==
    ASSUME ProjectionInv, NEW c \in Consumers, enqueueLeaderboard(c)
    PROVE  ProjectionInv'
<1>e. PICK e : e = tx[c].event
  OBVIOUS
<1>k. PICK k : k = tx[c].score
  OBVIOUS
<1>r. PICK row : row = [scores[e.user] EXCEPT ![e.problem] = k]
  OBVIOUS
<1>0. tx[c].pc = "stored"
  BY DEF enqueueLeaderboard, Open
<1>1. Busy(c) /\ Commits(c, e) /\ facts' = [facts EXCEPT ![e.sub] = e] /\ scores' = [scores EXCEPT ![e.user] = row]
  BY <1>0, <1>e, <1>k, <1>r DEF enqueueLeaderboard, Busy, Commits
<1>2. StillTrue(c)
  BY <1>0 DEF ProjectionInv, ReadingsHold
<1>3. Admissible(e) /\ SameIdentity(e, facts[e.sub]) /\ k = Rebuild(VisibleFacts(e))
  BY <1>2, <1>e, <1>k DEF StillTrue
<1>4. facts[e.sub] # NoFact => Supersedes(e, facts[e.sub])
  BY <1>2, <1>e DEF StillTrue
<1>5. /\ e \in Events /\ e.sub \in SubIds /\ e.id \notin processed
      /\ \A s \in SubIds \ {e.sub} : ProcessedOf(s)' = ProcessedOf(s)
      /\ ProcessedOf(e.sub)' = ProcessedOf(e.sub) \cup {e}
      /\ tx'[c] = NoTx /\ \A d \in Consumers \ {c} : tx'[d] = tx[d]
      /\ tx' = [d \in Consumers |-> tx'[d]] /\ \A d \in Consumers : TxShape(tx'[d])
      /\ LocksHeld'
  BY <1>1, <1>e, CommitStep
<1>6. e.user \in Participants /\ e.problem \in Problems
  BY <1>3 DEF Admissible
<1>7. facts = [s \in SubIds |-> facts[s]] /\ scores = [u \in Participants |-> scores[u]]
      /\ scores[e.user] = [p \in Problems |-> scores[e.user][p]]
  BY <1>6 DEF ProjectionInv, ProjectionShape
<1>8. facts'[e.sub] = e /\ \A s \in SubIds \ {e.sub} : facts'[s] = facts[s]
  BY <1>1, <1>5, <1>7
<1>9. row[e.problem] = k /\ (\A p \in Problems \ {e.problem} : row[p] = scores[e.user][p])
      /\ row = [p \in Problems |-> row[p]]
  BY <1>r, <1>6, <1>7
<1>10. scores'[e.user] = row /\ \A u \in Participants \ {e.user} : scores'[u] = scores[u]
  BY <1>1, <1>6, <1>7
<1>11. e # NoFact
  BY <1>5, EventFacts
<1>12. ProjectionShape'
  <2>1. facts' = [s \in SubIds |-> facts'[s]]
    BY <1>1, <1>7
  <2>2. scores' = [u \in Participants |-> scores'[u]]
    BY <1>1, <1>7
  <2>3. \A u \in Participants : scores'[u] = [p \in Problems |-> scores'[u][p]]
    BY <1>9, <1>10 DEF ProjectionInv, ProjectionShape
  <2> QED
    BY <2>1, <2>2, <2>3, <1>5 DEF ProjectionShape
<1>13. ReadingsHold'
  <2> SUFFICES ASSUME NEW d \in Consumers, tx'[d].pc = "stored" PROVE StillTrue(d)'
    BY DEF ReadingsHold
  <2>1. d # c
    BY <1>5 DEF NoTx
  <2>2. tx'[d] = tx[d]
    BY <2>1, <1>5
  <2>3. StillTrue(d)
    BY <2>2 DEF ProjectionInv, ReadingsHold
  <2>f. PICK f : f = tx[d].event
    OBVIOUS
  <2>4. f.user # e.user /\ f.sub # e.sub /\ f \in Events
    BY <2>1, <2>2, <2>f, <1>0, <1>e DEF ProjectionInv, LocksHeld, Busy
  <2>5. f.sub \in SubIds
    BY <2>4, EventFacts
  <2>6. facts'[f.sub] = facts[f.sub]
    BY <2>4, <2>5, <1>8
  <2>7. facts[e.sub] # NoFact => facts[e.sub].user = e.user
    BY <1>3 DEF SameIdentity
  <2>8. VisibleFacts(f)' = VisibleFacts(f)
    <3> DEFINE T == {t \in SubIds \ {f.sub} : facts[t] # NoFact /\ facts[t].user = f.user /\ facts[t].problem = f.problem}
               U == {t \in SubIds \ {f.sub} : facts'[t] # NoFact /\ facts'[t].user = f.user /\ facts'[t].problem = f.problem}
    <3>1. e.sub \notin T /\ e.sub \notin U
      BY <1>8, <2>4, <2>7
    <3>2. T = U /\ \A t \in T : facts'[t] = facts[t]
      BY <3>1, <1>8
    <3>3. {facts[s] : s \in T} = {facts'[s] : s \in U}
      BY <3>2
    <3> QED
      BY <3>3 DEF VisibleFacts
  <2>9. (tx[d].event)' = f /\ (tx[d].score)' = tx[d].score
    BY <2>2, <2>f
  <2>10. Rebuild(VisibleFacts(f)') = Rebuild(VisibleFacts(f))
    BY <2>8
  <2>11. tx[d].score = Rebuild(VisibleFacts(f)) /\ Admissible(f) /\ SameIdentity(f, facts[f.sub])
         /\ (facts[f.sub] # NoFact => Supersedes(f, facts[f.sub]))
    BY <2>3, <2>f DEF StillTrue
  <2> QED
    BY <2>6, <2>9, <2>10, <2>11 DEF StillTrue
<1>14. FactsAdmissible'
  BY <1>3, <1>8 DEF ProjectionInv, FactsAdmissible
<1>15. FactsFollowEvents'
  <2>s. SUFFICES ASSUME NEW s \in SubIds
                 PROVE  IF ProcessedOf(s)' = {} THEN facts'[s] = NoFact
                        ELSE /\ facts'[s] \in ProcessedOf(s)'
                             /\ facts'[s].invalidated <=> \E f \in ProcessedOf(s)' : f.invalidated
                             /\ ~facts'[s].invalidated => \A f \in ProcessedOf(s)' : f.judgedAt <= facts'[s].judgedAt
    BY DEF FactsFollowEvents
  <2>1. CASE s # e.sub
    BY <2>1, <1>5, <1>8 DEF ProjectionInv, FactsFollowEvents
  <2>2. CASE s = e.sub
    <3>1. e.judgedAt \in Nat /\ \A f \in ProcessedOf(s) : f.judgedAt \in Nat
      BY <1>5, EventFacts DEF ProcessedOf
    <3>2. \/ ProcessedOf(s) = {}
          \/ /\ facts[s] \in ProcessedOf(s)
             /\ ~facts[s].invalidated /\ (\A f \in ProcessedOf(s) : ~f.invalidated)
             /\ (\A f \in ProcessedOf(s) : f.judgedAt <= facts[s].judgedAt)
             /\ (e.invalidated \/ e.judgedAt > facts[s].judgedAt)
      <4>1. CASE ProcessedOf(s) = {}
        BY <4>1
      <4>2. CASE ProcessedOf(s) # {}
        <5>1. facts[s] \in ProcessedOf(s)
              /\ (facts[s].invalidated <=> \E f \in ProcessedOf(s) : f.invalidated)
              /\ (~facts[s].invalidated => \A f \in ProcessedOf(s) : f.judgedAt <= facts[s].judgedAt)
          BY <4>2 DEF ProjectionInv, FactsFollowEvents
        <5>2. facts[s] # NoFact
          BY <5>1, EventFacts DEF ProcessedOf
        <5> QED
          BY <5>1, <5>2, <2>2, <1>4 DEF Supersedes
      <4> QED
        BY <4>1, <4>2
    <3>3. ~e.invalidated => \A f \in ProcessedOf(s) : f.judgedAt <= e.judgedAt
      BY <3>1, <3>2
    <3> QED
      BY <3>1, <3>2, <3>3, <2>2, <1>5, <1>8
  <2> QED
    BY <2>1, <2>2
<1>16. ScoresAreRebuilt'
  <2>1. \A s \in SubIds : facts[s] # NoFact => InTime(facts[s])
    BY DEF ProjectionInv, FactsAdmissible, Admissible, InTime
  <2>2. InTime(e)
    BY <1>3 DEF Admissible, InTime
  <2>3. facts[e.sub] # NoFact => facts[e.sub].user = e.user /\ facts[e.sub].problem = e.problem
    BY <1>3 DEF SameIdentity
  <2>4. FactsOf(e.user, e.problem)' = VisibleFacts(e)
    <3> DEFINE T == {t \in SubIds : facts'[t] # NoFact /\ facts'[t].user = e.user /\ facts'[t].problem = e.problem
                                    /\ InTime(facts'[t])}
               U == {t \in SubIds \ {e.sub} : facts[t] # NoFact /\ facts[t].user = e.user /\ facts[t].problem = e.problem}
    <3>1. T = U \cup {e.sub}
      BY <1>5, <1>8, <1>11, <2>1, <2>2
    <3>2. \A t \in U : facts'[t] = facts[t]
      BY <1>8
    <3>3. {facts'[t] : t \in T} = {e} \cup {facts[t] : t \in U}
      <4> HIDE DEF T, U
      <4> QED
        BY <3>1, <3>2, <1>8
    <3> QED
      BY <3>3 DEF VisibleFacts, FactsOf, InTime
  <2>5. ASSUME NEW u \in Participants, NEW p \in Problems, u # e.user \/ p # e.problem
        PROVE  FactsOf(u, p)' = FactsOf(u, p)
    <3> DEFINE T == {t \in SubIds : facts'[t] # NoFact /\ facts'[t].user = u /\ facts'[t].problem = p
                                    /\ InTime(facts'[t])}
               U == {t \in SubIds : facts[t] # NoFact /\ facts[t].user = u /\ facts[t].problem = p
                                    /\ InTime(facts[t])}
    <3>1. e.sub \notin T /\ e.sub \notin U
      BY <1>8, <2>3, <2>5
    <3>2. T = U /\ \A t \in T : facts'[t] = facts[t]
      BY <3>1, <1>8
    <3>3. {facts[s] : s \in T} = {facts'[s] : s \in U}
      BY <3>2
    <3> QED
      BY <3>2, <3>3 DEF FactsOf, InTime
  <2>6. ASSUME NEW u \in Participants, NEW p \in Problems PROVE scores'[u][p] = ResultOf(FactsOf(u, p)')
    <3>1. CASE u = e.user /\ p = e.problem
      <4>1. VisibleFacts(e) # {}
        BY DEF VisibleFacts
      <4>2. ResultOf(VisibleFacts(e)) = Rebuild(VisibleFacts(e))
        BY <4>1 DEF ResultOf
      <4> QED
        BY <3>1, <4>2, <2>4, <1>3, <1>9, <1>10
    <3>2. CASE u # e.user \/ p # e.problem
      <4>1. scores'[u][p] = scores[u][p]
        BY <3>2, <1>9, <1>10
      <4>2. FactsOf(u, p)' = FactsOf(u, p)
        BY <3>2, <2>5
      <4> QED
        BY <4>1, <4>2 DEF ProjectionInv, ScoresAreRebuilt
    <3> QED
      BY <3>1, <3>2
  <2> QED
    BY <2>6 DEF ScoresAreRebuilt
<1>17. FinitelyMany'
  <2>1. StoredRows' = StoredRows \cup {e.sub}
    BY <1>5, <1>8, <1>11 DEF StoredRows
  <2> QED
    BY <2>1, FS_AddElement DEF ProjectionInv, FinitelyMany
<1> QED
  BY <1>5, <1>12, <1>13, <1>14, <1>15, <1>16, <1>17 DEF ProjectionInv

(* The step of the whole system. *)
LEMMA ProjectionInvStep == ProjectionInv /\ [ProjectionNext]_projectionVars => ProjectionInv'
<1> SUFFICES ASSUME ProjectionInv, [ProjectionNext]_projectionVars PROVE ProjectionInv'
  OBVIOUS
<1>1. CASE UNCHANGED projectionVars
  <2>1. processed' = processed /\ facts' = facts /\ scores' = scores /\ tx' = tx
    BY <1>1 DEF projectionVars
  <2>2. \A e : VisibleFacts(e)' = VisibleFacts(e)
    BY <2>1 DEF VisibleFacts
  <2>3. \A s \in SubIds : ProcessedOf(s)' = ProcessedOf(s)
    BY <2>1 DEF ProcessedOf
  <2>4. \A u \in Participants, p \in Problems : FactsOf(u, p)' = FactsOf(u, p)
    BY <2>1 DEF FactsOf
  <2>5. \A c \in Consumers : StillTrue(c) => StillTrue(c)'
    BY <2>1, <2>2 DEF StillTrue, VisibleFacts
  <2>6. ReadingsHold'
    BY <2>1, <2>5 DEF ProjectionInv, ReadingsHold
  <2>7. FactsFollowEvents'
    BY <2>1, <2>3 DEF ProjectionInv, FactsFollowEvents
  <2>8. ScoresAreRebuilt'
    BY <2>1, <2>4 DEF ProjectionInv, ScoresAreRebuilt
  <2>9. ProjectionShape' /\ LocksHeld' /\ FactsAdmissible' /\ FinitelyMany'
    BY <2>1 DEF ProjectionInv, ProjectionShape, LocksHeld, Busy, FactsAdmissible, FinitelyMany, StoredRows
  <2> QED
    BY <2>6, <2>7, <2>8, <2>9 DEF ProjectionInv
<1>2. ASSUME NEW c \in Consumers, NEW e \in Events, BeginProjection(c, e) PROVE ProjectionInv'
  BY <1>2, BeginProjectionKeeps
<1>3. ASSUME NEW c \in Consumers, NEW e \in Events, IgnoreDuplicate(c, e) PROVE ProjectionInv'
  BY <1>3, <1>1 DEF IgnoreDuplicate
<1>4. ASSUME NEW c \in Consumers, Continue(c) PROVE ProjectionInv'
  BY <1>4, LockParticipantKeeps, TransactionEndsKeeps, SkipFactKeeps, StoreFactKeeps, enqueueLeaderboardKeeps
     DEF Continue
<1>5. ASSUME NEW c \in Consumers, RollBack(c) PROVE ProjectionInv'
  BY <1>5, TransactionEndsKeeps
<1> QED
  BY <1>1, <1>2, <1>3, <1>4, <1>5 DEF ProjectionNext

(* For every number of consumers, participants, problems and events, in    *)
(* whatever order and however often the broker delivers them: a stored row *)
(* of contest_submission_results is an invalidation if one was processed,  *)
(* and the newest processed judgement of its submission otherwise.         *)
THEOREM StoredFactsFollowEvents == ProjectionSpec => []FactsFollowEvents
<1>1. ProjectionInit => ProjectionInv
  BY ProjectionInvInit
<1>2. ProjectionInv /\ [ProjectionNext]_projectionVars => ProjectionInv'
  BY ProjectionInvStep
<1>3. ProjectionInv => FactsFollowEvents
  BY DEF ProjectionInv
<1> QED
  BY <1>1, <1>2, <1>3, PTL DEF ProjectionSpec

(* The facts of a user and a problem are finitely many, with a key. *)
LEMMA FactsAreKeyed ==
    ASSUME ProjectionInv, NEW u, NEW p
    PROVE  Keyed(FactsOf(u, p))
<1> DEFINE T == {t \in SubIds : facts[t] # NoFact /\ facts[t].user = u /\ facts[t].problem = p /\ InTime(facts[t])}
           g == [t \in T |-> facts[t]]
<1>1. FactsOf(u, p) = {facts[t] : t \in T}
  BY DEF FactsOf
<1>2. \A t \in T : facts[t] \in Events /\ facts[t].sub = t
  BY StoredFacts DEF ProjectionInv
<1>3. IsFiniteSet(T)
  <2>1. T \subseteq StoredRows
    BY DEF StoredRows
  <2> HIDE DEF T
  <2> QED
    BY <2>1, FS_Subset DEF ProjectionInv, FinitelyMany
<1> HIDE DEF T
<1>4. IsFiniteSet(FactsOf(u, p))
  <2>1. g \in Surjection(T, FactsOf(u, p))
    BY <1>1 DEF Surjection
  <2> HIDE DEF g
  <2> QED
    BY <2>1, <1>3, FS_Surjection
<1>5. \A f \in FactsOf(u, p) : f \in Events
  BY <1>1, <1>2
<1>6. \A f \in FactsOf(u, p) : f.sub \in Nat /\ f.submittedAt \in Nat /\ f.invalidated \in BOOLEAN
  BY <1>5, EventFacts, ProjectionEvents
<1>7. \A f, h \in FactsOf(u, p) : f.sub = h.sub => f = h
  BY <1>1, <1>2
<1> QED
  BY <1>4, <1>6, <1>7 DEF Keyed

(* Every row of contest_problem_results is what the contest's rules say of  *)
(* all the facts committed for its user and problem.  Two things come       *)
(* together: no two transactions of a user overwrite each other's           *)
(* recomputation, although each computes its result before it commits, and  *)
(* one pass of scoring.go over the sorted facts computes the rules.         *)
THEOREM ResultsFollowRules == ProjectionSpec => []ScoresFollowRules
<1>1. ProjectionInit => ProjectionInv
  BY ProjectionInvInit
<1>2. ProjectionInv /\ [ProjectionNext]_projectionVars => ProjectionInv'
  BY ProjectionInvStep
<1>3. ProjectionInv => ScoresFollowRules
  <2> SUFFICES ASSUME ProjectionInv, NEW u \in Participants, NEW p \in Problems
               PROVE  scores[u][p] = ScoreByRules(FactsOf(u, p))
    BY DEF ScoresFollowRules
  <2>1. scores[u][p] = ResultOf(FactsOf(u, p))
    BY DEF ProjectionInv, ScoresAreRebuilt
  <2>2. ResultOf(FactsOf(u, p)) = ScoreByRules(FactsOf(u, p))
    BY FactsAreKeyed, RebuildFollowsRules, RulesOfNothing DEF ResultOf
  <2> QED
    BY <2>1, <2>2
<1> QED
  BY <1>1, <1>2, <1>3, PTL DEF ProjectionSpec

-----------------------------------------------------------------------------
(***************************************************************************)
(* The totals and the outbox of snapshots.                                 *)
(***************************************************************************)
IsSequence(q) == \E S : q \in Seq(S)
SummaryShape ==
    /\ ProjectionShape
    /\ totals = [u \in Participants |-> totals[u]] /\ cacheOutbox = [u \in Participants |-> cacheOutbox[u]]
    /\ \A u \in Participants : totals[u].version \in Nat /\ IsSequence(cacheOutbox[u])
SummaryInv == SummaryShape /\ SummaryIsCurrent

(* A sum of zeros is zero: MapThenSumSet's recursion has one solution. *)
Penalties(f, S) == MapThenSumSet(LAMBDA x : f[x].penalty, S)
LEMMA ZeroSum ==
    ASSUME NEW S, IsFiniteSet(S), NEW f, \A x \in S : f[x].penalty = 0
    PROVE  Penalties(f, S) = 0
<1> DEFINE IsSum(g) == g = [s \in SUBSET S |->
                              IF s = {} THEN 0
                              ELSE f[CHOOSE x \in s : TRUE].penalty + g[s \ {CHOOSE x \in s : TRUE}]]
           iter == CHOOSE g : IsSum(g)
<1>1. Penalties(f, S) = iter[S]
  BY DEF Penalties, MapThenSumSet, MapThenFoldSet
<1>2. IsSum([s \in SUBSET S |-> 0])
  OBVIOUS
<1>3. IsSum(iter)
  BY <1>2
<1> HIDE DEF iter
<1>4. iter[S] = 0
  <2>1. SUFFICES ASSUME iter[S] # 0 PROVE FALSE
    OBVIOUS
  <2> DEFINE T == {s \in SUBSET S : iter[s] # 0}
  <2>2. T # {} /\ T \subseteq SUBSET S
    BY <2>1
  <2>3. PICK s \in T : \A x \in s : s \ {x} \notin T
    <3> HIDE DEF T
    <3> QED
      BY <2>2, SmallestSubset
  <2>4. s # {}
    BY <1>3
  <2>5. PICK x : x = CHOOSE y \in s : TRUE
    OBVIOUS
  <2>6. x \in s
    BY <2>4, <2>5
  <2>7. iter[s \ {x}] = 0
    BY <2>3, <2>6
  <2>8. iter[s] = f[x].penalty + iter[s \ {x}]
    BY <1>3, <2>4, <2>5
  <2> QED
    BY <2>6, <2>7, <2>8
<1> QED
  BY <1>1, <1>4

(* Nothing solved sums up to the total that stands for no row. *)
LEMMA NothingSummed ==
    ASSUME NEW row, \A p \in Problems : row[p] = Unsolved
    PROVE  Summed(row, 0) = NoTotal
<1>1. \A p \in Problems : ~row[p].solved /\ row[p].penalty = 0
  BY DEF Unsolved
<1>2. {p \in Problems : row[p].solved} = {}
  BY <1>1
<1>3. Cardinality({p \in Problems : row[p].solved}) = 0
  BY <1>2, FS_EmptySet
<1>4. Penalties(row, Problems) = 0
  BY <1>1, ZeroSum, ProjectionEvents
<1> QED
  BY <1>3, <1>4 DEF Summed, NoTotal, Penalties

LEMMA SummaryInvInit == ProjectionInit => SummaryInv
<1> SUFFICES ASSUME ProjectionInit PROVE SummaryInv
  OBVIOUS
<1>1. ProjectionShape
  BY ProjectionInvInit DEF ProjectionInv
<1>2. \A u \in Participants : totals[u] = NoTotal /\ cacheOutbox[u] = <<>>
      /\ \A p \in Problems : scores[u][p] = Unsolved
  BY DEF ProjectionInit
<1>3. NoTotal.version = 0
  BY DEF NoTotal
<1>4. IsSequence(<<>>)
  <2>1. <<>> \in Seq({})
    OBVIOUS
  <2> QED
    BY <2>1 DEF IsSequence
<1>5. \A u \in Participants : totals[u].version \in Nat /\ IsSequence(cacheOutbox[u])
  BY <1>2, <1>3, <1>4
<1>6. SummaryShape
  BY <1>1, <1>5 DEF SummaryShape, ProjectionInit
<1>7. SummaryIsCurrent
  <2> SUFFICES ASSUME NEW u \in Participants
               PROVE  /\ Len(cacheOutbox[u]) = totals[u].version
                      /\ \A i \in DOMAIN cacheOutbox[u] : cacheOutbox[u][i].total.version = i
                      /\ totals[u] = Summed(scores[u], totals[u].version)
                      /\ cacheOutbox[u] = <<>>
    BY DEF SummaryIsCurrent
  <2>1. Summed(scores[u], 0) = NoTotal
    BY <1>2, NothingSummed
  <2> QED
    BY <2>1, <1>2, <1>3
<1> QED
  BY <1>6, <1>7 DEF SummaryInv

(* One more snapshot at the end of a sequence. *)
LEMMA AppendFacts ==
    ASSUME NEW q, IsSequence(q), NEW x
    PROVE  /\ IsSequence(Append(q, x)) /\ Len(q) \in Nat /\ Len(Append(q, x)) = Len(q) + 1
           /\ DOMAIN Append(q, x) = 1..(Len(q) + 1) /\ DOMAIN q = 1..Len(q)
           /\ Append(q, x)[Len(q) + 1] = x /\ (\A i \in DOMAIN q : Append(q, x)[i] = q[i])
           /\ Append(q, x) # <<>>
<1>1. PICK S : q \in Seq(S)
  BY DEF IsSequence
<1>2. q \in Seq(S \cup {x}) /\ x \in S \cup {x}
  BY <1>1
<1>3. Append(q, x) \in Seq(S \cup {x})
  BY <1>2
<1>4. IsSequence(Append(q, x))
  BY <1>3 DEF IsSequence
<1> QED
  BY <1>2, <1>4

LEMMA SummaryInvStep == SummaryInv /\ ProjectionInv /\ [ProjectionNext]_projectionVars => SummaryInv'
<1> SUFFICES ASSUME SummaryInv, ProjectionInv, [ProjectionNext]_projectionVars PROVE SummaryInv'
  OBVIOUS
<1>0. ProjectionShape'
  BY ProjectionInvStep DEF ProjectionInv
<1>1. CASE UNCHANGED <<scores, totals, cacheOutbox>>
  BY <1>0, <1>1 DEF SummaryInv, SummaryShape, SummaryIsCurrent
<1>2. ASSUME NEW c \in Consumers, enqueueLeaderboard(c) PROVE SummaryInv'
  <2>e. PICK e : e = tx[c].event
    OBVIOUS
  <2>r. PICK row : row = [scores[e.user] EXCEPT ![e.problem] = tx[c].score]
    OBVIOUS
  <2>t. PICK total : total = Summed(row, totals[e.user].version + 1)
    OBVIOUS
  <2>1. e.user \in Participants
    BY <1>2, <2>e DEF enqueueLeaderboard, Open, ProjectionInv, ReadingsHold, StillTrue, Admissible
  <2>x. PICK x : x = Snapshot(e.user, total, row)
    OBVIOUS
  <2>2. /\ scores' = [scores EXCEPT ![e.user] = row]
        /\ totals' = [totals EXCEPT ![e.user] = total]
        /\ cacheOutbox' = [cacheOutbox EXCEPT ![e.user] = Append(cacheOutbox[e.user], x)]
    BY <1>2, <2>e, <2>r, <2>t, <2>x DEF enqueueLeaderboard
  <2>3. /\ scores = [u \in Participants |-> scores[u]] /\ totals = [u \in Participants |-> totals[u]]
        /\ cacheOutbox = [u \in Participants |-> cacheOutbox[u]]
    BY DEF SummaryInv, SummaryShape, ProjectionShape
  <2>4. scores'[e.user] = row /\ totals'[e.user] = total /\ cacheOutbox'[e.user] = Append(cacheOutbox[e.user], x)
    BY <2>1, <2>2, <2>3
  <2>5. \A u \in Participants \ {e.user} :
          scores'[u] = scores[u] /\ totals'[u] = totals[u] /\ cacheOutbox'[u] = cacheOutbox[u]
    BY <2>1, <2>2, <2>3
  <2>6. PICK q : q = cacheOutbox[e.user]
    OBVIOUS
  <2>7. PICK v : v = totals[e.user].version
    OBVIOUS
  <2>8. v \in Nat /\ IsSequence(q) /\ Len(q) = v /\ \A i \in DOMAIN q : q[i].total.version = i
    BY <2>1, <2>6, <2>7 DEF SummaryInv, SummaryShape, SummaryIsCurrent
  <2>9. total = Summed(row, v + 1) /\ total.version = v + 1
    BY <2>t, <2>7 DEF Summed
  <2>10. x = [total |-> total, problems |-> row] /\ x.total = total
    BY <2>x DEF Snapshot
  <2>11. /\ IsSequence(Append(q, x)) /\ Len(Append(q, x)) = v + 1
         /\ DOMAIN Append(q, x) = 1..(v + 1) /\ DOMAIN q = 1..v
         /\ Append(q, x)[v + 1] = x /\ (\A i \in DOMAIN q : Append(q, x)[i] = q[i])
    BY <2>8, AppendFacts
  <2>12. \A i \in DOMAIN Append(q, x) : Append(q, x)[i].total.version = i
    <3> SUFFICES ASSUME NEW i \in 1..(v + 1) PROVE Append(q, x)[i].total.version = i
      BY <2>11
    <3>1. CASE i = v + 1
      BY <3>1, <2>9, <2>10, <2>11
    <3>2. CASE i # v + 1
      <4>1. i \in DOMAIN q
        BY <3>2, <2>8, <2>11
      <4> QED
        BY <4>1, <2>8, <2>11
    <3> QED
      BY <3>1, <3>2
  <2>13. SummaryShape'
    <3>1. \A u \in Participants : totals'[u].version \in Nat /\ IsSequence(cacheOutbox'[u])
      <4> SUFFICES ASSUME NEW u \in Participants PROVE totals'[u].version \in Nat /\ IsSequence(cacheOutbox'[u])
        OBVIOUS
      <4>1. CASE u = e.user
        BY <4>1, <2>4, <2>6, <2>8, <2>9, <2>11
      <4>2. CASE u # e.user
        BY <4>2, <2>5 DEF SummaryInv, SummaryShape
      <4> QED
        BY <4>1, <4>2
    <3>2. totals' = [u \in Participants |-> totals'[u]] /\ cacheOutbox' = [u \in Participants |-> cacheOutbox'[u]]
      BY <2>2, <2>3
    <3> QED
      BY <3>1, <3>2, <1>0 DEF SummaryShape
  <2>14. SummaryIsCurrent'
    <3> SUFFICES ASSUME NEW u \in Participants
                 PROVE  /\ Len(cacheOutbox'[u]) = totals'[u].version
                        /\ \A i \in DOMAIN cacheOutbox'[u] : cacheOutbox'[u][i].total.version = i
                        /\ totals'[u] = Summed(scores'[u], totals'[u].version)
                        /\ cacheOutbox'[u] # <<>> =>
                             cacheOutbox'[u][Len(cacheOutbox'[u])] = [total |-> totals'[u], problems |-> scores'[u]]
      BY DEF SummaryIsCurrent
    <3>1. CASE u = e.user
      BY <3>1, <2>4, <2>6, <2>9, <2>10, <2>11, <2>12
    <3>2. CASE u # e.user
      BY <3>2, <2>5 DEF SummaryInv, SummaryIsCurrent
    <3> QED
      BY <3>1, <3>2
  <2> QED
    BY <2>13, <2>14 DEF SummaryInv
<1> QED
  BY <1>1, <1>2 DEF ProjectionNext, projectionVars, BeginProjection, IgnoreDuplicate, Continue, LockParticipant,
                    RefuseEvent, SkipFact, StoreFact, RollBack

(* A user's row in contest_user_results is the sum over the problem        *)
(* results, every version of it has its snapshot in contest_cache_outbox,  *)
(* in order, and the newest snapshot is what the tables hold: for any      *)
(* number of consumers, users and events the cache can be brought up to    *)
(* date from the outbox alone.                                             *)
THEOREM SummariesAreCurrent == ProjectionSpec => []SummaryIsCurrent
<1>1. ProjectionInit => ProjectionInv /\ SummaryInv
  BY ProjectionInvInit, SummaryInvInit
<1>2. ProjectionInv /\ SummaryInv /\ [ProjectionNext]_projectionVars => ProjectionInv' /\ SummaryInv'
  BY ProjectionInvStep, SummaryInvStep
<1>3. SummaryInv => SummaryIsCurrent
  BY DEF SummaryInv
<1> QED
  BY <1>1, <1>2, <1>3, PTL DEF ProjectionSpec

-----------------------------------------------------------------------------
(***************************************************************************)
(* What the row lock, the database clock and the updated_at token of the   *)
(* contest service guarantee, for any number of calls, users and forms.    *)
(*                                                                         *)
(* The inductive invariant says what a call may still rely on: a call that *)
(* has passed the checks of its transaction alone holds the row, so the    *)
(* row is as it was checked (Guards), a reading with the row's token is    *)
(* the row (Reads), and once a submission has been authorised the start    *)
(* has passed and nobody can hold the row again (Frozen).                  *)
(***************************************************************************)

ContestRow ==
    [status : {"absent", "draft", "archived"}, start : Nat, end : Nat,
     problems : SUBSET FormProblems, updated : Nat]

CallRecord ==
    [pc : {"idle", "reading", "waiting", "checked"},
     kind : {"none", "create", "update", "archive", "join"}, user : Users \cup {NoUser},
     form : Forms \cup {NoForm}, view : ContestRow, now : Nat]

(* The values the life cycle keeps are of their types. *)
LifecycleType ==
    /\ clock \in Nat /\ contest \in ContestRow
    /\ participants \in [Users -> Int] /\ lock \in Calls \cup {Nobody}
    /\ call \in [Calls -> CallRecord]

(* The row is held by the one call between its checks and its commit. *)
LockHeld == \A c \in Calls : At(c, "checked") <=> lock = c

(* What the parts of a call's record mean at its program counter. *)
Shaped(r) ==
    /\ r.pc = "waiting" => r.kind \in {"update", "archive", "join"}
    /\ r.pc = "checked" => r.kind \in {"create", "update", "archive", "join"}
    /\ r.pc = "reading" => r.view.status # "absent"
    /\ r.pc \in {"waiting", "checked"} =>
         /\ r.kind = "update" => r.view.status # "absent"
         /\ r.kind \in {"create", "update"} => r.form \in Forms
         /\ r.kind = "join" => r.user \in Users

(* The row is as the checks found it while a call holds it. *)
Guards(r, row) ==
    r.pc = "checked" =>
        /\ r.kind = "create" => row.status = "absent"
        /\ r.kind # "create" => row.status = "draft" /\ r.now < row.start
        /\ r.kind = "update" => row.updated = r.view.updated

(* A reading is older than the row, or it is the row. *)
Reads(r, row) ==
    r.view.status # "absent" =>
        /\ row.status # "absent"
        /\ r.view.updated <= row.updated
        /\ r.view.updated = row.updated => r.view = row

Fits(r, row) == Shaped(r) /\ Guards(r, row) /\ Reads(r, row)
CallsFit == \A c \in Calls : Fits(call[c], contest)

(* After the first authorisation the start has passed and the row is free. *)
Frozen ==
    authorised # {} => lock = Nobody /\ contest.status = "draft" /\ contest.start <= clock

(* Authorisations and stored submissions speak of the contest as it is. *)
RequestsMatch ==
    /\ \A a \in authorised :
         /\ participants[a.user] # NotJoined /\ a.problem \in contest.problems
         /\ a.start = contest.start /\ a.end = contest.end
    /\ accepted # {} => authorised # {}
    /\ \A s \in accepted :
         /\ participants[s.user] # NotJoined /\ s.problem \in contest.problems
         /\ contest.start <= s.at /\ s.at < contest.end

LifecycleInv == LifecycleType /\ LockHeld /\ CallsFit /\ Frozen /\ RequestsMatch

-----------------------------------------------------------------------------
(* A step that only moves one call on preserves the invariant if the call's *)
(* new record fits the row and the lock follows its program counter.        *)
LEMMA CallMoves ==
    ASSUME LifecycleInv, NEW c \in Calls, NEW r \in CallRecord, Fits(r, contest),
           call' = [call EXCEPT ![c] = r], lock' \in Calls \cup {Nobody},
           r.pc = "checked" <=> lock' = c,
           \A d \in Calls \ {c} : lock' = d <=> lock = d,
           r.pc = "checked" => authorised = {},
           UNCHANGED <<clock, contest, participants, authorised, accepted>>
    PROVE  LifecycleInv'
<1>1. LifecycleType'
  BY DEF LifecycleInv, LifecycleType
<1>2. /\ call'[c] = r
      /\ \A d \in Calls \ {c} : call'[d] = call[d]
  BY DEF LifecycleInv, LifecycleType
<1>3. LockHeld'
  BY <1>2 DEF LifecycleInv, LockHeld, At
<1>4. CallsFit'
  BY <1>2 DEF LifecycleInv, CallsFit
<1>5. Frozen'
  BY LifecycleAssumption DEF LifecycleInv, LifecycleType, LockHeld, Frozen, At, Nobody
<1>6. RequestsMatch'
  BY DEF LifecycleInv, RequestsMatch
<1> QED
  BY <1>1, <1>3, <1>4, <1>5, <1>6 DEF LifecycleInv

(* While a call holds the row nothing has been authorised, and no other     *)
(* call is past its checks.                                                 *)
LEMMA HolderIsAlone ==
    ASSUME LifecycleInv, NEW c \in Calls, At(c, "checked")
    PROVE  /\ lock = c /\ authorised = {} /\ accepted = {}
           /\ \A d \in Calls \ {c} : ~At(d, "checked")
  BY LifecycleAssumption DEF LifecycleInv, LockHeld, Frozen, RequestsMatch, Nobody

(* The idle record fits every row. *)
LEMMA IdleFits == Idle \in CallRecord /\ \A row : Fits(Idle, row)
<1>1. NoContest \in ContestRow
  BY DEF NoContest, ContestRow
<1>2. Idle \in CallRecord
  BY <1>1 DEF Idle, CallRecord
<1>3. Idle.pc = "idle" /\ Idle.view.status = "absent"
  BY DEF Idle, NoContest
<1> QED
  BY <1>2, <1>3 DEF Fits, Shaped, Guards, Reads

(* A commit that leaves the row alone, or replaces it with one whose token  *)
(* is later, preserves the invariant: every reading grows older, and the    *)
(* readings that still are the row are none of them held.                   *)
LEMMA CommitMoves ==
    ASSUME LifecycleInv, NEW c \in Calls, At(c, "checked"), Finish(c),
           contest' \in ContestRow, participants' \in [Users -> Int],
           \/ contest' = contest
           \/ contest.status = "absent"
           \/ contest'.status # "absent" /\ contest'.updated > contest.updated,
           UNCHANGED <<clock, authorised, accepted>>
    PROVE  LifecycleInv'
<1>1. /\ authorised = {} /\ accepted = {}
      /\ \A d \in Calls \ {c} : ~At(d, "checked")
  BY HolderIsAlone
<1>2. /\ call'[c] = Idle
      /\ \A d \in Calls \ {c} : call'[d] = call[d]
  BY DEF LifecycleInv, LifecycleType, Finish
<1>3. LifecycleType'
  BY IdleFits DEF LifecycleInv, LifecycleType, Finish
<1>4. LockHeld'
  <2>1. Idle.pc # "checked"
    BY DEF Idle
  <2> QED
    BY <1>1, <1>2, <2>1, LifecycleAssumption DEF LockHeld, At, Finish, Nobody
<1>5. CallsFit'
  <2>1. ASSUME NEW d \in Calls \ {c} PROVE Fits(call[d], contest')
    <3>1. call[d] \in CallRecord /\ contest \in ContestRow /\ Fits(call[d], contest) /\ call[d].pc # "checked"
      BY <1>1 DEF LifecycleInv, LifecycleType, CallsFit, At
    <3>2. call[d].view.updated \in Nat /\ contest.updated \in Nat /\ contest'.updated \in Nat
      BY <3>1 DEF CallRecord, ContestRow
    <3> QED
      BY <3>1, <3>2 DEF Fits, Shaped, Guards, Reads
  <2> QED
    BY <1>2, <2>1, IdleFits DEF CallsFit
<1>6. Frozen' /\ RequestsMatch'
  BY <1>1 DEF Frozen, RequestsMatch
<1> QED
  BY <1>3, <1>4, <1>5, <1>6 DEF LifecycleInv

(* The update of updated_at always moves the token on. *)
LEMMA TouchedLater ==
    ASSUME NEW row \in ContestRow, NEW t \in Nat
    PROVE  Touched(row, t) \in Nat /\ Touched(row, t) > row.updated
  BY DEF Touched, ContestRow

-----------------------------------------------------------------------------
(* The steps before the transaction keep the invariant: they move one call  *)
(* on and neither lock nor write.                                           *)
LEMMA CallsBegin ==
    ASSUME LifecycleInv, NEW c \in Calls,
           \/ GetContest(c) \/ BeginArchive(c)
           \/ \E f \in Forms : BeginUpdate(c, f)
           \/ \E u \in Users : BeginJoin(c, u)
           \/ Refuse(c)
    PROVE  LifecycleInv'
<1> DEFINE old == call[c]
<1>1. /\ old \in CallRecord /\ Fits(old, contest) /\ contest \in ContestRow
      /\ lock \in Calls \cup {Nobody} /\ (old.pc = "checked" <=> lock = c)
  BY DEF LifecycleInv, LifecycleType, LockHeld, CallsFit, At
<1>2. ASSUME NEW r \in CallRecord, Fits(r, contest), r.pc # "checked", old.pc # "checked",
             call' = [call EXCEPT ![c] = r],
             UNCHANGED <<clock, contest, participants, lock, authorised, accepted>>
      PROVE  LifecycleInv'
  BY <1>1, <1>2, CallMoves
<1>3. CASE GetContest(c)
  <2>1. PICK r : r = [old EXCEPT !.pc = "reading", !.view = contest]
    OBVIOUS
  <2>2. r \in CallRecord /\ r.pc = "reading" /\ r.view = contest
    BY <1>1, <2>1 DEF CallRecord
  <2>3. Fits(r, contest)
    BY <1>1, <1>3, <2>2 DEF Fits, Shaped, Guards, Reads, GetContest, ContestRow
  <2>4. call' = [call EXCEPT ![c] = r] /\ old.pc = "idle"
    BY <1>3, <2>1 DEF GetContest, At
  <2> QED
    BY <1>2, <1>3, <2>2, <2>3, <2>4 DEF GetContest
<1>4. CASE BeginArchive(c)
  <2>1. PICK r : r = [old EXCEPT !.pc = "waiting", !.kind = "archive"]
    OBVIOUS
  <2>2. r \in CallRecord /\ r.pc = "waiting" /\ r.kind = "archive" /\ r.view = old.view
    BY <1>1, <2>1 DEF CallRecord
  <2>3. Fits(r, contest)
    BY <1>1, <2>2 DEF Fits, Shaped, Guards, Reads
  <2>4. call' = [call EXCEPT ![c] = r] /\ old.pc = "idle"
    BY <1>4, <2>1 DEF BeginArchive, At
  <2> QED
    BY <1>2, <1>4, <2>2, <2>3, <2>4 DEF BeginArchive
<1>5. ASSUME NEW f \in Forms, BeginUpdate(c, f) PROVE LifecycleInv'
  <2>1. PICK r : r = [old EXCEPT !.pc = "waiting", !.kind = "update", !.form = f]
    OBVIOUS
  <2>2. /\ r \in CallRecord /\ r.pc = "waiting" /\ r.kind = "update" /\ r.form = f
        /\ r.view = old.view
    BY <1>1, <2>1 DEF CallRecord
  <2>3. call' = [call EXCEPT ![c] = r] /\ old.pc = "reading"
    BY <1>5, <2>1 DEF BeginUpdate, At
  <2>4. Fits(r, contest)
    BY <1>1, <2>2, <2>3 DEF Fits, Shaped, Guards, Reads
  <2> QED
    BY <1>2, <1>5, <2>2, <2>3, <2>4 DEF BeginUpdate
<1>6. ASSUME NEW u \in Users, BeginJoin(c, u) PROVE LifecycleInv'
  <2>1. PICK r : r = [old EXCEPT !.pc = "waiting", !.kind = "join", !.user = u]
    OBVIOUS
  <2>2. /\ r \in CallRecord /\ r.pc = "waiting" /\ r.kind = "join" /\ r.user = u
        /\ r.view = old.view
    BY <1>1, <2>1 DEF CallRecord
  <2>3. Fits(r, contest)
    BY <1>1, <2>2 DEF Fits, Shaped, Guards, Reads
  <2>4. call' = [call EXCEPT ![c] = r] /\ old.pc = "idle"
    BY <1>6, <2>1 DEF BeginJoin, At
  <2> QED
    BY <1>2, <1>6, <2>2, <2>3, <2>4 DEF BeginJoin
<1>7. CASE Refuse(c)
  <2>1. Idle.pc = "idle" /\ old.pc = "waiting" /\ call' = [call EXCEPT ![c] = Idle]
    BY <1>7 DEF Refuse, At, Idle
  <2> QED
    BY <1>2, <1>7, <2>1, IdleFits DEF Refuse
<1> QED
  BY <1>3, <1>4, <1>5, <1>6, <1>7

(* Taking and giving up the row lock keep the invariant: the checks made    *)
(* behind the lock are what Guards says, and none can pass any more once a  *)
(* submission has been authorised.                                          *)
LEMMA LocksMove ==
    ASSUME LifecycleInv, NEW c \in Calls,
           \/ \E f \in Forms : BeginCreate(c, f)
           \/ LockContest(c) \/ StartOver(c) \/ GiveUp(c)
    PROVE  LifecycleInv'
<1> DEFINE old == call[c]
<1>1. /\ old \in CallRecord /\ Fits(old, contest) /\ contest \in ContestRow /\ clock \in Nat
      /\ lock \in Calls \cup {Nobody} /\ (old.pc = "checked" <=> lock = c)
      /\ \A d \in Calls : d # Nobody
  BY LifecycleAssumption DEF LifecycleInv, LifecycleType, LockHeld, CallsFit, At, Nobody
<1>2. ASSUME NEW f \in Forms, BeginCreate(c, f) PROVE LifecycleInv'
  <2>1. PICK r : r = [old EXCEPT !.pc = "checked", !.kind = "create", !.form = f, !.now = clock]
    OBVIOUS
  <2>2. /\ r \in CallRecord /\ r.pc = "checked" /\ r.kind = "create" /\ r.form = f
        /\ r.view = old.view
    BY <1>1, <2>1 DEF CallRecord
  <2>3. Fits(r, contest)
    BY <1>1, <1>2, <2>2 DEF Fits, Shaped, Guards, Reads, BeginCreate
  <2>4. call' = [call EXCEPT ![c] = r]
    BY <1>2, <2>1 DEF BeginCreate
  <2>5. authorised = {}
    BY <1>2 DEF LifecycleInv, Frozen, BeginCreate
  <2> QED
    BY <1>1, <1>2, <2>2, <2>3, <2>4, <2>5, CallMoves DEF BeginCreate
<1>3. CASE LockContest(c)
  <2>1. PICK r : r = [old EXCEPT !.pc = "checked", !.now = clock]
    OBVIOUS
  <2>2. /\ r \in CallRecord /\ r.pc = "checked" /\ r.kind = old.kind /\ r.form = old.form
        /\ r.view = old.view /\ r.user = old.user /\ r.now = clock
    BY <1>1, <2>1 DEF CallRecord
  <2>3. old.pc = "waiting" /\ old.kind \in {"update", "archive", "join"}
    BY <1>1, <1>3 DEF Fits, Shaped, LockContest, At
  <2>4. /\ contest.status = "draft" /\ clock < contest.start
        /\ old.kind = "update" => contest.updated = old.view.updated
    <3>1. Permitted(c)
      BY <1>3 DEF LockContest
    <3> QED
      BY <2>3, <3>1 DEF Permitted, NotStarted
  <2>5. Fits(r, contest)
    BY <1>1, <2>2, <2>3, <2>4 DEF Fits, Shaped, Guards, Reads
  <2>6. call' = [call EXCEPT ![c] = r]
    BY <1>3, <2>1 DEF LockContest
  <2>7. authorised = {}
    BY <1>1, <2>4 DEF LifecycleInv, Frozen, ContestRow
  <2> QED
    BY <1>1, <1>3, <2>2, <2>5, <2>6, <2>7, CallMoves DEF LockContest
<1>4. CASE StartOver(c)
  <2>1. PICK r : r = [old EXCEPT !.pc = "waiting", !.now = 0]
    OBVIOUS
  <2>2. /\ r \in CallRecord /\ r.pc = "waiting" /\ r.kind = old.kind /\ r.form = old.form
        /\ r.view = old.view /\ r.user = old.user
    BY <1>1, <2>1 DEF CallRecord
  <2>3. old.pc = "checked" /\ old.kind # "create"
    BY <1>4 DEF StartOver, At
  <2>4. Fits(r, contest)
    BY <1>1, <2>2, <2>3 DEF Fits, Shaped, Guards, Reads
  <2>5. call' = [call EXCEPT ![c] = r]
    BY <1>4, <2>1 DEF StartOver
  <2> QED
    BY <1>1, <1>4, <2>2, <2>3, <2>4, <2>5, CallMoves DEF StartOver
<1>5. CASE GiveUp(c)
  <2>1. Idle.pc = "idle" /\ call' = [call EXCEPT ![c] = Idle]
    BY <1>5 DEF GiveUp, Idle
  <2>2. lock' = IF lock = c THEN Nobody ELSE lock
    BY <1>5 DEF GiveUp
  <2> QED
    BY <1>1, <1>5, <2>1, <2>2, IdleFits, CallMoves DEF GiveUp
<1> QED
  BY <1>2, <1>3, <1>4, <1>5

(* The four writes keep the invariant. *)
LEMMA CommitsWrite ==
    ASSUME LifecycleInv, NEW c \in Calls,
           CommitCreate(c) \/ CommitUpdate(c) \/ CommitArchive(c) \/ CommitJoin(c)
    PROVE  LifecycleInv'
<1> DEFINE r == call[c]
<1>1. r \in CallRecord /\ Fits(r, contest) /\ contest \in ContestRow /\ clock \in Nat
  BY DEF LifecycleInv, LifecycleType, CallsFit
<1>2. \A t \in r.now..clock : t \in Nat
  BY <1>1 DEF CallRecord
<1>3. At(c, "checked") /\ Finish(c) /\ UNCHANGED <<clock, authorised, accepted>>
  BY DEF CommitCreate, CommitUpdate, CommitArchive, CommitJoin, Running
<1>4. ASSUME NEW f \in Forms PROVE f.start \in Nat /\ f.end \in Nat /\ f.problems \in SUBSET FormProblems
  BY LifecycleAssumption DEF FormProblems
<1>5. participants \in [Users -> Int]
  BY DEF LifecycleInv, LifecycleType
<1>6. CASE CommitCreate(c)
  <2>1. contest.status = "absent" /\ r.form \in Forms
    BY <1>1, <1>6 DEF Fits, Guards, Shaped, CommitCreate, Running, At
  <2>2. contest' \in ContestRow
    BY <1>2, <1>4, <1>6, <2>1 DEF CommitCreate, ContestRow
  <2> QED
    BY <1>3, <1>5, <1>6, <2>1, <2>2, CommitMoves DEF CommitCreate
<1>7. CASE CommitUpdate(c)
  <2>1. contest.status = "draft" /\ r.form \in Forms
    BY <1>1, <1>7 DEF Fits, Guards, Shaped, CommitUpdate, Running, At
  <2>2. PICK t \in r.now..clock :
          contest' = [contest EXCEPT !.start = r.form.start, !.end = r.form.end,
                                     !.problems = r.form.problems, !.updated = Touched(contest, t)]
    BY <1>7 DEF CommitUpdate
  <2>3. Touched(contest, t) \in Nat /\ Touched(contest, t) > contest.updated
    BY <1>1, <1>2, TouchedLater
  <2>4. /\ contest' \in ContestRow /\ contest'.status = "draft"
        /\ contest'.updated > contest.updated
    BY <1>1, <1>4, <2>1, <2>2, <2>3 DEF ContestRow
  <2> QED
    BY <1>3, <1>5, <1>7, <2>4, CommitMoves DEF CommitUpdate
<1>8. CASE CommitArchive(c)
  <2>1. PICK t \in r.now..clock :
          contest' = [contest EXCEPT !.status = "archived", !.updated = Touched(contest, t)]
    BY <1>8 DEF CommitArchive
  <2>2. Touched(contest, t) \in Nat /\ Touched(contest, t) > contest.updated
    BY <1>1, <1>2, TouchedLater
  <2>3. /\ contest' \in ContestRow /\ contest'.status = "archived"
        /\ contest'.updated > contest.updated
    BY <1>1, <2>1, <2>2 DEF ContestRow
  <2> QED
    BY <1>3, <1>5, <1>8, <2>3, CommitMoves DEF CommitArchive
<1>9. CASE CommitJoin(c)
  <2>1. PICK t \in r.now..clock : participants' = [participants EXCEPT ![r.user] = Joined(@, t)]
    BY <1>9 DEF CommitJoin
  <2>2. participants' \in [Users -> Int]
    <3>1. r.user \in Users
      BY <1>1, <1>9 DEF Fits, Shaped, CommitJoin, Running, At
    <3>2. t \in Int /\ participants[r.user] \in Int
      BY <1>2, <1>5, <3>1
    <3>3. Joined(participants[r.user], t) \in Int
      BY <3>2 DEF Joined
    <3> QED
      BY <1>5, <2>1, <3>1, <3>3
  <2>3. contest' = contest
    BY <1>9 DEF CommitJoin
  <2> QED
    BY <1>1, <1>3, <2>2, <2>3, CommitMoves
<1> QED
  BY <1>6, <1>7, <1>8, <1>9

(* A submission passing through keeps the invariant, and so does the clock. *)
LEMMA SubmissionsPass ==
    ASSUME LifecycleInv,
           \/ \E u \in Users, p \in FormProblems : AuthorizeSubmission(u, p)
           \/ \E a \in authorised : CreateSubmission(a)
           \/ Tick \/ UNCHANGED lifecycleVars
    PROVE  LifecycleInv'
<1>1. /\ UNCHANGED <<contest, participants, lock, call>>
      /\ clock' \in Nat /\ clock' >= clock /\ clock \in Nat /\ contest \in ContestRow
  BY DEF AuthorizeSubmission, CreateSubmission, Tick, lifecycleVars, LifecycleInv, LifecycleType
<1>2. LifecycleType' /\ LockHeld' /\ CallsFit'
  BY <1>1 DEF LifecycleInv, LifecycleType, LockHeld, CallsFit, At
<1>3. Frozen'
  <2>1. CASE authorised' = authorised
    BY <1>1, <2>1 DEF LifecycleInv, Frozen, ContestRow
  <2>2. ASSUME NEW u \in Users, NEW p \in FormProblems, AuthorizeSubmission(u, p) PROVE Frozen'
    BY <1>1, <2>2 DEF Frozen, AuthorizeSubmission, Shareable
  <2> QED
    BY <2>1, <2>2 DEF CreateSubmission, Tick, lifecycleVars
<1>4. RequestsMatch'
  <2>1. ASSUME NEW u \in Users, NEW p \in FormProblems, AuthorizeSubmission(u, p) PROVE RequestsMatch'
    BY <1>1, <2>1 DEF LifecycleInv, RequestsMatch, AuthorizeSubmission
  <2>2. ASSUME NEW a \in authorised, CreateSubmission(a) PROVE RequestsMatch'
    BY <1>1, <2>2 DEF LifecycleInv, RequestsMatch, CreateSubmission
  <2>3. CASE Tick \/ UNCHANGED lifecycleVars
    BY <1>1, <2>3 DEF LifecycleInv, RequestsMatch, Tick, lifecycleVars
  <2> QED
    BY <2>1, <2>2, <2>3
<1> QED
  BY <1>2, <1>3, <1>4 DEF LifecycleInv

-----------------------------------------------------------------------------
(* The lock, the token and the freeze hold in every reachable state of the  *)
(* contest service, for any number of calls, users and forms.               *)
THEOREM LifecycleInvariant == LifecycleSpec => []LifecycleInv
<1>1. LifecycleInit => LifecycleInv
  <2> SUFFICES ASSUME LifecycleInit PROVE LifecycleInv
    OBVIOUS
  <2>1. NoContest \in ContestRow
    BY DEF NoContest, ContestRow
  <2>2. LifecycleType
    BY <2>1, IdleFits DEF LifecycleInit, LifecycleType, NotJoined
  <2>3. LockHeld
    BY LifecycleAssumption DEF LifecycleInit, LockHeld, At, Idle, Nobody
  <2>4. CallsFit
    BY IdleFits DEF LifecycleInit, CallsFit
  <2> QED
    BY <2>2, <2>3, <2>4 DEF LifecycleInit, LifecycleInv, Frozen, RequestsMatch
<1>2. LifecycleInv /\ [LifecycleNext]_lifecycleVars => LifecycleInv'
  BY CallsBegin, LocksMove, CommitsWrite, SubmissionsPass DEF LifecycleNext, Handle
<1> QED
  BY <1>1, <1>2, PTL DEF LifecycleSpec

(* No edit is lost: the row an update replaces is the row its sender had on *)
(* screen, because a reading with the row's token is the row.               *)
THEOREM EditsAreNotLost == LifecycleSpec => NoLostEdit
<1>1. LifecycleInv => \A c \in Calls : Running(c, "update") => contest = call[c].view
  <2> SUFFICES ASSUME LifecycleInv, NEW c \in Calls, Running(c, "update") PROVE contest = call[c].view
    OBVIOUS
  <2>1. Fits(call[c], contest) /\ call[c].pc = "checked" /\ call[c].kind = "update"
    BY DEF LifecycleInv, CallsFit, Running, At
  <2> QED
    BY <2>1 DEF Fits, Shaped, Guards, Reads
<1>2. LifecycleInv /\ [LifecycleNext]_lifecycleVars =>
        [\A c \in Calls : Running(c, "update") /\ contest' # contest => contest = call[c].view]_lifecycleVars
  BY <1>1
<1> QED
  BY <1>2, LifecycleInvariant, PTL DEF LifecycleSpec, NoLostEdit

(* Once a submission has been authorised the contest and its participants   *)
(* are frozen: no call is past its checks, and none can pass them any more. *)
THEOREM AuthorisedIsFrozen == LifecycleSpec => FrozenOnceAuthorised
<1>1. LifecycleInv /\ [LifecycleNext]_lifecycleVars =>
        [authorised # {} => UNCHANGED <<contest, participants>>]_lifecycleVars
  <2> SUFFICES ASSUME LifecycleInv, LifecycleNext, authorised # {}
               PROVE  UNCHANGED <<contest, participants>>
    BY DEF lifecycleVars
  <2>1. \A c \in Calls : ~At(c, "checked")
    BY HolderIsAlone
  <2>2. ASSUME NEW c \in Calls, Handle(c) PROVE UNCHANGED <<contest, participants>>
    BY <2>1, <2>2 DEF Handle, GetContest, BeginArchive, BeginCreate, BeginUpdate, BeginJoin,
       LockContest, Refuse, StartOver, GiveUp, CommitCreate, CommitUpdate, CommitArchive, CommitJoin, Running
  <2> QED
    BY <2>2 DEF LifecycleNext, AuthorizeSubmission, CreateSubmission, Tick
<1> QED
  BY <1>1, LifecycleInvariant, PTL DEF LifecycleSpec, FrozenOnceAuthorised

(* Every submission stored for the contest is one the projection counts,    *)
(* however late or often the authorised request arrives.                    *)
THEOREM StoredIsAdmissible == LifecycleSpec => []AcceptedIsAdmissible
<1>1. LifecycleInv => AcceptedIsAdmissible
  BY DEF LifecycleInv, Frozen, RequestsMatch, AcceptedIsAdmissible
<1> QED
  BY <1>1, LifecycleInvariant, PTL

(* Solutions are kept back from every problem that an authorised request    *)
(* can still be stored for.                                                 *)
THEOREM SolutionsAreWithheld == LifecycleSpec => []SolutionsWithheld
<1>1. LifecycleInv => SolutionsWithheld
  <2> SUFFICES ASSUME LifecycleInv, NEW a \in authorised, clock < a.end PROVE ~KnowledgeAllowed(a.problem)
    BY DEF SolutionsWithheld
  <2>1. a.problem \in contest.problems /\ a.end = contest.end /\ contest.status = "draft"
    BY DEF LifecycleInv, Frozen, RequestsMatch
  <2>2. contest.end > clock
    BY <2>1 DEF LifecycleInv, LifecycleType, ContestRow
  <2> QED
    BY <2>1, <2>2 DEF KnowledgeAllowed
<1> QED
  BY <1>1, LifecycleInvariant, PTL
=============================================================================
