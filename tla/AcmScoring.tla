----------------------------- MODULE AcmScoring -----------------------------
(***************************************************************************)
(* ACM scoring of one participant's submissions to one problem: the pass   *)
(* over the sorted facts that scoring.go makes, and what a contest's rules *)
(* say the result is.  Times are integers, TicksPerSecond to the second.   *)
(***************************************************************************)
EXTENDS Integers, SequencesExt

CONSTANTS
    StartAt,            \* contests.start_at
    TicksPerSecond      \* resolution of submitted_at

ASSUME ScoringAssumption == StartAt \in Nat /\ TicksPerSecond \in Nat \ {0}

WrongPenalty == 1200
WrongVerdicts == {"WA", "TLE", "MLE", "RE", "CE"}
NoSubmission == 0

Score == [solved : BOOLEAN, wrong : Nat, acceptedId : Nat, acceptedAt : Nat, penalty : Int]
Unsolved == [solved |-> FALSE, wrong |-> 0, acceptedId |-> NoSubmission, acceptedAt |-> 0, penalty |-> 0]

\* ORDER BY submitted_at ASC, submission_id ASC, and the comparison of sort.Slice.
Before(f, g) == f.submittedAt < g.submittedAt \/ (f.submittedAt = g.submittedAt /\ f.sub < g.sub)
InOrder(facts) == CHOOSE s \in SetToSeqs(facts) : \A i, j \in DOMAIN s : i < j => Before(s[i], s[j])

\* One round of the loop; the first AC returns, so later facts change nothing.
ScoreFact(score, f) ==
    IF score.solved \/ f.invalidated THEN score
    ELSE IF f.verdict = "AC"
         THEN [score EXCEPT !.solved = TRUE, !.acceptedId = f.sub, !.acceptedAt = f.submittedAt,
                 !.penalty = (f.submittedAt - StartAt) \div TicksPerSecond + score.wrong * WrongPenalty]
    ELSE IF f.verdict \in WrongVerdicts THEN [score EXCEPT !.wrong = @ + 1]
    ELSE score

Rebuild(facts) == FoldLeft(ScoreFact, Unsolved, InOrder(facts))

(***************************************************************************)
(* The rules, without the pass: among the facts that still count the       *)
(* earliest AC solves the problem, and only wrong verdicts before it cost. *)
(***************************************************************************)
Counting(facts) == {f \in facts : ~f.invalidated}
Accepted(facts) == {f \in Counting(facts) : f.verdict = "AC"}
WrongIn(facts)  == {f \in Counting(facts) : f.verdict \in WrongVerdicts}

ScoreByRules(facts) ==
    IF Accepted(facts) = {}
    THEN [Unsolved EXCEPT !.wrong = Cardinality(WrongIn(facts))]
    ELSE LET first == CHOOSE f \in Accepted(facts) : \A g \in Accepted(facts) : g = f \/ Before(f, g)
             wrong == Cardinality({g \in WrongIn(facts) : Before(g, first)})
         IN  [solved |-> TRUE, wrong |-> wrong, acceptedId |-> first.sub, acceptedAt |-> first.submittedAt,
              penalty |-> (first.submittedAt - StartAt) \div TicksPerSecond + wrong * WrongPenalty]
=============================================================================
