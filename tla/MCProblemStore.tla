---------------------------- MODULE MCProblemStore ---------------------------
EXTENDS ProblemStore, TLC

\* No definition tells calls, instances, testcase numbers or limits apart.
Symmetry == Permutations(Calls) \cup Permutations(Instances) \cup Permutations(CaseNos) \cup Permutations(Limits)
=============================================================================
