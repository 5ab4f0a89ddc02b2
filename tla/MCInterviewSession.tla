------------------------ MODULE MCInterviewSession ------------------------
EXTENDS InterviewSession, TLC
Symmetry == Permutations(Req)
============================================================================
