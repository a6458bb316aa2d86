-------------------------- MODULE MCApprovalQueue ---------------------------
(* Small instances of ApprovalQueue.                                       *)
EXTENDS ApprovalQueue, TLC

CONSTANTS q1, q2, w1, w2, l1, l2

\* Requests are interchangeable, and so are the threads of one kind.
ThreadSymmetry ==
  Permutations(Ids) \cup Permutations(Resolvers) \cup Permutations(Listers)

=============================================================================
