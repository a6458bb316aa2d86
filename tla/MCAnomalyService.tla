-------------------------- MODULE MCAnomalyService --------------------------
(* Small instances of AnomalyService and IdentityApi.                      *)
EXTENDS AnomalyService

CONSTANTS a1, a2, w1, w2

=============================================================================
