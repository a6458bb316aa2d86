-------------------------- MODULE MCAuditPipeline ---------------------------
(* Small instances of AuditPipeline.                                       *)
EXTENDS AuditPipeline

CONSTANTS p1, p2, a1

\* Every producer publishes for one identity.
OneAgent == [p \in Producers |-> a1]

=============================================================================
