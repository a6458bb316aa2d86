--------------------------- MODULE MCCredentials ----------------------------
(* Small instances of Credentials.                                         *)
EXTENDS Credentials

CONSTANTS r1, r2

=============================================================================
