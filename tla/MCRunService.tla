---------------------------- MODULE MCRunService ----------------------------
(* Small instances of RunService: the configurations give the launch        *)
(* requests and the bounds.  Two requests are enough for one to meet what   *)
(* the other left; the theorems of RunServiceProofs and RunServiceClaims    *)
(* hold for any number.                                                     *)
EXTENDS RunServiceProperties
=============================================================================
