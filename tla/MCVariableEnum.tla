---------------------------- MODULE MCVariableEnum ----------------------------
(* Four variables whose names need 1, 3, 2 and 4 CHAR16 besides the NUL,  *)
(* so that the buffer grows at the first name, is re-grown for a longer   *)
(* name that fits its capacity but not the size returned last, and is     *)
(* reused for shorter names; every enumeration order is explored.         *)
EXTENDS VariableEnum

CONSTANTS v1, v2, v3, v4

MCNames == {v1, v2, v3, v4}
MCNameLen == (v1 :> 2) @@ (v2 :> 4) @@ (v3 :> 3) @@ (v4 :> 5)
MCFaults == {"device", "getVariable"}

=============================================================================
