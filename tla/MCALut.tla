------------------------------- MODULE MCALut -------------------------------
(* Model-checking instance of ALut: three callers, three segments of two   *)
(* granules, the third segment in the second physical array.             *)
EXTENDS ALut

MCReqs == { [addr |-> a, size |-> s] : a \in 0 .. 3, s \in 1 .. 3 }

=============================================================================
