------------------------------ MODULE MCRetest ------------------------------
(***************************************************************************)
(* The first of two jobs can find all there is to find.                    *)
(***************************************************************************)
EXTENDS Retest

FirstJob == [k \in Key |-> CHOOSE j \in Job : TRUE]
=============================================================================
