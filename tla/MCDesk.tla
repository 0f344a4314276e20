------------------------------- MODULE MCDesk --------------------------------
(***************************************************************************)
(* Inputs and rounds for Desk: fewer rounds than 6, 3 and 3.               *)
(***************************************************************************)
EXTENDS Desk

CONSTANTS a, b

(* Cycle a starts with or without prices, forced or not; b is a plain one. *)
MCInputs ==
  [c \in Cycles |-> IF c = a THEN [bars : BOOLEAN, force : BOOLEAN]
                    ELSE {[bars |-> TRUE, force |-> FALSE]}]

MCRounds == [n \in Nodes |-> IF n \in Analysts THEN 2 ELSE 1]
=============================================================================
