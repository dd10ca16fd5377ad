------------------------------ MODULE MCStateApi ------------------------------
(* Constants for StateApi under TLC. *)
EXTENDS StateApi

OneAnswer == {"fine"}
===============================================================================
