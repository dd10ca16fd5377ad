------------------------------- MODULE MCPoller -------------------------------
(* Constants for Poller under TLC. *)
EXTENDS Poller

TwoAnswers == {"fine", "missing"}
===============================================================================
