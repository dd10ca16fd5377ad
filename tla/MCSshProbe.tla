------------------------------ MODULE MCSshProbe ------------------------------
(* Constants for SshProbe under TLC: a directory and a file on one machine,  *)
(* and a far file, reached by the same host name at another port.            *)
EXTENDS SshProbe

MCMachine  == [e \in Entries |-> IF e = "far" THEN "m2" ELSE "m1"]
OneName    == [m \in Machines |-> "h"]
===============================================================================
