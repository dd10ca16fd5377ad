------------------------------ MODULE MCDashboard ------------------------------
(* Constants for Dashboard under TLC. *)
EXTENDS Dashboard, TLC

\* One host group and one peer group.
Shows(local, peer, status) ==
  "here" :> [entries |-> local, status |-> "local"]
    @@ "there" :> [entries |-> peer, status |-> status]

\* Each group quiet in one answer and alarmed in the other: the local one by an
\* entry, the peer by being lost.
MCAnswers ==
  {Shows({"warning", "critical"}, {"warning"}, "ok"),
   Shows({"warning"}, {"warning"}, "error")}
===============================================================================
