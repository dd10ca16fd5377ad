--------------------------------- MODULE Board ---------------------------------
(***************************************************************************)
(* What the local poller promises to everyone who reads the state store,   *)
(* without threads, queues or locks: the board shows whole polls.  A poll  *)
(* opens, the paths keep changing, and in ONE step the board takes one new *)
(* reading per entry, each of them a condition its path really had while   *)
(* that poll was open.  A poll may also be given up, leaving the board.    *)
(***************************************************************************)
CONSTANTS Conditions,    \* conditions a path can be in
          Answers,       \* those that a poll can report
          None           \* no board yet

VARIABLES paths,         \* entry index -> condition
          window,        \* entry index -> answers it has had in this poll
          open,          \* a poll is in progress
          board          \* entry index -> answer, or None

vars == <<paths, window, open, board>>

Init ==
  /\ DOMAIN window = DOMAIN paths
  /\ \A i \in DOMAIN paths : paths[i] \in Conditions /\ window[i] = {}
  /\ open = FALSE
  /\ board = None

\* Paths change whenever they like; an open poll may see the new condition.
Change ==
  \E i \in DOMAIN paths, c \in Conditions :
    /\ paths' = [paths EXCEPT ![i] = c]
    /\ window' = IF open THEN [window EXCEPT ![i] = @ \cup ({c} \cap Answers)]
                         ELSE window
    /\ UNCHANGED <<open, board>>

Open ==
  /\ ~open /\ open' = TRUE
  /\ window' = [i \in DOMAIN paths |-> {paths[i]} \cap Answers]
  /\ UNCHANGED <<paths, board>>

Close ==
  /\ open' = FALSE
  /\ window' = [i \in DOMAIN paths |-> {}]
  /\ UNCHANGED paths

\* With nothing to poll there is nothing to open.
Publish ==
  /\ open \/ DOMAIN paths = {}
  /\ Close
  /\ board' \in [DOMAIN paths -> Answers]
  /\ \A i \in DOMAIN paths : board'[i] \in window[i]

\* The poll failed: everything it had read is lost.
Abandon ==
  /\ open
  /\ Close
  /\ UNCHANGED board

Next == Change \/ Open \/ Publish \/ Abandon

Spec == Init /\ [][Next]_vars
===============================================================================
