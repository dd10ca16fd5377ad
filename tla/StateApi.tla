------------------------------- MODULE StateApi -------------------------------
(***************************************************************************)
(* A request to /api/state served while the poller of Poller runs: the     *)
(* handler calls STORE.snapshot and then STORE.meta, each under the        *)
(* store's lock, and the poller may publish in between.                    *)
(***************************************************************************)
EXTENDS Poller

VARIABLES
  request,    \* stage, the entries it took, the poll it reports timing of
  published   \* history: polls published between its two reads

apiVars == <<vars, request, published>>

ApiInit ==
  /\ Init
  /\ request = [stage |-> "idle", entries |-> <<>>, last |-> 0]
  /\ published = {}

\* data = STORE.snapshot()
ReadEntries ==
  /\ up /\ request.stage # "entries read"
  /\ request' = [stage |-> "entries read", entries |-> store, last |-> 0]
  /\ published' = {}
  /\ UNCHANGED vars

\* Mistaken variant: the time of the poll in progress, if there is one.
ReadMetaOfPollBegun ==
  /\ request.stage = "entries read"
  /\ request' = [request EXCEPT !.stage = "answered", !.last = gen]
  /\ UNCHANGED <<vars, published>>

\* meta = STORE.meta(), and the answer is complete.
ReadMeta ==
  /\ request.stage = "entries read"
  /\ request' = [request EXCEPT !.stage = "answered", !.last = last]
  /\ UNCHANGED <<vars, published>>

DaemonStep ==
  /\ Next
  /\ published' = IF request.stage = "entries read" /\ last' # last
                  THEN published \cup {last'} ELSE published
  /\ UNCHANGED request

ApiNext == DaemonStep \/ ReadEntries \/ ReadMeta

ApiSpec == ApiInit /\ [][ApiNext]_apiVars

\* An /api/state answer is made by two reads of the store, with any number of
\* polls in between.  Its entries are one whole poll, and the poll time that it
\* reports with them is that of this poll or of one published since, while the
\* request was served: never of an earlier poll, of one that is not over or was
\* abandoned, or of none.
AnswerTimesNearItsEntries ==
  request.stage = "answered" =>
    \E poll \in 1 .. Generations :
      /\ WholePoll(request.entries, poll)
      /\ request.last \in {poll} \cup published

\* Expected to fail.  The poll time an answer reports is that of its entries.
AnswerTimesItsEntries ==
  request.stage = "answered" =>
    \A i \in DOMAIN request.entries : request.entries[i].poll = request.last
===============================================================================
