------------------------------ MODULE Federation ------------------------------
(***************************************************************************)
(* Several daemons that show each other's entries, and what a request with *)
(* ?peers=1 makes of them: web/api.py, the reading side of PeerStore, and  *)
(* the peer threads as Peers has them, without their timing and discovery. *)
(*                                                                         *)
(* A list of entries is a set of records that carry, besides their state,  *)
(* where they come from: the node and its poll are histories, `peer` is    *)
(* the stamp of the URL they were fetched from.                            *)
(*                                                                         *)
(* Bound: a node polls at most MaxPolls times.                             *)
(***************************************************************************)
EXTENDS Integers, FiniteSets

CONSTANTS
  Nodes,
  URLs,
  LeadsTo,       \* URL -> the node that answers there
  Configured,    \* node -> the URLs under peers: in its configuration
  Discovered,    \* node -> further URLs that its scans may find
  Asked,         \* nodes whose dashboards are looked at
  Slots,         \* indices into a node's list of watched paths
  Monitored,     \* those that have the block that filtered endpoints are about
  Readings,      \* slot -> state, what a poll may find
  States,
  MaxPolls,      \* node -> number of its polls
  None           \* Python's None

ASSUME FederationAssumption ==
  /\ LeadsTo \in [URLs -> Nodes] /\ MaxPolls \in [Nodes -> Nat]
  /\ Configured \in [Nodes -> SUBSET URLs] /\ Discovered \in [Nodes -> SUBSET URLs]
  /\ \A n \in Nodes : Configured[n] \cap Discovered[n] = {}
  /\ Asked \subseteq Nodes /\ Monitored \subseteq Slots
  /\ Readings \subseteq [Slots -> States]
  /\ None \notin URLs /\ IsFiniteSet(URLs) /\ IsFiniteSet(Slots)

VARIABLE daemon    \* node -> its process: see Fresh
vars == <<daemon>>

Record(status, entries) == [status |-> status, entries |-> entries]

NoRequest == [stage |-> "idle", endpoint |-> "state", local |-> {}, peers |-> <<>>,
              aggregate |-> <<>>, counts |-> <<>>, replaced |-> {}]

\* A process before its first poll, with what PeerStore.configure has installed;
\* the number of polls counts on through restarts.
Fresh(n, polls) ==
  [up       |-> FALSE,                        \* the web server answers
   polls    |-> polls,
   store    |-> {},                           \* STORE._entries
   fetching |-> FALSE,                        \* in do_peer_poll, or asleep
   flight   |-> [u \in URLs |-> {}],          \* fetches submitted or finished
   records  |-> [u \in URLs |-> IF u \in Configured[n]   \* PEERS._records
                                THEN Record("pending", {}) ELSE None],
   request  |-> NoRequest]                    \* one with ?peers=1, being served

Init == daemon = [n \in Nodes |-> Fresh(n, 0)]

(***************************************************************************)
(* The process and its poller.                                             *)
(***************************************************************************)
Poll(n) ==
  /\ daemon[n].polls < MaxPolls[n]
  /\ \E reading \in Readings :
       daemon' = [daemon EXCEPT
         ![n].up = TRUE, ![n].polls = @ + 1,
         ![n].store = {[node |-> n, slot |-> s, poll |-> daemon[n].polls + 1,
                        state |-> reading[s], peer |-> None] : s \in Slots}]

\* Nothing is persisted: a new process begins with pending peers.  It is down
\* until its first poll is over, which may be never, and the bound leaves it one.
Restart(n) ==
  /\ daemon[n].up /\ daemon[n].polls < MaxPolls[n]
  /\ daemon' = [daemon EXCEPT ![n] = Fresh(n, daemon[n].polls)]

(***************************************************************************)
(* The peer thread.                                                        *)
(***************************************************************************)
\* Replaces a record.  A request between its two looks at the peer store notes,
\* as a history, whose record that was.
Install(n, u, record, flight) ==
  daemon' = [daemon EXCEPT
    ![n].records[u] = record,
    ![n].flight[u] = flight,
    ![n].request.replaced = IF daemon[n].request.stage = "listed"
                            THEN @ \cup {u} ELSE @]

\* A discovered peer has been silent for longer than its grace.
Forget(n, u) ==
  /\ ~daemon[n].fetching
  /\ u \in Discovered[n] /\ daemon[n].records[u] # None
  /\ Install(n, u, None, {})

\* One fetch per listed peer: the configured ones, those known from earlier
\* scans, and any that this one has found.
BeginCycle(n) ==
  /\ daemon[n].up /\ ~daemon[n].fetching
  /\ \E found \in SUBSET Discovered[n] :
       LET listed == found \cup {u \in URLs : daemon[n].records[u] # None}
       IN  /\ listed # {}
           /\ daemon' = [daemon EXCEPT
                ![n].fetching = TRUE,
                ![n].flight = [u \in URLs |-> @[u] \cup
                  IF u \in listed THEN {Record("submitted", {})} ELSE {}]]

\* The URLs in the peer store.
Known(n) == {u \in URLs : daemon[n].records[u] # None}

\* Mistaken variant: data kept from an unreachable peer counts as well.
ReachableOrKept(views) == UNION {views[u].entries : u \in DOMAIN views}

Reachable(views) ==
  UNION {views[u].entries : u \in {u \in DOMAIN views : views[u].status = "ok"}}

\* Mistaken variant: what others are served includes what we know of others.
ServedWithPeers(n) ==
  daemon[n].store \cup Reachable([u \in Known(n) |-> daemon[n].records[u]])

\* /api/state without ?peers=1, which is what a peer fetches.
Served(n) == daemon[n].store

\* Mistaken variant: a peer stays "ok" until a fetch brings something else.
FailedStaysOk(record) ==
  IF record = None THEN Record("error", {}) ELSE record

\* The record after a PeerError: what was known before is carried over.
Failed(record) ==
  Record("error", IF record = None THEN {} ELSE record.entries)

Submitted(n, u) == Record("submitted", {}) \in daemon[n].flight[u]

Result(n, u, result) ==
  daemon' = [daemon EXCEPT
    ![n].flight[u] = (@ \ {Record("submitted", {})}) \cup {result}]

\* fetch_state returns the entries that the other node serves; poll_peer
\* refuses an answer with our own instance_id.
FetchAnswered(n, u) ==
  /\ Submitted(n, u) /\ daemon[LeadsTo[u]].up
  /\ Result(n, u, IF LeadsTo[u] = n THEN Record("error", {})
                  ELSE Record("ok", Served(LeadsTo[u])))

\* The node is down, or the connection breaks or times out.
FetchLost(n, u) ==
  Submitted(n, u) /\ Result(n, u, Record("error", {}))

\* stamp_entries
Stamped(u, entries) == {[e EXCEPT !.peer = u] : e \in entries}

\* poll_peer's new record, and PeerStore.update.
Update(n, u) ==
  /\ daemon[n].fetching
  /\ \E result \in daemon[n].flight[u] :
       /\ result.status # "submitted"
       /\ Install(n, u,
            IF result.status = "ok" THEN Record("ok", Stamped(u, result.entries))
            ELSE Failed(daemon[n].records[u]),
            daemon[n].flight[u] \ {result})

\* Mistaken variant: the next cycle does not wait for the fetches of this one.
EndCycleEarly(n) ==
  /\ daemon[n].fetching
  /\ daemon' = [daemon EXCEPT ![n].fetching = FALSE]

EndCycle(n) ==
  /\ daemon[n].fetching
  /\ \A u \in URLs : daemon[n].flight[u] = {}
  /\ daemon' = [daemon EXCEPT ![n].fetching = FALSE]

(***************************************************************************)
(* A request with ?peers=1: STORE.snapshot, PEERS.snapshot, PEERS.counts,  *)
(* each under its own lock.                                                *)
(***************************************************************************)
\* The filtered endpoints: /api/space and /api/sizes, /api/entries?monitored=.
Select(endpoint, entries) ==
  IF endpoint = "state" THEN entries ELSE {e \in entries : e.slot \in Monitored}

\* watch_summary, space_summary and size_summary count the states alike.
Summary(entries) ==
  [s \in States |-> Cardinality({e \in entries : e.state = s})]

\* Mistaken variant: counts the peers of the configuration file only.
CountsConfigured(n) ==
  [status \in {"ok", "error", "pending"} |->
     Cardinality({u \in Configured[n] : daemon[n].records[u].status = status})]

\* PeerStore.counts
Counts(n) ==
  [status \in {"ok", "error", "pending"} |->
     Cardinality({u \in Known(n) : daemon[n].records[u].status = status})]

ReadLocal(n) ==
  /\ daemon[n].up /\ daemon[n].request.stage \in {"idle", "answered"}
  /\ \E endpoint \in {"state", "space"} :
       daemon' = [daemon EXCEPT ![n].request =
         [NoRequest EXCEPT !.stage = "local", !.endpoint = endpoint,
                           !.local = Select(endpoint, daemon[n].store)]]

\* _peer_views, and the summary of _aggregate over what it returned.
ReadPeers(n) ==
  LET request == daemon[n].request
      views   == [u \in Known(n) |->
                    Record(daemon[n].records[u].status,
                           Select(request.endpoint, daemon[n].records[u].entries))]
  IN  /\ request.stage = "local"
      /\ daemon' = [daemon EXCEPT ![n].request =
           [request EXCEPT !.stage = "listed", !.peers = views,
                           !.aggregate = Summary(request.local \cup Reachable(views))]]

\* The rest of _aggregate.
ReadCounts(n) ==
  /\ daemon[n].request.stage = "listed"
  /\ daemon' = [daemon EXCEPT ![n].request.stage = "answered",
                              ![n].request.counts = Counts(n)]

Cycle(n) ==
  \/ BeginCycle(n) \/ EndCycle(n)
  \/ \E u \in URLs : FetchAnswered(n, u) \/ FetchLost(n, u) \/ Update(n, u)

Next ==
  \/ \E n \in Nodes : \/ Poll(n) \/ Restart(n) \/ Cycle(n)
                      \/ \E u \in URLs : Forget(n, u)
  \/ \E n \in Asked : ReadLocal(n) \/ ReadPeers(n) \/ ReadCounts(n)

Spec == Init /\ [][Next]_vars

\* Peer threads run; every fetch ends, with an answer or by its timeout.
FairSpec == Spec /\ \A n \in Nodes : WF_vars(Cycle(n))

(***************************************************************************)
(* Properties.                                                             *)
(***************************************************************************)
\* Entries are one whole reading of one node, all slots of one of its polls,
\* under the stamp given.
IsReading(entries, node, peer) ==
  entries # {} =>
    \E poll \in 1 .. MaxPolls[node], reading \in Readings :
      entries = {[node |-> node, slot |-> s, poll |-> poll,
                  state |-> reading[s], peer |-> peer] : s \in Slots}

\* One hop: under a peer's URL are the rows of the node at that URL, never our
\* own and never what that node knows of others, and they are one reading it
\* has published, whoever restarts and whatever fetch fails.
OneHop ==
  \A n \in Nodes, u \in URLs :
    daemon[n].records[u] # None =>
      /\ IsReading(daemon[n].records[u].entries, LeadsTo[u], u)
      /\ LeadsTo[u] = n => daemon[n].records[u].entries = {}

\* The aggregate of an answer counts each entry that the same answer lists
\* under a connected peer, and each local one, once, and nothing that is dimmed.
AggregateAddsUp ==
  \A n \in Asked : LET request == daemon[n].request IN
    request.stage \in {"listed", "answered"} =>
      \A s \in States :
        request.aggregate[s] =
          Cardinality({e \in request.local : e.state = s})
          + Cardinality(UNION {{<<u, e>> : e \in {x \in request.peers[u].entries :
                                                    x.state = s}} :
                          u \in {v \in DOMAIN request.peers :
                                   request.peers[v].status = "ok"}})

\* The counts of an answer are taken after its list of peers, so they may differ,
\* but only about peers whose record was replaced in between.
CountsFollowList ==
  \A n \in Asked : LET request == daemon[n].request IN
    request.stage = "answered" =>
      \A status \in {"ok", "error", "pending"} :
        LET steady == {u \in DOMAIN request.peers \ request.replaced :
                         request.peers[u].status = status}
        IN  request.counts[status] \in
              Cardinality(steady) ..
                Cardinality(steady) + Cardinality(request.replaced)

\* What is shown of a node never goes back to an older reading of it.
Forward ==
  \A n \in Nodes, u \in URLs :
    (daemon[n].records[u] # None /\ daemon'[n].records[u] # None) =>
      \A e \in daemon[n].records[u].entries, f \in daemon'[n].records[u].entries :
        f.poll >= e.poll

NeverGoesBack == [][Forward]_vars

\* When a node stays up and fetches of it succeed, a configured peer that stays
\* up ends up showing its latest reading for good, as connected; one that is
\* down for good is not counted.
PeersAreFollowed ==
  \A n \in Nodes : \A u \in Configured[n] :
    LeadsTo[u] # n =>
      /\ (/\ <>[](daemon[n].up /\ daemon[LeadsTo[u]].up)
          /\ <>[][~FetchLost(n, u)]_vars)
           => <>[](daemon[n].records[u] =
                     Record("ok", Stamped(u, daemon[LeadsTo[u]].store)))
      /\ (<>[](daemon[n].up /\ ~daemon[LeadsTo[u]].up))
           => <>[](daemon[n].records[u].status # "ok")
===============================================================================
