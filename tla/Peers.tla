--------------------------------- MODULE Peers ---------------------------------
(***************************************************************************)
(* Federation as one daemon sees it: the peer thread of peers.py with its  *)
(* discovery bookkeeping (DiscoveryState), and the PeerStore of state.py.  *)
(*                                                                         *)
(* A cycle of peer_loop runs a discovery scan when one is due, drops the   *)
(* peers not heard of for the grace period, fetches every enabled peer     *)
(* concurrently, and sleeps.  Everything in a cycle takes time, and `now`  *)
(* is read once at its beginning, so times are kept as ages in ticks: the  *)
(* age of a time stamp grows with every tick, and stamping with `now`      *)
(* makes a stamp as old as the cycle.                                      *)
(*                                                                         *)
(* A peer is its URL.  What a successful fetch brings (entries, last_ok,   *)
(* version, hostname, the peer's own poll times) is one value, because the *)
(* code always replaces or keeps these together; the attempt and failure   *)
(* counters, timings and error texts are left out.  The pool of ten        *)
(* threads is left out too: a fetch touches nothing shared, so only the    *)
(* order in which results arrive matters, and that is arbitrary here.      *)
(*                                                                         *)
(* Bounds: a cycle, oversleeping included, takes at most MaxBusy ticks;    *)
(* ages stop at MaxAge; missed scans are counted to two.                   *)
(***************************************************************************)
EXTENDS Integers, Sequences, FiniteSets

CONSTANTS
  Static,         \* the configured peers, a sequence of URLs
  Disabled,       \* those of them with enabled: false
  Announced,      \* URLs that responders on the network announce
  Probed,         \* those whose host is in discover.probe
  Excluded,       \* those whose host matches discover.exclude
  Own,            \* URLs that lead back to this very instance
  Payloads,       \* what peers may serve
  Breaks,         \* URLs whose answer may be one that fetch_state lets raise
  Discovers,      \* is discovery enabled?
  Interval,       \* discover.interval
  Grace,          \* discover.grace
  PeerInterval,   \* effective_peer_interval()
  MaxBusy,        \* longest cycle
  None            \* Python's None

StaticSet == {Static[k] : k \in 1 .. Len(Static)}
URLs      == StaticSet \cup Announced
MaxAge    == Grace + MaxBusy + 1

Record(status, data) == [status |-> status, data |-> data]

ASSUME PeersAssumption ==
  /\ Static \in Seq(StaticSet)
  /\ Len(Static) = Cardinality(StaticSet)      \* _dedupe_peers
  /\ Disabled \subseteq StaticSet
  /\ Probed \subseteq Announced /\ Excluded \subseteq Announced
  /\ Own \subseteq URLs
  /\ None \notin Payloads /\ None \notin Int
  /\ \A status \in {"pending", "disabled", "ok", "error"}, data \in Payloads \cup {None} :
       None # Record(status, data)
  /\ Discovers \in BOOLEAN
  /\ {Interval, Grace, PeerInterval} \subseteq Nat \ {0} /\ MaxBusy \in Nat

VARIABLES
  responds,   \* does the responder of an announced URL run?
  reach,      \* what fetching a URL leads to at the moment
  thread,     \* where the peer thread is
  elapsed,    \* ticks since this cycle read `now`, 0 between cycles
  timer,      \* ticks left of time.sleep
  heard,      \* URLs of the multicast answers of the scan in progress
  seenAge,    \* DISCOVERY._seen: age of discovery_last_seen, None if not in it
  missed,     \* scans since then, up to two; discovery_missing when not zero
  scanAge,    \* age of DISCOVERY.last_scan, None before the first
  gone,       \* URLs expired but not yet removed from PEERS
  fetch,      \* progress of the fetches of this cycle
  previous,   \* do_peer_poll's previous, of peers not updated yet: their data
  order,      \* PEERS._order
  records     \* PEERS._records, None for a URL that has no record

vars == <<responds, reach, thread, elapsed, timer, heard, seenAge, missed,
          scanAge, gone, fetch, previous, order, records>>

environment == <<responds, reach>>
discovery   == <<seenAge, missed, scanAge>>
fetches     == <<fetch, previous>>
peerStore   == <<order, records>>

\* PeerStore.configure, called by main before the peer thread starts.
Init ==
  /\ responds \in [Announced -> BOOLEAN]
  /\ reach \in [URLs -> {"answers", "fails"}]
  /\ thread = "asleep"         \* with no sleep before the first cycle
  /\ elapsed = 0
  /\ timer = 0
  /\ heard = {}
  /\ seenAge = [u \in Announced |-> None]
  /\ missed = [u \in Announced |-> 0]
  /\ scanAge = None
  /\ gone = {}
  /\ fetch = [u \in URLs |-> "none"]
  /\ previous = [u \in URLs |-> None]
  /\ order = Static
  /\ records = [u \in URLs |->
       IF u \notin StaticSet THEN None
       ELSE Record(IF u \in Disabled THEN "disabled" ELSE "pending", None)]

(***************************************************************************)
(* The environment and time.                                               *)
(***************************************************************************)
ResponderChanges ==
  \E u \in Announced :
    /\ responds' = [responds EXCEPT ![u] = ~@]
    /\ UNCHANGED <<reach, thread, elapsed, timer, heard, discovery, gone,
                   fetches, peerStore>>

\* What fetching u may lead to.
Outcomes(u) == {"answers", "fails"} \cup (IF u \in Breaks THEN {"breaks"} ELSE {})

PeerChanges ==
  \E u \in URLs \ Disabled : \E how \in Outcomes(u) :
    /\ reach' = [reach EXCEPT ![u] = how]
    /\ UNCHANGED <<responds, thread, elapsed, timer, heard, discovery, gone,
                   fetches, peerStore>>

Older(a) == IF a = None \/ a = MaxAge THEN a ELSE a + 1

\* While the thread sleeps its timer runs; while it works it may take its time.
Tick ==
  /\ IF thread = "asleep" THEN timer > 0 ELSE elapsed < MaxBusy
  /\ timer'   = IF thread = "asleep" THEN timer - 1 ELSE timer
  /\ elapsed' = IF thread = "asleep" THEN elapsed ELSE elapsed + 1
  /\ seenAge' = [u \in Announced |-> Older(seenAge[u])]
  /\ scanAge' = Older(scanAge)
  /\ UNCHANGED <<environment, thread, heard, missed, gone, fetches, peerStore>>

(***************************************************************************)
(* active_peers: scan when due, expire, merge.                             *)
(***************************************************************************)
\* DiscoveryState.due
Due == scanAge = None \/ scanAge >= Interval

BeginCycle ==
  /\ thread = "asleep" /\ timer = 0
  /\ thread' = IF ~Discovers THEN "merge"
               ELSE IF Due THEN "multicast" ELSE "expire"
  /\ UNCHANGED <<environment, elapsed, timer, heard, discovery, gone, fetches, peerStore>>

\* One multicast question: any of the running responders may get an answer
\* through, and the whole scan may fail.
Multicast ==
  /\ thread = "multicast"
  /\ heard' \in SUBSET {u \in Announced : responds[u]}
  /\ thread' = "probe"
  /\ UNCHANGED <<environment, elapsed, timer, discovery, gone, fetches,
                 peerStore>>

\* record_to_peer refuses our own announcement and excluded hosts.
Acceptable(answers) == answers \ (Own \cup Excluded)

\* Mistaken variant: every scan renews what it did not hear, too.
RenewedAll(found) ==
  [u \in Announced |-> IF u \in found \/ seenAge[u] # None THEN elapsed ELSE None]

Renewed(found) ==
  [u \in Announced |-> IF u \in found THEN elapsed ELSE seenAge[u]]

\* The unicast probes, and the end of the scan: _seen takes what was found.
Probe ==
  /\ thread = "probe"
  /\ \E probed \in SUBSET {u \in Probed : responds[u]} :
       LET found == Acceptable(heard \cup probed)
       IN  /\ seenAge' = Renewed(found)
           /\ missed' = [u \in Announced |->
                           IF u \in found \/ seenAge[u] = None THEN 0
                           ELSE IF missed[u] < 2 THEN missed[u] + 1 ELSE 2]
  /\ scanAge' = elapsed
  /\ heard' = {}
  /\ thread' = "expire"
  /\ UNCHANGED <<environment, elapsed, timer, gone, fetches, peerStore>>

\* Mistaken variant: the scan interval in place of the grace period.
OverdueTooSoon(u) == seenAge[u] # None /\ seenAge[u] - elapsed > Interval

\* DiscoveryState.expire: now - discovery_last_seen > grace.
Overdue(u) == seenAge[u] # None /\ seenAge[u] - elapsed > Grace

\* Mistaken variant: drops peers from the discovery list only.
NoneToRemove == {}

ToRemove == {u \in Announced : Overdue(u)} \ StaticSet

Expire ==
  /\ thread = "expire"
  /\ gone' = ToRemove
  /\ seenAge' = [u \in Announced |-> IF Overdue(u) THEN None ELSE seenAge[u]]
  /\ missed'  = [u \in Announced |-> IF Overdue(u) THEN 0 ELSE missed[u]]
  /\ thread' = "merge"
  /\ UNCHANGED <<environment, elapsed, timer, heard, scanAge, fetches, peerStore>>

\* The list without u: what is kept, in the order it has.
Without(list, u) ==
  LET kept == {k \in DOMAIN list : list[k] # u}
      nth(n) == CHOOSE k \in kept : Cardinality({j \in kept : j <= k}) = n
  IN  [n \in 1 .. Cardinality(kept) |-> list[nth(n)]]

\* PeerStore.remove
Remove(u) ==
  /\ thread = "merge" /\ u \in gone
  /\ gone' = gone \ {u}
  /\ records' = [records EXCEPT ![u] = None]
  /\ order' = Without(order, u)
  /\ UNCHANGED <<environment, thread, elapsed, timer, heard, discovery, fetches>>

(***************************************************************************)
(* do_peer_poll: fetch every enabled peer of the merged list.              *)
(***************************************************************************)
\* merge_peers: a static peer wins over a discovered one with its URL.
Listed == StaticSet \cup {u \in Announced : seenAge[u] # None}

\* Mistaken variants: discovery wins over enabled: false; a peer that failed
\* is never tried again.
ToFetchDiscovered ==
  (Listed \ Disabled) \cup {u \in Announced : seenAge[u] # None}

ToFetchNotFailed ==
  {u \in Listed \ Disabled :
     records[u] = None \/ (records[u] # None /\ records[u].status # "error")}

ToFetch == Listed \ Disabled

\* time.sleep(min(effective_peer_interval, discover.interval))
SleepFor ==
  IF Discovers /\ Interval < PeerInterval THEN Interval ELSE PeerInterval

Sleep ==
  /\ thread' = "asleep"
  /\ timer' = SleepFor
  /\ elapsed' = 0

\* Mistaken variant: a failure forgets the last good data.
PreviousForgotten(u) == None

\* The data of the record PEERS.get returns.
Previous(u) == IF records[u] = None THEN None ELSE records[u].data

\* Disabled peers get their record anew (they all have one, from configure);
\* one fetch per enabled peer is submitted, with the record there is.  With
\* nothing to fetch the thread goes to sleep.
Submit ==
  /\ thread = "merge" /\ gone = {}
  /\ records' = [u \in URLs |->
       IF u \in Disabled THEN Record("disabled", None) ELSE records[u]]
  /\ fetch' = [u \in URLs |-> IF u \in ToFetch THEN "submitted" ELSE "none"]
  /\ previous' = [u \in URLs |-> IF u \in ToFetch THEN Previous(u) ELSE None]
  /\ IF ToFetch = {} THEN Sleep
     ELSE thread' = "fetching" /\ UNCHANGED <<elapsed, timer>>
  /\ UNCHANGED <<environment, heard, discovery, gone, order>>

\* fetch_state, in a worker: the peer is asked and the call returns or raises.
AskPeer(u) ==
  /\ fetch[u] = "submitted"
  /\ fetch' = [fetch EXCEPT ![u] = reach[u]]
  /\ UNCHANGED <<environment, thread, elapsed, timer, heard, discovery, gone,
                 previous, peerStore>>

\* poll_peer's record: ok with the peer's data; after a PeerError (our own
\* instance_id in the answer is one) error with the previous data; after any
\* other exception a bare record, made by do_peer_poll.
NewRecords(u) ==
  IF fetch[u] = "answers" /\ u \notin Own THEN {Record("ok", d) : d \in Payloads}
  ELSE {Record("error", IF fetch[u] = "breaks" THEN None ELSE previous[u])}

\* Mistaken variant: the order is appended to on every update.
OrderAppended(u) == IF Len(order) < 4 THEN Append(order, u) ELSE order

OrderWith(u) == IF records[u] = None THEN Append(order, u) ELSE order

\* PeerStore.update with the result of a finished fetch.
Update(u) ==
  /\ thread = "fetching"
  /\ fetch[u] \notin {"none", "submitted"}
  /\ fetch' = [fetch EXCEPT ![u] = "none"]
  /\ previous' = [previous EXCEPT ![u] = None]
  /\ \E r \in NewRecords(u) : records' = [records EXCEPT ![u] = r]
  /\ order' = OrderWith(u)
  /\ UNCHANGED <<environment, thread, elapsed, timer, heard, discovery, gone>>

EndCycle ==
  /\ thread = "fetching"
  /\ \A u \in URLs : fetch[u] = "none"
  /\ Sleep
  /\ UNCHANGED <<environment, heard, discovery, gone, fetches, peerStore>>

Cycle ==
  \/ BeginCycle \/ Multicast \/ Probe \/ Expire \/ Submit \/ EndCycle
  \/ \E u \in URLs : Remove(u) \/ AskPeer(u) \/ Update(u)

Next == ResponderChanges \/ PeerChanges \/ Tick \/ Cycle

Spec == Init /\ [][Next]_vars

\* Time passes and the peer thread is scheduled; every call it makes ends, by
\* its answer or by its timeout.
FairSpec == Spec /\ WF_vars(Tick) /\ WF_vars(Cycle)

(***************************************************************************)
(* Properties.                                                             *)
(***************************************************************************)
\* PEERS._order lists every record once, and nothing else: no peer is shown
\* twice or forgotten after any sequence of discoveries, expiries and returns,
\* and the configured peers keep their place at the top.
OrderMatchesRecords ==
  /\ {order[k] : k \in DOMAIN order} = {u \in URLs : records[u] # None}
  /\ Len(order) = Cardinality({u \in URLs : records[u] # None})
  /\ SubSeq(order, 1, Len(Static)) = Static

\* A peer the operator disabled is never fetched and shows nothing, whatever
\* discovery finds at its URL.
DisabledIsRespected ==
  \A u \in Disabled :
    fetch[u] = "none" /\ records[u] = Record("disabled", None)

\* Between two cycles the store holds exactly the configured peers and those
\* discovery still knows: none lingers after its grace, none is lost.
ListMatchesDiscovery ==
  thread = "asleep" =>
    \A u \in Announced \ StaticSet :
      (records[u] # None) <=> (seenAge[u] # None)

\* An outage dims, it does not erase: the record that replaces a peer's when a
\* fetch has failed holds the data the store has at that moment, although it is
\* made of what the store had when the fetches were submitted.  The code keeps
\* this only where fetch_state makes a PeerError of what goes wrong: an answer
\* that breaks http.client (a status line it cannot parse, a chunked body cut
\* short) makes a bare record, with nothing of what was known.
KeepsData ==
  \A u \in URLs :
    (/\ records[u] # None /\ records'[u] # None
     /\ records'[u].status = "error" /\ fetch[u] # "breaks")
      => records'[u].data = records[u].data

OutageKeepsData == [][KeepsData]_vars

\* Only a discovered peer that at least two scans in a row did not hear is
\* forgotten: one lost reply never blanks a node's rows.
ForgetsOnlySilent ==
  \A u \in Announced :
    /\ (seenAge[u] # None /\ seenAge'[u] = None) => missed[u] = 2
    /\ (records[u] # None /\ records'[u] = None)
         => u \notin StaticSet /\ seenAge[u] = None

SingleLossNeverDrops == [][ForgetsOnlySilent]_vars

\* A discovered peer whose responder is silent for good is dropped for good.
SilentPeerGoes ==
  \A u \in Announced \ StaticSet :
    <>[](~responds[u]) => <>[](records[u] = None)

\* A configured peer that answers for good is shown as connected for good; one
\* that fails for good, as an error.
FetchedStatusSettles ==
  \A u \in StaticSet \ (Disabled \cup Own) :
    /\ <>[](reach[u] = "answers") => <>[](records[u].status = "ok")
    /\ <>[](reach[u] # "answers") => <>[](records[u].status = "error")
===============================================================================
