--------------------------- MODULE FederationProofs ---------------------------
(***************************************************************************)
(* One hop only, for any nodes, URLs, aliases, configurations and readings.*)
(***************************************************************************)
EXTENDS Federation, FiniteSetTheorems, TLAPS

\* What OneHop says of one record.
IsHop(n, u, entries) ==
  /\ IsReading(entries, LeadsTo[u], u)
  /\ LeadsTo[u] = n => entries = {}

\* A result waiting to be installed is one reading of the node that answered, on
\* which no stamp is yet, and it is not ours.
IsAnswer(n, u, result) ==
  result.status = "ok" =>
    IsReading(result.entries, LeadsTo[u], None) /\ LeadsTo[u] # n

\* A process: its store holds one whole reading of its own, unstamped; so does
\* every result under way, of the node that was asked; and its records are as
\* OneHop has it.  The request and the flags play no part.
IsProcess(n, d) ==
  /\ DOMAIN d = {"up", "polls", "store", "fetching", "flight", "records", "request"}
  /\ d.polls \in Nat
  /\ DOMAIN d.flight = URLs /\ DOMAIN d.records = URLs
  /\ IsReading(d.store, n, None)
  /\ \A u \in URLs :
       /\ \A result \in d.flight[u] : IsAnswer(n, u, result)
       /\ d.records[u] # None => IsHop(n, u, d.records[u].entries)

\* The inductive invariant.
HopInv ==
  /\ DOMAIN daemon = Nodes
  /\ \A n \in Nodes : IsProcess(n, daemon[n])

LEMMA NothingIsReading ==
  ASSUME NEW node, NEW peer PROVE IsReading({}, node, peer)
BY DEF IsReading

\* Stamping a reading makes it a reading under that stamp.
LEMMA StampedReading ==
  ASSUME NEW node, NEW u, NEW entries, IsReading(entries, node, None)
  PROVE  IsReading(Stamped(u, entries), node, u)
<1>1. CASE entries = {}
  <2>1. Stamped(u, entries) = {}
    BY <1>1 DEF Stamped
  <2> QED
    BY <2>1, NothingIsReading
<1>2. CASE entries # {}
  <2>1. PICK poll \in 1 .. MaxPolls[node], reading \in Readings :
          entries = {[node |-> node, slot |-> s, poll |-> poll,
                      state |-> reading[s], peer |-> None] : s \in Slots}
    BY <1>2 DEF IsReading
  <2> DEFINE row(s, p) == [node |-> node, slot |-> s, poll |-> poll,
                           state |-> reading[s], peer |-> p]
  <2>2. \A s : [row(s, None) EXCEPT !.peer = u] = row(s, u)
    OBVIOUS
  <2>3. entries = {row(s, None) : s \in Slots}
    BY <2>1
  <2>4. Stamped(u, entries) = {row(s, u) : s \in Slots}
    <3> HIDE DEF row
    <3> QED
      BY <2>2, <2>3 DEF Stamped
  <2> QED
    BY <2>1, <2>4 DEF IsReading
<1> QED
  BY <1>1, <1>2

LEMMA FreshProcess ==
  ASSUME NEW n \in Nodes, NEW polls \in Nat
  PROVE  IsProcess(n, Fresh(n, polls))
BY NothingIsReading DEF IsProcess, Fresh, IsHop, IsAnswer, Record

LEMMA InitHop == Init => HopInv
BY FreshProcess DEF Init, HopInv

\* A step of one process leaves the others as they are.
LEMMA OneProcess ==
  ASSUME HopInv, NEW n \in Nodes, NEW d, IsProcess(n, d),
         daemon' = [daemon EXCEPT ![n] = d]
  PROVE  HopInv'
BY DEF HopInv

LEMMA PollKeeps ==
  ASSUME HopInv, NEW n \in Nodes, Poll(n)
  PROVE  HopInv'
<1> DEFINE poll == daemon[n].polls + 1
           rows(reading) == {[node |-> n, slot |-> s, poll |-> poll,
                              state |-> reading[s], peer |-> None] : s \in Slots}
           d(reading) == [daemon[n] EXCEPT !.up = TRUE, !.polls = poll,
                                           !.store = rows(reading)]
<1>0. IsProcess(n, daemon[n]) /\ DOMAIN daemon = Nodes
  BY DEF HopInv
<1>1. PICK reading \in Readings : daemon' = [daemon EXCEPT ![n] = d(reading)]
  BY <1>0 DEF Poll, IsProcess
<1>2. poll \in 1 .. MaxPolls[n]
  <2>1. daemon[n].polls \in Nat /\ MaxPolls[n] \in Nat
    BY <1>0, FederationAssumption DEF IsProcess
  <2> QED
    BY <2>1 DEF Poll
<1>3. IsReading(rows(reading), n, None)
  BY <1>2 DEF IsReading
<1>4. poll \in Nat
  BY <1>0 DEF IsProcess
<1>5. IsProcess(n, d(reading))
  <2> HIDE DEF rows, poll
  <2> QED
    BY <1>0, <1>3, <1>4 DEF IsProcess
<1> HIDE DEF d
<1> QED
  BY <1>1, <1>5, OneProcess

LEMMA RestartKeeps ==
  ASSUME HopInv, NEW n \in Nodes, Restart(n)
  PROVE  HopInv'
<1>1. daemon[n].polls \in Nat
  BY DEF HopInv, IsProcess
<1> QED
  BY <1>1, FreshProcess, OneProcess DEF Restart

\* Installing a record that is a hop, while nothing is added to what is under way.
LEMMA InstallKeeps ==
  ASSUME HopInv, NEW n \in Nodes, NEW u \in URLs, NEW record, NEW flight,
         Install(n, u, record, flight),
         flight \subseteq daemon[n].flight[u],
         record # None => IsHop(n, u, record.entries)
  PROVE  HopInv'
<1> DEFINE req == [daemon[n].request EXCEPT
                     !.replaced = IF daemon[n].request.stage = "listed"
                                  THEN @ \cup {u} ELSE @]
           d == [daemon[n] EXCEPT !.records = [@ EXCEPT ![u] = record],
                                  !.flight = [@ EXCEPT ![u] = flight],
                                  !.request = req]
<1>0. IsProcess(n, daemon[n]) /\ DOMAIN daemon = Nodes
  BY DEF HopInv
<1>1. daemon' = [daemon EXCEPT ![n] = d]
  BY <1>0 DEF Install, IsProcess
<1>2. IsProcess(n, d)
  <2> HIDE DEF req
  <2> QED
    BY <1>0 DEF IsProcess
<1> HIDE DEF d
<1> QED
  BY <1>1, <1>2, OneProcess

\* Adding a result that is an answer.
LEMMA ResultKeeps ==
  ASSUME HopInv, NEW n \in Nodes, NEW u \in URLs, NEW result,
         Result(n, u, result), IsAnswer(n, u, result)
  PROVE  HopInv'
<1> DEFINE results == (daemon[n].flight[u] \ {Record("submitted", {})}) \cup {result}
           d == [daemon[n] EXCEPT !.flight = [@ EXCEPT ![u] = results]]
<1>0. IsProcess(n, daemon[n]) /\ DOMAIN daemon = Nodes
  BY DEF HopInv
<1>1. daemon' = [daemon EXCEPT ![n] = d]
  BY <1>0 DEF Result, IsProcess
<1>2. IsProcess(n, d)
  <2>1. \A r \in results : IsAnswer(n, u, r)
    BY <1>0 DEF IsProcess
  <2> HIDE DEF results
  <2> QED
    BY <1>0, <2>1 DEF IsProcess
<1> HIDE DEF d
<1> QED
  BY <1>1, <1>2, OneProcess

LEMMA UpdateKeeps ==
  ASSUME HopInv, NEW n \in Nodes, NEW u \in URLs, Update(n, u)
  PROVE  HopInv'
<1>1. PICK result \in daemon[n].flight[u] :
        Install(n, u,
          IF result.status = "ok" THEN Record("ok", Stamped(u, result.entries))
          ELSE Failed(daemon[n].records[u]),
          daemon[n].flight[u] \ {result})
  BY DEF Update
<1>2. CASE result.status = "ok"
  <2>1. IsReading(result.entries, LeadsTo[u], None) /\ LeadsTo[u] # n
    BY <1>2 DEF HopInv, IsProcess, IsAnswer
  <2>2. IsHop(n, u, Stamped(u, result.entries))
    BY <2>1, StampedReading DEF IsHop
  <2>3. Record("ok", Stamped(u, result.entries)).entries = Stamped(u, result.entries)
    BY DEF Record
  <2> QED
    BY <1>1, <1>2, <2>2, <2>3, InstallKeeps
<1>3. CASE result.status # "ok"
  <2>1. IsHop(n, u, Failed(daemon[n].records[u]).entries)
    BY NothingIsReading DEF HopInv, IsProcess, Failed, Record, IsHop
  <2> QED
    BY <1>1, <1>3, <2>1, InstallKeeps
<1> QED
  BY <1>2, <1>3

LEMMA FetchKeeps ==
  ASSUME HopInv, NEW n \in Nodes, NEW u \in URLs,
         FetchAnswered(n, u) \/ FetchLost(n, u)
  PROVE  HopInv'
<1>1. IsAnswer(n, u, Record("error", {}))
  BY DEF IsAnswer, Record
<1>2. CASE Result(n, u, Record("error", {}))
  BY <1>1, <1>2, ResultKeeps
<1>3. CASE LeadsTo[u] # n /\ Result(n, u, Record("ok", Served(LeadsTo[u])))
  <2>1. IsReading(Served(LeadsTo[u]), LeadsTo[u], None)
    BY FederationAssumption DEF Served, HopInv, IsProcess
  <2>2. IsAnswer(n, u, Record("ok", Served(LeadsTo[u])))
    BY <1>3, <2>1 DEF IsAnswer, Record
  <2> QED
    BY <1>3, <2>2, ResultKeeps
<1> QED
  BY <1>2, <1>3 DEF FetchAnswered, FetchLost

LEMMA BeginKeeps ==
  ASSUME HopInv, NEW n \in Nodes, BeginCycle(n)
  PROVE  HopInv'
<1>1. PICK found \in SUBSET Discovered[n] :
        LET listed == found \cup {u \in URLs : daemon[n].records[u] # None}
        IN  daemon' = [daemon EXCEPT
              ![n].fetching = TRUE,
              ![n].flight = [u \in URLs |-> @[u] \cup
                IF u \in listed THEN {Record("submitted", {})} ELSE {}]]
  BY DEF BeginCycle
<1> DEFINE listed == found \cup {u \in URLs : daemon[n].records[u] # None}
           more   == [u \in URLs |-> daemon[n].flight[u] \cup
                        IF u \in listed THEN {Record("submitted", {})} ELSE {}]
           d      == [daemon[n] EXCEPT !.fetching = TRUE, !.flight = more]
<1>2. daemon' = [daemon EXCEPT ![n] = d]
  BY <1>1 DEF HopInv, IsProcess
<1>3. \A u \in URLs : \A result \in more[u] : IsAnswer(n, u, result)
  <2>1. \A u : IsAnswer(n, u, Record("submitted", {}))
    BY DEF IsAnswer, Record
  <2> QED
    BY <2>1 DEF HopInv, IsProcess
<1>4. DOMAIN more = URLs
  OBVIOUS
<1>5. IsProcess(n, d)
  <2> HIDE DEF more
  <2> QED
    BY <1>3, <1>4 DEF HopInv, IsProcess
<1> HIDE DEF d
<1> QED
  BY <1>2, <1>5, OneProcess

LEMMA EndKeeps ==
  ASSUME HopInv, NEW n \in Nodes, EndCycle(n)
  PROVE  HopInv'
<1> DEFINE d == [daemon[n] EXCEPT !.fetching = FALSE]
<1>1. daemon' = [daemon EXCEPT ![n] = d]
  BY DEF EndCycle, HopInv
<1>2. IsProcess(n, d)
  BY DEF HopInv, IsProcess
<1> HIDE DEF d
<1> QED
  BY <1>1, <1>2, OneProcess

\* A request reads, and changes nothing but itself.
LEMMA RequestKeeps ==
  ASSUME HopInv, NEW n \in Nodes, ReadLocal(n) \/ ReadPeers(n) \/ ReadCounts(n)
  PROVE  HopInv'
<1>1. PICK request : daemon' = [daemon EXCEPT ![n].request = request]
  <2>1. CASE ReadLocal(n)
    BY <2>1 DEF ReadLocal
  <2>2. CASE ReadPeers(n)
    BY <2>2 DEF ReadPeers
  <2>3. CASE ReadCounts(n)
    BY <2>3 DEF ReadCounts
  <2> QED
    BY <2>1, <2>2, <2>3
<1> DEFINE d == [daemon[n] EXCEPT !.request = request]
<1>2. daemon' = [daemon EXCEPT ![n] = d]
  BY <1>1 DEF HopInv
<1>3. IsProcess(n, d)
  BY DEF HopInv, IsProcess
<1> HIDE DEF d
<1> QED
  BY <1>2, <1>3, OneProcess

LEMMA ForgetKeeps ==
  ASSUME HopInv, NEW n \in Nodes, NEW u \in URLs, Forget(n, u)
  PROVE  HopInv'
BY InstallKeeps DEF Forget

LEMMA NextHop == HopInv /\ [Next]_vars => HopInv'
<1> SUFFICES ASSUME HopInv, [Next]_vars PROVE HopInv'
  OBVIOUS
<1>1. CASE UNCHANGED vars
  BY <1>1 DEF vars, HopInv
<1>2. CASE Next
  BY <1>2, FederationAssumption, PollKeeps, RestartKeeps, UpdateKeeps, FetchKeeps,
     BeginKeeps, EndKeeps, RequestKeeps, ForgetKeeps DEF Next, Cycle
<1> QED
  BY <1>1, <1>2

\* Whatever nodes list each other, restart and lose answers: under a peer's URL
\* are the rows that the node there has read itself, of one of its polls, never
\* what it knows of others and never ours.
THEOREM HopsEndAtOne == Spec => []OneHop
<1>1. HopInv => OneHop
  BY DEF HopInv, IsProcess, IsHop, OneHop
<1> QED
  BY <1>1, InitHop, NextHop, PTL DEF Spec

(***************************************************************************)
(* The order of readings.                                                  *)
(***************************************************************************)
Polls == [m \in Nodes |-> daemon[m].polls]

\* One fetch of a URL at a time and none between cycles; what is shown of a node
\* is not newer than its last poll, and what is on its way not older than that.
InOrder(d, polls) ==
  /\ ~d.fetching => \A u \in URLs : d.flight[u] = {}
  /\ \A e \in d.store : e.poll = d.polls
  /\ \A u \in URLs :
       /\ \A r, s \in d.flight[u] : r = s
       /\ d.records[u] # None =>
            \A e \in d.records[u].entries : e.poll <= polls[LeadsTo[u]]
       /\ \A r \in d.flight[u] : \A f \in r.entries :
            /\ f.poll \in Int /\ f.poll <= polls[LeadsTo[u]]
            /\ d.records[u] # None => \A e \in d.records[u].entries : f.poll >= e.poll

OrderInv == \A n \in Nodes : InOrder(daemon[n], Polls)

GoesForward(old, new) ==
  \A u \in URLs :
    (old[u] # None /\ new[u] # None) =>
      \A e \in old[u].entries, f \in new[u].entries : f.poll >= e.poll

\* The rows of a reading are of one poll, and stamping leaves that alone.
LEMMA ReadingPolls ==
  ASSUME NEW node \in Nodes, NEW u, NEW entries, IsReading(entries, node, u)
  PROVE  /\ \A e \in entries : e.poll \in Int
         /\ \A e, f \in entries : e.poll = f.poll
         /\ \A v : \A f \in Stamped(v, entries) : \E g \in entries : f.poll = g.poll
<1>1. CASE entries = {}
  BY <1>1 DEF Stamped
<1>2. CASE entries # {}
  <2>1. PICK poll \in 1 .. MaxPolls[node], reading \in Readings :
          entries = {[node |-> node, slot |-> s, poll |-> poll,
                      state |-> reading[s], peer |-> u] : s \in Slots}
    BY <1>2 DEF IsReading
  <2>2. MaxPolls[node] \in Nat
    BY FederationAssumption
  <2>3. poll \in Int
    BY <2>1, <2>2
  <2>4. \A e \in entries : e.poll = poll /\ \A v : [e EXCEPT !.peer = v].poll = poll
    BY <2>1
  <2> QED
    BY <2>3, <2>4 DEF Stamped
<1> QED
  BY <1>1, <1>2

\* What HopInv says of the polls in a process.
LEMMA PollTypes ==
  ASSUME HopInv, NEW n \in Nodes, NEW u \in URLs
  PROVE  /\ LeadsTo[u] \in Nodes /\ Polls[n] \in Int /\ Polls[n] = daemon[n].polls
         /\ \A e \in daemon[n].store : e.poll \in Int
         /\ daemon[n].records[u] # None =>
              /\ \A e \in daemon[n].records[u].entries : e.poll \in Int
              /\ \A e, f \in daemon[n].records[u].entries : e.poll = f.poll
         /\ \A r \in daemon[n].flight[u] : r.status = "ok" =>
              /\ \A f \in r.entries : f.poll \in Int
              /\ \A f \in Stamped(u, r.entries) : \E g \in r.entries : f.poll = g.poll
<1>1. LeadsTo[u] \in Nodes /\ IsProcess(n, daemon[n])
  BY FederationAssumption DEF HopInv
<1>2. daemon[n].polls \in Int
  BY <1>1 DEF IsProcess
<1>3. \A e \in daemon[n].store : e.poll \in Int
  BY <1>1, ReadingPolls DEF IsProcess
<1>4. daemon[n].records[u] # None =>
        /\ \A e \in daemon[n].records[u].entries : e.poll \in Int
        /\ \A e, f \in daemon[n].records[u].entries : e.poll = f.poll
  BY <1>1, ReadingPolls DEF IsProcess, IsHop
<1>5. ASSUME NEW r \in daemon[n].flight[u], r.status = "ok"
      PROVE  /\ \A f \in r.entries : f.poll \in Int
             /\ \A f \in Stamped(u, r.entries) : \E g \in r.entries : f.poll = g.poll
  <2>1. IsReading(r.entries, LeadsTo[u], None)
    BY <1>1, <1>5 DEF IsProcess, IsAnswer
  <2> QED
    BY <1>1, <2>1, ReadingPolls
<1> QED
  BY <1>1, <1>2, <1>3, <1>4, <1>5 DEF Polls

\* The same record, or the entries of it, never goes back.
LEMMA SameGoesForward ==
  ASSUME HopInv, NEW n \in Nodes
  PROVE  GoesForward(daemon[n].records, daemon[n].records)
<1> SUFFICES ASSUME NEW u \in URLs, daemon[n].records[u] # None,
                    NEW e \in daemon[n].records[u].entries,
                    NEW f \in daemon[n].records[u].entries
             PROVE  f.poll >= e.poll
  BY DEF GoesForward
<1>1. e.poll \in Int /\ e.poll = f.poll
  BY PollTypes
<1> QED
  BY <1>1

\* A step of one process, in which its polls do not go back, keeps the order in
\* all of them.
LEMMA OneProcessInOrder ==
  ASSUME HopInv, HopInv', OrderInv, NEW n \in Nodes, NEW d,
         daemon' = [daemon EXCEPT ![n] = d],
         InOrder(d, Polls), d.polls >= daemon[n].polls,
         GoesForward(daemon[n].records, d.records)
  PROVE  OrderInv' /\ Forward
<1>1. DOMAIN daemon = Nodes
  BY DEF HopInv
<1>2. \A m \in Nodes : Polls[m] \in Int /\ Polls'[m] \in Int /\ Polls'[m] >= Polls[m]
  <2> SUFFICES ASSUME NEW m \in Nodes
               PROVE  Polls[m] \in Int /\ Polls'[m] \in Int /\ Polls'[m] >= Polls[m]
    OBVIOUS
  <2>1. daemon[m].polls \in Nat /\ daemon'[m].polls \in Nat
    BY DEF HopInv, IsProcess
  <2>2. daemon'[m].polls >= daemon[m].polls
    BY <1>1, <2>1
  <2> QED
    BY <2>1, <2>2 DEF Polls
<1>3. ASSUME NEW m \in Nodes PROVE InOrder(daemon'[m], Polls')
  <2>1. InOrder(daemon'[m], Polls)
    BY <1>1 DEF OrderInv
  <2>2. ASSUME NEW u \in URLs
        PROVE  /\ daemon'[m].records[u] # None =>
                    \A e \in daemon'[m].records[u].entries : e.poll <= Polls'[LeadsTo[u]]
               /\ \A r \in daemon'[m].flight[u] : \A f \in r.entries :
                    f.poll \in Int /\ f.poll <= Polls'[LeadsTo[u]]
    <3>1. LeadsTo[u] \in Nodes
      BY FederationAssumption
    <3>2. daemon'[m].records[u] # None =>
            \A e \in daemon'[m].records[u].entries : e.poll \in Int
      BY HopInv', ReadingPolls, <3>1 DEF HopInv, IsProcess, IsHop
    <3> QED
      BY <1>2, <2>1, <3>1, <3>2 DEF InOrder
  <2> QED
    BY <2>1, <2>2 DEF InOrder
<1>4. Forward
  <2> SUFFICES ASSUME NEW m \in Nodes PROVE GoesForward(daemon[m].records, daemon'[m].records)
    BY DEF Forward, GoesForward
  <2> QED
    BY <1>1, SameGoesForward
<1> QED
  BY <1>3, <1>4 DEF OrderInv

LEMMA InitOrder == Init => OrderInv
BY DEF Init, Fresh, Record, OrderInv, InOrder

LEMMA PollInOrder ==
  ASSUME HopInv, HopInv', OrderInv, NEW n \in Nodes, Poll(n)
  PROVE  OrderInv' /\ Forward
<1> DEFINE poll == daemon[n].polls + 1
           rows(reading) == {[node |-> n, slot |-> s, poll |-> poll,
                              state |-> reading[s], peer |-> None] : s \in Slots}
           d(reading) == [daemon[n] EXCEPT !.up = TRUE, !.polls = poll,
                                           !.store = rows(reading)]
<1>0. IsProcess(n, daemon[n]) /\ DOMAIN daemon = Nodes /\ InOrder(daemon[n], Polls)
  BY DEF HopInv, OrderInv
<1>1. PICK reading \in Readings : daemon' = [daemon EXCEPT ![n] = d(reading)]
  BY <1>0 DEF Poll, IsProcess
<1>2. d(reading).polls >= daemon[n].polls
  BY <1>0 DEF IsProcess
<1>3. \A e \in rows(reading) : e.poll = poll
  OBVIOUS
<1>4. InOrder(d(reading), Polls) /\ d(reading).records = daemon[n].records
  <2> HIDE DEF rows, poll
  <2> QED
    BY <1>0, <1>3 DEF IsProcess, InOrder
<1> HIDE DEF d
<1> QED
  BY <1>1, <1>2, <1>4, SameGoesForward, OneProcessInOrder

LEMMA RestartInOrder ==
  ASSUME HopInv, HopInv', OrderInv, NEW n \in Nodes, Restart(n)
  PROVE  OrderInv' /\ Forward
<1> DEFINE d == Fresh(n, daemon[n].polls)
<1>1. daemon[n].polls \in Nat /\ d.polls = daemon[n].polls
  BY DEF HopInv, IsProcess, Fresh
<1>2. InOrder(d, Polls)
  BY DEF Fresh, Record, InOrder
<1>3. GoesForward(daemon[n].records, d.records)
  BY DEF Fresh, Record, GoesForward
<1>4. d.polls >= daemon[n].polls
  BY <1>1
<1>5. daemon' = [daemon EXCEPT ![n] = d]
  BY DEF Restart
<1> HIDE DEF d
<1> QED
  BY <1>2, <1>3, <1>4, <1>5, OneProcessInOrder

\* Installing a record that goes forward while nothing is left under way.
LEMMA InstallInOrder ==
  ASSUME HopInv, HopInv', OrderInv, NEW n \in Nodes, NEW u \in URLs, NEW record,
         Install(n, u, record, {}),
         record # None => \A f \in record.entries :
           /\ f.poll <= Polls[LeadsTo[u]]
           /\ daemon[n].records[u] # None =>
                \A e \in daemon[n].records[u].entries : f.poll >= e.poll
  PROVE  OrderInv' /\ Forward
<1> DEFINE req == [daemon[n].request EXCEPT
                     !.replaced = IF daemon[n].request.stage = "listed"
                                  THEN @ \cup {u} ELSE @]
           d == [daemon[n] EXCEPT !.records = [@ EXCEPT ![u] = record],
                                  !.flight = [@ EXCEPT ![u] = {}],
                                  !.request = req]
<1>0. IsProcess(n, daemon[n]) /\ DOMAIN daemon = Nodes /\ InOrder(daemon[n], Polls)
  BY DEF HopInv, OrderInv
<1>1. daemon' = [daemon EXCEPT ![n] = d]
  BY <1>0 DEF Install, IsProcess
<1>2. /\ d.polls = daemon[n].polls /\ d.store = daemon[n].store
      /\ d.fetching = daemon[n].fetching
      /\ d.records[u] = record /\ d.flight[u] = {}
      /\ \A v \in URLs \ {u} : /\ d.records[v] = daemon[n].records[v]
                               /\ d.flight[v] = daemon[n].flight[v]
  <2> HIDE DEF req
  <2> QED
    BY <1>0 DEF IsProcess
<1> HIDE DEF d
<1>3. InOrder(d, Polls)
  BY <1>0, <1>2 DEF InOrder
<1>4. GoesForward(daemon[n].records, d.records)
  BY <1>2, SameGoesForward DEF GoesForward
<1>5. d.polls >= daemon[n].polls
  BY <1>0, <1>2 DEF IsProcess
<1> QED
  BY <1>1, <1>3, <1>4, <1>5, OneProcessInOrder

LEMMA UpdateInOrder ==
  ASSUME HopInv, HopInv', OrderInv, NEW n \in Nodes, NEW u \in URLs, Update(n, u)
  PROVE  OrderInv' /\ Forward
<1> DEFINE record(result) ==
             IF result.status = "ok" THEN Record("ok", Stamped(u, result.entries))
             ELSE Failed(daemon[n].records[u])
<1>0. InOrder(daemon[n], Polls)
  BY DEF OrderInv
<1>1. PICK result \in daemon[n].flight[u] :
        Install(n, u, record(result), daemon[n].flight[u] \ {result})
  BY DEF Update
<1>2. daemon[n].flight[u] \ {result} = {}
  BY <1>0 DEF InOrder
<1>3. \A f \in record(result).entries :
        /\ f.poll <= Polls[LeadsTo[u]]
        /\ daemon[n].records[u] # None =>
             \A e \in daemon[n].records[u].entries : f.poll >= e.poll
  <2>1. CASE result.status = "ok"
    <3>1. record(result).entries = Stamped(u, result.entries)
      BY <2>1 DEF Record
    <3>2. \A f \in Stamped(u, result.entries) :
            \E g \in result.entries : f.poll = g.poll
      BY <2>1, PollTypes
    <3>3. \A g \in result.entries :
            /\ g.poll <= Polls[LeadsTo[u]]
            /\ daemon[n].records[u] # None =>
                 \A e \in daemon[n].records[u].entries : g.poll >= e.poll
      BY <1>0 DEF InOrder
    <3> QED
      BY <3>1, <3>2, <3>3
  <2>2. CASE result.status # "ok"
    <3>1. /\ daemon[n].records[u] # None =>
               record(result).entries = daemon[n].records[u].entries
          /\ daemon[n].records[u] = None => record(result).entries = {}
      BY <2>2 DEF Failed, Record
    <3> QED
      BY <1>0, <3>1, SameGoesForward DEF InOrder, GoesForward
  <2> QED
    BY <2>1, <2>2
<1> HIDE DEF record
<1> QED
  BY <1>1, <1>2, <1>3, InstallInOrder

LEMMA ForgetInOrder ==
  ASSUME HopInv, HopInv', OrderInv, NEW n \in Nodes, NEW u \in URLs, Forget(n, u)
  PROVE  OrderInv' /\ Forward
BY InstallInOrder DEF Forget

\* A fetch brings what is not newer than the last poll of the other node, and not
\* older than what an earlier one brought.
LEMMA FetchInOrder ==
  ASSUME HopInv, HopInv', OrderInv, NEW n \in Nodes, NEW u \in URLs,
         FetchAnswered(n, u) \/ FetchLost(n, u)
  PROVE  OrderInv' /\ Forward
<1>0. /\ IsProcess(n, daemon[n]) /\ DOMAIN daemon = Nodes /\ InOrder(daemon[n], Polls)
      /\ LeadsTo[u] \in Nodes
  BY FederationAssumption DEF HopInv, OrderInv
<1>1. PICK result :
        /\ Result(n, u, result)
        /\ result.entries = {} \/ result.entries = daemon[LeadsTo[u]].store
  BY DEF FetchAnswered, FetchLost, Record, Served
<1>2. \A f \in result.entries : f.poll \in Int /\ f.poll = Polls[LeadsTo[u]]
  BY <1>0, <1>1, PollTypes DEF OrderInv, InOrder
<1>3. daemon[n].flight[u] = {Record("submitted", {})}
  BY <1>0 DEF FetchAnswered, FetchLost, Submitted, InOrder
<1> DEFINE d == [daemon[n] EXCEPT !.flight = [@ EXCEPT ![u] = {result}]]
<1>4. daemon' = [daemon EXCEPT ![n] = d]
  BY <1>0, <1>1, <1>3 DEF Result, IsProcess
<1>5. /\ d.polls = daemon[n].polls /\ d.store = daemon[n].store
      /\ d.fetching = daemon[n].fetching /\ d.records = daemon[n].records
      /\ d.flight[u] = {result}
      /\ \A v \in URLs \ {u} : d.flight[v] = daemon[n].flight[v]
  BY <1>0 DEF IsProcess
<1> HIDE DEF d
<1>6. d.fetching
  BY <1>0, <1>3, <1>5 DEF InOrder
<1>7. Polls[LeadsTo[u]] \in Int
  BY <1>0, PollTypes
<1>8. InOrder(d, Polls)
  BY <1>0, <1>2, <1>5, <1>6, <1>7, PollTypes DEF InOrder
<1>9. d.polls >= daemon[n].polls
  BY <1>0, <1>5 DEF IsProcess
<1> QED
  BY <1>4, <1>5, <1>8, <1>9, SameGoesForward, OneProcessInOrder

LEMMA BeginInOrder ==
  ASSUME HopInv, HopInv', OrderInv, NEW n \in Nodes, BeginCycle(n)
  PROVE  OrderInv' /\ Forward
<1>0. IsProcess(n, daemon[n]) /\ DOMAIN daemon = Nodes /\ InOrder(daemon[n], Polls)
  BY DEF HopInv, OrderInv
<1>1. PICK found \in SUBSET Discovered[n] :
        LET listed == found \cup {u \in URLs : daemon[n].records[u] # None}
        IN  daemon' = [daemon EXCEPT
              ![n].fetching = TRUE,
              ![n].flight = [u \in URLs |-> @[u] \cup
                IF u \in listed THEN {Record("submitted", {})} ELSE {}]]
  BY DEF BeginCycle
<1> DEFINE listed == found \cup {u \in URLs : daemon[n].records[u] # None}
           more   == [u \in URLs |-> daemon[n].flight[u] \cup
                        IF u \in listed THEN {Record("submitted", {})} ELSE {}]
           d      == [daemon[n] EXCEPT !.fetching = TRUE, !.flight = more]
<1>2. daemon' = [daemon EXCEPT ![n] = d]
  BY <1>0, <1>1 DEF IsProcess
<1>3. \A u \in URLs : more[u] \subseteq {Record("submitted", {})}
  BY <1>0 DEF BeginCycle, InOrder
<1>4. /\ d.polls = daemon[n].polls /\ d.store = daemon[n].store /\ d.fetching
      /\ d.records = daemon[n].records /\ d.flight = more
  <2> HIDE DEF more
  <2> QED
    BY <1>0 DEF IsProcess
<1> HIDE DEF d, more
<1>5. InOrder(d, Polls)
  <2>1. \A u \in URLs : \A r \in d.flight[u] :
          r = Record("submitted", {}) /\ r.entries = {}
    BY <1>3, <1>4 DEF Record
  <2> QED
    BY <1>0, <1>4, <2>1 DEF InOrder
<1>6. d.polls >= daemon[n].polls
  BY <1>0, <1>4 DEF IsProcess
<1> QED
  BY <1>2, <1>4, <1>5, <1>6, SameGoesForward, OneProcessInOrder

\* The end of a cycle, when nothing is left under way, and the steps of requests.
LEMMA RestInOrder ==
  ASSUME HopInv, HopInv', OrderInv, NEW n \in Nodes,
         EndCycle(n) \/ ReadLocal(n) \/ ReadPeers(n) \/ ReadCounts(n)
  PROVE  OrderInv' /\ Forward
<1>0. IsProcess(n, daemon[n]) /\ DOMAIN daemon = Nodes /\ InOrder(daemon[n], Polls)
  BY DEF HopInv, OrderInv
<1>1. ASSUME NEW d, daemon' = [daemon EXCEPT ![n] = d],
             d.polls = daemon[n].polls, d.store = daemon[n].store,
             d.records = daemon[n].records, d.flight = daemon[n].flight,
             \/ d.fetching = daemon[n].fetching
             \/ \A u \in URLs : daemon[n].flight[u] = {}
      PROVE  OrderInv' /\ Forward
  <2>1. InOrder(d, Polls)
    BY <1>0, <1>1 DEF InOrder
  <2>2. d.polls >= daemon[n].polls
    BY <1>0, <1>1 DEF IsProcess
  <2> QED
    BY <1>1, <2>1, <2>2, SameGoesForward, OneProcessInOrder
<1>2. CASE EndCycle(n)
  <2> DEFINE d == [daemon[n] EXCEPT !.fetching = FALSE]
  <2>1. daemon' = [daemon EXCEPT ![n] = d]
    BY <1>0, <1>2 DEF EndCycle
  <2>2. /\ d.polls = daemon[n].polls /\ d.store = daemon[n].store
        /\ d.records = daemon[n].records /\ d.flight = daemon[n].flight
    BY <1>0 DEF IsProcess
  <2>3. \A u \in URLs : daemon[n].flight[u] = {}
    BY <1>2 DEF EndCycle
  <2> HIDE DEF d
  <2> QED
    BY <1>1, <2>1, <2>2, <2>3
<1>3. CASE ReadLocal(n) \/ ReadPeers(n) \/ ReadCounts(n)
  <2>1. PICK request : daemon' = [daemon EXCEPT ![n].request = request]
    <3>1. CASE ReadLocal(n)
      BY <3>1 DEF ReadLocal
    <3>2. CASE ReadPeers(n)
      BY <3>2 DEF ReadPeers
    <3>3. CASE ReadCounts(n)
      BY <3>3 DEF ReadCounts
    <3> QED
      BY <1>3, <3>1, <3>2, <3>3
  <2> DEFINE d == [daemon[n] EXCEPT !.request = request]
  <2>2. daemon' = [daemon EXCEPT ![n] = d]
    BY <1>0, <2>1
  <2>3. /\ d.polls = daemon[n].polls /\ d.store = daemon[n].store
        /\ d.records = daemon[n].records /\ d.flight = daemon[n].flight
        /\ d.fetching = daemon[n].fetching
    BY <1>0 DEF IsProcess
  <2> HIDE DEF d
  <2> QED
    BY <1>1, <2>2, <2>3
<1> QED
  BY <1>2, <1>3

LEMMA NextOrder ==
  ASSUME HopInv, HopInv', OrderInv, [Next]_vars
  PROVE  OrderInv' /\ [Forward]_vars
<1>1. CASE UNCHANGED vars
  <2>1. daemon' = daemon
    BY <1>1 DEF vars
  <2>2. Polls' = Polls
    BY <2>1 DEF Polls
  <2>3. OrderInv'
    BY <2>1, <2>2 DEF OrderInv
  <2> QED
    BY <1>1, <2>3
<1>2. CASE Next
  BY <1>2, FederationAssumption, PollInOrder, RestartInOrder, UpdateInOrder, FetchInOrder,
     BeginInOrder, RestInOrder, ForgetInOrder DEF Next, Cycle
<1> QED
  BY <1>1, <1>2

\* Whatever restarts, failures and orders of results there are: a dashboard never
\* replaces what it shows of a peer with an older reading.  It needs do_peer_poll to
\* wait for all of its fetches before the next cycle.
THEOREM ReadingsGoForward == Spec => NeverGoesBack
<1>1. HopInv /\ HopInv' /\ OrderInv /\ [Next]_vars => OrderInv' /\ [Forward]_vars
  BY NextOrder
<1>2. Spec => [](HopInv /\ OrderInv)
  BY <1>1, InitHop, NextHop, InitOrder, PTL DEF Spec
<1> QED
  BY <1>1, <1>2, NextHop, PTL DEF Spec, NeverGoesBack

(***************************************************************************)
(* What an answer is made of.                                              *)
(***************************************************************************)
\* The peers of an answer that is being made differ from the store's only where a
\* record has been replaced since.
Agrees(d) ==
  \A u \in URLs \ d.request.replaced :
    /\ u \in DOMAIN d.request.peers <=> d.records[u] # None
    /\ d.records[u] # None => d.request.peers[u].status = d.records[u].status

CountsDiffer(request) ==
  \A status \in {"ok", "error", "pending"} :
    LET steady == {u \in DOMAIN request.peers \ request.replaced :
                     request.peers[u].status = status}
    IN  request.counts[status] \in
          Cardinality(steady) .. Cardinality(steady) + Cardinality(request.replaced)

IsRequest(d) ==
  /\ DOMAIN d.request = DOMAIN NoRequest
  /\ d.request.replaced \subseteq URLs
  /\ d.request.stage = "listed" => DOMAIN d.request.peers \subseteq URLs /\ Agrees(d)
  /\ d.request.stage = "answered" => CountsDiffer(d.request)

RequestInv == \A n \in Nodes : IsRequest(daemon[n])

LEMMA FreshRequest ==
  ASSUME NEW n, NEW polls PROVE IsRequest(Fresh(n, polls))
BY DEF IsRequest, Fresh, NoRequest

\* Steps of the poller, and of the peer thread between its updates, leave records
\* and request alone.
LEMMA RequestUntouched ==
  ASSUME HopInv, NEW n \in Nodes,
         \/ Poll(n) \/ BeginCycle(n) \/ EndCycle(n)
         \/ \E u \in URLs : FetchAnswered(n, u) \/ FetchLost(n, u)
  PROVE  \A m \in Nodes : /\ daemon'[m].records = daemon[m].records
                          /\ daemon'[m].request = daemon[m].request
<1>0. DOMAIN daemon = Nodes
      /\ \A m \in Nodes : DOMAIN daemon[m] = {"up", "polls", "store", "fetching",
                                              "flight", "records", "request"}
  BY DEF HopInv, IsProcess
<1>1. CASE Poll(n)
  <2>1. PICK polls, store :
          daemon' = [daemon EXCEPT ![n].up = TRUE, ![n].polls = polls, ![n].store = store]
    <3>1. PICK reading \in Readings :
            daemon' = [daemon EXCEPT
              ![n].up = TRUE, ![n].polls = @ + 1,
              ![n].store = {[node |-> n, slot |-> s, poll |-> daemon[n].polls + 1,
                             state |-> reading[s], peer |-> None] : s \in Slots}]
      BY <1>1 DEF Poll
    <3>2. daemon' = [daemon EXCEPT
              ![n].up = TRUE, ![n].polls = daemon[n].polls + 1,
              ![n].store = {[node |-> n, slot |-> s, poll |-> daemon[n].polls + 1,
                             state |-> reading[s], peer |-> None] : s \in Slots}]
      BY <1>0, <3>1
    <3> QED
      BY <3>2
  <2> QED
    BY <1>0, <2>1
<1>2. CASE BeginCycle(n)
  <2>1. PICK flight : daemon' = [daemon EXCEPT ![n].fetching = TRUE, ![n].flight = flight]
    <3>1. PICK found \in SUBSET Discovered[n] :
            LET listed == found \cup {u \in URLs : daemon[n].records[u] # None}
            IN  daemon' = [daemon EXCEPT
                  ![n].fetching = TRUE,
                  ![n].flight = [u \in URLs |-> @[u] \cup
                    IF u \in listed THEN {Record("submitted", {})} ELSE {}]]
      BY <1>2 DEF BeginCycle
    <3> DEFINE listed == found \cup {u \in URLs : daemon[n].records[u] # None}
    <3>2. daemon' = [daemon EXCEPT
            ![n].fetching = TRUE,
            ![n].flight = [u \in URLs |-> daemon[n].flight[u] \cup
              IF u \in listed THEN {Record("submitted", {})} ELSE {}]]
      BY <1>0, <3>1
    <3> HIDE DEF listed
    <3> QED
      BY <3>2
  <2> QED
    BY <1>0, <2>1
<1>3. CASE EndCycle(n)
  BY <1>0, <1>3 DEF EndCycle
<1>4. ASSUME NEW u \in URLs, NEW result, Result(n, u, result)
      PROVE  \A m \in Nodes : /\ daemon'[m].records = daemon[m].records
                              /\ daemon'[m].request = daemon[m].request
  BY <1>0, <1>4 DEF Result
<1> QED
  BY <1>1, <1>2, <1>3, <1>4 DEF FetchAnswered, FetchLost

\* A record replaced while the request is between its two looks is noted.
LEMMA InstallNoted ==
  ASSUME HopInv, RequestInv, NEW n \in Nodes, NEW u \in URLs, NEW record, NEW flight,
         Install(n, u, record, flight)
  PROVE  RequestInv'
<1> DEFINE req == [daemon[n].request EXCEPT
                     !.replaced = IF daemon[n].request.stage = "listed"
                                  THEN @ \cup {u} ELSE @]
           d == [daemon[n] EXCEPT !.records = [@ EXCEPT ![u] = record],
                                  !.flight = [@ EXCEPT ![u] = flight],
                                  !.request = req]
<1>0. IsProcess(n, daemon[n]) /\ DOMAIN daemon = Nodes /\ IsRequest(daemon[n])
  BY DEF HopInv, RequestInv
<1>1. daemon' = [daemon EXCEPT ![n] = d]
  BY <1>0 DEF Install, IsProcess
<1>2. /\ DOMAIN req = DOMAIN NoRequest
      /\ req.stage = daemon[n].request.stage /\ req.peers = daemon[n].request.peers
      /\ req.counts = daemon[n].request.counts
      /\ req.replaced = IF daemon[n].request.stage = "listed"
                        THEN daemon[n].request.replaced \cup {u}
                        ELSE daemon[n].request.replaced
  BY <1>0 DEF IsRequest, NoRequest
<1>3. /\ d.request = req
      /\ \A v \in URLs \ {u} : d.records[v] = daemon[n].records[v]
  <2> HIDE DEF req
  <2> QED
    BY <1>0 DEF IsProcess
<1> HIDE DEF req, d
<1>4. req.replaced \subseteq URLs
  BY <1>0, <1>2 DEF IsRequest
<1>5. req.stage = "listed" => DOMAIN req.peers \subseteq URLs /\ Agrees(d)
  BY <1>0, <1>2, <1>3 DEF IsRequest, Agrees
<1>6. req.stage = "answered" => CountsDiffer(req)
  <2>1. CASE req.stage = "answered"
    <3>1. req.replaced = daemon[n].request.replaced
      BY <1>2, <2>1
    <3> QED
      BY <1>0, <1>2, <2>1, <3>1 DEF IsRequest, CountsDiffer
  <2> QED
    BY <2>1
<1>7. IsRequest(d)
  BY <1>2, <1>3, <1>4, <1>5, <1>6 DEF IsRequest
<1> QED
  BY <1>0, <1>1, <1>7 DEF RequestInv

\* PeerStore.counts counts the steady records with a status, and at most the
\* replaced ones besides.
LEMMA CountsOfStore ==
  ASSUME HopInv, NEW n \in Nodes, Agrees(daemon[n]),
         daemon[n].request.replaced \subseteq URLs,
         DOMAIN daemon[n].request.peers \subseteq URLs,
         NEW status \in {"ok", "error", "pending"}
  PROVE  LET old    == daemon[n].request
             steady == {u \in DOMAIN old.peers \ old.replaced :
                          old.peers[u].status = status}
         IN  Counts(n)[status] \in
               Cardinality(steady) .. Cardinality(steady) + Cardinality(old.replaced)
<1> DEFINE peers    == daemon[n].request.peers
           replaced == daemon[n].request.replaced
           steady  == {u \in DOMAIN peers \ replaced : peers[u].status = status}
           counted == {u \in Known(n) : daemon[n].records[u].status = status}
<1>1. Counts(n)[status] = Cardinality(counted)
  BY DEF Counts
<1>2. steady \subseteq counted /\ counted \subseteq steady \cup replaced
  BY DEF Known, Agrees
<1>3. steady \subseteq URLs /\ counted \subseteq URLs /\ replaced \subseteq URLs
  BY DEF Known
<1> HIDE DEF steady, counted, replaced
<1>4. /\ IsFiniteSet(steady) /\ IsFiniteSet(counted) /\ IsFiniteSet(replaced)
  BY <1>3, FederationAssumption, FS_Subset
<1>5. Cardinality(steady) <= Cardinality(counted)
  BY <1>2, <1>4, FS_Subset
<1>6. /\ IsFiniteSet(steady \cup replaced)
      /\ Cardinality(steady \cup replaced) =
           Cardinality(steady) + Cardinality(replaced) - Cardinality(steady \cap replaced)
  BY <1>4, FS_Union
<1>7. Cardinality(counted) <= Cardinality(steady \cup replaced)
  BY <1>2, <1>6, FS_Subset
<1>8. IsFiniteSet(steady \cap replaced)
  BY <1>4, FS_Subset
<1>9. /\ Cardinality(steady) \in Nat /\ Cardinality(counted) \in Nat
      /\ Cardinality(replaced) \in Nat /\ Cardinality(steady \cap replaced) \in Nat
  BY <1>4, <1>8, FS_CardinalityType
<1>10. Cardinality(counted) \in
         Cardinality(steady) .. Cardinality(steady) + Cardinality(replaced)
  BY <1>5, <1>6, <1>7, <1>9
<1> QED
  BY <1>1, <1>10 DEF steady, replaced

LEMMA ReadingNoted ==
  ASSUME HopInv, RequestInv, NEW n \in Nodes, ReadLocal(n) \/ ReadPeers(n) \/ ReadCounts(n)
  PROVE  RequestInv'
<1>0. IsProcess(n, daemon[n]) /\ DOMAIN daemon = Nodes /\ IsRequest(daemon[n])
  BY DEF HopInv, RequestInv
<1>1. ASSUME NEW request, daemon' = [daemon EXCEPT ![n].request = request],
             DOMAIN request = DOMAIN NoRequest, request.replaced \subseteq URLs,
             request.stage = "listed" =>
               /\ DOMAIN request.peers \subseteq URLs
               /\ \A u \in URLs \ request.replaced :
                    /\ u \in DOMAIN request.peers <=> daemon[n].records[u] # None
                    /\ daemon[n].records[u] # None =>
                         request.peers[u].status = daemon[n].records[u].status,
             request.stage = "answered" => CountsDiffer(request)
      PROVE  RequestInv'
  <2>1. /\ daemon'[n].request = request /\ daemon'[n].records = daemon[n].records
        /\ \A m \in Nodes \ {n} : daemon'[m] = daemon[m]
    BY <1>0, <1>1 DEF IsProcess
  <2>2. IsRequest(daemon'[n])
    BY <1>1, <2>1 DEF IsRequest, Agrees
  <2> QED
    BY <2>1, <2>2 DEF RequestInv
<1>2. CASE ReadLocal(n)
  <2> DEFINE request(endpoint) ==
               [NoRequest EXCEPT !.stage = "local", !.endpoint = endpoint,
                                 !.local = Select(endpoint, daemon[n].store)]
  <2>1. PICK endpoint \in {"state", "space"} :
          daemon' = [daemon EXCEPT ![n].request = request(endpoint)]
    BY <1>2 DEF ReadLocal
  <2>2. /\ request(endpoint).stage = "local" /\ request(endpoint).replaced = {}
        /\ DOMAIN request(endpoint) = DOMAIN NoRequest
    BY DEF NoRequest
  <2> HIDE DEF request
  <2> QED
    BY <1>1, <2>1, <2>2
<1>3. CASE ReadPeers(n)
  <2> DEFINE old   == daemon[n].request
             views == [u \in Known(n) |->
                         Record(daemon[n].records[u].status,
                                Select(old.endpoint, daemon[n].records[u].entries))]
             request == [old EXCEPT !.stage = "listed", !.peers = views,
                                    !.aggregate = Summary(old.local \cup Reachable(views))]
  <2>1. daemon' = [daemon EXCEPT ![n].request = request]
    BY <1>3 DEF ReadPeers
  <2>2. /\ DOMAIN views = Known(n)
        /\ \A u \in Known(n) : views[u].status = daemon[n].records[u].status
    BY DEF Record
  <2> HIDE DEF views
  <2>3. /\ DOMAIN request = DOMAIN NoRequest /\ request.stage = "listed"
        /\ request.peers = views /\ request.replaced = old.replaced
    BY <1>0 DEF IsRequest, NoRequest
  <2> HIDE DEF request
  <2>4. request.replaced \subseteq URLs
    BY <1>0, <2>3 DEF IsRequest
  <2>5. /\ DOMAIN request.peers \subseteq URLs
        /\ \A u \in URLs : /\ u \in DOMAIN request.peers <=> daemon[n].records[u] # None
                           /\ daemon[n].records[u] # None =>
                                request.peers[u].status = daemon[n].records[u].status
    BY <2>2, <2>3 DEF Known
  <2> QED
    BY <1>1, <2>1, <2>3, <2>4, <2>5
<1>4. CASE ReadCounts(n)
  <2> DEFINE old == daemon[n].request
             request == [old EXCEPT !.stage = "answered", !.counts = Counts(n)]
  <2>1. daemon' = [daemon EXCEPT ![n].request = request]
    BY <1>0, <1>4 DEF ReadCounts, IsProcess
  <2>2. /\ DOMAIN request = DOMAIN NoRequest /\ request.stage = "answered"
        /\ request.peers = old.peers /\ request.replaced = old.replaced
        /\ request.counts = Counts(n)
    BY <1>0 DEF IsRequest, NoRequest
  <2> HIDE DEF request
  <2>3. CountsDiffer(request)
    <3>1. DOMAIN old.peers \subseteq URLs /\ old.replaced \in SUBSET URLs /\ Agrees(daemon[n])
      BY <1>0, <1>4 DEF ReadCounts, IsRequest
    <3>2. ASSUME NEW status \in {"ok", "error", "pending"}
          PROVE  LET steady == {u \in DOMAIN old.peers \ old.replaced :
                                  old.peers[u].status = status}
                 IN  Counts(n)[status] \in
                       Cardinality(steady) .. Cardinality(steady) + Cardinality(old.replaced)
      BY <3>1, CountsOfStore
    <3> HIDE DEF old
    <3> QED
      BY <2>2, <3>2 DEF CountsDiffer
  <2>4. request.replaced \subseteq URLs
    BY <1>0, <2>2 DEF IsRequest
  <2> QED
    BY <1>1, <2>1, <2>2, <2>3, <2>4
<1> QED
  BY <1>2, <1>3, <1>4

LEMMA NextRequest ==
  ASSUME HopInv, RequestInv, [Next]_vars
  PROVE  RequestInv'
<1>1. CASE UNCHANGED vars
  <2>1. daemon' = daemon
    BY <1>1 DEF vars
  <2> QED
    BY <2>1 DEF RequestInv
<1>2. ASSUME NEW n \in Nodes,
             \/ Poll(n) \/ BeginCycle(n) \/ EndCycle(n)
             \/ \E u \in URLs : FetchAnswered(n, u) \/ FetchLost(n, u)
      PROVE  RequestInv'
  <2>1. \A m \in Nodes : /\ daemon'[m].records = daemon[m].records
                         /\ daemon'[m].request = daemon[m].request
    BY <1>2, RequestUntouched
  <2> QED
    BY <2>1 DEF RequestInv, IsRequest, Agrees
<1>3. ASSUME NEW n \in Nodes, Restart(n)
      PROVE  RequestInv'
  <2>1. daemon' = [daemon EXCEPT ![n] = Fresh(n, daemon[n].polls)]
    BY <1>3 DEF Restart
  <2> QED
    BY <2>1, FreshRequest DEF RequestInv, HopInv
<1>4. ASSUME NEW n \in Nodes, NEW u \in URLs, Update(n, u) \/ Forget(n, u)
      PROVE  RequestInv'
  BY <1>4, InstallNoted DEF Update, Forget
<1>5. ASSUME NEW n \in Asked, ReadLocal(n) \/ ReadPeers(n) \/ ReadCounts(n)
      PROVE  RequestInv'
  BY <1>5, FederationAssumption, ReadingNoted
<1> QED
  BY <1>1, <1>2, <1>3, <1>4, <1>5 DEF Next, Cycle

\* For any number of peers: the counts of an answer, taken after its list, differ
\* from the list by no more than the peers whose record was replaced in between.
THEOREM CountsAreNear == Spec => []CountsFollowList
<1>1. Init => RequestInv
  BY FreshRequest DEF Init, RequestInv
<1>2. HopInv /\ RequestInv /\ [Next]_vars => RequestInv'
  BY NextRequest
<1>3. RequestInv => CountsFollowList
  BY FederationAssumption DEF RequestInv, IsRequest, CountsDiffer, CountsFollowList
<1> QED
  BY <1>1, <1>2, <1>3, InitHop, NextHop, PTL DEF Spec

(***************************************************************************)
(* What an aggregate counts.                                               *)
(***************************************************************************)
\* AggregateAddsUp of one request.
Local(request, s) == {e \in request.local : e.state = s}
Shown(peers, s) ==
  UNION {{<<u, e>> : e \in {x \in peers[u].entries : x.state = s}} :
           u \in {v \in DOMAIN peers : peers[v].status = "ok"}}
AddsUp(request) ==
  \A s \in States :
    request.aggregate[s] =
      Cardinality(Local(request, s)) + Cardinality(Shown(request.peers, s))

\* A finite set of entries under one stamp.
UnderStamp(entries, peer) ==
  IsFiniteSet(entries) /\ \A e \in entries : e.peer = peer

IsTally(request) ==
  /\ DOMAIN request = DOMAIN NoRequest
  /\ request.stage = "local" => UnderStamp(request.local, None)
  /\ request.stage \in {"listed", "answered"} => AddsUp(request)

\* The inductive invariant: what a request has copied of the own entries carries
\* no stamp, so nothing under a peer's URL is one of them.
TallyInv == \A n \in Nodes : IsTally(daemon[n].request)

LEMMA ReadingUnderStamp ==
  ASSUME NEW node, NEW peer, NEW entries, IsReading(entries, node, peer)
  PROVE  UnderStamp(entries, peer)
<1>1. CASE entries = {}
  BY <1>1, FS_EmptySet DEF UnderStamp
<1>2. CASE entries # {}
  <2>1. PICK poll \in 1 .. MaxPolls[node], reading \in Readings :
          entries = {[node |-> node, slot |-> s, poll |-> poll,
                      state |-> reading[s], peer |-> peer] : s \in Slots}
    BY <1>2 DEF IsReading
  <2> DEFINE row == [s \in Slots |-> [node |-> node, slot |-> s, poll |-> poll,
                                      state |-> reading[s], peer |-> peer]]
  <2>2. entries = {row[s] : s \in Slots}
    BY <2>1
  <2>3. \A s \in Slots : row[s].peer = peer
    OBVIOUS
  <2>4. row = [s \in Slots |-> row[s]]
    OBVIOUS
  <2> HIDE DEF row
  <2>5. row \in Surjection(Slots, entries)
    BY <2>2, <2>4 DEF Surjection
  <2>6. IsFiniteSet(entries)
    BY <2>5, FederationAssumption, FS_Surjection
  <2> QED
    BY <2>2, <2>3, <2>6 DEF UnderStamp
<1> QED
  BY <1>1, <1>2

LEMMA SelectedUnderStamp ==
  ASSUME NEW endpoint, NEW entries, NEW peer, UnderStamp(entries, peer)
  PROVE  UnderStamp(Select(endpoint, entries), peer)
<1>1. Select(endpoint, entries) \in SUBSET entries
  BY DEF Select
<1> QED
  BY <1>1, FS_Subset DEF UnderStamp

\* Where each peer's entries carry its URL and the own ones none, counting the
\* entries of all is counting them peer by peer.
LEMMA CountedOnce ==
  ASSUME NEW local, UnderStamp(local, None),
         NEW views, DOMAIN views \subseteq URLs,
         \A u \in DOMAIN views : UnderStamp(views[u].entries, u),
         NEW s \in States
  PROVE  Summary(local \cup Reachable(views))[s] =
           Cardinality({e \in local : e.state = s}) + Cardinality(Shown(views, s))
<1> DEFINE up    == {u \in DOMAIN views : views[u].status = "ok"}
           mine  == {e \in local : e.state = s}
           yours == {e \in Reachable(views) : e.state = s}
           pairs == Shown(views, s)
           all   == {views[u].entries : u \in up}
<1>1. Summary(local \cup Reachable(views))[s] = Cardinality(mine \cup yours)
  <2>1. {e \in local \cup Reachable(views) : e.state = s} = mine \cup yours
    OBVIOUS
  <2> QED
    BY <2>1 DEF Summary
<1>2. \A e : e \in Reachable(views) <=> \E u \in up : e \in views[u].entries
  BY DEF Reachable
<1>3. \A e \in yours : e.peer \in up /\ e \in views[e.peer].entries /\ e.state = s
  BY <1>2 DEF UnderStamp
<1>4. \A p : p \in pairs <=> \E u \in up : \E e \in views[u].entries :
                               e.state = s /\ p = <<u, e>>
  BY DEF Shown
<1>5. IsFiniteSet(yours)
  <2>1. IsFiniteSet(up)
    BY FederationAssumption, FS_Subset
  <2> DEFINE entriesOf == [u \in up |-> views[u].entries]
  <2>2. entriesOf \in Surjection(up, all)
    BY DEF Surjection
  <2> HIDE DEF entriesOf, up, all
  <2>3. IsFiniteSet(all)
    BY <2>1, <2>2, FS_Surjection
  <2>4. \A S \in all : IsFiniteSet(S)
    BY DEF all, up, UnderStamp
  <2>5. IsFiniteSet(UNION all)
    BY <2>3, <2>4, FS_UNION
  <2>6. yours \in SUBSET UNION all
    BY DEF Reachable, all, up
  <2> HIDE DEF yours
  <2> QED
    BY <2>5, <2>6, FS_Subset
<1>6. IsFiniteSet(mine)
  <2>1. mine \in SUBSET local
    OBVIOUS
  <2> QED
    BY <2>1, FS_Subset DEF UnderStamp
<1>7. mine \cap yours = {}
  BY <1>3, FederationAssumption DEF UnderStamp
<1>8. Cardinality(pairs) = Cardinality(yours)
  <2> DEFINE pair == [e \in yours |-> <<e.peer, e>>]
  <2>1. \A e \in yours : pair[e] \in pairs
    BY <1>3, <1>4
  <2>2. \A e, f \in yours : pair[e] = pair[f] => e = f
    OBVIOUS
  <2>3. \A p \in pairs : \E e \in yours : pair[e] = p
    <3>1. SUFFICES ASSUME NEW p \in pairs PROVE \E e \in yours : pair[e] = p
      OBVIOUS
    <3>2. PICK u \in up : \E e \in views[u].entries : e.state = s /\ p = <<u, e>>
      BY <1>4
    <3>3. PICK e \in views[u].entries : e.state = s /\ p = <<u, e>>
      BY <3>2
    <3>4. e \in yours /\ e.peer = u
      BY <1>2, <3>3 DEF UnderStamp
    <3> QED
      BY <3>3, <3>4
  <2>4. DOMAIN pair = yours /\ pair = [e \in yours |-> pair[e]]
    OBVIOUS
  <2> HIDE DEF pair, yours, pairs
  <2>5. pair \in [yours -> pairs]
    BY <2>1, <2>4
  <2>6. pair \in Bijection(yours, pairs)
    BY <2>2, <2>3, <2>5 DEF Bijection, Injection, Surjection, IsInjective
  <2>7. ExistsBijection(yours, pairs)
    BY <2>6 DEF ExistsBijection
  <2> QED
    BY <1>5, <2>7, FS_Bijection
<1> HIDE DEF mine, yours, pairs
<1>9. Cardinality(mine \cup yours) = Cardinality(mine) + Cardinality(yours)
  <2>1. Cardinality(mine \cup yours) =
          Cardinality(mine) + Cardinality(yours) - Cardinality(mine \cap yours)
    BY <1>5, <1>6, FS_Union
  <2>2. /\ Cardinality(mine) \in Nat /\ Cardinality(yours) \in Nat
        /\ Cardinality(mine \cap yours) = 0
    BY <1>5, <1>6, <1>7, FS_CardinalityType, FS_EmptySet
  <2> QED
    BY <2>1, <2>2
<1> QED
  BY <1>1, <1>8, <1>9 DEF mine, pairs

LEMMA FreshTally ==
  ASSUME NEW n, NEW polls PROVE IsTally(Fresh(n, polls).request)
BY DEF IsTally, Fresh, NoRequest

\* A replaced record does not reach the answer that is being made.
LEMMA InstallTally ==
  ASSUME HopInv, TallyInv, NEW n \in Nodes, NEW u \in URLs, NEW record, NEW flight,
         Install(n, u, record, flight)
  PROVE  TallyInv'
<1> DEFINE old == daemon[n].request
           req == [old EXCEPT !.replaced = IF old.stage = "listed" THEN @ \cup {u} ELSE @]
<1>0. IsProcess(n, daemon[n]) /\ DOMAIN daemon = Nodes /\ IsTally(old)
  BY DEF HopInv, TallyInv
<1>1. daemon'[n].request = req /\ \A m \in Nodes \ {n} : daemon'[m] = daemon[m]
  BY <1>0 DEF Install, IsProcess
<1>2. /\ DOMAIN req = DOMAIN old /\ req.stage = old.stage /\ req.local = old.local
      /\ req.peers = old.peers /\ req.aggregate = old.aggregate
  BY <1>0 DEF IsTally, NoRequest
<1> HIDE DEF req, old
<1>3. IsTally(req)
  BY <1>0, <1>2 DEF IsTally, AddsUp, Local
<1> QED
  BY <1>1, <1>3 DEF TallyInv

LEMMA ReadingTally ==
  ASSUME HopInv, TallyInv, NEW n \in Nodes, ReadLocal(n) \/ ReadPeers(n) \/ ReadCounts(n)
  PROVE  TallyInv'
<1> DEFINE old == daemon[n].request
<1>0. IsProcess(n, daemon[n]) /\ DOMAIN daemon = Nodes /\ IsTally(old)
  BY DEF HopInv, TallyInv
<1>1. ASSUME NEW request, daemon' = [daemon EXCEPT ![n].request = request],
             IsTally(request)
      PROVE  TallyInv'
  <2>1. daemon'[n].request = request /\ \A m \in Nodes \ {n} : daemon'[m] = daemon[m]
    BY <1>0, <1>1 DEF IsProcess
  <2> QED
    BY <1>1, <2>1 DEF TallyInv
<1>2. CASE ReadLocal(n)
  <2> DEFINE request(endpoint) ==
               [NoRequest EXCEPT !.stage = "local", !.endpoint = endpoint,
                                 !.local = Select(endpoint, daemon[n].store)]
  <2>1. PICK endpoint \in {"state", "space"} :
          daemon' = [daemon EXCEPT ![n].request = request(endpoint)]
    BY <1>2 DEF ReadLocal
  <2>2. UnderStamp(Select(endpoint, daemon[n].store), None)
    BY <1>0, ReadingUnderStamp, SelectedUnderStamp DEF IsProcess
  <2>3. /\ request(endpoint).stage = "local"
        /\ request(endpoint).local = Select(endpoint, daemon[n].store)
        /\ DOMAIN request(endpoint) = DOMAIN NoRequest
    BY DEF NoRequest
  <2> HIDE DEF request
  <2>4. IsTally(request(endpoint))
    BY <2>2, <2>3 DEF IsTally
  <2> QED
    BY <1>1, <2>1, <2>4
<1>3. CASE ReadPeers(n)
  <2> DEFINE views == [u \in Known(n) |->
                         Record(daemon[n].records[u].status,
                                Select(old.endpoint, daemon[n].records[u].entries))]
             sum     == Summary(old.local \cup Reachable(views))
             request == [old EXCEPT !.stage = "listed", !.peers = views, !.aggregate = sum]
  <2>1. daemon' = [daemon EXCEPT ![n].request = request] /\ old.stage = "local"
    BY <1>3 DEF ReadPeers
  <2>2. DOMAIN views \subseteq URLs
    BY DEF Known
  <2>3. ASSUME NEW u \in DOMAIN views
        PROVE  UnderStamp(views[u].entries, u)
    <3>1. u \in URLs /\ daemon[n].records[u] # None
      BY <2>3 DEF Known
    <3>2. UnderStamp(daemon[n].records[u].entries, u)
      BY <1>0, <3>1, ReadingUnderStamp DEF IsProcess, IsHop
    <3>3. views[u].entries = Select(old.endpoint, daemon[n].records[u].entries)
      BY DEF Record
    <3> QED
      BY <3>2, <3>3, SelectedUnderStamp
  <2> HIDE DEF views
  <2>4. UnderStamp(old.local, None)
    BY <1>0, <2>1 DEF IsTally
  <2>5. \A s \in States : sum[s] = Cardinality(Local(old, s)) + Cardinality(Shown(views, s))
    BY <2>2, <2>3, <2>4, CountedOnce DEF Local
  <2> HIDE DEF sum
  <2>6. /\ DOMAIN request = DOMAIN NoRequest /\ request.stage = "listed"
        /\ request.local = old.local /\ request.peers = views /\ request.aggregate = sum
    BY <1>0 DEF IsTally, NoRequest
  <2> HIDE DEF request, old
  <2>7. IsTally(request)
    BY <2>5, <2>6 DEF IsTally, AddsUp, Local
  <2> QED
    BY <1>1, <2>1, <2>7
<1>4. CASE ReadCounts(n)
  <2> DEFINE request == [old EXCEPT !.stage = "answered", !.counts = Counts(n)]
  <2>1. daemon' = [daemon EXCEPT ![n].request = request] /\ old.stage = "listed"
    BY <1>0, <1>4 DEF ReadCounts, IsProcess
  <2>2. /\ DOMAIN request = DOMAIN NoRequest /\ request.stage = "answered"
        /\ request.local = old.local /\ request.peers = old.peers
        /\ request.aggregate = old.aggregate
    BY <1>0 DEF IsTally, NoRequest
  <2> HIDE DEF request, old
  <2>3. IsTally(request)
    BY <1>0, <2>1, <2>2 DEF IsTally, AddsUp, Local
  <2> QED
    BY <1>1, <2>1, <2>3
<1> QED
  BY <1>2, <1>3, <1>4

LEMMA NextTally ==
  ASSUME HopInv, TallyInv, [Next]_vars
  PROVE  TallyInv'
<1>1. CASE UNCHANGED vars
  BY <1>1 DEF vars, TallyInv
<1>2. ASSUME NEW n \in Nodes,
             \/ Poll(n) \/ BeginCycle(n) \/ EndCycle(n)
             \/ \E u \in URLs : FetchAnswered(n, u) \/ FetchLost(n, u)
      PROVE  TallyInv'
  BY <1>2, RequestUntouched DEF TallyInv
<1>3. ASSUME NEW n \in Nodes, Restart(n)
      PROVE  TallyInv'
  <2>1. daemon' = [daemon EXCEPT ![n] = Fresh(n, daemon[n].polls)]
    BY <1>3 DEF Restart
  <2> QED
    BY <2>1, FreshTally DEF TallyInv, HopInv
<1>4. ASSUME NEW n \in Nodes, NEW u \in URLs, Update(n, u) \/ Forget(n, u)
      PROVE  TallyInv'
  BY <1>4, InstallTally DEF Update, Forget
<1>5. ASSUME NEW n \in Asked, ReadLocal(n) \/ ReadPeers(n) \/ ReadCounts(n)
      PROVE  TallyInv'
  BY <1>5, FederationAssumption, ReadingTally
<1> QED
  BY <1>1, <1>2, <1>3, <1>4, <1>5 DEF Next, Cycle

\* For any nodes that show each other, however their URLs alias and whatever is
\* replaced while the answer is made: its aggregate is the count of the own entries
\* and of those it lists under connected peers, each once.
THEOREM AggregateIsTheSum == Spec => []AggregateAddsUp
<1>1. Init => TallyInv
  BY FreshTally DEF Init, TallyInv
<1>2. HopInv /\ TallyInv /\ [Next]_vars => TallyInv'
  BY NextTally
<1>3. TallyInv => AggregateAddsUp
  BY FederationAssumption DEF TallyInv, IsTally, AddsUp, Local, Shown, AggregateAddsUp
<1> QED
  BY <1>1, <1>2, <1>3, InitHop, NextHop, PTL DEF Spec
===============================================================================
