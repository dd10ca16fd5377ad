------------------------------ MODULE PeersProofs ------------------------------
(***************************************************************************)
(* What the peer thread of one daemon may never do, for any configuration, *)
(* network and intervals.                                                  *)
(***************************************************************************)
EXTENDS Peers, FiniteSetTheorems, TLAPS

Statuses == {"pending", "disabled", "ok", "error"}
Records  == {Record(status, data) : status \in Statuses, data \in Payloads \cup {None}}
Results  == {"answers", "fails", "breaks"}
Stages   == {"asleep", "multicast", "probe", "expire", "merge", "fetching"}

\* The types of the variables, as far as the proofs need them.
Types ==
  /\ reach \in [URLs -> Results]
  /\ thread \in Stages
  /\ elapsed \in 0 .. MaxBusy
  /\ timer \in Nat
  /\ heard \subseteq Announced
  /\ seenAge \in [Announced -> (0 .. MaxAge) \cup {None}]
  /\ missed \in [Announced -> 0 .. 2]
  /\ scanAge \in (0 .. MaxAge) \cup {None}
  /\ gone \subseteq Announced
  /\ fetch \in [URLs -> {"none", "submitted"} \cup Results]
  /\ previous \in [URLs -> Payloads \cup {None}]
  /\ records \in [URLs -> Records \cup {None}]

LEMMA NoneIsNoRecord == None \notin Records
BY PeersAssumption DEF Records, Statuses

LEMMA ConstantTypes ==
  /\ Interval \in Nat \ {0} /\ Grace \in Nat \ {0} /\ PeerInterval \in Nat \ {0}
  /\ MaxBusy \in Nat /\ MaxAge \in Nat /\ MaxAge >= MaxBusy
  /\ None \notin Int
  /\ SleepFor \in Nat \ {0} /\ SleepFor <= PeerInterval
  /\ Disabled \subseteq StaticSet /\ StaticSet \subseteq URLs /\ Announced \subseteq URLs
<1>1. /\ Interval \in Nat \ {0} /\ Grace \in Nat \ {0} /\ PeerInterval \in Nat \ {0}
      /\ MaxBusy \in Nat
  BY PeersAssumption
<1> QED
  BY <1>1, PeersAssumption DEF MaxAge, SleepFor, URLs

LEMMA InitTypes == Init => Types
<1> SUFFICES ASSUME Init PROVE Types
  OBVIOUS
<1>1. records \in [URLs -> Records \cup {None}]
  BY ConstantTypes DEF Init, Records, Statuses
<1> QED
  BY <1>1, ConstantTypes DEF Init, Types, Results, Stages

LEMMA PreviousTyped ==
  ASSUME Types, NEW u \in URLs
  PROVE  Previous(u) \in Payloads \cup {None}
BY DEF Previous, Types, Records, Record

LEMMA NewRecordsTyped ==
  ASSUME Types, NEW u \in URLs, NEW r \in NewRecords(u)
  PROVE  /\ r \in Records
         /\ r.status = "error" =>
              r = Record("error", IF fetch[u] = "breaks" THEN None ELSE previous[u])
<1>1. previous[u] \in Payloads \cup {None}
  BY DEF Types
<1>2. CASE fetch[u] = "answers" /\ u \notin Own
  BY <1>2 DEF NewRecords, Records, Statuses, Record
<1>3. CASE ~(fetch[u] = "answers" /\ u \notin Own)
  BY <1>1, <1>3 DEF NewRecords, Records, Statuses
<1> QED
  BY <1>2, <1>3

LEMMA NextTypes == Types /\ [Next]_vars => Types'
<1> SUFFICES ASSUME Types, [Next]_vars PROVE Types'
  OBVIOUS
<1> USE ConstantTypes DEF Types, Stages, Results, environment, discovery, fetches, peerStore
<1>1. CASE ResponderChanges
  BY <1>1 DEF ResponderChanges
<1>2. CASE PeerChanges
  BY <1>2 DEF PeerChanges, Outcomes
<1>3. CASE Tick
  <2>1. \A a \in (0 .. MaxAge) \cup {None} : Older(a) \in (0 .. MaxAge) \cup {None}
    BY DEF Older
  <2>2. elapsed' \in 0 .. MaxBusy /\ timer' \in Nat
    BY <1>3 DEF Tick
  <2>3. /\ seenAge' = [u \in Announced |-> Older(seenAge[u])]
        /\ scanAge' = Older(scanAge)
        /\ UNCHANGED <<reach, thread, heard, missed, gone, fetch, previous, records>>
    BY <1>3 DEF Tick
  <2>4. seenAge' \in [Announced -> (0 .. MaxAge) \cup {None}]
    BY <2>1, <2>3
  <2> QED
    BY <2>1, <2>2, <2>3, <2>4
<1>4. CASE BeginCycle
  BY <1>4 DEF BeginCycle
<1>5. CASE Multicast
  BY <1>5 DEF Multicast
<1>6. CASE Probe
  <2>1. missed' \in [Announced -> 0 .. 2]
    BY <1>6 DEF Probe
  <2>2. seenAge' \in [Announced -> (0 .. MaxAge) \cup {None}]
    BY <1>6 DEF Probe, Renewed
  <2>3. scanAge' \in 0 .. MaxAge /\ heard' = {} /\ thread' = "expire"
        /\ UNCHANGED <<reach, elapsed, timer, gone, fetch, previous, records>>
    BY <1>6 DEF Probe
  <2> QED
    BY <2>1, <2>2, <2>3
<1>7. CASE Expire
  BY <1>7 DEF Expire, ToRemove
<1>8. CASE Submit
  <2>1. records' \in [URLs -> Records \cup {None}]
    BY <1>8 DEF Submit, Records, Statuses
  <2>2. previous' \in [URLs -> Payloads \cup {None}]
    <3>1. \A u \in URLs : Previous(u) \in Payloads \cup {None}
      BY PreviousTyped
    <3> QED
      BY <1>8, <3>1 DEF Submit
  <2> QED
    BY <1>8, <2>1, <2>2 DEF Submit, Sleep
<1>9. CASE EndCycle
  BY <1>9 DEF EndCycle, Sleep
<1>10. ASSUME NEW u \in URLs, Remove(u) PROVE Types'
  BY <1>10 DEF Remove
<1>11. ASSUME NEW u \in URLs, AskPeer(u) PROVE Types'
  BY <1>11 DEF AskPeer
<1>12. ASSUME NEW u \in URLs, Update(u) PROVE Types'
  <2>1. PICK r \in NewRecords(u) : records' = [records EXCEPT ![u] = r]
    BY <1>12 DEF Update
  <2>2. records' \in [URLs -> Records \cup {None}]
    BY <2>1, NewRecordsTyped
  <2> QED
    BY <1>12, <2>2 DEF Update
<1>13. CASE UNCHANGED vars
  BY <1>13 DEF vars
<1> QED
  BY <1>1, <1>2, <1>3, <1>4, <1>5, <1>6, <1>7, <1>8, <1>9, <1>10, <1>11, <1>12, <1>13
     DEF Next, Cycle

(***************************************************************************)
(* Disabled peers, and what the list has to do with discovery.             *)
(***************************************************************************)
Foreign == Announced \ StaticSet

\* Between the steps of a cycle the store and discovery differ by what is gone
\* and not yet removed, and by what is found and not yet fetched.
ListInv ==
  /\ thread # "merge" => gone = {}
  /\ gone \subseteq Foreign
  /\ \A u \in gone : seenAge[u] = None
  /\ \A u \in URLs :
       fetch[u] # "none" => thread = "fetching" /\ u \in ToFetch
  /\ \A u \in StaticSet : records[u] # None
  /\ \A u \in Foreign :
       /\ records[u] # None => seenAge[u] # None \/ u \in gone
       /\ (seenAge[u] # None /\ records[u] = None) =>
            thread \in {"expire", "merge", "fetching"}
       /\ (seenAge[u] # None /\ records[u] = None /\ thread = "fetching") =>
            fetch[u] # "none"

LEMMA InitList == Init => ListInv /\ DisabledIsRespected
<1> SUFFICES ASSUME Init PROVE ListInv /\ DisabledIsRespected
  OBVIOUS
<1>1. \A u \in StaticSet : records[u] # None
  <2>1. \A u \in StaticSet : records[u] \in Records
    BY ConstantTypes DEF Init, Records, Statuses
  <2> QED
    BY <2>1, NoneIsNoRecord
<1> QED
  BY <1>1, ConstantTypes DEF Init, ListInv, DisabledIsRespected, Foreign

LEMMA NextList ==
  Types /\ Types' /\ ListInv /\ DisabledIsRespected /\ [Next]_vars
    => ListInv' /\ DisabledIsRespected'
<1> SUFFICES ASSUME Types, Types', ListInv, DisabledIsRespected, [Next]_vars
             PROVE  ListInv' /\ DisabledIsRespected'
  OBVIOUS
<1>0. /\ \A r \in Records : r # None
      /\ \A u \in Disabled : u \in StaticSet
      /\ \A u \in Foreign : u \in URLs /\ u \in Announced /\ u \notin Disabled
  BY NoneIsNoRecord, ConstantTypes DEF Foreign
<1> USE DEF environment, discovery, fetches, peerStore
<1>1. CASE ResponderChanges \/ PeerChanges
  BY <1>1 DEF ResponderChanges, PeerChanges, ListInv, DisabledIsRespected, ToFetch, Listed
<1>2. CASE Tick
  <2>1. \A u \in Announced : seenAge'[u] = None <=> seenAge[u] = None
    BY <1>2, ConstantTypes DEF Tick, Older, Types
  <2>2. UNCHANGED <<thread, gone, fetch, records>>
    BY <1>2 DEF Tick
  <2> QED
    BY <1>0, <2>1, <2>2 DEF ListInv, DisabledIsRespected, ToFetch, Listed
<1>3. CASE BeginCycle
  BY <1>3 DEF BeginCycle, ListInv, DisabledIsRespected, ToFetch, Listed
<1>4. CASE Multicast
  BY <1>4 DEF Multicast, ListInv, DisabledIsRespected, ToFetch, Listed
<1>5. CASE Probe
  <2>1. \A u \in Announced : seenAge[u] # None => seenAge'[u] # None
    BY <1>5, ConstantTypes DEF Probe, Renewed, Types
  <2>2. thread = "probe" /\ thread' = "expire" /\ UNCHANGED <<gone, fetch, records>>
    BY <1>5 DEF Probe
  <2> QED
    BY <1>0, <2>1, <2>2 DEF ListInv, DisabledIsRespected
<1>6. CASE Expire
  <2>1. /\ \A u \in Announced : seenAge'[u] = IF Overdue(u) THEN None ELSE seenAge[u]
        /\ gone' = {u \in Announced : Overdue(u)} \ StaticSet
        /\ thread = "expire" /\ thread' = "merge" /\ UNCHANGED <<fetch, records>>
    BY <1>6 DEF Expire, ToRemove
  <2> QED
    BY <1>0, <2>1 DEF ListInv, DisabledIsRespected, Foreign
<1>7. CASE Submit
  <2>1. /\ \A u \in Disabled : records'[u] = Record("disabled", None)
        /\ \A u \in URLs \ Disabled : records'[u] = records[u]
    BY <1>7, ConstantTypes DEF Submit
  <2>2. /\ \A u \in URLs : fetch'[u] = IF u \in ToFetch THEN "submitted" ELSE "none"
        /\ thread = "merge" /\ gone = {} /\ UNCHANGED <<seenAge, gone>>
        /\ thread' = IF ToFetch = {} THEN "asleep" ELSE "fetching"
    BY <1>7 DEF Submit, Sleep
  <2>3. ToFetch' = ToFetch
    BY <2>2 DEF ToFetch, Listed
  <2>4. \A u \in Foreign : seenAge[u] # None => u \in ToFetch
    BY <1>0 DEF ToFetch, Listed
  <2>5. DisabledIsRespected'
    BY <1>0, <2>1, <2>2, ConstantTypes DEF DisabledIsRespected, ToFetch
  <2>6. \A u \in StaticSet : records'[u] # None
    <3>1. Record("disabled", None) \in Records
      BY DEF Records, Statuses
    <3> QED
      BY <1>0, <2>1, <3>1, ConstantTypes DEF ListInv
  <2> QED
    BY <1>0, <2>1, <2>2, <2>3, <2>4, <2>5, <2>6 DEF ListInv
<1>8. CASE EndCycle
  BY <1>0, <1>8 DEF EndCycle, Sleep, ListInv, DisabledIsRespected, ToFetch, Listed
<1>9. ASSUME NEW v \in URLs, Remove(v) PROVE ListInv' /\ DisabledIsRespected'
  <2>1. /\ \A u \in URLs : records'[u] = IF u = v THEN None ELSE records[u]
        /\ gone' = gone \ {v} /\ v \in gone
        /\ thread = "merge" /\ UNCHANGED <<thread, seenAge, fetch>>
    BY <1>9 DEF Remove, Types
  <2>2. v \notin StaticSet /\ seenAge[v] = None
    BY <2>1 DEF ListInv, Foreign
  <2>3. ToFetch' = ToFetch
    BY <2>1 DEF ToFetch, Listed
  <2> QED
    BY <1>0, <2>1, <2>2, <2>3, ConstantTypes DEF ListInv, DisabledIsRespected
<1>10. ASSUME NEW v \in URLs, AskPeer(v) PROVE ListInv' /\ DisabledIsRespected'
  <2>1. /\ fetch[v] = "submitted" /\ fetch'[v] # "none"
        /\ \A u \in URLs : u # v => fetch'[u] = fetch[u]
        /\ UNCHANGED <<thread, seenAge, gone, records>>
    BY <1>10 DEF AskPeer, Types, Results
  <2>2. ToFetch' = ToFetch
    BY <2>1 DEF ToFetch, Listed
  <2> QED
    BY <1>0, <2>1, <2>2, ConstantTypes DEF ListInv, DisabledIsRespected
<1>11. ASSUME NEW v \in URLs, Update(v) PROVE ListInv' /\ DisabledIsRespected'
  <2>1. /\ fetch[v] # "none" /\ thread = "fetching"
        /\ \A u \in URLs : fetch'[u] = IF u = v THEN "none" ELSE fetch[u]
        /\ UNCHANGED <<thread, seenAge, gone>>
    BY <1>11 DEF Update, Types
  <2>2. PICK r \in NewRecords(v) : records' = [records EXCEPT ![v] = r]
    BY <1>11 DEF Update
  <2>3. /\ records'[v] # None
        /\ \A u \in URLs : u # v => records'[u] = records[u]
    BY <1>0, <2>2, NewRecordsTyped DEF Types
  <2>4. v \in ToFetch /\ ToFetch' = ToFetch
    BY <2>1 DEF ListInv, ToFetch, Listed
  <2>5. v \notin Disabled /\ (v \in Foreign => seenAge[v] # None)
    BY <2>4 DEF ToFetch, Listed, Foreign
  <2> QED
    BY <1>0, <2>1, <2>3, <2>4, <2>5, ConstantTypes DEF ListInv, DisabledIsRespected
<1>12. CASE UNCHANGED vars
  BY <1>12 DEF vars, ListInv, DisabledIsRespected, ToFetch, Listed
<1> QED
  BY <1>1, <1>2, <1>3, <1>4, <1>5, <1>6, <1>7, <1>8, <1>9, <1>10, <1>11, <1>12
     DEF Next, Cycle

LEMMA Invariance == Spec => [](Types /\ ListInv /\ DisabledIsRespected)
<1>1. Init => Types /\ ListInv /\ DisabledIsRespected
  BY InitTypes, InitList
<1>2. Types /\ ListInv /\ DisabledIsRespected /\ [Next]_vars
        => Types' /\ ListInv' /\ DisabledIsRespected'
  BY NextTypes, NextList
<1> QED
  BY <1>1, <1>2, PTL DEF Spec

\* A peer that is disabled in the configuration is never fetched and shows
\* nothing, although discovery may find it.
THEOREM DisabledPeersAreLeftAlone == Spec => []DisabledIsRespected
BY Invariance, PTL

\* Between two cycles the peer store lists what discovery knows, in every order
\* of finds, losses, expiries and failing scans.
THEOREM TheListIsDiscovery == Spec => []ListMatchesDiscovery
<1>1. ListInv => ListMatchesDiscovery
  BY DEF ListInv, ListMatchesDiscovery, Foreign
<1> QED
  BY <1>1, Invariance, PTL

(***************************************************************************)
(* Outages.                                                                *)
(***************************************************************************)
\* What a fetch was submitted with is what the store still has: until its
\* result is in, nothing else changes the record of a peer that is fetched.
PreviousIsCurrent ==
  \A u \in URLs : fetch[u] # "none" => previous[u] = Previous(u)

LEMMA NextPrevious ==
  Types /\ ListInv /\ DisabledIsRespected /\ PreviousIsCurrent /\ [Next]_vars
    => PreviousIsCurrent'
<1> SUFFICES ASSUME Types, ListInv, DisabledIsRespected, PreviousIsCurrent, [Next]_vars
             PROVE  PreviousIsCurrent'
  OBVIOUS
<1>1. CASE UNCHANGED <<fetch, previous, records>>
  BY <1>1 DEF PreviousIsCurrent, Previous
<1>2. CASE Submit
  <2>1. \A u \in ToFetch : records'[u] = records[u]
    BY <1>2, ConstantTypes DEF Submit, ToFetch, Listed
  <2> QED
    BY <1>2, <2>1 DEF Submit, PreviousIsCurrent, Previous
<1>3. ASSUME NEW v \in URLs, Remove(v) PROVE PreviousIsCurrent'
  <2>1. \A u \in URLs : fetch'[u] = "none"
    BY <1>3 DEF Remove, ListInv, fetches
  <2> QED
    BY <2>1 DEF PreviousIsCurrent
<1>4. ASSUME NEW v \in URLs, AskPeer(v) PROVE PreviousIsCurrent'
  <2>1. /\ fetch[v] # "none" /\ UNCHANGED <<previous, records>>
        /\ \A u \in URLs : u # v => fetch'[u] = fetch[u]
    BY <1>4 DEF AskPeer, Types, peerStore
  <2> QED
    BY <2>1 DEF PreviousIsCurrent, Previous
<1>5. ASSUME NEW v \in URLs, Update(v) PROVE PreviousIsCurrent'
  <2>1. PICK r \in NewRecords(v) : records' = [records EXCEPT ![v] = r]
    BY <1>5 DEF Update
  <2>2. /\ fetch'[v] = "none"
        /\ \A u \in URLs : u # v => /\ fetch'[u] = fetch[u]
                                    /\ previous'[u] = previous[u]
                                    /\ records'[u] = records[u]
    BY <1>5, <2>1 DEF Update, Types
  <2> QED
    BY <2>2 DEF PreviousIsCurrent, Previous
<1> QED
  BY <1>1, <1>2, <1>3, <1>4, <1>5
     DEF Next, Cycle, ResponderChanges, PeerChanges, Tick, BeginCycle, Multicast, Probe,
         Expire, EndCycle, vars, fetches, peerStore

\* An outage keeps the data, whenever the result of the failed fetch is stored
\* and whatever expires or changes meanwhile; only an answer that makes
\* fetch_state raise something it does not translate erases it.
THEOREM OutagesKeepData == Spec => OutageKeepsData
<1>1. Types /\ PreviousIsCurrent /\ [Next]_vars => [KeepsData]_vars
  <2> SUFFICES ASSUME Types, PreviousIsCurrent, Next PROVE KeepsData
    BY DEF vars
  <2>1. CASE UNCHANGED records
    BY <2>1 DEF KeepsData
  <2>2. CASE Submit
    BY <2>2 DEF Submit, KeepsData, Record
  <2>3. ASSUME NEW v \in URLs, Remove(v) PROVE KeepsData
    BY <2>3 DEF Remove, Types, KeepsData
  <2>4. ASSUME NEW v \in URLs, Update(v) PROVE KeepsData
    <3>1. PICK r \in NewRecords(v) : records' = [records EXCEPT ![v] = r]
      BY <2>4 DEF Update
    <3>2. fetch[v] # "breaks" /\ r.status = "error" => r.data = Previous(v)
      BY <2>4, NewRecordsTyped DEF Update, PreviousIsCurrent, Record
    <3>3. \A u \in URLs : u # v => records'[u] = records[u]
      BY <3>1 DEF Types
    <3>4. records'[v] = r
      BY <3>1 DEF Types
    <3> QED
      BY <3>2, <3>3, <3>4 DEF KeepsData, Previous
  <2> QED
    BY <2>1, <2>2, <2>3, <2>4
       DEF Next, Cycle, ResponderChanges, PeerChanges, Tick, BeginCycle, Multicast, Probe,
           Expire, EndCycle, AskPeer, peerStore
<1>2. Init => PreviousIsCurrent
  BY DEF Init, PreviousIsCurrent
<1> QED
  BY <1>1, <1>2, NextPrevious, Invariance, PTL DEF Spec, OutageKeepsData

(***************************************************************************)
(* How long the grace has to be.                                           *)
(***************************************************************************)
\* How old the last scan may be in a cycle that does not scan: where the thread
\* sleeps for a scan interval every cycle scans.
Late == IF PeerInterval < Interval THEN Interval - 1 ELSE 0

\* The longest time between two scans.
Gap == Late + MaxBusy + SleepFor

GraceIsEnough == Grace >= Late + Gap

\* Ages at each point of a cycle: that of the last scan, and that of what a scan
\* has missed at most once.
AgeInv ==
  /\ thread = "asleep" => timer <= SleepFor /\ elapsed = 0
  /\ scanAge = None => \A u \in Announced : seenAge[u] = None
  /\ ~Discovers => scanAge = None /\ thread \notin {"multicast", "probe"}
  /\ scanAge # None =>
       /\ thread = "asleep" =>
            scanAge + timer >= SleepFor /\ scanAge + timer <= Gap
       /\ thread \in {"multicast", "probe"} => scanAge - elapsed <= Gap
       /\ thread \in {"expire", "merge", "fetching"} => scanAge - elapsed <= Late
       /\ \A u \in Announced :
            /\ seenAge[u] # None /\ missed[u] = 0 => seenAge[u] = scanAge
            /\ seenAge[u] # None /\ missed[u] = 1 => seenAge[u] <= scanAge + Gap

LEMMA GapTypes ==
  ASSUME GraceIsEnough
  PROVE  /\ Late \in Nat /\ Gap \in Nat /\ Gap >= SleepFor /\ MaxAge >= Gap
         /\ MaxAge >= Late + Gap /\ Gap = Late + MaxBusy + SleepFor
         /\ SleepFor <= Interval \/ ~Discovers
         /\ PeerInterval >= Interval /\ Discovers => SleepFor = Interval
         /\ PeerInterval < Interval => Late = Interval - 1
         /\ PeerInterval >= Interval => Late = 0
BY ConstantTypes DEF GraceIsEnough, Late, Gap, MaxAge, SleepFor

LEMMA InitAge == GraceIsEnough /\ Init => AgeInv
BY ConstantTypes DEF Init, AgeInv

LEMMA NextAge ==
  ASSUME GraceIsEnough, Types, Types', AgeInv, [Next]_vars
  PROVE  AgeInv'
<1> USE GapTypes, ConstantTypes DEF environment, discovery, fetches, peerStore
<1>1. CASE Tick
  <2>1. /\ scanAge' = Older(scanAge)
        /\ \A u \in Announced : seenAge'[u] = Older(seenAge[u])
        /\ thread' = thread /\ missed' = missed
    BY <1>1 DEF Tick
  <2>2. CASE thread = "asleep"
    <3>1. timer' = timer - 1 /\ timer > 0 /\ elapsed' = elapsed
      BY <1>1, <2>2 DEF Tick
    <3> QED
      BY <2>1, <2>2, <3>1 DEF AgeInv, Types, Older
  <2>3. CASE thread # "asleep"
    <3>1. elapsed' = elapsed + 1
      BY <1>1, <2>3 DEF Tick
    <3>2. CASE scanAge = None
      <4>1. scanAge' = None /\ \A u \in Announced : seenAge'[u] = None
        BY <2>1, <3>2 DEF AgeInv, Older
      <4> QED
        BY <2>1, <2>3, <4>1 DEF AgeInv
    <3>3. CASE scanAge # None
      <4>1. scanAge \in 0 .. MaxAge /\ elapsed \in 0 .. MaxBusy
        BY <3>3 DEF Types
      <4>2. scanAge' \in Nat /\ scanAge' <= scanAge + 1
        BY <2>1, <3>3, <4>1 DEF Older
      <4>3. /\ thread \in {"multicast", "probe"} => scanAge' - elapsed' <= Gap
            /\ thread \in {"expire", "merge", "fetching"} => scanAge' - elapsed' <= Late
        BY <3>1, <3>3, <4>1, <4>2 DEF AgeInv
      <4>4. ASSUME NEW u \in Announced
            PROVE  /\ seenAge'[u] # None /\ missed'[u] = 0 => seenAge'[u] = scanAge'
                   /\ seenAge'[u] # None /\ missed'[u] = 1 =>
                        seenAge'[u] <= scanAge' + Gap
        <5>1. seenAge[u] \in (0 .. MaxAge) \cup {None}
          BY DEF Types
        <5> QED
          BY <2>1, <3>3, <4>1, <5>1 DEF AgeInv, Older
      <4>5. scanAge' # None
        BY <4>2
      <4> QED
        BY <2>1, <2>3, <3>3, <4>3, <4>4, <4>5 DEF AgeInv
    <3> QED
      BY <3>2, <3>3
  <2> QED
    BY <2>2, <2>3
<1>2. CASE BeginCycle
  <2>1. /\ thread = "asleep" /\ timer = 0 /\ UNCHANGED <<elapsed, seenAge, missed, scanAge>>
        /\ thread' = IF ~Discovers THEN "merge"
                     ELSE IF Due THEN "multicast" ELSE "expire"
    BY <1>2 DEF BeginCycle
  <2>2. CASE scanAge = None
    BY <2>1, <2>2 DEF AgeInv
  <2>3. CASE scanAge # None
    <3>1. scanAge \in 0 .. MaxAge /\ scanAge >= SleepFor /\ scanAge <= Gap
          /\ Discovers /\ elapsed = 0
      BY <2>1, <2>3 DEF AgeInv, Types
    <3>2. ~Due => scanAge <= Late
      BY <2>3, <3>1 DEF Due
    <3>3. scanAge - elapsed <= Gap /\ (thread' = "expire" => scanAge - elapsed <= Late)
      BY <2>1, <3>1, <3>2
    <3>4. thread' \in {"multicast", "expire"}
      BY <2>1, <3>1
    <3> QED
      BY <2>1, <2>3, <3>1, <3>3, <3>4 DEF AgeInv
  <2> QED
    BY <2>2, <2>3
<1>3. CASE Probe
  <2>0. PICK probed :
          LET found == Acceptable(heard \cup probed)
          IN  /\ seenAge' = Renewed(found)
              /\ missed' = [u \in Announced |->
                              IF u \in found \/ seenAge[u] = None THEN 0
                              ELSE IF missed[u] < 2 THEN missed[u] + 1 ELSE 2]
    BY <1>3 DEF Probe
  <2>1. PICK found :
          /\ \A u \in Announced : seenAge'[u] = IF u \in found THEN elapsed ELSE seenAge[u]
          /\ \A u \in Announced : missed'[u] =
               IF u \in found \/ seenAge[u] = None THEN 0
               ELSE IF missed[u] < 2 THEN missed[u] + 1 ELSE 2
    BY <2>0 DEF Renewed
  <2>2. /\ thread = "probe" /\ thread' = "expire" /\ scanAge' = elapsed
        /\ elapsed' = elapsed
    BY <1>3 DEF Probe
  <2> QED
    BY <2>1, <2>2 DEF AgeInv, Types
<1>4. CASE Expire
  <2>1. /\ \A u \in Announced : seenAge'[u] = IF Overdue(u) THEN None ELSE seenAge[u]
        /\ \A u \in Announced : missed'[u] = IF Overdue(u) THEN 0 ELSE missed[u]
        /\ thread = "expire" /\ thread' = "merge" /\ UNCHANGED <<scanAge, elapsed>>
    BY <1>4 DEF Expire
  <2> QED
    BY <2>1 DEF AgeInv
<1>5. CASE Submit \/ EndCycle
  <2>1. /\ thread \in {"merge", "fetching"}
        /\ UNCHANGED <<seenAge, missed, scanAge>>
        /\ \/ thread' = "asleep" /\ timer' = SleepFor /\ elapsed' = 0
           \/ thread' = "fetching" /\ UNCHANGED <<timer, elapsed>>
    BY <1>5 DEF Submit, EndCycle, Sleep
  <2>2. CASE scanAge = None
    BY <2>1, <2>2 DEF AgeInv
  <2>3. CASE scanAge # None
    <3>1. scanAge \in 0 .. MaxAge /\ scanAge - elapsed <= Late /\ elapsed \in 0 .. MaxBusy
      BY <2>1, <2>3 DEF AgeInv, Types
    <3>2. scanAge + SleepFor <= Gap /\ scanAge + SleepFor >= SleepFor
      BY <3>1
    <3> QED
      BY <2>1, <2>3, <3>1, <3>2 DEF AgeInv
  <2> QED
    BY <2>2, <2>3
<1>6. CASE Multicast
  BY <1>6 DEF Multicast, AgeInv
<1>7. CASE UNCHANGED <<thread, elapsed, timer, discovery>>
  BY <1>7 DEF AgeInv
<1> QED
  BY <1>1, <1>2, <1>3, <1>4, <1>5, <1>6, <1>7
     DEF Next, Cycle, ResponderChanges, PeerChanges, Remove, AskPeer, Update, vars

\* A grace of the longest time between two scans, and of the time by which a
\* cycle may come without one, is enough: whatever is lost, a peer is only
\* forgotten after two scans in a row that did not hear it.  With equal intervals,
\* which is the default, that is the interval and the longest cycle.
THEOREM OneLossIsForgiven == GraceIsEnough => (Spec => SingleLossNeverDrops)
<1> SUFFICES ASSUME GraceIsEnough PROVE Spec => SingleLossNeverDrops
  OBVIOUS
<1>1. Spec => []AgeInv
  <2>1. Init => AgeInv
    BY InitAge
  <2>2. Types /\ Types' /\ AgeInv /\ [Next]_vars => AgeInv'
    BY NextAge
  <2> QED
    BY <2>1, <2>2, Invariance, PTL DEF Spec
<1>2. Types /\ AgeInv /\ ListInv /\ [Next]_vars => [ForgetsOnlySilent]_vars
  <2> SUFFICES ASSUME Types, AgeInv, ListInv, Next PROVE ForgetsOnlySilent
    BY DEF vars
  <2> USE GapTypes, ConstantTypes DEF environment, discovery, fetches, peerStore
  <2>1. CASE Expire
    <3>1. \A u \in Announced : seenAge'[u] = IF Overdue(u) THEN None ELSE seenAge[u]
      BY <2>1 DEF Expire
    <3>2. thread = "expire" /\ UNCHANGED records
      BY <2>1 DEF Expire
    <3>3. \A u \in Announced : Overdue(u) => missed[u] = 2
      BY <3>2 DEF Overdue, AgeInv, Types, GraceIsEnough
    <3> QED
      BY <3>1, <3>2, <3>3 DEF ForgetsOnlySilent
  <2>2. ASSUME NEW v \in URLs, Remove(v) PROVE ForgetsOnlySilent
    BY <2>2 DEF Remove, ListInv, Foreign, ForgetsOnlySilent, Types
  <2>3. CASE Tick
    <3>1. \A u \in Announced : seenAge'[u] = None <=> seenAge[u] = None
      BY <2>3 DEF Tick, Older, Types
    <3> QED
      BY <2>3, <3>1 DEF Tick, ForgetsOnlySilent
  <2>4. CASE Probe
    <3>1. \A u \in Announced : seenAge[u] # None => seenAge'[u] # None
      BY <2>4 DEF Probe, Renewed, Types
    <3> QED
      BY <2>4, <3>1 DEF Probe, ForgetsOnlySilent
  <2>5. CASE Submit
    <3>1. \A u \in URLs : records[u] # None => records'[u] # None
      <4>1. Record("disabled", None) \in Records
        BY DEF Records, Statuses
      <4> QED
        BY <2>5, <4>1, NoneIsNoRecord DEF Submit
    <3> QED
      BY <2>5, <3>1 DEF Submit, ForgetsOnlySilent
  <2>6. ASSUME NEW v \in URLs, Update(v) PROVE ForgetsOnlySilent
    <3>1. PICK r \in NewRecords(v) : records' = [records EXCEPT ![v] = r]
      BY <2>6 DEF Update
    <3>2. r # None
      BY NewRecordsTyped, NoneIsNoRecord
    <3> QED
      BY <2>6, <3>1, <3>2 DEF Update, ForgetsOnlySilent, Types
  <2>7. CASE UNCHANGED <<seenAge, records>>
    BY <2>7 DEF ForgetsOnlySilent
  <2> QED
    BY <2>1, <2>2, <2>3, <2>4, <2>5, <2>6, <2>7
       DEF Next, Cycle, ResponderChanges, PeerChanges, BeginCycle, Multicast, EndCycle, AskPeer
<1> QED
  BY <1>1, <1>2, Invariance, PTL DEF Spec, SingleLossNeverDrops

(***************************************************************************)
(* The order in which the store lists the peers.                           *)
(***************************************************************************)
\* A list that names nobody twice.
IsOrder(list) ==
  /\ list \in Seq(URLs)
  /\ \A j, k \in 1 .. Len(list) : list[j] = list[k] => j = k

LEMMA Count ==
  ASSUME NEW n \in Nat
  PROVE  IsFiniteSet(1 .. n) /\ Cardinality(1 .. n) = n
<1>1. n \in Int /\ 1 \in Int /\ (IF 1 > n THEN 0 ELSE n - 1 + 1) = n
  OBVIOUS
<1>2. IsFiniteSet(1 .. n) /\ Cardinality(1 .. n) = IF 1 > n THEN 0 ELSE n - 1 + 1
  BY <1>1, FS_Interval
<1> QED
  BY <1>1, <1>2

LEMMA KeptAbsent ==
  ASSUME NEW list, IsOrder(list), NEW u, \A k \in 1 .. Len(list) : list[k] # u
  PROVE  Without(list, u) = list
<1> DEFINE kept == {k \in DOMAIN list : list[k] # u}
           below(k) == {j \in kept : j <= k}
           nth(n) == CHOOSE k \in kept : Cardinality(below(k)) = n
<1>1. kept = 1 .. Len(list) /\ Len(list) \in Nat
  BY DEF IsOrder
<1>2. Cardinality(kept) = Len(list)
  <2>1. Cardinality(1 .. Len(list)) = Len(list)
    BY <1>1, Count
  <2> HIDE DEF kept
  <2> QED
    BY <1>1, <2>1
<1>3. ASSUME NEW k \in 1 .. Len(list)
      PROVE  Cardinality(below(k)) = k
  <2>1. below(k) = 1 .. k
    BY <1>1
  <2> HIDE DEF below
  <2> QED
    <3>1. k \in Nat
      BY <1>1
    <3> QED
      BY <2>1, <3>1, Count
<1>4. ASSUME NEW n \in 1 .. Len(list)
      PROVE  nth(n) = n
  <2> HIDE DEF below
  <2> QED
    BY <1>1, <1>3
<1>5. Without(list, u) = [n \in 1 .. Cardinality(kept) |-> list[nth(n)]]
  BY DEF Without
<1> HIDE DEF kept, nth
<1>6. Without(list, u) = [n \in 1 .. Len(list) |-> list[n]]
  BY <1>2, <1>4, <1>5
<1> QED
  BY <1>6 DEF IsOrder

LEMMA KeptPresent ==
  ASSUME NEW list, IsOrder(list), NEW i \in 1 .. Len(list)
  PROVE  Without(list, list[i])
           = [n \in 1 .. Len(list) - 1 |-> list[IF n < i THEN n ELSE n + 1]]
<1> DEFINE u == list[i]
           kept == {k \in DOMAIN list : list[k] # u}
           below(k) == {j \in kept : j <= k}
           nth(n) == CHOOSE k \in kept : Cardinality(below(k)) = n
           from(n) == IF n < i THEN n ELSE n + 1
<1>1. kept = (1 .. Len(list)) \ {i} /\ Len(list) \in Nat \ {0} /\ i \in Nat \ {0}
  <2>1. DOMAIN list = 1 .. Len(list) /\ Len(list) \in Nat
    BY DEF IsOrder
  <2>2. \A k \in 1 .. Len(list) : list[k] # list[i] <=> k # i
    BY DEF IsOrder
  <2> QED
    BY <2>1, <2>2
<1>2. Cardinality(kept) = Len(list) - 1
  <2>1. IsFiniteSet(1 .. Len(list)) /\ Cardinality(1 .. Len(list)) = Len(list)
    <3> HIDE DEF kept
    <3> QED
      BY <1>1, Count
  <2>2. Cardinality((1 .. Len(list)) \ {i}) = Cardinality(1 .. Len(list)) - 1
    BY <2>1, FS_RemoveElement
  <2> HIDE DEF kept
  <2> QED
    BY <1>1, <2>1, <2>2
<1>3. ASSUME NEW k \in kept
      PROVE  Cardinality(below(k)) = IF k < i THEN k ELSE k - 1
  <2>0. k \in 1 .. Len(list) /\ k # i
    BY <1>1
  <2>1. IsFiniteSet(1 .. k) /\ Cardinality(1 .. k) = k
    <3>1. k \in Nat
      BY <1>1, <2>0
    <3> QED
      BY <3>1, Count
  <2>2. below(k) = (1 .. k) \ {i}
    BY <1>1, <2>0
  <2> HIDE DEF below
  <2>3. Cardinality((1 .. k) \ {i}) = IF i \in 1 .. k THEN k - 1 ELSE k
    BY <2>1, FS_RemoveElement
  <2> QED
    BY <1>1, <2>0, <2>2, <2>3
<1>4. ASSUME NEW n \in 1 .. Len(list) - 1
      PROVE  nth(n) = from(n)
  <2>1. from(n) \in kept /\ Cardinality(below(from(n))) = n
    <3> HIDE DEF below
    <3>1. from(n) \in kept
      BY <1>1
    <3>2. Cardinality(below(from(n))) = IF from(n) < i THEN from(n) ELSE from(n) - 1
      BY <1>3, <3>1
    <3> QED
      BY <1>1, <3>1, <3>2
  <2>2. ASSUME NEW k \in kept, Cardinality(below(k)) = n
        PROVE  k = from(n)
    <3>1. k \in Nat /\ k # i
      BY <1>1
    <3>2. n = IF k < i THEN k ELSE k - 1
      BY <1>3, <2>2
    <3> QED
      BY <1>1, <3>1, <3>2
  <2> HIDE DEF below, from
  <2> QED
    BY <2>1, <2>2
<1>5. Without(list, u) = [n \in 1 .. Cardinality(kept) |-> list[nth(n)]]
  BY DEF Without
<1> HIDE DEF kept, nth, u
<1>6. Without(list, u) = [n \in 1 .. Len(list) - 1 |-> list[from(n)]]
  BY <1>2, <1>4, <1>5
<1> QED
  BY <1>6 DEF u

\* The order lists every record once, the configured peers first.
OrderOK ==
  /\ IsOrder(order)
  /\ \A u \in URLs : records[u] # None <=> \E k \in 1 .. Len(order) : order[k] = u
  /\ Len(Static) <= Len(order)
  /\ \A k \in 1 .. Len(Static) : order[k] = Static[k]

\* _dedupe_peers leaves no peer twice.
LEMMA StaticIsOrder == IsOrder(Static)
<1>1. Static \in [1 .. Len(Static) -> StaticSet] /\ Len(Static) \in Nat
  BY PeersAssumption
<1>2. IsFiniteSet(1 .. Len(Static)) /\ Cardinality(1 .. Len(Static)) = Len(Static)
  BY <1>1, Count
<1>3. Static \in Surjection(1 .. Len(Static), StaticSet)
  BY <1>1 DEF Surjection, StaticSet
<1>4. Cardinality(StaticSet) = Cardinality(1 .. Len(Static))
  BY <1>2, PeersAssumption
<1>5. Static \in Injection(1 .. Len(Static), StaticSet)
  BY <1>2, <1>3, <1>4, FS_Surjection
<1>6. \A j, k \in 1 .. Len(Static) : Static[j] = Static[k] => j = k
  BY <1>1, <1>5 DEF Injection, IsInjective
<1> QED
  BY <1>1, <1>6, ConstantTypes DEF IsOrder

LEMMA InitOrder == Init => OrderOK
<1> SUFFICES ASSUME Init PROVE OrderOK
  OBVIOUS
<1>1. order = Static
  BY DEF Init
<1>2. \A u \in URLs : records[u] # None <=> u \in StaticSet
  <2>1. \A status \in Statuses : Record(status, None) # None
    BY NoneIsNoRecord DEF Records
  <2> QED
    BY <2>1 DEF Init, Statuses
<1>3. \A u \in URLs : u \in StaticSet <=> \E k \in 1 .. Len(Static) : Static[k] = u
  BY DEF StaticSet
<1>4. Len(Static) <= Len(Static)
  BY StaticIsOrder DEF IsOrder
<1> QED
  BY <1>1, <1>2, <1>3, <1>4, StaticIsOrder DEF OrderOK

LEMMA RemoveKeepsOrder ==
  ASSUME Types, ListInv, OrderOK, NEW u \in URLs, Remove(u)
  PROVE  OrderOK'
<1> DEFINE old == order
           new == Without(order, u)
<1>1. /\ order' = new
      /\ \A v \in URLs : records'[v] = IF v = u THEN None ELSE records[v]
      /\ u \notin StaticSet
  BY DEF Remove, Types, ListInv, Foreign
<1>2. CASE \A k \in 1 .. Len(order) : order[k] # u
  <2>1. order' = order
    BY <1>1, <1>2, KeptAbsent DEF OrderOK
  <2> QED
    BY <1>1, <1>2, <2>1 DEF OrderOK, IsOrder
<1>3. CASE \E k \in 1 .. Len(order) : order[k] = u
  <2>1. PICK i \in 1 .. Len(order) : order[i] = u
    BY <1>3
  <2> DEFINE from(n) == IF n < i THEN n ELSE n + 1
  <2>2. order' = [n \in 1 .. Len(order) - 1 |-> order[from(n)]]
    BY <1>1, <2>1, KeptPresent DEF OrderOK
  <2>3. /\ order \in [1 .. Len(order) -> URLs] /\ Len(order) \in Nat
        /\ \A j, k \in 1 .. Len(order) : order[j] = order[k] => j = k
    BY DEF OrderOK, IsOrder
  <2>4. \A n \in 1 .. Len(order) - 1 : from(n) \in 1 .. Len(order) /\ from(n) # i
    BY <2>1, <2>3
  <2>5. \A m, n \in 1 .. Len(order) - 1 : from(m) = from(n) => m = n
    BY <2>1, <2>3
  <2>6. \A k \in 1 .. Len(order) : k # i => \E n \in 1 .. Len(order) - 1 : from(n) = k
    <3> SUFFICES ASSUME NEW k \in 1 .. Len(order), k # i
                 PROVE  \E n \in 1 .. Len(order) - 1 : from(n) = k
      OBVIOUS
    <3>1. CASE k < i
      <4>1. k \in 1 .. Len(order) - 1 /\ from(k) = k
        BY <2>1, <2>3, <3>1
      <4> QED
        BY <4>1
    <3>2. CASE ~(k < i)
      <4>1. k - 1 \in 1 .. Len(order) - 1 /\ from(k - 1) = k
        BY <2>1, <2>3, <3>2
      <4> QED
        BY <4>1
    <3> QED
      BY <3>1, <3>2
  <2> HIDE DEF from
  <2>7. Len(order') = Len(order) - 1 /\ order' \in Seq(URLs)
    <3>1. order' \in [1 .. Len(order) - 1 -> URLs]
      BY <2>2, <2>3, <2>4
    <3>2. Len(order) - 1 \in Nat
      BY <2>1, <2>3
    <3> QED
      BY <3>1, <3>2
  <2>8. \A n \in 1 .. Len(order') : order'[n] = order[from(n)]
    BY <2>2, <2>7
  <2>9. IsOrder(order)'
    BY <2>3, <2>4, <2>5, <2>7, <2>8 DEF IsOrder
  <2>10. \A v \in URLs : records'[v] # None <=> \E k \in 1 .. Len(order') : order'[k] = v
    <3>1. \A v \in URLs : (\E k \in 1 .. Len(order') : order'[k] = v)
                            <=> \E k \in 1 .. Len(order) : order[k] = v /\ k # i
      BY <2>4, <2>6, <2>7, <2>8
    <3> QED
      BY <1>1, <2>1, <2>3, <3>1 DEF OrderOK
  <2>11. \A k \in 1 .. Len(Static) : k < i /\ order'[k] = Static[k]
    <3>1. Len(Static) \in Nat /\ Len(Static) <= Len(order)
      BY StaticIsOrder DEF OrderOK, IsOrder
    <3>2. \A k \in 1 .. Len(Static) : order[k] = Static[k] /\ Static[k] # u
      BY <1>1 DEF OrderOK, StaticSet
    <3>3. i > Len(Static)
      BY <2>1, <2>3, <3>1, <3>2
    <3>4. \A k \in 1 .. Len(Static) : k \in 1 .. Len(order) - 1 /\ k < i
      BY <2>1, <2>3, <3>1, <3>3
    <3> QED
      BY <2>7, <2>8, <3>2, <3>4 DEF from
  <2>12. Len(Static) <= Len(order')
    <3>1. Len(Static) \in Nat /\ Len(Static) < i
      <4>1. Len(Static) \in Nat /\ i \in Nat \ {0}
        BY <2>1, <2>3, StaticIsOrder DEF IsOrder
      <4>2. Len(Static) = 0 \/ Len(Static) \in 1 .. Len(Static)
        BY <4>1
      <4> QED
        BY <2>11, <4>1, <4>2
    <3> QED
      BY <2>1, <2>3, <2>7, <3>1
  <2> QED
    BY <2>9, <2>10, <2>11, <2>12 DEF OrderOK
<1> QED
  BY <1>2, <1>3

LEMMA UpdateKeepsOrder ==
  ASSUME Types, OrderOK, NEW u \in URLs, Update(u)
  PROVE  OrderOK'
<1>1. PICK r \in NewRecords(u) : records' = [records EXCEPT ![u] = r]
  BY DEF Update
<1>2. r # None
  BY NewRecordsTyped, NoneIsNoRecord
<1>3. \A v \in URLs : records'[v] # None <=> v = u \/ records[v] # None
  BY <1>1, <1>2 DEF Types
<1>4. /\ order \in Seq(URLs) /\ Len(order) \in Nat
      /\ \A j, k \in 1 .. Len(order) : order[j] = order[k] => j = k
  BY DEF OrderOK, IsOrder
<1>5. CASE records[u] # None
  <2>1. order' = order
    BY <1>5 DEF Update, OrderWith
  <2> QED
    BY <1>3, <1>5, <2>1 DEF OrderOK, IsOrder
<1>6. CASE records[u] = None
  <2>1. order' = Append(order, u)
    BY <1>6 DEF Update, OrderWith
  <2>2. /\ order' \in Seq(URLs) /\ Len(order') = Len(order) + 1
        /\ \A k \in 1 .. Len(order) : order'[k] = order[k]
        /\ order'[Len(order) + 1] = u
    BY <1>4, <2>1
  <2>3. \A k \in 1 .. Len(order) : order[k] # u
    BY <1>6 DEF OrderOK
  <2>4. \A k \in 1 .. Len(order') : k \in 1 .. Len(order) \/ k = Len(order) + 1
    BY <1>4, <2>2
  <2>5. 1 .. Len(order) \subseteq 1 .. Len(order') /\ Len(order) + 1 \in 1 .. Len(order')
    BY <1>4, <2>2
  <2>6. IsOrder(order)'
    BY <1>4, <2>2, <2>3, <2>4 DEF IsOrder
  <2>7. \A v \in URLs : records'[v] # None <=> \E k \in 1 .. Len(order') : order'[k] = v
    BY <1>3, <2>2, <2>4, <2>5 DEF OrderOK
  <2>8. Len(Static) \in Nat /\ Len(Static) <= Len(order)
    BY StaticIsOrder DEF OrderOK, IsOrder
  <2>9. 1 .. Len(Static) \subseteq 1 .. Len(order) /\ Len(Static) <= Len(order')
    BY <1>4, <2>2, <2>8
  <2> QED
    BY <2>2, <2>6, <2>7, <2>9 DEF OrderOK
<1> QED
  BY <1>5, <1>6

LEMMA NextOrder == Types /\ ListInv /\ OrderOK /\ [Next]_vars => OrderOK'
<1> SUFFICES ASSUME Types, ListInv, OrderOK, [Next]_vars PROVE OrderOK'
  OBVIOUS
<1>1. CASE Submit
  <2>1. /\ order' = order
        /\ \A u \in URLs : records'[u] = IF u \in Disabled THEN Record("disabled", None)
                                           ELSE records[u]
    BY <1>1 DEF Submit
  <2>2. Record("disabled", None) # None
    BY NoneIsNoRecord DEF Records, Statuses
  <2>3. \A u \in URLs : records'[u] # None <=> records[u] # None
    BY <2>1, <2>2, ConstantTypes DEF ListInv
  <2> QED
    BY <2>1, <2>3 DEF OrderOK, IsOrder
<1>2. CASE UNCHANGED peerStore
  BY <1>2 DEF OrderOK, IsOrder, peerStore
<1> QED
  BY <1>1, <1>2, RemoveKeepsOrder, UpdateKeepsOrder
     DEF Next, Cycle, ResponderChanges, PeerChanges, Tick, BeginCycle, Multicast, Probe,
         Expire, EndCycle, AskPeer, vars, peerStore

LEMMA OrderSuffices == OrderOK => OrderMatchesRecords
<1> SUFFICES ASSUME OrderOK PROVE OrderMatchesRecords
  OBVIOUS
<1> DEFINE Held == {u \in URLs : records[u] # None}
<1>1. /\ order \in [1 .. Len(order) -> URLs] /\ order \in Seq(URLs) /\ Len(order) \in Nat
      /\ DOMAIN order = 1 .. Len(order)
      /\ \A j, k \in 1 .. Len(order) : order[j] = order[k] => j = k
  BY DEF OrderOK, IsOrder
<1>2. {order[k] : k \in DOMAIN order} = Held
  BY <1>1 DEF OrderOK
<1>3. Len(order) = Cardinality(Held)
  <2>1. order \in Bijection(1 .. Len(order), Held)
    <3>1. order \in [1 .. Len(order) -> Held]
      BY <1>1, <1>2
    <3>2. \A u \in Held : \E k \in 1 .. Len(order) : order[k] = u
      BY DEF OrderOK
    <3>3. \A j, k \in DOMAIN order : order[j] = order[k] => j = k
      BY <1>1
    <3> HIDE DEF Held
    <3> QED
      BY <3>1, <3>2, <3>3 DEF Bijection, Injection, Surjection, IsInjective
  <2>2. IsFiniteSet(1 .. Len(order)) /\ Cardinality(1 .. Len(order)) = Len(order)
    BY <1>1, Count
  <2>3. ExistsBijection(1 .. Len(order), Held)
    BY <2>1 DEF ExistsBijection
  <2> QED
    BY <2>2, <2>3, FS_Bijection
<1>4. SubSeq(order, 1, Len(Static)) = Static
  <2>1. Static \in Seq(URLs) /\ Len(Static) \in Nat /\ Len(Static) <= Len(order)
    BY StaticIsOrder DEF OrderOK, IsOrder
  <2>2. SubSeq(order, 1, Len(Static)) = [k \in 1 .. Len(Static) |-> order[k]]
    BY <1>1, <2>1
  <2>3. Static = [k \in 1 .. Len(Static) |-> Static[k]]
    BY <2>1
  <2> QED
    BY <2>2, <2>3 DEF OrderOK
<1> QED
  BY <1>2, <1>3, <1>4 DEF OrderMatchesRecords

\* Whatever is discovered, lost and found again, the peer list names every peer
\* once and keeps the configured ones on top.
THEOREM OrderIsKept == Spec => []OrderMatchesRecords
<1>1. Types /\ ListInv /\ OrderOK /\ [Next]_vars => OrderOK'
  BY NextOrder
<1> QED
  BY <1>1, InitOrder, OrderSuffices, Invariance, PTL DEF Spec
================================================================================
