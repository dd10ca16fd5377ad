----------------------------- MODULE PollerProofs -----------------------------
(***************************************************************************)
(* The poller's invariants, its refinement of Board, and what a request to *)
(* /api/state makes of the store, for any number of entries and workers.   *)
(***************************************************************************)
EXTENDS StateApi, TLAPS

\* The inductive invariant.
Inv == TypeOK /\ StoreIsWhole /\ FreshReadings /\ PollProgress

LEMMA InitInv == Init => Inv
<1> SUFFICES ASSUME Init
             PROVE  Inv
  OBVIOUS
<1> USE ConstantsAssumption DEF Init, NoneYet, NothingSeen
<1>1. TypeOK
  <2>1. age \in 0 .. MaxAge /\ timer \in 0 .. PollInterval /\ gen \in 1 .. Generations
        /\ last \in 0 .. Generations
    BY DEF MaxAge
  <2> QED
    BY <2>1 DEF TypeOK, TaskStates
<1>2. StoreIsWhole
  BY DEF StoreIsWhole
<1>3. FreshReadings
  BY DEF FreshReadings
<1>4. PollProgress
  BY DEF PollProgress, Busy
<1> QED
  BY <1>1, <1>2, <1>3, <1>4 DEF Inv

LEMMA NextInv == Inv /\ [Next]_vars => Inv'
<1> SUFFICES ASSUME Inv, [Next]_vars
             PROVE  Inv'
  OBVIOUS
<1> USE ConstantsAssumption
    DEF Inv, TypeOK, StoreIsWhole, WholePoll, FreshReadings, PollProgress, Busy,
        Entry, Conditions, TaskStates, pollVars, storeVars
<1>1. CASE ChangePath
  BY <1>1 DEF ChangePath
<1>2. CASE Tick
  BY <1>2 DEF Tick, Older, MaxAge
<1>3. CASE PollNothing
  <2> USE <1>3 DEF PollNothing, NextGen, Replace, AfterPoll
  <2>1. Entry' = {} /\ Entry = {}
    OBVIOUS
  <2>2. store' = <<>> /\ DOMAIN <<>> = {}
    OBVIOUS
  <2>3. age' \in 0 .. MaxAge /\ gen' \in 1 .. Generations
    BY DEF MaxAge
  <2>4. TypeOK'
    BY <2>1, <2>3
  <2>5. StoreIsWhole'
    BY <2>1, <2>2, <2>3
  <2>6. FreshReadings' /\ PollProgress'
    BY <2>1
  <2> QED
    BY <2>4, <2>5, <2>6
<1>4. CASE BeginPoll
  BY <1>4 DEF BeginPoll, NextGen
<1>5. CASE AbandonPoll
  BY <1>5 DEF AbandonPoll, Caught, ForgetPoll, NoneYet, NothingSeen
<1>6. CASE Publish
  BY <1>6 DEF Publish, AllCollected, Replace, AfterPoll, ForgetPoll, NoneYet, NothingSeen, MaxAge
<1>7. CASE Wake
  BY <1>7 DEF Wake
<1>8. ASSUME NEW i \in Entry, StartTask(i)
      PROVE  Inv'
  BY <1>8 DEF StartTask
<1>9. ASSUME NEW i \in Entry, FinishTask(i)
      PROVE  Inv'
  <2> USE <1>9 DEF FinishTask
  <2> DEFINE reading == [entry |-> i, poll |-> gen, shows |-> path[i]]
  <2>1. reading \in Reading /\ reading # None
    <3>1. task[i] = "running" /\ i \in Nat /\ gen \in 1 .. Generations /\ path[i] \in Answers
      OBVIOUS
    <3> QED
      BY <3>1 DEF Reading
  <2>2. Busy /\ reading.shows \in during[i]
    OBVIOUS
  <2>3. future' = [future EXCEPT ![i] = reading]
    OBVIOUS
  <2> HIDE DEF reading
  <2>4. TypeOK'
    BY <2>1, <2>3
  <2>5. StoreIsWhole'
    OBVIOUS
  <2>6. FreshReadings'
    BY <2>2, <2>3
  <2>7. PollProgress'
    BY <2>1, <2>2, <2>3 DEF reading
  <2> QED
    BY <2>4, <2>5, <2>6, <2>7
<1>10. ASSUME NEW i \in Entry, RaiseTask(i)
      PROVE  Inv'
  BY <1>10 DEF RaiseTask
<1>11. ASSUME NEW i \in Entry, Collect(i)
      PROVE  Inv'
  BY <1>11 DEF Collect, Placed
<1>12. ASSUME NEW i \in Entry, CollectFails(i)
      PROVE  Inv'
  BY <1>12 DEF CollectFails
<1>13. CASE UNCHANGED vars
  BY <1>13 DEF vars
<1> QED
  BY <1>1, <1>2, <1>3, <1>4, <1>5, <1>6, <1>7, <1>8, <1>9, <1>10, <1>11,
     <1>12, <1>13 DEF Next, Poll, Stopped

LEMMA Invariance == Spec => []Inv
BY InitInv, NextInv, PTL DEF Spec

\* Every variable keeps its type.
THEOREM TypeCorrect == Spec => []TypeOK
BY Invariance, PTL DEF Inv

\* The store never mixes polls, loses an entry or puts a reading in another
\* entry's slot, whatever the number of entries and workers and whatever the
\* order in which the workers finish.
THEOREM WholePolls == Spec => []StoreIsWhole
BY Invariance, PTL DEF Inv

\* No reading is left over from before its poll.
THEOREM ReadingsAreFresh == Spec => []FreshReadings
BY Invariance, PTL DEF Inv

LEMMA InitPromise == Init => Promise!Init
BY DEF Init, Promise!Init, NothingSeen, NoneYet, Busy

LEMMA StepPromise ==
  Inv /\ Inv' /\ [Next]_vars => [Promise!Next]_(Promise!vars)
<1> SUFFICES ASSUME Inv, Inv', [Next]_vars
             PROVE  Promise!Next \/ UNCHANGED Promise!vars
  OBVIOUS
<1> USE ConstantsAssumption DEF Inv, TypeOK, Busy, pollVars, storeVars
<1>0. DOMAIN path = Entry
  OBVIOUS
<1>1. CASE ChangePath
  <2>1. PICK i \in Entry, c \in Conditions :
          /\ path' = [path EXCEPT ![i] = c]
          /\ during' = IF Busy THEN [during EXCEPT ![i] = @ \cup ({c} \cap Answers)]
                                ELSE during
          /\ UNCHANGED <<thread, store, last>>
    BY <1>1 DEF ChangePath
  <2> QED
    BY <1>0, <2>1 DEF Promise!Next, Promise!Change
<1>2. CASE Tick
  BY <1>2 DEF Tick, Promise!vars
<1>3. CASE PollNothing
  <2>1. /\ DOMAIN path = {} /\ ~Busy /\ ~Busy' /\ last' # 0 /\ store' = <<>>
        /\ path' = path /\ during' = during
    BY <1>0, <1>3 DEF PollNothing, Replace, AfterPoll, NextGen
  <2>2. [i \in DOMAIN store' |-> store'[i].shows] \in [{} -> Answers]
    BY <2>1
  <2>3. during' = [i \in DOMAIN path |-> {}]
    BY <1>0, <2>1
  <2>4. Promise!Close
    BY <2>1, <2>3 DEF Promise!Close, Busy
  <2>5. Promise!Publish
    BY <2>1, <2>2, <2>4 DEF Promise!Publish
  <2> QED
    BY <2>5 DEF Promise!Next
<1>4. CASE BeginPoll
  BY <1>0, <1>4 DEF BeginPoll, Entry, Promise!Next, Promise!Open
<1>5. CASE AbandonPoll
  BY <1>0, <1>5 DEF AbandonPoll, Caught, ForgetPoll, NothingSeen, Entry,
     Promise!Next, Promise!Abandon, Promise!Close
<1>6. CASE Publish
  BY <1>0, <1>6 DEF Publish, AllCollected, Replace, AfterPoll, ForgetPoll, NothingSeen, Entry,
     FreshReadings, PollProgress, StoreIsWhole, WholePoll, Reading,
     Promise!Next, Promise!Publish, Promise!Close
<1>7. CASE Wake
  BY <1>7 DEF Wake, Promise!vars
<1>8. ASSUME NEW i \in Entry,
             \/ StartTask(i) \/ FinishTask(i) \/ RaiseTask(i)
             \/ Collect(i) \/ CollectFails(i)
      PROVE  UNCHANGED Promise!vars
  BY <1>8 DEF StartTask, FinishTask, RaiseTask, Collect, CollectFails, Promise!vars
<1>9. CASE UNCHANGED vars
  BY <1>9 DEF vars, Promise!vars
<1> QED
  BY <1>1, <1>2, <1>3, <1>4, <1>5, <1>6, <1>7, <1>8, <1>9
     DEF Next, Poll, Stopped

\* The poller implements Board: readers see whole polls appear in one step,
\* made of conditions the paths really had while the poll was open.
THEOREM PollerImplementsBoard == Spec => ImplementsBoard
<1>1. Inv /\ Inv' /\ [Next]_vars => [Promise!Next]_(Promise!vars)
  BY StepPromise
<1> QED
  BY InitPromise, <1>1, Invariance, PTL DEF Spec, ImplementsBoard, Promise!Spec

(***************************************************************************)
(* Requests to /api/state, on top of the invariants of the store.          *)
(***************************************************************************)
\* The poller does not notice the request.
LEMMA ApiImplementsSpec == ApiSpec => Spec
<1>1. ApiInit => Init
  BY DEF ApiInit
<1>2. [ApiNext]_apiVars => [Next]_vars
  BY DEF ApiNext, DaemonStep, ReadEntries, ReadMeta, apiVars
<1> QED
  BY <1>1, <1>2, PTL DEF ApiSpec, Spec

\* A poll once published is never taken back.
LEMMA LastStays ==
  ASSUME Inv, Inv', [Next]_vars, last # 0
  PROVE  last' # 0
<1> USE ConstantsAssumption DEF Inv, TypeOK
<1>1. CASE Replace(<<>>) \/ Replace(results)
  BY <1>1 DEF Replace
<1>2. CASE last' = last
  BY <1>2
<1> QED
  BY <1>1, <1>2 DEF Next, Poll, ChangePath, Tick, PollNothing, BeginPoll, AbandonPoll,
     Publish, Wake, StartTask, FinishTask, RaiseTask, Collect, CollectFails, Stopped,
     vars, storeVars

\* The request has the entries of one whole poll, and poll number n is this poll's
\* or one's published since.
Near(n) ==
  \E poll \in 1 .. Generations :
    WholePoll(request.entries, poll) /\ n \in {poll} \cup published

\* Between the two reads of a request, what the store holds is the poll of the
\* first read or one published since.
ApiInv ==
  /\ request = [stage |-> request.stage, entries |-> request.entries,
                last |-> request.last]
  /\ request.stage = "entries read" => last # 0 /\ Near(last)
  /\ request.stage = "answered" => Near(request.last)

LEMMA InitApi == ApiInit => ApiInv
BY DEF ApiInit, ApiInv

LEMMA NextApi ==
  Inv /\ Inv' /\ ApiInv /\ [ApiNext]_apiVars => ApiInv'
<1> SUFFICES ASSUME Inv, Inv', ApiInv, [ApiNext]_apiVars
             PROVE  ApiInv'
  OBVIOUS
<1> USE ConstantsAssumption
<1>1. CASE DaemonStep
  <2>1. /\ request' = request /\ [Next]_vars
        /\ published' = IF request.stage = "entries read" /\ last' # last
                        THEN published \cup {last'} ELSE published
    BY <1>1 DEF DaemonStep
  <2>2. size' = size
    BY <2>1 DEF Next, Poll, ChangePath, Tick, PollNothing, BeginPoll, AbandonPoll,
       Publish, Wake, StartTask, FinishTask, RaiseTask, Collect, CollectFails, Stopped,
       vars
  <2>3. \A poll : WholePoll(request.entries, poll)' <=> WholePoll(request.entries, poll)
    BY <2>1, <2>2 DEF WholePoll, Entry
  <2>4. CASE request.stage = "entries read"
    <3>1. last' # 0
      BY <2>1, <2>4, LastStays DEF ApiInv
    <3>2. PICK poll \in 1 .. Generations :
            WholePoll(request.entries, poll) /\ last \in {poll} \cup published
      BY <2>4 DEF ApiInv, Near
    <3>3. last' \in {poll} \cup published'
      BY <2>1, <2>4, <3>2
    <3>4. Near(last)'
      BY <2>3, <3>2, <3>3 DEF Near
    <3> QED
      BY <2>1, <2>4, <3>1, <3>4 DEF ApiInv
  <2>5. CASE request.stage # "entries read"
    <3>1. published' = published
      BY <2>1, <2>5
    <3>2. request.stage = "answered" => Near(request.last)'
      BY <2>1, <2>3, <3>1 DEF ApiInv, Near
    <3> QED
      BY <2>1, <2>5, <3>2 DEF ApiInv
  <2> QED
    BY <2>4, <2>5
<1>2. CASE ReadEntries
  <2>0. last # 0
    BY <1>2, Zenon DEF ReadEntries, Inv, StoreIsWhole
  <2>1. WholePoll(store, last) /\ last \in 1 .. Generations
    BY <2>0 DEF Inv, StoreIsWhole, TypeOK
  <2>2. UNCHANGED <<size, last>>
    BY <1>2 DEF ReadEntries, vars
  <2>3. /\ request'.stage = "entries read" /\ request'.entries = store
        /\ request' = [stage |-> "entries read", entries |-> store, last |-> 0]
    BY <1>2 DEF ReadEntries
  <2> QED
    BY <2>0, <2>1, <2>2, <2>3 DEF ApiInv, Near, WholePoll, Entry
<1>3. CASE ReadMeta
  <2>1. UNCHANGED <<size, last, published>>
    BY <1>3 DEF ReadMeta, vars
  <2>2. PICK poll \in 1 .. Generations :
          WholePoll(request.entries, poll) /\ last \in {poll} \cup published
    BY <1>3 DEF ReadMeta, ApiInv, Near
  <2>3. request' = [stage |-> "answered", entries |-> request.entries, last |-> last]
    BY <1>3 DEF ReadMeta, ApiInv
  <2> QED
    BY <2>1, <2>2, <2>3 DEF ApiInv, Near, WholePoll, Entry
<1>4. CASE UNCHANGED apiVars
  <2>1. UNCHANGED <<request, published, last, size>>
    BY <1>4 DEF apiVars, vars
  <2> QED
    BY <2>1 DEF ApiInv, Near, WholePoll, Entry
<1> QED
  BY <1>1, <1>2, <1>3, <1>4 DEF ApiNext

\* However many polls end while a request is served, its answer holds the
\* entries of one of them, and reports the time of this one or of one published
\* between its two reads of the store.
THEOREM AnswersAreNear == ApiSpec => []AnswerTimesNearItsEntries
<1>1. ApiInv => AnswerTimesNearItsEntries
  BY DEF ApiInv, Near, AnswerTimesNearItsEntries
<1> QED
  BY <1>1, InitApi, NextApi, ApiImplementsSpec, Invariance, PTL DEF ApiSpec
===============================================================================
