-------------------------------- MODULE Poller --------------------------------
(***************************************************************************)
(* The local half of a daemon: do_poll and poll_loop (poller.py), the      *)
(* state store they publish into (state.py), and the startup order of      *)
(* cli.main.  StateApi adds the requests that read the store.              *)
(*                                                                         *)
(* do_poll submits one task per entry to a pool of MaxWorkers threads,     *)
(* collects the futures as they complete and installs all results at once. *)
(* A task reads the path at an instant of its own.  What it finds is       *)
(* abstracted to an answer (a state dict: WatchEntry says which one); a    *)
(* path can also hang (a dead NFS mount: os.stat does not return) or make  *)
(* the task raise something other than OSError, which poll_entry does not  *)
(* catch (an entry whose ssh: is not a mapping or has no host, an mtime    *)
(* beyond year 9999).                                                      *)
(*                                                                         *)
(* Bounds: at most MaxEntries entries; poll numbers are counted round the  *)
(* Generations; ages stop at MaxAge.                                       *)
(***************************************************************************)
EXTENDS Integers, FiniteSets

CONSTANTS
  MaxEntries,      \* largest number of watched paths
  MaxWorkers,      \* size of the pool, 20 in do_poll
  Answers,         \* what a poll of an entry can report
  Faults,          \* the faults a path can have, a subset of {Hung, Raises}
  Hung, Raises,
  None,            \* Python's None
  Generations,     \* poll numbers before they repeat
  PollInterval     \* ticks between two polls

Conditions == Answers \cup Faults

\* api_health calls the poller stalled beyond three poll intervals.
MaxAge == 3 * PollInterval + 1

\* A state dict, with the entry and the poll it came from.
Reading == [entry : Nat, poll : 1 .. Generations, shows : Answers]

ASSUME ConstantsAssumption ==
  /\ MaxEntries \in Nat /\ MaxWorkers \in Nat \ {0}
  /\ Generations \in Nat \ {0} /\ PollInterval \in Nat \ {0}
  /\ Faults \subseteq {Hung, Raises} /\ Hung # Raises
  /\ Hung \notin Answers /\ Raises \notin Answers
  /\ None \notin Reading

VARIABLES
  size,        \* the number of entries, fixed by the configuration
  path,        \* entry -> the condition of its path
  thread,      \* where the polling thread is
  up,          \* main is past its first poll: the web server answers
  gen,         \* number of the current poll
  task,        \* entry -> progress of its task
  future,      \* entry -> what its finished task returned
  results,     \* do_poll's list of results
  timer,       \* ticks left of time.sleep
  store,       \* STORE._entries
  last,        \* number of the poll behind STORE._last_poll, 0 for None
  age,         \* ticks since STORE._last_poll
  during       \* history: answers each path has had since the poll began

vars == <<size, path, thread, up, gen, task, future, results, timer, store,
          last, age, during>>

pollVars  == <<task, future, results>>
storeVars == <<store, last>>

Entry == 1 .. size

\* do_poll has submitted its tasks and has not returned.
Busy == thread \in {"polling", "failing"}

NoneYet     == [i \in Entry |-> None]
NothingSeen == [i \in Entry |-> {}]

Init ==
  /\ size \in 0 .. MaxEntries
  /\ path \in [Entry -> Conditions]
  /\ thread = "ready"          \* main calls do_poll itself the first time
  /\ up = FALSE
  /\ gen = Generations
  /\ task = [i \in Entry |-> "none"]
  /\ future = NoneYet
  /\ results = NoneYet
  /\ timer = 0
  /\ store = <<>>
  /\ last = 0
  /\ age = 0
  /\ during = NothingSeen

(***************************************************************************)
(* The environment.                                                        *)
(***************************************************************************)
ChangePath ==
  \E i \in Entry, c \in Conditions :
    /\ path' = [path EXCEPT ![i] = c]
    /\ during' = IF Busy
                 THEN [during EXCEPT ![i] = @ \cup ({c} \cap Answers)]
                 ELSE during
    /\ UNCHANGED <<size, thread, up, gen, pollVars, timer, storeVars, age>>

Older(a) == IF a < MaxAge THEN a + 1 ELSE a

Tick ==
  /\ timer > 0 \/ age < MaxAge
  /\ timer' = IF timer > 0 THEN timer - 1 ELSE 0
  /\ age' = Older(age)
  /\ UNCHANGED <<size, path, thread, up, gen, pollVars, storeVars,
                 during>>

(***************************************************************************)
(* do_poll.                                                                *)
(***************************************************************************)
NextGen == IF gen = Generations THEN 1 ELSE gen + 1

\* What follows do_poll: poll_loop sleeps, or main goes on to start poll_loop
\* (which polls again at once) and the web server.
AfterPoll ==
  /\ up' = TRUE
  /\ thread' = IF up THEN "asleep" ELSE "ready"
  /\ timer' = IF up THEN PollInterval ELSE 0

\* Mistaken variant: the results list outlives its poll.
ForgetPollKeepsResults ==
  /\ task' = [i \in Entry |-> "none"]
  /\ future' = NoneYet /\ results' = results
  /\ during' = NothingSeen

\* The locals of do_poll are gone.
ForgetPoll ==
  /\ task' = [i \in Entry |-> "none"]
  /\ future' = NoneYet
  /\ results' = NoneYet
  /\ during' = NothingSeen

\* StateStore.replace: entries and time of the poll under one lock.
Replace(entries) ==
  /\ store' = entries
  /\ last' = gen'
  /\ age' = 0

PollNothing ==
  /\ thread = "ready" /\ Entry = {}
  /\ gen' = NextGen
  /\ Replace(<<>>)
  /\ AfterPoll
  /\ UNCHANGED <<size, path, pollVars, during>>

BeginPoll ==
  /\ thread = "ready" /\ Entry # {}
  /\ thread' = "polling"
  /\ gen' = NextGen
  /\ task' = [i \in Entry |-> "queued"]
  /\ during' = [i \in Entry |-> {path[i]} \cap Answers]
  /\ UNCHANGED <<size, path, up, future, results, timer, storeVars, age>>

InPool == {i \in Entry : task[i] = "running"}

\* Mistaken variant: one worker too few, none when there is only one.
FreeWorkerButOne == Cardinality(InPool) + 1 < MaxWorkers

FreeWorker == Cardinality(InPool) < MaxWorkers

\* A free worker takes the oldest task of the queue.
StartTask(i) ==
  /\ Busy /\ FreeWorker
  /\ task[i] = "queued"
  /\ \A j \in Entry : task[j] = "queued" => i <= j
  /\ task' = [task EXCEPT ![i] = "running"]
  /\ UNCHANGED <<size, path, thread, up, gen, future, results, timer,
                 storeVars, age, during>>

\* The path answers the worker that looks at it.
FinishTask(i) ==
  /\ task[i] = "running"
  /\ path[i] \in Answers
  /\ task' = [task EXCEPT ![i] = "done"]
  /\ future' = [future EXCEPT
                  ![i] = [entry |-> i, poll |-> gen, shows |-> path[i]]]
  /\ UNCHANGED <<size, path, thread, up, gen, results, timer, storeVars, age,
                 during>>

\* poll_entry raised something that is not an OSError.
RaiseTask(i) ==
  /\ task[i] = "running"
  /\ path[i] = Raises
  /\ task' = [task EXCEPT ![i] = "raised"]
  /\ UNCHANGED <<size, path, thread, up, gen, future, results, timer,
                 storeVars, age, during>>

\* Mistaken variant: results kept in the order of completion.
PlacedAsTheyCome(i) ==
  LET slot == 1 + Cardinality({j \in Entry : task[j] = "collected"})
  IN  [results EXCEPT ![slot] = future[i]]

Placed(i) == [results EXCEPT ![i] = future[i]]

\* as_completed hands over a finished future: results[i] = fut.result().
Collect(i) ==
  /\ thread = "polling"
  /\ task[i] = "done"
  /\ task' = [task EXCEPT ![i] = "collected"]
  /\ results' = Placed(i)
  /\ UNCHANGED <<size, path, thread, up, gen, future, timer, storeVars, age,
                 during>>

\* fut.result() raises: nothing more is collected, but the with block waits
\* for every task already submitted before it lets the exception out.
CollectFails(i) ==
  /\ thread = "polling"
  /\ task[i] = "raised"
  /\ thread' = "failing"
  /\ UNCHANGED <<size, path, up, gen, pollVars, timer, storeVars, age,
                 during>>

\* Mistaken variant: the exception ends the thread.
CaughtNowhere == FALSE

\* Only poll_loop catches.
Caught == up

\* The exception leaves do_poll.  poll_loop logs it and sleeps; in main the
\* process ends.
AbandonPoll ==
  /\ thread = "failing"
  /\ \A i \in Entry : task[i] \in {"done", "raised", "collected"}
  /\ thread' = IF Caught THEN "asleep" ELSE "exited"
  /\ timer' = IF Caught THEN PollInterval ELSE 0
  /\ ForgetPoll
  /\ UNCHANGED <<size, path, up, gen, storeVars, age>>

\* Mistaken variant: the tasks are done, but not all collected.
AllDone == \A i \in Entry : task[i] \in {"done", "collected"}

AllCollected == \A i \in Entry : task[i] = "collected"

Publish ==
  /\ thread = "polling" /\ AllCollected
  /\ gen' = gen
  /\ Replace(results)
  /\ AfterPoll
  /\ ForgetPoll
  /\ UNCHANGED <<size, path>>

Wake ==
  /\ thread = "asleep" /\ timer = 0
  /\ thread' = "ready"
  /\ UNCHANGED <<size, path, up, gen, pollVars, timer, storeVars, age,
                 during>>

Poll ==
  \/ PollNothing \/ BeginPoll \/ AbandonPoll \/ Publish \/ Wake
  \/ \E i \in Entry : \/ StartTask(i) \/ FinishTask(i) \/ RaiseTask(i)
                      \/ Collect(i) \/ CollectFails(i)

Stopped == thread = "exited" /\ UNCHANGED vars

Next == ChangePath \/ Tick \/ Poll \/ Stopped

Spec == Init /\ [][Next]_vars

\* Time passes and the daemon's threads are scheduled: whenever some step of
\* the poll stays possible, a step is taken.  A task whose path hangs cannot
\* take one, so nothing here makes os.stat return.
FairSpec == Spec /\ WF_vars(Tick) /\ WF_vars(Poll)

(***************************************************************************)
(* Properties.                                                             *)
(***************************************************************************)
TaskStates == {"none", "queued", "running", "done", "raised", "collected"}

\* The types of the variables.
TypeOK ==
  /\ size \in 0 .. MaxEntries
  /\ path \in [Entry -> Conditions]
  /\ thread \in {"ready", "polling", "failing", "asleep", "exited"}
  /\ up \in BOOLEAN
  /\ gen \in 1 .. Generations
  /\ task \in [Entry -> TaskStates]
  /\ future \in [Entry -> Reading \cup {None}]
  /\ results \in [Entry -> Reading \cup {None}]
  /\ timer \in 0 .. PollInterval
  /\ store = <<>> \/ store \in [Entry -> Reading]
  /\ last \in 0 .. Generations
  /\ age \in 0 .. MaxAge
  /\ during \in [Entry -> SUBSET Answers]

\* A list of entries is one whole poll: a state for every configured entry, at
\* its own index whatever order the futures completed in, none missing, all of
\* the same poll.
WholePoll(entries, poll) ==
  /\ DOMAIN entries = Entry
  /\ \A i \in Entry : entries[i].entry = i /\ entries[i].poll = poll

\* The store holds nothing until the first poll is over and whole polls ever
\* after, its timing is of the poll it holds, and the web server is not up
\* before there is a poll to show.
StoreIsWhole ==
  /\ IF last = 0 THEN store = <<>> ELSE WholePoll(store, last)
  /\ up <=> last # 0

\* A published reading is a condition its path had between the start of the
\* poll and its publication, not what an earlier poll or another entry saw.
FreshReadings ==
  \A i \in Entry :
    /\ future[i] # None => future[i].shows \in during[i]
    /\ results[i] # None => results[i].shows \in during[i]

\* What a poll in progress has established, the strengthening that makes the
\* two invariants above inductive: nothing is left over from a poll that is
\* over; a finished task holds a reading of its own entry and of this poll; a
\* collected one has been put in its own slot; a path that could answer now
\* has been noted as able to.
PollProgress ==
  /\ ~Busy => \A i \in Entry : task[i] = "none" /\ future[i] = None
  /\ thread = "asleep" => up
  /\ \A i \in Entry :
       /\ task[i] \in {"done", "collected"} =>
            /\ future[i] # None
            /\ future[i].entry = i /\ future[i].poll = gen
       /\ task[i] = "collected" => results[i] = future[i]
       /\ results[i] # None => task[i] = "collected"
       /\ Busy /\ path[i] \in Answers => path[i] \in during[i]

\* The poller implements Board.
Promise == INSTANCE Board WITH
  paths  <- path,
  window <- during,
  open   <- Busy,
  board  <- IF last = 0 THEN None ELSE [i \in DOMAIN store |-> store[i].shows]

ImplementsBoard == Promise!Spec

\* Mistaken variant: stalled means not polled yet.
StalledAtFirst == last = 0

\* api_health: what it reports as "degraded" on account of the poller.
Stalled == last = 0 \/ age > 3 * PollInterval

\* When every path answers from some time on, the store of a daemon that runs
\* on ends up showing, and keeps showing, what a path has settled on.
SettledIsShown ==
  \A i \in 1 .. MaxEntries, a \in Answers :
    (/\ <>[](\A j \in Entry : path[j] \in Answers)
     /\ <>[](i \in Entry /\ path[i] = a)
     /\ [](thread # "exited"))
      => <>[](i \in DOMAIN store /\ store[i].shows = a)

\* A path that hangs or raises for good stops every reading, and /api/health
\* says so for good: a wedged poller cannot look healthy.
StallIsReported ==
  \A i \in 1 .. MaxEntries :
    (<>up /\ <>[](i \in Entry /\ path[i] \in Faults)) => <>[]Stalled

\* Faults that pass leave no trace: once every path answers for good, a daemon
\* that is up publishes again and again.
PollingRecovers ==
  (<>up /\ <>[](\A j \in Entry : path[j] \in Answers)) => []<>(age = 0)

\* Expected to fail.  config.py says that a control-room daemon must keep running
\* on a partly bad config: one with an entry that raises beside one whose path
\* answers.
BadEntryIsContained ==
  (\E i, j \in Entry : path[i] = Raises /\ path[j] \in Answers) => thread # "exited"
===============================================================================
