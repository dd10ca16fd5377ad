------------------------------ MODULE WatchEntry ------------------------------
(***************************************************************************)
(* One watch entry polled again and again: poller.poll_entry and its       *)
(* helpers, with the path it looks at changing underneath it.  A poll is   *)
(* not atomic: its reference time is taken first, the stat comes later and *)
(* the disk usage of a directory later still, and the path may have        *)
(* changed in between.  Locally these are os.stat and shutil.disk_usage,   *)
(* remotely the two calls of the probe that ssh runs; a remote poll may    *)
(* also fail as a whole, whatever the path is like.                        *)
(*                                                                         *)
(* Display strings, the percentages derived from byte counts, disk_used    *)
(* and the ranks (SEVERITY and WATCH_SEVERITY of the states) are left out. *)
(* A modification time beyond the years datetime knows makes fromtimestamp *)
(* raise a ValueError, which leaves poll_entry: that is a path that Raises *)
(* in Poller, and no path here.                                            *)
(***************************************************************************)
EXTENDS Thresholds

CONSTANTS
  Entries,     \* entry configurations, as config._make_entry builds them
  Sizes,       \* file sizes a path may have
  Totals,      \* filesystem capacities a path may report, 0 included
  MaxNow       \* bound on the clock

Blocks == [LEVELS -> {None} \cup [bytes : Int \cup {None}, percent : Int \cup {None}]]

ASSUME EntriesAssumption ==
  \A e \in Entries :
    /\ e.kind \in {"file", "directory"}
    /\ e.delay \in Int \cup {None}
    /\ e.space # None => e.kind = "directory"
    /\ e.size  # None => e.kind = "file"
    /\ e.allow_empty \in BOOLEAN
    /\ {e.space, e.size} \subseteq Blocks \cup {None}

ASSUME BoundsAssumption ==
  Sizes \subseteq Nat /\ Totals \subseteq Nat /\ MaxNow \in Nat

VARIABLES
  entry,     \* the configuration polled, fixed by the start
  path,      \* what is really at the path
  now,       \* the clock
  pc,        \* "idle", "stat" or "usage": the call poll_entry makes next
  started,   \* the poll's reference time, do_poll's `started`
  stat,      \* what os.stat returned, while the disk usage is still to come
  state,     \* the state dict of the last finished poll, None before it
  warned,    \* entry["_space_order_warned"]
  misread    \* history: polls that published missing for a path they had read

vars == <<entry, path, now, pc, started, stat, state, warned, misread>>

(***************************************************************************)
(* The state dict.                                                         *)
(***************************************************************************)
NullState(e) ==
  [delay |-> e.delay, mtime |-> None, age |-> None,
   stale |-> FALSE, missing |-> FALSE,
   watch_state |-> IF e.delay = None THEN "unmonitored" ELSE "ok",
   disk_total |-> None, disk_free |-> None, size |-> None,
   space_monitored |-> e.space # None, space_state |-> None,
   space_trigger |-> None, space_limits |-> None, space_ordered |-> TRUE,
   size_monitored |-> e.size # None, size_state |-> None,
   size_trigger |-> None, size_limits |-> None, size_pct_ref |-> None]

\* _evaluate_space up to its warning: resolve against the total, check the order.
WithLimits(s, e) ==
  IF ~s.space_monitored THEN s
  ELSE LET limits == ResolveAll(e.space, s.disk_total)
       IN  [s EXCEPT !.space_limits = limits, !.space_ordered = CheckOrder(limits, TRUE)]

\* The rest of it: classify.
WithSpace(s) ==
  IF ~s.space_monitored THEN s
  ELSE LET verdict == EvaluateSpace(s.disk_free, s.disk_total, s.space_limits)
       IN  [s EXCEPT !.space_state = verdict.state, !.space_trigger = verdict.trigger]

\* The limit the progress bar measures against: the first of full, critical
\* and warning that is set and not zero.
BarReference(limits) ==
  LET usable == {level \in Configured(limits) : limits[level] # 0}
  IN  IF usable = {} THEN None
      ELSE Walk(usable).trigger

WithSize(s, e) ==
  IF ~s.size_monitored THEN s
  ELSE LET limits  == ResolveAll(e.size, None)
           verdict == EvaluateSize(s.size, limits, e.allow_empty)
       IN  [s EXCEPT !.size_limits  = limits,
                     !.size_state   = verdict.state,
                     !.size_trigger = verdict.trigger,
                     !.size_pct_ref = BarReference(limits)]

\* The body of poll_entry after a successful stat, up to the warning about the
\* order of limits.  usage is None, or the total and free bytes; a zero total is
\* treated like no usage at all.
Begun(e, st, usage, ref) ==
  LET age      == ref - st.mtime
      late     == e.delay # None /\ age > e.delay
      measured == e.kind = "directory" /\ usage # None /\ usage.total # 0
      base     == [NullState(e) EXCEPT
                     !.mtime = st.mtime, !.age = age, !.stale = late,
                     !.watch_state = IF e.delay = None THEN "unmonitored"
                                     ELSE IF late THEN "stale" ELSE "ok",
                     !.size = IF e.kind = "file" THEN st.size ELSE None,
                     !.disk_total = IF measured THEN usage.total ELSE None,
                     !.disk_free  = IF measured THEN usage.free ELSE None]
  IN  WithLimits(base, e)

\* And all of it.
Reading(e, st, usage, ref) == WithSize(WithSpace(Begun(e, st, usage, ref)), e)

\* Mistaken variant of the except branch: staleness forgotten.
FailedNotStale(s, e) ==
  [s EXCEPT
     !.missing = TRUE, !.watch_state = "missing",
     !.space_state = IF s.space_monitored THEN "MISSING" ELSE @,
     !.size_state  = IF s.size_monitored  THEN "MISSING" ELSE @]

\* The except OSError branch, which updates the dict as far as it has come.
Failed(s, e) ==
  [s EXCEPT
     !.missing = TRUE, !.stale = e.delay # None, !.watch_state = "missing",
     !.space_state = IF s.space_monitored THEN "MISSING" ELSE @,
     !.size_state  = IF s.size_monitored  THEN "MISSING" ELSE @]

(***************************************************************************)
(* Behaviour.                                                              *)
(***************************************************************************)
\* What can be at the path: nothing, or something with a modification time and,
\* for a file, a size, for a directory, the usage of its filesystem, which may
\* be unreadable.
NoPath == [exists |-> FALSE]
Usages ==
  {None} \cup {u \in [total : Totals, free : Sizes] : u.free <= u.total}
Paths(t) ==
  {NoPath} \cup [exists : {TRUE}, mtime : 0..t,
                 size : IF entry.kind = "file" THEN Sizes ELSE {0},
                 usage : IF entry.kind = "file" THEN {None} ELSE Usages]

Init ==
  /\ entry \in Entries
  /\ path \in Paths(0)
  /\ now = 0
  /\ pc = "idle"
  /\ started = 0
  /\ stat = None
  /\ state = None
  /\ warned = FALSE
  /\ misread = 0

\* The experiment writes, truncates, deletes, fills the disk or unmounts.
ChangePath ==
  /\ path' \in Paths(now)
  /\ UNCHANGED <<entry, now, pc, started, stat, state, warned, misread>>

Tick ==
  /\ now < MaxNow
  /\ now' = now + 1
  /\ UNCHANGED <<entry, path, pc, started, stat, state, warned, misread>>

BeginPoll ==
  /\ pc = "idle"
  /\ pc' = "stat"
  /\ started' = now
  /\ UNCHANGED <<entry, path, now, stat, state, warned, misread>>

\* os.stat raised, or the remote probe failed at either of its calls.
PollFails ==
  /\ pc \in {"stat", "usage"}
  /\ entry.remote \/ (pc = "stat" /\ ~path.exists)
  /\ state' = Failed(NullState(entry), entry)
  /\ pc' = "idle"
  /\ stat' = None
  /\ UNCHANGED <<entry, path, now, started, warned, misread>>

StatFile ==
  /\ pc = "stat" /\ path.exists
  /\ entry.kind = "file"
  /\ state' = Reading(entry, [mtime |-> path.mtime, size |-> path.size],
                      None, started)
  /\ pc' = "idle"
  /\ UNCHANGED <<entry, path, now, started, stat, warned, misread>>

StatDirectory ==
  /\ pc = "stat" /\ path.exists
  /\ entry.kind = "directory"
  /\ stat' = [mtime |-> path.mtime, size |-> path.size]
  /\ pc' = "usage"
  /\ UNCHANGED <<entry, path, now, started, state, warned, misread>>

\* shutil.disk_usage.  It fails on a path that went away after the stat; over
\* ssh the answer may also come from the stat fallback, which measures nothing.
Measured ==
  {IF path.exists THEN path.usage ELSE None} \cup (IF entry.remote THEN {None} ELSE {})

\* The usage, and the rest of the poll.  Limits out of order are warned of once
\* per process.
MeasureUsage ==
  /\ pc = "usage"
  /\ \E usage \in Measured :
       /\ state' = Reading(entry, stat, usage, started)
       /\ warned' = (warned \/ ~Begun(entry, stat, usage, started).space_ordered)
  /\ pc' = "idle"
  /\ stat' = None
  /\ UNCHANGED <<entry, path, now, started, misread>>

\* Mistaken variant: the flag is set when the warning has been printed.
WarningFailsUnmarked ==
  /\ pc = "usage" /\ ~warned
  /\ \E usage \in Measured :
       LET begun == Begun(entry, stat, usage, started)
       IN  ~begun.space_ordered /\ state' = Failed(begun, entry)
  /\ misread' = misread + 1
  /\ pc' = "idle"
  /\ stat' = None
  /\ UNCHANGED <<entry, path, now, started, warned>>

\* The log cannot be written (a full disk): the print of that warning raises an
\* OSError inside the try, which looks like a path that cannot be read.
WarningFails ==
  /\ pc = "usage" /\ ~warned
  /\ \E usage \in Measured :
       LET begun == Begun(entry, stat, usage, started)
       IN  ~begun.space_ordered /\ state' = Failed(begun, entry)
  /\ warned' = TRUE
  /\ misread' = misread + 1
  /\ pc' = "idle"
  /\ stat' = None
  /\ UNCHANGED <<entry, path, now, started>>

Next ==
  \/ ChangePath \/ Tick
  \/ BeginPoll \/ PollFails \/ StatFile \/ StatDirectory \/ MeasureUsage \/ WarningFails

Spec == Init /\ [][Next]_vars

(***************************************************************************)
(* Properties.                                                             *)
(***************************************************************************)
\* A daemon whose log cannot be written shows a directory it could read as missing
\* once at most: _evaluate_space notes that it has warned before it prints, so the
\* polls after the failing one get past the print, with the limits still out of
\* order and the log still failing.
MisreadAtMostOnce == misread <= 1

\* The alarm a limit raises: name.upper() in the evaluators.
StateOf(level) == [warning  |-> "WARNING", critical |-> "CRITICAL",
                   full     |-> "FULL"][level]

\* The worst alarm whose limit the reading violates, by severity and not by
\* the order of a walk.
WorstOf(violated) ==
  IF violated = {} THEN "GOOD"
  ELSE CHOOSE s \in {StateOf(l) : l \in violated} :
         \A l \in violated : SEVERITY[StateOf(l)] <= SEVERITY[s]

\* The alarm shown is the worst one justified by the numbers shown next to it:
\* of the limits published with the reading, the most severe one the published
\* free space (or size) violates, GOOD exactly when there is none, and a
\* directory that exists but could not be measured is UNKNOWN, never GOOD.
AlarmMatchesReading ==
  (state # None /\ ~state.missing) =>
    /\ entry.space # None =>
         IF state.disk_total = None THEN state.space_state = "UNKNOWN"
         ELSE LET lim == state.space_limits
              IN  state.space_state =
                    WorstOf({l \in Configured(lim) : state.disk_free <= lim[l]})
    /\ entry.size # None =>
         IF state.size = 0 /\ ~entry.allow_empty THEN state.size_state = "EMPTY"
         ELSE LET lim == state.size_limits
              IN  state.size_state =
                    WorstOf({l \in Configured(lim) : state.size >= lim[l]})

\* An entry whose limits are reported in order has no dead alarm, and one
\* reported out of order has one: space_limits_ordered says exactly whether
\* each configured alarm is shown for some amount of free space.
Reachable(limits, level) ==
  \E free \in {limits[l] : l \in Configured(limits)} :
     EvaluateSpace(free, 1, limits).trigger = level

OrderedMeansReachable ==
  (state # None /\ state.space_limits # None) =>
    (state.space_ordered <=>
       \A l \in Configured(state.space_limits) : Reachable(state.space_limits, l))

\* From one finished poll to the next, neither of them failed: when the disk has
\* got fuller (same capacity, no more free bytes than before), the space alarm does
\* not improve; nor does the alarm of a file that has grown and was not empty.
Escalates ==
  LET both(f) == /\ state # None /\ ~state.missing /\ state[f] # None
                 /\ state' # None /\ ~state'.missing /\ state'[f] # None
      rank(s) == SEVERITY[s]
  IN  /\ (both("disk_total") /\ both("space_state")
          /\ state'.disk_total = state.disk_total
          /\ state'.disk_free <= state.disk_free)
         => rank(state'.space_state) >= rank(state.space_state)
      /\ (both("size") /\ both("size_state")
          /\ state'.size >= state.size /\ state.size > 0)
         => rank(state'.size_state) >= rank(state.size_state)

AlarmsEscalate == [][Escalates]_vars

\* A file or directory nobody touches goes stale once and stays so: only a
\* newer modification time, never a later poll, clears the STALE mark.  (Of a path
\* that could not be read before there is no earlier time to compare with.)
StaysStale ==
  (state # None /\ state' # None /\ state.stale /\ ~state'.stale)
    => \/ state.missing
       \/ state'.mtime # None /\ state'.mtime > state.mtime

StaleUntilTouched == [][StaysStale]_vars
===============================================================================
