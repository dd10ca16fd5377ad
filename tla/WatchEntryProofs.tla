--------------------------- MODULE WatchEntryProofs ---------------------------
(***************************************************************************)
(* What is published of an entry, for any limits, delays and readings.     *)
(***************************************************************************)
EXTENDS WatchEntry, TLAPS

(***************************************************************************)
(* Facts about the alarm arithmetic that hold for all limits and readings. *)
(***************************************************************************)
\* Limits as the evaluators get them: resolved, or not set.
Limits == [LEVELS -> Int \cup {None}]

\* The states a walk can end in, and the level that fired, by the three limits.
LEMMA WalkCases ==
  ASSUME NEW violated \in SUBSET LEVELS
  PROVE  /\ "full" \in violated => Walk(violated) = [state |-> "FULL", trigger |-> "full"]
         /\ "full" \notin violated /\ "critical" \in violated
              => Walk(violated) = [state |-> "CRITICAL", trigger |-> "critical"]
         /\ "full" \notin violated /\ "critical" \notin violated /\ "warning" \in violated
              => Walk(violated) = [state |-> "WARNING", trigger |-> "warning"]
         /\ violated = {} => Walk(violated) = [state |-> "GOOD", trigger |-> None]
<1>1. CASE "full" \in violated
  BY <1>1 DEF Walk
<1>2. CASE "full" \notin violated /\ "critical" \in violated
  BY <1>2 DEF Walk
<1>3. CASE "full" \notin violated /\ "critical" \notin violated /\ "warning" \in violated
  <2>1. violated = {"warning"}
    BY <1>3 DEF LEVELS
  <2> QED
    BY <1>3, <2>1 DEF Walk
<1>4. CASE violated = {}
  BY <1>4 DEF Walk
<1> QED
  BY <1>1, <1>2, <1>3, <1>4 DEF LEVELS

\* The more limits a reading violates, the worse its alarm: the walk of the
\* evaluators never lets a milder level hide a more severe one.
LEMMA WalkMonotone ==
  ASSUME NEW v \in SUBSET LEVELS, NEW w \in SUBSET v
  PROVE  SEVERITY[Walk(w).state] <= SEVERITY[Walk(v).state]
<1>0. w \in SUBSET LEVELS
  OBVIOUS
<1>1. SEVERITY["GOOD"] = 0 /\ SEVERITY["WARNING"] = 2 /\ SEVERITY["CRITICAL"] = 3
      /\ SEVERITY["FULL"] = 4
  BY DEF SEVERITY
<1>2. /\ Walk(v).state \in {"GOOD", "WARNING", "CRITICAL", "FULL"}
      /\ Walk(w).state \in {"GOOD", "WARNING", "CRITICAL", "FULL"}
  BY <1>0, WalkCases DEF LEVELS
<1>3. CASE "full" \in v
  BY <1>1, <1>2, <1>3, WalkCases
<1>4. CASE "full" \notin v /\ "critical" \in v
  <2>1. Walk(w).state # "FULL"
    BY <1>0, <1>4, WalkCases DEF LEVELS
  <2> QED
    BY <1>1, <1>2, <1>4, <2>1, WalkCases
<1>5. CASE "full" \notin v /\ "critical" \notin v /\ "warning" \in v
  <2>1. Walk(w).state \in {"WARNING", "GOOD"}
    BY <1>0, <1>5, WalkCases DEF LEVELS
  <2> QED
    BY <1>1, <1>5, <2>1, WalkCases
<1>6. CASE v = {}
  BY <1>1, <1>6, WalkCases
<1> QED
  BY <1>3, <1>4, <1>5, <1>6 DEF LEVELS

\* evaluate_space_state: with the same limits, less free space never shows a
\* milder alarm, however the limits are ordered.
THEOREM SpaceAlarmMonotone ==
  ASSUME NEW limits \in Limits, NEW total \in Nat \ {0},
         NEW more \in Int, NEW less \in Int, less <= more
  PROVE  SEVERITY[EvaluateSpace(more, total, limits).state]
           <= SEVERITY[EvaluateSpace(less, total, limits).state]
<1> DEFINE violated(free) == {level \in Configured(limits) : free <= limits[level]}
<1>1. violated(more) \subseteq violated(less)
  <2> SUFFICES ASSUME NEW level \in Configured(limits), more <= limits[level]
               PROVE  less <= limits[level]
    OBVIOUS
  <2>1. limits[level] \in Int
    BY DEF Configured, Limits
  <2> QED
    BY <2>1
<1>2. violated(less) \in SUBSET LEVELS
  BY DEF Configured
<1>3. EvaluateSpace(more, total, limits) = Walk(violated(more))
  BY NoneAssumption DEF EvaluateSpace
<1>4. EvaluateSpace(less, total, limits) = Walk(violated(less))
  BY NoneAssumption DEF EvaluateSpace
<1> HIDE DEF violated
<1> QED
  BY <1>1, <1>2, <1>3, <1>4, WalkMonotone

\* evaluate_size_state: a file that is not empty and grows never shows a milder
\* alarm, however the limits are ordered.
THEOREM SizeAlarmMonotone ==
  ASSUME NEW limits \in Limits, NEW allowEmpty \in BOOLEAN,
         NEW less \in Nat \ {0}, NEW more \in Nat, less <= more
  PROVE  SEVERITY[EvaluateSize(less, limits, allowEmpty).state]
           <= SEVERITY[EvaluateSize(more, limits, allowEmpty).state]
<1> DEFINE violated(size) == {level \in Configured(limits) : size >= limits[level]}
<1>1. violated(less) \subseteq violated(more)
  <2> SUFFICES ASSUME NEW level \in Configured(limits), less >= limits[level]
               PROVE  more >= limits[level]
    OBVIOUS
  <2>1. limits[level] \in Int
    BY DEF Configured, Limits
  <2> QED
    BY <2>1
<1>2. violated(more) \in SUBSET LEVELS
  BY DEF Configured
<1>3. EvaluateSize(more, limits, allowEmpty) = Walk(violated(more))
  BY NoneAssumption DEF EvaluateSize
<1>4. EvaluateSize(less, limits, allowEmpty) = Walk(violated(less))
  BY NoneAssumption DEF EvaluateSize
<1> HIDE DEF violated
<1> QED
  BY <1>1, <1>2, <1>3, <1>4, WalkMonotone

\* A level is shown exactly when its limit is violated and no limit of a more
\* severe level is.
LEMMA TriggerCases ==
  ASSUME NEW limits \in Limits, NEW total \in Nat \ {0}, NEW free \in Int
  PROVE  LET shown   == EvaluateSpace(free, total, limits).trigger
             fires(l) == limits[l] # None /\ free <= limits[l]
         IN  /\ shown = "full" <=> fires("full")
             /\ shown = "critical" <=> fires("critical") /\ ~fires("full")
             /\ shown = "warning" <=> fires("warning") /\ ~fires("critical") /\ ~fires("full")
<1> DEFINE violated == {level \in Configured(limits) : free <= limits[level]}
<1>1. EvaluateSpace(free, total, limits) = Walk(violated)
  BY NoneAssumption DEF EvaluateSpace
<1>2. violated \in SUBSET LEVELS
  BY DEF Configured
<1>3. \A l \in LEVELS : l \in violated <=> limits[l] # None /\ free <= limits[l]
  BY DEF Configured
<1> QED
  BY <1>1, <1>3, NoneAssumption DEF Walk, LEVELS

\* space_limits_ordered tells the truth (check_order, and the warning that
\* "some alarm states are unreachable"): the limits are in order exactly when
\* each configured alarm is shown for some amount of free space.
THEOREM OrderedIffReachable ==
  ASSUME NEW limits \in Limits, NEW total \in Nat \ {0}
  PROVE  CheckOrder(limits, TRUE) <=>
           \A l \in Configured(limits) : \E free \in Int :
              EvaluateSpace(free, total, limits).trigger = l
<1> DEFINE fires(l, free) == limits[l] # None /\ free <= limits[l]
           Shown(l) == \E free \in Int : EvaluateSpace(free, total, limits).trigger = l
           w == limits["warning"]
           c == limits["critical"]
           f == limits["full"]
<1>1. w \in Int \cup {None} /\ c \in Int \cup {None} /\ f \in Int \cup {None}
  BY DEF Limits, LEVELS
<1>2. Shown("full") <=> f # None
  BY <1>1, TriggerCases
<1>3. Shown("critical") <=> c # None /\ (f = None \/ f < c)
  <2>1. ASSUME c # None, f = None \/ f < c
        PROVE  Shown("critical")
    <3>1. c \in Int /\ fires("critical", c) /\ ~fires("full", c)
      BY <1>1, <2>1
    <3> QED
      BY <3>1, TriggerCases
  <2>2. ASSUME NEW free \in Int, fires("critical", free), ~fires("full", free)
        PROVE  c # None /\ (f = None \/ f < c)
    BY <1>1, <2>2
  <2> QED
    BY <2>1, <2>2, TriggerCases
<1>4. Shown("warning") <=> w # None /\ (c = None \/ c < w) /\ (f = None \/ f < w)
  <2>1. ASSUME w # None, c = None \/ c < w, f = None \/ f < w
        PROVE  Shown("warning")
    <3>1. w \in Int /\ fires("warning", w) /\ ~fires("critical", w) /\ ~fires("full", w)
      BY <1>1, <2>1
    <3> QED
      BY <3>1, TriggerCases
  <2>2. ASSUME NEW free \in Int, fires("warning", free),
               ~fires("critical", free), ~fires("full", free)
        PROVE  w # None /\ (c = None \/ c < w) /\ (f = None \/ f < w)
    BY <1>1, <2>2
  <2> QED
    BY <2>1, <2>2, TriggerCases
<1> DEFINE Descending == /\ w # None /\ c # None => w > c
                         /\ c # None /\ f # None => c > f
                         /\ w # None /\ f # None /\ c = None => w > f
           Uncovered == /\ c # None => f = None \/ f < c
                        /\ w # None => (c = None \/ c < w) /\ (f = None \/ f < w)
<1>5. (\A l \in Configured(limits) : Shown(l)) <=> Uncovered
  <2> HIDE DEF Shown
  <2> QED
    BY <1>2, <1>3, <1>4 DEF Configured, LEVELS
<1>6. CheckOrder(limits, TRUE) <=> Descending
  BY DEF CheckOrder, InOrder, Configured, LEVELS
<1>7. Descending <=> Uncovered
  <2> HIDE DEF w, c, f
  <2> QED
    BY <1>1
<1> HIDE DEF Descending, Uncovered
<1> QED
  BY <1>5, <1>6, <1>7, Zenon

(***************************************************************************)
(* Limits and alarms.                                                      *)
(***************************************************************************)
LEMMA RoundPercentInt == ASSUME NEW n \in Int PROVE RoundPercent(n) \in Int
BY HundredAssumption DEF RoundPercent

\* Resolved limits are numbers or absent, and the same total resolves them alike.
LEMMA ResolvedAreLimits ==
  ASSUME NEW block \in Blocks, NEW total \in Nat \cup {None}
  PROVE  ResolveAll(block, total) \in Limits
<1> SUFFICES ASSUME NEW level \in LEVELS, block[level] # None
             PROVE  Resolve(block[level], total) \in Int \cup {None}
  BY DEF ResolveAll, Limits
<1>1. block[level] \in [bytes : Int \cup {None}, percent : Int \cup {None}]
  BY DEF Blocks
<1>2. CASE block[level].bytes = None /\ block[level].percent # None /\ total \notin {None, 0}
  <2>1. total * block[level].percent \in Int
    BY <1>1, <1>2
  <2> QED
    BY <1>2, <2>1, RoundPercentInt DEF Resolve
<1>3. CASE ~(block[level].bytes = None /\ block[level].percent # None
             /\ total \notin {None, 0})
  BY <1>1, <1>3 DEF Resolve
<1> QED
  BY <1>2, <1>3

\* The walk of the evaluators finds the worst of the violated levels.
LEMMA WalkIsWorst ==
  ASSUME NEW violated \in SUBSET LEVELS
  PROVE  Walk(violated).state = WorstOf(violated)
<1> DEFINE Worst(s) == \A l \in violated : SEVERITY[StateOf(l)] <= SEVERITY[s]
           shown    == {StateOf(l) : l \in violated}
<1>1. /\ StateOf("warning") = "WARNING" /\ StateOf("critical") = "CRITICAL"
      /\ StateOf("full") = "FULL"
      /\ SEVERITY["WARNING"] = 2 /\ SEVERITY["CRITICAL"] = 3 /\ SEVERITY["FULL"] = 4
  BY DEF StateOf, SEVERITY
<1>2. ASSUME violated # {}
      PROVE  /\ Walk(violated).state \in shown /\ Worst(Walk(violated).state)
             /\ \A s \in shown : Worst(s) => s = Walk(violated).state
  <2>1. CASE "full" \in violated
    BY <1>1, <2>1, WalkCases DEF LEVELS
  <2>2. CASE "full" \notin violated /\ "critical" \in violated
    BY <1>1, <2>2, WalkCases DEF LEVELS
  <2>3. CASE "full" \notin violated /\ "critical" \notin violated
    <3>1. violated = {"warning"}
      BY <1>2, <2>3 DEF LEVELS
    <3> QED
      BY <1>1, <3>1, WalkCases
  <2> QED
    BY <2>1, <2>2, <2>3
<1>3. CASE violated # {}
  <2>1. WorstOf(violated) = CHOOSE s \in shown : Worst(s)
    BY <1>3 DEF WorstOf
  <2> HIDE DEF shown, Worst
  <2> QED
    BY <1>2, <1>3, <2>1
<1>4. CASE violated = {}
  BY <1>4, WalkCases DEF WorstOf
<1> QED
  BY <1>3, <1>4

\* An alarm that some amount of free space shows is shown at its own limit.
LEMMA ShownAtItsLimit ==
  ASSUME NEW limits \in Limits, NEW l \in Configured(limits), NEW free \in Int,
         EvaluateSpace(free, 1, limits).trigger = l
  PROVE  Reachable(limits, l)
<1>1. limits[l] \in Int /\ l \in LEVELS
  BY DEF Limits, Configured
<1>2. free <= limits[l]
  BY <1>1, TriggerCases DEF LEVELS
<1>3. \A m \in LEVELS : limits[m] \in Int \cup {None}
  BY DEF Limits
<1>4. EvaluateSpace(limits[l], 1, limits).trigger = l
  <2>1. CASE l = "full"
    BY <1>1, <2>1, TriggerCases DEF LEVELS, Configured
  <2>2. CASE l = "critical"
    <3>1. limits["full"] = None \/ ~(free <= limits["full"])
      BY <2>2, TriggerCases
    <3>2. limits["full"] = None \/ ~(limits[l] <= limits["full"])
      BY <1>1, <1>2, <1>3, <3>1 DEF LEVELS
    <3> QED
      BY <1>1, <2>2, <3>2, TriggerCases DEF Configured
  <2>3. CASE l = "warning"
    <3>1. \A m \in {"critical", "full"} : limits[m] = None \/ ~(free <= limits[m])
      BY <2>3, TriggerCases
    <3>2. \A m \in {"critical", "full"} : limits[m] = None \/ ~(limits[l] <= limits[m])
      BY <1>1, <1>2, <1>3, <3>1 DEF LEVELS
    <3> QED
      BY <1>1, <2>3, <3>2, TriggerCases DEF Configured
  <2> QED
    BY <1>1, <2>1, <2>2, <2>3 DEF LEVELS
<1> QED
  BY <1>4 DEF Reachable

LEMMA OrderedIffReached ==
  ASSUME NEW limits \in Limits
  PROVE  CheckOrder(limits, TRUE) <=>
           \A l \in Configured(limits) : Reachable(limits, l)
<1>1. \A l \in Configured(limits) : limits[l] \in Int
  BY DEF Configured, Limits
<1>2. \A l \in Configured(limits) :
        Reachable(limits, l) <=>
          \E free \in Int : EvaluateSpace(free, 1, limits).trigger = l
  BY <1>1, ShownAtItsLimit DEF Reachable
<1>3. CheckOrder(limits, TRUE) <=>
        \A l \in Configured(limits) :
          \E free \in Int : EvaluateSpace(free, 1, limits).trigger = l
  <2>1. 1 \in Nat \ {0}
    OBVIOUS
  <2> QED
    BY <2>1, OrderedIffReachable, Zenon
<1> QED
  BY <1>2, <1>3

(***************************************************************************)
(* The state dict.                                                         *)
(***************************************************************************)
\* What a state dict says after a poll that read the path at `ref`.
IsReading(s, e, ref) ==
  /\ s.missing = FALSE
  /\ s.mtime \in Int /\ s.age = ref - s.mtime
  /\ s.stale <=> e.delay # None /\ s.age > e.delay
  /\ \/ s.disk_total = None
     \/ s.disk_total \in Nat \ {0} /\ s.disk_free \in Nat
  /\ e.kind = "file" => s.size \in Nat
  /\ e.space = None => s.space_limits = None /\ s.space_state = None
  /\ e.space # None =>
       /\ s.space_limits = ResolveAll(e.space, s.disk_total)
       /\ s.space_ordered = CheckOrder(s.space_limits, TRUE)
       /\ s.space_state = EvaluateSpace(s.disk_free, s.disk_total, s.space_limits).state
  /\ e.size = None => s.size_state = None
  /\ e.size # None =>
       /\ s.size_limits = ResolveAll(e.size, None)
       /\ s.size_state = EvaluateSize(s.size, s.size_limits, e.allow_empty).state

IsUsage(usage) == usage = None \/ (usage.total \in Nat /\ usage.free \in Nat)

\* What the dict contains when the limits have been resolved, whatever happens next.
IsBegun(s, e, ref) ==
  /\ DOMAIN s = DOMAIN NullState(e)
  /\ s.missing = FALSE
  /\ s.mtime \in Int /\ s.age = ref - s.mtime
  /\ s.stale <=> e.delay # None /\ s.age > e.delay
  /\ e.kind = "file" => s.size \in Nat
  /\ \/ s.disk_total = None
     \/ s.disk_total \in Nat \ {0} /\ s.disk_free \in Nat
  /\ s.space_state = None /\ s.size_state = None
  /\ s.space_monitored = (e.space # None)
  /\ s.size_monitored = (e.size # None)
  /\ e.space = None => s.space_limits = None
  /\ e.space # None =>
       /\ s.space_limits = ResolveAll(e.space, s.disk_total)
       /\ s.space_ordered = CheckOrder(s.space_limits, TRUE)

LEMMA BegunIsBegun ==
  ASSUME NEW e \in Entries, NEW st, st.mtime \in Int, st.size \in Nat,
         NEW usage, IsUsage(usage), NEW ref \in Int
  PROVE  IsBegun(Begun(e, st, usage, ref), e, ref)
<1> DEFINE age      == ref - st.mtime
           late     == e.delay # None /\ age > e.delay
           measured == e.kind = "directory" /\ usage # None /\ usage.total # 0
           base     == [NullState(e) EXCEPT
                     !.mtime = st.mtime, !.age = age, !.stale = late,
                     !.watch_state = IF e.delay = None THEN "unmonitored"
                                     ELSE IF late THEN "stale" ELSE "ok",
                     !.size = IF e.kind = "file" THEN st.size ELSE None,
                     !.disk_total = IF measured THEN usage.total ELSE None,
                     !.disk_free  = IF measured THEN usage.free ELSE None]
           begun    == WithLimits(base, e)
           Fields   == DOMAIN NullState(e)
<1>1. Begun(e, st, usage, ref) = begun
  BY DEF Begun
<1>2. /\ DOMAIN base = Fields
      /\ base.missing = FALSE /\ base.mtime = st.mtime /\ base.age = age
      /\ base.stale = late
      /\ base.size = IF e.kind = "file" THEN st.size ELSE None
      /\ base.disk_total = IF measured THEN usage.total ELSE None
      /\ base.disk_free  = IF measured THEN usage.free ELSE None
      /\ base.space_limits = None /\ base.space_state = None /\ base.size_state = None
      /\ base.space_monitored = (e.space # None) /\ base.size_monitored = (e.size # None)
  BY DEF NullState
<1> HIDE DEF base
<1>3. {"missing", "mtime", "age", "stale", "size", "disk_total", "disk_free",
       "space_monitored", "space_limits", "space_ordered", "space_state",
       "size_monitored", "size_state"} \subseteq Fields
  BY DEF NullState
<1> HIDE DEF Fields
<1>4. /\ DOMAIN begun = Fields
      /\ begun.missing = base.missing /\ begun.mtime = base.mtime
      /\ begun.age = base.age /\ begun.stale = base.stale /\ begun.size = base.size
      /\ begun.disk_total = base.disk_total /\ begun.disk_free = base.disk_free
      /\ begun.space_state = base.space_state /\ begun.size_state = base.size_state
      /\ begun.space_monitored = base.space_monitored
      /\ begun.size_monitored = base.size_monitored
      /\ e.space = None => begun.space_limits = None
      /\ e.space # None =>
           /\ begun.space_limits = ResolveAll(e.space, base.disk_total)
           /\ begun.space_ordered = CheckOrder(ResolveAll(e.space, base.disk_total), TRUE)
  BY <1>2, <1>3 DEF WithLimits
<1> HIDE DEF begun
<1>5. /\ begun.mtime \in Int /\ begun.age = ref - begun.mtime
      /\ begun.stale <=> e.delay # None /\ begun.age > e.delay
      /\ e.kind = "file" => begun.size \in Nat
      /\ \/ begun.disk_total = None
         \/ begun.disk_total \in Nat \ {0} /\ begun.disk_free \in Nat
  BY <1>2, <1>4 DEF IsUsage
<1> HIDE DEF age, late, measured
<1>6. /\ begun.missing = FALSE
      /\ begun.space_state = None /\ begun.size_state = None
      /\ begun.space_monitored = (e.space # None) /\ begun.size_monitored = (e.size # None)
  BY <1>2, <1>4
<1>7. e.space # None =>
        /\ begun.space_limits = ResolveAll(e.space, begun.disk_total)
        /\ begun.space_ordered = CheckOrder(begun.space_limits, TRUE)
  BY <1>4
<1>8. IsBegun(begun, e, ref)
  BY <1>4, <1>5, <1>6, <1>7 DEF Fields, IsBegun
<1> QED
  BY <1>1, <1>8

LEMMA ReadingIsReading ==
  ASSUME NEW e \in Entries, NEW st, st.mtime \in Int, st.size \in Nat,
         NEW usage, IsUsage(usage), NEW ref \in Int
  PROVE  IsReading(Reading(e, st, usage, ref), e, ref)
<1> DEFINE begun  == Begun(e, st, usage, ref)
           space  == WithSpace(begun)
           done   == WithSize(space, e)
           Fields == DOMAIN NullState(e)
<1>1. Reading(e, st, usage, ref) = done
  BY DEF Reading
<1>2. IsBegun(begun, e, ref)
  BY BegunIsBegun
<1> HIDE DEF begun
<1>3. {"missing", "mtime", "age", "stale", "size", "disk_total", "disk_free",
       "space_monitored", "space_limits", "space_ordered", "space_state", "space_trigger",
       "size_monitored", "size_limits", "size_state", "size_trigger", "size_pct_ref"}
         \subseteq Fields
  BY DEF NullState
<1>4. /\ DOMAIN begun = Fields
      /\ begun.space_monitored = (e.space # None)
      /\ begun.size_monitored = (e.size # None)
      /\ e.space = None => begun.space_state = None
  BY <1>2 DEF IsBegun
<1> HIDE DEF Fields
<1>5. /\ DOMAIN space = Fields
      /\ space.missing = begun.missing /\ space.mtime = begun.mtime
      /\ space.age = begun.age /\ space.stale = begun.stale /\ space.size = begun.size
      /\ space.disk_total = begun.disk_total /\ space.disk_free = begun.disk_free
      /\ space.space_limits = begun.space_limits /\ space.space_ordered = begun.space_ordered
      /\ space.size_state = begun.size_state
      /\ space.size_monitored = begun.size_monitored
      /\ e.space = None => space.space_state = None
      /\ e.space # None => space.space_state =
           EvaluateSpace(begun.disk_free, begun.disk_total, begun.space_limits).state
  BY <1>3, <1>4 DEF WithSpace
<1> HIDE DEF space
<1>6. /\ done.missing = space.missing /\ done.mtime = space.mtime
      /\ done.age = space.age /\ done.stale = space.stale /\ done.size = space.size
      /\ done.disk_total = space.disk_total /\ done.disk_free = space.disk_free
      /\ done.space_limits = space.space_limits /\ done.space_state = space.space_state
      /\ done.space_ordered = space.space_ordered
      /\ e.size = None => done.size_state = space.size_state
      /\ e.size # None =>
           /\ done.size_limits = ResolveAll(e.size, None)
           /\ done.size_state =
                EvaluateSize(space.size, ResolveAll(e.size, None), e.allow_empty).state
  BY <1>3, <1>4, <1>5 DEF WithSize
<1> HIDE DEF done
<1>7. IsReading(done, e, ref)
  BY <1>2, <1>5, <1>6 DEF IsReading, IsBegun
<1> QED
  BY <1>1, <1>7

\* What a state dict says after a poll that failed: as much as it had said before,
\* the limits and their order included.
IsFailure(s, e) ==
  /\ s.missing = TRUE
  /\ s.stale = (e.delay # None)
  /\ s.space_limits # None =>
       s.space_limits \in Limits /\ s.space_ordered = CheckOrder(s.space_limits, TRUE)

LEMMA FailedFields ==
  ASSUME NEW e, NEW s, {"missing", "stale", "watch_state", "space_state", "size_state",
                        "space_limits", "space_ordered"} \subseteq DOMAIN s
  PROVE  LET failed == Failed(s, e)
         IN  /\ failed.missing = TRUE /\ failed.stale = (e.delay # None)
             /\ failed.space_limits = s.space_limits
             /\ failed.space_ordered = s.space_ordered
BY DEF Failed

\* A poll that fails before it has read anything, and one that fails at its warning.
LEMMA FailuresAreFailures ==
  ASSUME NEW e \in Entries, NEW st, st.mtime \in Int, st.size \in Nat,
         NEW usage, IsUsage(usage), NEW ref \in Int
  PROVE  /\ IsFailure(Failed(NullState(e), e), e)
         /\ IsFailure(Failed(Begun(e, st, usage, ref), e), e)
<1> DEFINE null   == NullState(e)
           begun  == Begun(e, st, usage, ref)
           needed == {"missing", "stale", "watch_state", "space_state", "size_state",
                      "space_limits", "space_ordered"}
<1>1. needed \subseteq DOMAIN null /\ null.space_limits = None
  BY DEF NullState
<1>2. IsBegun(begun, e, ref)
  BY BegunIsBegun
<1>3. e.space \in Blocks \cup {None}
  BY EntriesAssumption
<1> HIDE DEF begun
<1>4. begun.space_limits # None =>
        begun.space_limits \in Limits
        /\ begun.space_ordered = CheckOrder(begun.space_limits, TRUE)
  BY <1>2, <1>3, ResolvedAreLimits DEF IsBegun
<1>5. IsFailure(Failed(null, e), e)
  <2> HIDE DEF null
  <2> QED
    BY <1>1, FailedFields DEF IsFailure
<1>6. IsFailure(Failed(begun, e), e)
  <2>1. needed \subseteq DOMAIN begun
    BY <1>1, <1>2 DEF IsBegun
  <2> HIDE DEF null
  <2> QED
    BY <1>4, <2>1, FailedFields DEF IsFailure
<1> QED
  BY <1>5, <1>6 DEF begun

\* Limits of a published reading are limits, and its alarms follow the walk.
LEMMA ReadingAlarms ==
  ASSUME NEW e \in Entries, NEW s, NEW ref, IsReading(s, e, ref)
  PROVE  /\ e.space # None =>
              /\ s.space_limits \in Limits
              /\ s.disk_total = None => s.space_state = "UNKNOWN"
         /\ e.size # None => e.kind = "file" /\ s.size \in Nat /\ s.size_limits \in Limits
<1>1. e.space \in Blocks \cup {None} /\ e.size \in Blocks \cup {None}
  BY EntriesAssumption
<1>2. e.size # None => e.kind = "file" /\ s.size \in Nat
  BY EntriesAssumption DEF IsReading
<1>3. s.disk_total \in Nat \cup {None}
  BY DEF IsReading
<1>4. e.space # None => s.space_limits \in Limits
  BY <1>1, <1>3, ResolvedAreLimits DEF IsReading
<1>5. e.size # None => s.size_limits \in Limits
  BY <1>1, ResolvedAreLimits DEF IsReading
<1>6. e.space # None /\ s.disk_total = None => s.space_state = "UNKNOWN"
  BY DEF IsReading, EvaluateSpace
<1> QED
  BY <1>2, <1>4, <1>5, <1>6

(***************************************************************************)
(* The inductive invariant.                                                *)
(***************************************************************************)
IsPath(p) ==
  p.exists => p.mtime \in Int /\ p.size \in Nat /\ IsUsage(p.usage)

\* What is published is nothing yet, a failure, or a reading that was made at a
\* time not later than the start of the last poll; and what could be misread has been
\* warned of.
Inv ==
  /\ entry \in Entries
  /\ IsPath(path)
  /\ now \in Int /\ started \in Int /\ started <= now
  /\ pc = "usage" => stat.mtime \in Int /\ stat.size \in Nat
  /\ \/ state = None
     \/ IsFailure(state, entry)
     \/ \E ref \in Int : ref <= started /\ IsReading(state, entry, ref)
  /\ warned \in BOOLEAN
  /\ misread = 0 \/ (misread = 1 /\ warned = TRUE)

LEMMA PathsArePaths ==
  ASSUME NEW t \in Int, NEW p \in Paths(t)
  PROVE  IsPath(p)
<1>1. CASE p = NoPath
  BY <1>1 DEF NoPath, IsPath
<1>2. CASE p # NoPath
  <2>1. /\ p.mtime \in 0 .. t
        /\ p.size \in Sizes \cup {0} /\ p.usage \in {None} \cup Usages
    BY <1>2 DEF Paths
  <2>2. IsUsage(p.usage)
    BY <2>1, BoundsAssumption DEF Usages, IsUsage
  <2>3. p.mtime \in Int
    BY <2>1
  <2>4. p.size \in Nat
    <3>1. Sizes \cup {0} \subseteq Nat
      BY BoundsAssumption
    <3> QED
      BY <2>1, <3>1
  <2> QED
    BY <2>2, <2>3, <2>4 DEF IsPath
<1> QED
  BY <1>1, <1>2

LEMMA InitInv == Init => Inv
<1> SUFFICES ASSUME Init PROVE Inv
  OBVIOUS
<1>1. IsPath(path)
  <2>1. 0 \in Int /\ path \in Paths(0)
    BY DEF Init
  <2> QED
    BY <2>1, PathsArePaths
<1>2. /\ entry \in Entries /\ now = 0 /\ started = 0 /\ pc = "idle" /\ state = None
      /\ warned \in BOOLEAN /\ misread = 0
  BY DEF Init
<1> QED
  BY <1>1, <1>2 DEF Inv

\* A step leaves what is published, or publishes a failure or a reading made at
\* the start of the poll.
Publishes ==
  /\ entry' = entry
  /\ \/ UNCHANGED state /\ started <= started'
     \/ IsFailure(state', entry) /\ UNCHANGED started
     \/ IsReading(state', entry, started) /\ UNCHANGED started

LEMMA Steps ==
  ASSUME Inv, [Next]_vars
  PROVE  Publishes /\ Inv'
<1> USE DEF Inv
<1>1. CASE ChangePath
  BY <1>1, PathsArePaths DEF ChangePath, Publishes
<1>2. CASE Tick
  BY <1>2 DEF Tick, Publishes
<1>3. CASE BeginPoll
  <2>1. /\ started' = now /\ pc' = "stat"
        /\ UNCHANGED <<entry, path, now, stat, state, warned, misread>>
    BY <1>3 DEF BeginPoll
  <2> QED
    BY <2>1 DEF Publishes
<1>4. CASE PollFails
  <2>1. IsFailure(Failed(NullState(entry), entry), entry)
    <3>1. IsUsage(None) /\ 0 \in Int /\ 0 \in Nat
      BY DEF IsUsage
    <3> DEFINE st == [mtime |-> 0, size |-> 0]
    <3>2. st.mtime \in Int /\ st.size \in Nat
      OBVIOUS
    <3> HIDE DEF st
    <3> QED
      BY <3>1, <3>2, FailuresAreFailures
  <2>2. IsFailure(state', entry)
    BY <1>4, <2>1 DEF PollFails
  <2> QED
    BY <1>4, <2>2 DEF PollFails, Publishes
<1>5. CASE StatFile
  <2>1. path.mtime \in Int /\ path.size \in Nat
    BY <1>5 DEF StatFile, IsPath
  <2>2. IsReading(state', entry, started)
    BY <1>5, <2>1, ReadingIsReading DEF StatFile, IsUsage
  <2> QED
    BY <1>5, <2>2 DEF StatFile, Publishes
<1>6. CASE StatDirectory
  <2>1. path.mtime \in Int /\ path.size \in Nat
    BY <1>6 DEF StatDirectory, IsPath
  <2> QED
    BY <1>6, <2>1 DEF StatDirectory, Publishes
<1>7. ASSUME NEW usage \in Measured
      PROVE  IsUsage(usage)
  BY DEF Measured, IsPath, IsUsage
<1>8. CASE MeasureUsage
  <2>1. PICK usage \in Measured :
          /\ state' = Reading(entry, stat, usage, started)
          /\ warned' = (warned \/ ~Begun(entry, stat, usage, started).space_ordered)
    BY <1>8 DEF MeasureUsage
  <2>2. IsReading(state', entry, started)
    BY <1>7, <1>8, <2>1, ReadingIsReading DEF MeasureUsage
  <2>3. /\ pc' = "idle" /\ UNCHANGED <<entry, path, now, started, misread>>
    BY <1>8 DEF MeasureUsage
  <2>4. warned' \in BOOLEAN /\ (warned => warned')
    BY <2>1
  <2> QED
    BY <2>2, <2>3, <2>4 DEF Publishes
<1>9. CASE WarningFails
  <2>1. PICK usage \in Measured : state' = Failed(Begun(entry, stat, usage, started), entry)
    BY <1>9 DEF WarningFails
  <2>2. IsFailure(state', entry)
    BY <1>7, <1>9, <2>1, FailuresAreFailures DEF WarningFails
  <2>3. /\ pc' = "idle" /\ UNCHANGED <<entry, path, now, started>>
        /\ ~warned /\ warned' = TRUE /\ misread' = misread + 1
    BY <1>9 DEF WarningFails
  <2> QED
    BY <2>2, <2>3 DEF Publishes
<1>10. CASE UNCHANGED vars
  BY <1>10 DEF vars, Publishes
<1> QED
  BY <1>1, <1>2, <1>3, <1>4, <1>5, <1>6, <1>8, <1>9, <1>10 DEF Next

LEMMA Invariance == Spec => []Inv
<1>1. Inv /\ [Next]_vars => Inv'
  BY Steps
<1> QED
  BY <1>1, InitInv, PTL DEF Spec

(***************************************************************************)
(* The theorems.                                                           *)
(***************************************************************************)
\* A directory that could be read is shown as missing once at most, however often
\* the log cannot be written: _evaluate_space marks the entry before it prints.
THEOREM MisreadAtMostOnceTheorem == Spec => []MisreadAtMostOnce
<1>1. Inv => MisreadAtMostOnce
  BY DEF Inv, MisreadAtMostOnce
<1> QED
  BY <1>1, Invariance, PTL

\* The published alarm is the worst the published numbers justify, whatever
\* limits are configured, and UNKNOWN for a disk that was not measured.
THEOREM AlarmsMatchReadings == Spec => []AlarmMatchesReading
<1>1. ASSUME Inv, state # None, ~state.missing
      PROVE  \E ref \in Int : IsReading(state, entry, ref)
  BY <1>1 DEF Inv, IsFailure
<1>2. ASSUME Inv, NEW ref \in Int, IsReading(state, entry, ref), entry.space # None,
             state.disk_total # None
      PROVE  state.space_state =
               WorstOf({l \in Configured(state.space_limits) :
                          state.disk_free <= state.space_limits[l]})
  <2> DEFINE violated == {l \in Configured(state.space_limits) :
                            state.disk_free <= state.space_limits[l]}
  <2>1. state.disk_total \in Nat \ {0} /\ state.disk_free \in Nat
    BY <1>2 DEF IsReading
  <2>2. state.space_state = Walk(violated).state
    <3>1. EvaluateSpace(state.disk_free, state.disk_total, state.space_limits)
            = Walk(violated)
      BY <2>1, NoneAssumption DEF EvaluateSpace
    <3> QED
      BY <1>2, <3>1 DEF IsReading
  <2>3. violated \in SUBSET LEVELS
    BY DEF Configured
  <2> QED
    BY <2>2, <2>3, WalkIsWorst
<1>3. ASSUME Inv, NEW ref \in Int, IsReading(state, entry, ref), entry.size # None
      PROVE  IF state.size = 0 /\ ~entry.allow_empty THEN state.size_state = "EMPTY"
             ELSE state.size_state =
                    WorstOf({l \in Configured(state.size_limits) :
                               state.size >= state.size_limits[l]})
  <2> DEFINE violated == {l \in Configured(state.size_limits) :
                            state.size >= state.size_limits[l]}
  <2>1. state.size \in Nat
    BY <1>3, ReadingAlarms DEF Inv
  <2>2. state.size_state = IF state.size = 0 /\ ~entry.allow_empty THEN "EMPTY"
                           ELSE Walk(violated).state
    BY <1>3, <2>1, NoneAssumption DEF IsReading, EvaluateSize
  <2>3. violated \in SUBSET LEVELS
    BY DEF Configured
  <2> QED
    BY <2>2, <2>3, WalkIsWorst
<1>4. Inv => AlarmMatchesReading
  <2> SUFFICES ASSUME Inv, state # None, ~state.missing PROVE AlarmMatchesReading
    BY DEF AlarmMatchesReading
  <2>1. PICK ref \in Int : IsReading(state, entry, ref)
    BY <1>1
  <2>2. entry.space # None /\ state.disk_total = None => state.space_state = "UNKNOWN"
    BY <2>1, ReadingAlarms DEF Inv
  <2> QED
    BY <1>2, <1>3, <2>1, <2>2 DEF AlarmMatchesReading
<1> QED
  BY <1>4, Invariance, PTL

\* The order flag published with limits says exactly whether each of their alarms
\* can occur.
THEOREM OrderFlagIsTrue == Spec => []OrderedMeansReachable
<1>1. ASSUME Inv, state # None, state.space_limits # None
      PROVE  state.space_ordered <=>
               \A l \in Configured(state.space_limits) : Reachable(state.space_limits, l)
  <2>1. state.space_limits \in Limits
        /\ state.space_ordered = CheckOrder(state.space_limits, TRUE)
    <3>1. CASE IsFailure(state, entry)
      BY <1>1, <3>1 DEF IsFailure
    <3>2. ASSUME NEW ref \in Int, IsReading(state, entry, ref)
          PROVE  state.space_limits \in Limits
                 /\ state.space_ordered = CheckOrder(state.space_limits, TRUE)
      <4>1. entry.space # None
        BY <1>1, <3>2 DEF IsReading
      <4>2. state.space_limits \in Limits
        BY <1>1, <3>2, <4>1, ReadingAlarms DEF Inv
      <4>3. state.space_ordered = CheckOrder(state.space_limits, TRUE)
        BY <3>2, <4>1 DEF IsReading
      <4> QED
        BY <4>2, <4>3
    <3> QED
      BY <1>1, <3>1, <3>2 DEF Inv
  <2> QED
    BY <2>1, OrderedIffReached
<1>2. Inv => OrderedMeansReachable
  BY <1>1 DEF OrderedMeansReachable
<1> QED
  BY <1>2, Invariance, PTL

\* Fuller disks and larger files never get milder alarms from one poll to the
\* next, however the limits are ordered and however they are given.
THEOREM AlarmsAlwaysEscalate == Spec => AlarmsEscalate
<1>1. ASSUME Inv, Inv', entry' = entry
      PROVE  Escalates
  <2>1. ASSUME state # None, state' # None, ~state.missing, ~state'.missing,
               state.disk_total # None,
               state'.disk_total = state.disk_total, state.space_state # None,
               state'.disk_free <= state.disk_free
        PROVE  SEVERITY[state'.space_state] >= SEVERITY[state.space_state]
    <3>1. PICK r \in Int : IsReading(state, entry, r)
      BY <1>1, <2>1 DEF Inv, IsFailure
    <3>2. PICK q \in Int : IsReading(state', entry, q)
      BY <1>1, <2>1 DEF Inv, IsFailure
    <3>3. entry.space # None
      BY <2>1, <3>1 DEF IsReading
    <3>4. state.space_limits \in Limits /\ state'.space_limits = state.space_limits
      <4>1. state.space_limits \in Limits
        BY <1>1, <3>1, <3>3, ReadingAlarms DEF Inv
      <4>2. state'.space_limits = state.space_limits
        BY <2>1, <3>1, <3>2, <3>3 DEF IsReading
      <4> QED
        BY <4>1, <4>2
    <3>5. /\ state.disk_total \in Nat \ {0}
          /\ state.disk_free \in Int /\ state'.disk_free \in Int
      BY <2>1, <3>1, <3>2 DEF IsReading
    <3>6. SEVERITY[EvaluateSpace(state.disk_free, state.disk_total, state.space_limits).state]
          <= SEVERITY[EvaluateSpace(state'.disk_free, state.disk_total,
                                    state.space_limits).state]
      BY <2>1, <3>4, <3>5, SpaceAlarmMonotone
    <3>7. /\ state.space_state =
               EvaluateSpace(state.disk_free, state.disk_total, state.space_limits).state
          /\ state'.space_state =
               EvaluateSpace(state'.disk_free, state.disk_total, state.space_limits).state
      BY <2>1, <3>1, <3>2, <3>3, <3>4 DEF IsReading
    <3> QED
      BY <3>6, <3>7
  <2>2. ASSUME state # None, state' # None, ~state.missing, ~state'.missing,
               state.size # None, state'.size # None,
               state.size_state # None,
               state'.size >= state.size, state.size > 0
        PROVE  SEVERITY[state'.size_state] >= SEVERITY[state.size_state]
    <3>1. PICK r \in Int : IsReading(state, entry, r)
      BY <1>1, <2>2 DEF Inv, IsFailure
    <3>2. PICK q \in Int : IsReading(state', entry, q)
      BY <1>1, <2>2 DEF Inv, IsFailure
    <3>3. entry.size # None
      BY <2>2, <3>1 DEF IsReading
    <3>4. /\ state.size_limits \in Limits /\ state'.size_limits = state.size_limits
          /\ state.size \in Nat /\ state'.size \in Nat
      BY <1>1, <3>1, <3>2, <3>3, ReadingAlarms DEF Inv, IsReading
    <3>5. entry.allow_empty \in BOOLEAN
      BY <1>1, EntriesAssumption DEF Inv
    <3>6. SEVERITY[EvaluateSize(state.size, state.size_limits, entry.allow_empty).state]
          <= SEVERITY[EvaluateSize(state'.size, state.size_limits, entry.allow_empty).state]
      BY <2>2, <3>4, <3>5, SizeAlarmMonotone
    <3>7. /\ state.size_state =
               EvaluateSize(state.size, state.size_limits, entry.allow_empty).state
          /\ state'.size_state =
               EvaluateSize(state'.size, state.size_limits, entry.allow_empty).state
      BY <3>1, <3>2, <3>3, <3>4 DEF IsReading
    <3> QED
      BY <3>6, <3>7
  <2> QED
    BY <2>1, <2>2 DEF Escalates
<1>2. Inv /\ [Next]_vars => [Escalates]_vars
  BY <1>1, Steps DEF Publishes
<1> QED
  BY <1>2, Invariance, PTL DEF Spec, AlarmsEscalate

\* Only a newer modification time takes the STALE mark away: later polls, whose
\* reference times are never earlier, do not.
THEOREM StaleStays == Spec => StaleUntilTouched
<1>1. ASSUME Inv, Publishes, state # None, state' # None, state.stale, ~state'.stale,
             ~state.missing
      PROVE  state'.mtime # None /\ state'.mtime > state.mtime
  <2>1. PICK ref \in Int : ref <= started /\ IsReading(state, entry, ref)
    BY <1>1 DEF Inv, IsFailure
  <2>2. entry.delay # None /\ entry.delay \in Int
    BY <1>1, <2>1, EntriesAssumption DEF Inv, IsReading
  <2>3. state' # state /\ ~IsFailure(state', entry)
    BY <1>1, <2>2 DEF IsFailure
  <2>4. IsReading(state', entry, started)
    BY <1>1, <2>3 DEF Publishes
  <2>5. /\ state.mtime \in Int /\ state.age = ref - state.mtime /\ state.age > entry.delay
        /\ state'.mtime \in Int /\ state'.age = started - state'.mtime
        /\ ~(state'.age > entry.delay)
    BY <1>1, <2>1, <2>2, <2>4 DEF IsReading
  <2>6. started \in Int /\ ref <= started
    BY <1>1, <2>1 DEF Inv
  <2> QED
    BY <2>2, <2>5, <2>6, NoneAssumption
<1>2. Inv /\ [Next]_vars => [StaysStale]_vars
  BY <1>1, Steps DEF StaysStale
<1> QED
  BY <1>2, Invariance, PTL DEF Spec, StaleUntilTouched
===============================================================================
