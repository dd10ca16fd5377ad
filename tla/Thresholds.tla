------------------------------ MODULE Thresholds ------------------------------
(***************************************************************************)
(* The alarm arithmetic of thresholds.py: what a configured limit resolves *)
(* to, how free space and file sizes are classified, and when a set of     *)
(* limits is in order.  Pure operators, no state.                          *)
(*                                                                         *)
(* A limit block is a function from the three levels to a Threshold (as    *)
(* configured) or to a byte count (as resolved), with None where the code  *)
(* has None.  Percentages are counted in some fraction of a percent, tenths *)
(* for instance, of which Hundred make a hundred percent; what the floating *)
(* point arithmetic of a fraction may get wrong is left out, and so are the *)
(* texts of a classification (the third element the evaluators return).    *)
(***************************************************************************)
EXTENDS Integers

CONSTANTS
  None,         \* Python's None
  Hundred       \* a hundred percent

\* poller.LEVELS, least severe first.
LEVELS == {"warning", "critical", "full"}

ASSUME NoneAssumption == None \notin Int /\ None \notin LEVELS

ASSUME HundredAssumption == Hundred \in Nat \ {0}

\* Sort ranks of the alarm states and of the mtime states; higher is worse.
SEVERITY == [GOOD |-> 0, EMPTY |-> 1, WARNING |-> 2, CRITICAL |-> 3,
             FULL |-> 4, UNKNOWN |-> 5, MISSING |-> 6]

WATCH_SEVERITY == [ok |-> 0, unmonitored |-> 1, stale |-> 2, missing |-> 3]

\* Python's round(n / 100.0), n in whole percents: to nearest, a tie goes to the
\* even neighbour.
RoundPercent(n) ==
  LET q == n \div Hundred
      r == n % Hundred
  IN  IF 2 * r < Hundred \/ (2 * r = Hundred /\ q % 2 = 0) THEN q ELSE q + 1

\* Threshold.resolve: the limit in bytes, None when it is a percentage of a
\* total that is unknown or zero.
Resolve(threshold, total) ==
  IF threshold.bytes # None THEN threshold.bytes
  ELSE IF threshold.percent = None \/ total \in {None, 0} THEN None
  ELSE RoundPercent(total * threshold.percent)

\* The dict comprehension of _evaluate_space and _evaluate_size.
ResolveAll(block, total) ==
  [level \in LEVELS |->
     IF block[level] = None THEN None ELSE Resolve(block[level], total)]

\* The walk of both evaluators, from most severe to least, over the levels
\* whose limit the reading violates.
Walk(violated) ==
  IF "full" \in violated THEN [state |-> "FULL", trigger |-> "full"]
  ELSE IF "critical" \in violated THEN [state |-> "CRITICAL", trigger |-> "critical"]
  ELSE IF "warning" \in violated THEN [state |-> "WARNING", trigger |-> "warning"]
  ELSE [state |-> "GOOD", trigger |-> None]

Configured(limits) == {level \in LEVELS : limits[level] # None}

\* Mistaken variant: the boundary counted on the good side.
EvaluateSpaceStrict(free, total, limits) ==
  IF free = None \/ total \in {None, 0}
  THEN [state |-> "UNKNOWN", trigger |-> None]
  ELSE Walk({level \in Configured(limits) : free < limits[level]})

\* evaluate_space_state: state and trigger.
EvaluateSpace(free, total, limits) ==
  IF free = None \/ total \in {None, 0}
  THEN [state |-> "UNKNOWN", trigger |-> None]
  ELSE Walk({level \in Configured(limits) : free <= limits[level]})

\* Mistaken variant: compares a size the way free space is compared.
EvaluateSizeFlipped(size, limits, allowEmpty) ==
  IF size = None THEN [state |-> "UNKNOWN", trigger |-> None]
  ELSE IF size = 0 /\ ~allowEmpty THEN [state |-> "EMPTY", trigger |-> "empty"]
  ELSE Walk({level \in Configured(limits) : size <= limits[level]})

\* evaluate_size_state: an empty file comes before its limits.
EvaluateSize(size, limits, allowEmpty) ==
  IF size = None THEN [state |-> "UNKNOWN", trigger |-> None]
  ELSE IF size = 0 /\ ~allowEmpty THEN [state |-> "EMPTY", trigger |-> "empty"]
  ELSE Walk({level \in Configured(limits) : size >= limits[level]})

\* Mistaken variant: equal limits pass as ordered.
InOrderLoose(limits, milder, worse, descending) ==
  {milder, worse} \subseteq Configured(limits) =>
    IF descending THEN limits[milder] >= limits[worse]
                  ELSE limits[milder] <= limits[worse]

\* check_order compares neighbours among the limits that are present:
\* warning with critical, critical with full, and warning with full when
\* critical is absent.
InOrder(limits, milder, worse, descending) ==
  {milder, worse} \subseteq Configured(limits) =>
    IF descending THEN limits[milder] > limits[worse]
                  ELSE limits[milder] < limits[worse]

CheckOrder(limits, descending) ==
  /\ InOrder(limits, "warning", "critical", descending)
  /\ InOrder(limits, "critical", "full", descending)
  /\ limits["critical"] = None => InOrder(limits, "warning", "full", descending)
===============================================================================
