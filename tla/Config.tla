--------------------------------- MODULE Config ---------------------------------
(***************************************************************************)
(* What a configuration file's files: and paths: become: config.py's       *)
(* entries_from_config with _parse_limits, _validate_order and _make_entry.*)
(* It takes the items one after the other, and one bad item or key is to   *)
(* cost nothing but itself.                                                *)
(*                                                                         *)
(* An item is a text, or a mapping given here as a record whose fields are *)
(* Absent where the key is.  A limit is a Threshold, as Thresholds has it, *)
(* Junk where parse_size_threshold would refuse it, or Infinite.  Of the   *)
(* labels, the texts and the wording of the problems, only what each is    *)
(* about is kept, and of a path the position of the item that holds it.    *)
(* An ssh: value is handed on unseen and left out.  Startup calls it with  *)
(* what it has made of the settings.                                       *)
(***************************************************************************)
EXTENDS Thresholds, Sequences, FiniteSets

CONSTANTS
  Absent,         \* the key is not there
  Junk,           \* a value of the wrong kind
  Infinite,       \* .inf, .nan or a number too large for a float: int() raises
  Disks           \* sizes of disks a space: block may be about

VARIABLES
  config,         \* the items of files: and paths:, in this order
  default_delay,  \* the argument of that name
  index,          \* of the item that is next
  entries,        \* the entries made so far
  issues,         \* for each item taken, the problems reported
  raised          \* an exception left entries_from_config

entryVars == <<config, default_delay, index, entries, issues, raised>>

Issue(at, key) == [at |-> at, key |-> key]

(***************************************************************************)
(* What the items can be.                                                  *)
(***************************************************************************)
\* A limit as parse_size_threshold returns it, which refuses what is negative,
\* no percentage and more than a hundred.
ParsedLimits ==
  [bytes : Nat, percent : {None}] \cup [bytes : {None}, percent : 1 .. Hundred]

\* What can stand where a limit is expected.
RawLimits == ParsedLimits \cup {Absent, None, Junk, Infinite}

RawBlocks ==
  [warning : RawLimits, critical : RawLimits, full : RawLimits, max : RawLimits,
   allow_empty : BOOLEAN \cup {Absent}, other : {Absent, Junk}]

Items ==
  [section : {"files", "paths"}, mapping : BOOLEAN, path : BOOLEAN, other : BOOLEAN,
   delay : Int \cup {Absent, None, Junk, Infinite},
   space : RawBlocks \cup {Absent, None, Junk},
   size  : RawBlocks \cup {Absent, None, Junk}]

\* Each of the four is a value of its own.
ASSUME ConfigAssumption ==
  /\ None \notin {Absent, Junk, Infinite} /\ Absent \notin {Junk, Infinite}
  /\ Junk # Infinite
  /\ \A v \in {None, Absent, Junk, Infinite} :
       /\ v \notin Int /\ v \notin BOOLEAN
       /\ v \notin ParsedLimits /\ v \notin RawBlocks
       /\ v \notin [LEVELS -> ParsedLimits \cup {None}]

\* On these, limits that differ by the least fraction of a percent differ by a byte.
ASSUME DisksAssumption == Disks # {} /\ \A total \in Disks : total \in Nat /\ total > Hundred

(***************************************************************************)
(* _parse_limits.  A block is a record with the fields of BlockKeys, and   *)
(* at says which of the two it is: space: knows percentages and wants its  *)
(* limits descending, size: does neither.                                  *)
(***************************************************************************)
BlockKeys == LEVELS \cup {"max", "allow_empty", "other"}
SpaceKeys == LEVELS
SizeKeys  == LEVELS \cup {"max", "allow_empty"}

KeysOf(at) == IF at = "space" THEN SpaceKeys ELSE SizeKeys

GivenKeys(block) == {k \in BlockKeys : block[k] # Absent}

\* Mistaken variant: max: goes before full:.
RawLimitMaxFirst(block, level) ==
  IF level = "full" /\ block.max # Absent THEN block.max ELSE block[level]

\* max: is read wherever full: is missing.
RawLimit(block, level) ==
  IF level = "full" /\ block.full \in {Absent, None} THEN block.max
  ELSE block[level]

Parses(raw, at) ==
  /\ raw \notin {Absent, None, Junk, Infinite}
  /\ raw.percent # None => at = "space"

ParseLimits(block, at) ==
  [level \in LEVELS |->
     LET raw == RawLimit(block, level)
     IN  IF Parses(raw, at) THEN raw ELSE None]

LimitIssues(block, at) ==
  {Issue(at, k) : k \in GivenKeys(block) \ KeysOf(at)}
  \cup {Issue(at, l) : l \in
          {l \in LEVELS : /\ RawLimit(block, l) \notin {Absent, None}
                          /\ ~Parses(RawLimit(block, l), at)}}

LimitValues(limits) ==
  [l \in LEVELS |-> IF limits[l] = None THEN None
                    ELSE IF limits[l].percent # None THEN limits[l].percent
                    ELSE limits[l].bytes]

OneKind(limits) ==
  {l \in Configured(limits) : limits[l].percent # None} \in {{}, Configured(limits)}

\* Mistaken variant: compares in the direction of free space, always.
MisorderedDescending(limits, at) ==
  OneKind(limits) /\ ~CheckOrder(LimitValues(limits), TRUE)

\* _validate_order, which leaves a block that mixes percentages and byte counts
\* to the poller.
Misordered(limits, at) ==
  OneKind(limits) /\ ~CheckOrder(LimitValues(limits), at = "space")

(***************************************************************************)
(* One item.                                                               *)
(***************************************************************************)
NoLimits == [level \in LEVELS |-> None]

\* Each of the two blocks belongs into one section.
SectionOf(at) == IF at = "space" THEN "paths" ELSE "files"

Block(item, at) ==
  IF item[at] \in {Absent, None} THEN [limits |-> None, issues |-> {}]
  ELSE IF item.section # SectionOf(at) \/ item[at] = Junk
  THEN [limits |-> None, issues |-> {Issue(at, at)}]
  ELSE LET limits == ParseLimits(item[at], at)
       IN  [limits |-> limits,
            issues |-> LimitIssues(item[at], at)
              \cup (IF Misordered(limits, at) THEN {Issue(at, "order")} ELSE {})]

\* Mistaken variant: a block with no usable limit still counts as monitoring.
SpaceKept(item) == Block(item, "space")

\* A space: block without a usable limit, empty or not, is refused.
Space(item) ==
  LET block == Block(item, "space")
  IN  IF block.limits = NoLimits
      THEN [limits |-> None, issues |-> block.issues \cup {Issue("space", "space")}]
      ELSE block

\* A size: block without limits is kept, as it watches for empty files.
Size(item) == Block(item, "size")

AllowEmpty(item) ==
  Size(item).limits # None /\ item.size.allow_empty = TRUE

Delay(item, thresholds) ==
  IF item.delay = Absent /\ thresholds THEN None
  ELSE IF item.delay \in {Absent, Junk} THEN default_delay ELSE item.delay

\* What the mapping with a path at position k becomes, and the problems
\* reported for it.
Make(item, k) ==
  LET space == Space(item)
      size  == Size(item)
      watched == space.limits # None \/ size.limits # None
      delay == Delay(item, watched)
  IN  [entry  |-> [path |-> k, kind |-> IF item.section = "files" THEN "file" ELSE "directory",
                   delay |-> delay, space |-> space.limits, size |-> size.limits,
                   allow_empty |-> AllowEmpty(item)],
       issues |-> space.issues \cup size.issues
                  \cup (IF item.other THEN {Issue("item", "other")} ELSE {})
                  \cup (IF item.delay = Junk THEN {Issue("item", "delay")} ELSE {})
                  \cup (IF delay = None /\ ~watched
                        THEN {Issue("item", "unmonitored")} ELSE {})]

\* A number that int() cannot convert.  Of limits those that are read; of a delay
\* .nan counts as Junk, its ValueError being caught.
Overflows(item) ==
  \/ item.delay = Infinite
  \/ \E at \in {"space", "size"} :
       /\ item.section = SectionOf(at) /\ item[at] \notin {Absent, None, Junk}
       /\ \E level \in LEVELS : RawLimit(item[at], level) = Infinite

\* A bare text is a path with the default delay.
TextEntry(item, k) ==
  [path |-> k, kind |-> IF item.section = "files" THEN "file" ELSE "directory",
   delay |-> default_delay, space |-> None, size |-> None, allow_empty |-> FALSE]

(***************************************************************************)
(* entries_from_config.                                                    *)
(***************************************************************************)
EntriesInit ==
  /\ index = 1
  /\ entries = <<>>
  /\ issues = <<>>
  /\ raised = FALSE

Item == config[index]

More == ~raised /\ index <= Len(config)

\* Goes on with the next item; new holds no or one entry.
Took(new, found) ==
  /\ entries' = entries \o new
  /\ issues' = Append(issues, found)
  /\ index' = index + 1
  /\ UNCHANGED <<config, default_delay, raised>>

TakeText ==
  /\ More /\ ~Item.mapping
  /\ Took(IF Item.path THEN <<TextEntry(Item, index)>> ELSE <<>>, {})

TakePathless ==
  /\ More /\ Item.mapping /\ ~Item.path
  /\ Took(<<>>, {Issue("item", "path")})

TakeMapping ==
  /\ More /\ Item.mapping /\ Item.path /\ ~Overflows(Item)
  /\ Took(<<Make(Item, index).entry>>, Make(Item, index).issues)

\* int(float("inf")) is an OverflowError and int(round(float("nan"))) a ValueError,
\* and the handlers name neither (for a limit, only ThresholdError).
Raise ==
  /\ More /\ Item.mapping /\ Item.path /\ Overflows(Item)
  /\ raised' = TRUE
  /\ UNCHANGED <<config, default_delay, index, entries, issues>>

TakeItem == TakeText \/ TakePathless \/ TakeMapping \/ Raise

(***************************************************************************)
(* Properties.                                                             *)
(***************************************************************************)
\* The entry made of item k of the configuration, which has a path.
EntryOf(k) ==
  entries[CHOOSE n \in DOMAIN entries : entries[n].path = k]

Taken == {k \in 1 .. index - 1 : config[k].mapping /\ config[k].path}

\* An infinite number anywhere in an item.
HoldsInfinite(item) ==
  \/ item.delay = Infinite
  \/ \E at \in {"space", "size"} :
       /\ item[at] \notin {Absent, None, Junk}
       /\ \E key \in LEVELS \cup {"max"} : item[at][key] = Infinite

\* What has become of a configuration in the end: unless some item holds an
\* infinite number, which costs all of them, a bad item costs only itself and a
\* bad key only itself.  Every item with a path has an entry, and every limit and
\* delay that can be read, where such a block belongs, is in it, whatever else is
\* wrong with the item and its neighbours.
RestSurvives ==
  /\ raised => \E k \in DOMAIN config : HoldsInfinite(config[k])
  /\ index > Len(config) =>
       /\ Len(entries) = Cardinality({k \in DOMAIN config : config[k].path})
       /\ \A k \in Taken :
            LET item == config[k]
                kept(block, limits, at) ==
                  \A l \in LEVELS :
                    Parses(block[l], at) => limits # None /\ limits[l] = block[l]
            IN  /\ item.delay \notin {Absent, Junk} => EntryOf(k).delay = item.delay
                /\ item.section = "paths" /\ item.space \notin {Absent, None, Junk} =>
                     kept(item.space, EntryOf(k).space, "space")
                /\ item.section = "files" /\ item.size \notin {Absent, None, Junk} =>
                     kept(item.size, EntryOf(k).size, "size")

Mixed(limits) ==
  \E l, m \in Configured(limits) : limits[l].percent = None /\ limits[m].percent # None

\* The order is judged twice, when the configuration is read and, for space
\* limits, at every poll with the limits resolved.  An order that is reported is
\* wrong on every disk; one that a poll finds wrong on some disk has been
\* reported, unless the block mixes percentages and byte counts (which
\* README.md:140-142 does not except from what is reported at startup).
OrderCheckAgrees ==
  \A k \in Taken :
    LET e == EntryOf(k)
        reported(at) == Issue(at, "order") \in issues[k]
        wrong(at, limits, total) == ~CheckOrder(ResolveAll(limits, total), at = "space")
    IN  /\ e.space # None => \A total \in Disks :
             /\ reported("space") => wrong("space", e.space, total)
             /\ wrong("space", e.space, total) => reported("space") \/ Mixed(e.space)
        /\ e.size # None => (reported("size") <=> wrong("size", e.size, None))

\* The sizes at which an alarm can set in: none at all, and each limit.
Onsets(e) ==
  {0} \cup ({ResolveAll(e.size, None)[l] : l \in LEVELS} \ {None})

\* An entry that can never raise an alarm, whatever its path is like, is reported
\* as such; the one exception is a size: block that does nothing but allow empty
\* files, which is taken at its word.
CanAlarm(e) ==
  \/ e.delay # None
  \/ e.space # None /\ \E total \in Disks : \E free \in 0 .. total :
       EvaluateSpace(free, total, ResolveAll(e.space, total)).state # "GOOD"
  \/ e.size # None /\ \E size \in Onsets(e) :
       EvaluateSize(size, ResolveAll(e.size, None), e.allow_empty).state # "GOOD"

SilentEntryIsReported ==
  \A k \in Taken :
    \/ CanAlarm(EntryOf(k))
    \/ issues[k] # {}
    \/ EntryOf(k).allow_empty /\ EntryOf(k).size = NoLimits

\* Expected to fail.  "Validation here never raises and never exits."
NeverRaises == ~raised

\* Expected to fail.  A key reported as unknown and ignored has no effect: the
\* entry is the one made without it.
IgnoredHasNoEffect ==
  \A k \in Taken :
    \A key \in BlockKeys \ SpaceKeys :
      Issue("space", key) \in issues[k] =>
        EntryOf(k) = Make([config[k] EXCEPT !.space[key] = Absent], k).entry
===============================================================================
