----------------------------- MODULE StartupProofs -----------------------------
(***************************************************************************)
(* What Config and Startup promise, for every configuration file, every    *)
(* environment and every command line that InputOK admits.                 *)
(*                                                                         *)
(* Two invariants carry it.  EntriesInv: the entries so far are those made *)
(* of the items taken, one for every item with a path, and so are the      *)
(* problems.  StageInv: at every stage the settings are the defaults with  *)
(* the layers so far applied to them, one after the other.  The seven      *)
(* properties are then questions about functions: what is made of an item  *)
(* (Make), what a layer leaves of a setting (WithFile, WithEnvironment,    *)
(* WithArguments), which peers a list keeps (PeersFrom) and what resolving *)
(* derives (ResolvePaths, ResolveDiscover).                                *)
(***************************************************************************)
EXTENDS Startup, FiniteSetTheorems, WellFoundedInduction, TLAPS

(***************************************************************************)
(* The entries so far.                                                     *)
(***************************************************************************)
WithPath == {k \in 1 .. index - 1 : config[k].path}

Made(k) ==
  IF config[k].mapping THEN Make(config[k], k).entry ELSE TextEntry(config[k], k)

\* Every item taken has its entry, if it has a path, and its problems; what raised
\* is an infinite number.
EntriesInv ==
  /\ config \in Seq(Items)
  /\ index \in 1 .. Len(config) + 1
  /\ raised \in BOOLEAN
  /\ entries \in Seq({Made(k) : k \in WithPath})
  /\ \A m, n \in 1 .. Len(entries) : entries[m].path = entries[n].path => m = n
  /\ \A k \in WithPath : \E n \in 1 .. Len(entries) : entries[n] = Made(k)
  /\ issues \in Seq({Make(config[k], k).issues : k \in 1 .. Len(config)}
                     \cup {{}, {Issue("item", "path")}})
  /\ Len(issues) = index - 1
  /\ \A k \in Taken : issues[k] = Make(config[k], k).issues
  /\ raised => \E k \in DOMAIN config : HoldsInfinite(config[k])

\* An entry has the position of its item.
LEMMA MadePath == \A k : Made(k).path = k
BY DEF Made, Make, TextEntry

\* The entry of an item is the one made of it, and no other.
LEMMA EntryOfIsMade ==
  ASSUME EntriesInv, NEW k \in WithPath
  PROVE  EntryOf(k) = Made(k)
<1>1. DOMAIN entries = 1 .. Len(entries)
  BY DEF EntriesInv
<1>2. PICK n \in 1 .. Len(entries) : entries[n] = Made(k)
  BY DEF EntriesInv
<1>3. \A m \in 1 .. Len(entries) : entries[m].path = k => m = n
  BY <1>2, MadePath DEF EntriesInv
<1>4. (CHOOSE m \in DOMAIN entries : entries[m].path = k) = n
  BY <1>1, <1>2, <1>3, MadePath
<1> QED
  BY <1>2, <1>4 DEF EntryOf

LEMMA InitEntries == EntriesInit /\ config \in Seq(Items) => EntriesInv
<1> SUFFICES ASSUME EntriesInit, config \in Seq(Items) PROVE EntriesInv
  OBVIOUS
<1>1. index = 1 /\ entries = <<>> /\ issues = <<>> /\ raised = FALSE /\ Len(config) \in Nat
  BY DEF EntriesInit
<1>2. WithPath = {} /\ Taken = {}
  BY <1>1 DEF WithPath, Taken
<1> DEFINE S == {Made(k) : k \in WithPath}
           I == {Make(config[k], k).issues : k \in 1 .. Len(config)}
                \cup {{}, {Issue("item", "path")}}
<1>3. entries \in Seq(S) /\ issues \in Seq(I) /\ Len(issues) = 0 /\ Len(entries) = 0
  <2> HIDE DEF S, I
  <2> QED
    BY <1>1
<1>4. index \in 1 .. Len(config) + 1 /\ Len(issues) = index - 1
  <2> HIDE DEF S, I
  <2> QED
    BY <1>1, <1>3
<1>6. raised \in BOOLEAN
  BY <1>1
<1>5. 1 .. Len(entries) = {}
  BY <1>3
<1>7. raised # TRUE /\ ~raised
  BY <1>1
<1> HIDE DEF S, I
<1> QED
  BY <1>1, <1>2, <1>3, <1>4, <1>5, <1>6, <1>7, Zenon DEF EntriesInv, S, I

LEMMA TookEntries ==
  ASSUME EntriesInv, More, NEW new, NEW found, Took(new, found),
         new = IF Item.path THEN <<Made(index)>> ELSE <<>>,
         Item.mapping /\ Item.path => found = Make(Item, index).issues,
         (Item.mapping /\ Item.path) \/ found \in {{}, {Issue("item", "path")}}
  PROVE  EntriesInv'
<1>0. /\ config \in Seq(Items) /\ Len(config) \in Nat /\ index \in 1 .. Len(config)
      /\ index \in Nat /\ index' = index + 1 /\ config' = config /\ raised' = raised
      /\ entries' = entries \o new /\ issues' = Append(issues, found)
      /\ default_delay' = default_delay /\ Item = config[index]
  BY DEF EntriesInv, More, Took, Item
<1>1. \A k : Made(k)' = Made(k)
  <2>1. \A item, k : Make(item, k)' = Make(item, k) /\ TextEntry(item, k)' = TextEntry(item, k)
    BY <1>0 DEF Make, TextEntry, Delay
  <2> QED
    BY <1>0, <2>1 DEF Made
<1>2. WithPath' = WithPath \cup (IF Item.path THEN {index} ELSE {}) /\ index \notin WithPath
  BY <1>0 DEF WithPath
<1> DEFINE S == {Made(k) : k \in WithPath}
           T == {Made(k) : k \in WithPath'}
<1>3. /\ entries \in Seq(T) /\ \A n \in 1 .. Len(entries) : entries[n].path # index
  <2>1. S \subseteq T
    BY <1>2
  <2>2. entries \in Seq(S)
    BY DEF EntriesInv
  <2>3. \A n \in 1 .. Len(entries) : \E k \in WithPath : entries[n] = Made(k)
    BY <2>2
  <2>4. \A n \in 1 .. Len(entries) : entries[n].path # index
    BY <1>2, <2>3, MadePath
  <2> HIDE DEF S, T
  <2> QED
    BY <2>1, <2>2, <2>4
<1>4. /\ entries' \in Seq(T)
      /\ \A m, n \in 1 .. Len(entries') : entries'[m].path = entries'[n].path => m = n
      /\ \A k \in WithPath' : \E n \in 1 .. Len(entries') : entries'[n] = Made(k)
  <2>1. CASE ~Item.path
    <3>1. entries' = entries /\ WithPath' = WithPath
      BY <1>0, <1>2, <1>3, <2>1
    <3> QED
      BY <1>3, <3>1 DEF EntriesInv
  <2>2. CASE Item.path
    <3>1. Made(index) \in T
      BY <1>2, <2>2
    <3> DEFINE e == Made(index)
    <3>2. entries' = entries \o <<e>>
      BY <1>0, <2>2
    <3>3. e.path = index
      BY MadePath
    <3> HIDE DEF e, T
    <3>4. /\ entries' \in Seq(T) /\ Len(entries') = Len(entries) + 1 /\ Len(entries) \in Nat
          /\ \A n \in 1 .. Len(entries) : entries'[n] = entries[n]
          /\ entries'[Len(entries) + 1] = e
      BY <1>3, <3>1, <3>2 DEF e
    <3>5. \A n \in 1 .. Len(entries') : n \in 1 .. Len(entries) \/ n = Len(entries) + 1
      BY <3>4
    <3>6. 1 .. Len(entries) \subseteq 1 .. Len(entries') /\ Len(entries) + 1 \in 1 .. Len(entries')
      BY <3>4
    <3>7. \A m, n \in 1 .. Len(entries') : entries'[m].path = entries'[n].path => m = n
      <4>1. \A m, n \in 1 .. Len(entries) : entries[m].path = entries[n].path => m = n
        BY DEF EntriesInv
      <4> QED
        BY <1>3, <3>3, <3>4, <3>5, <4>1
    <3>8. ASSUME NEW k \in WithPath'
          PROVE  \E n \in 1 .. Len(entries') : entries'[n] = Made(k)
      <4>1. CASE k = index
        BY <3>4, <3>6, <4>1 DEF e
      <4>2. CASE k \in WithPath
        BY <3>4, <3>6, <4>2 DEF EntriesInv
      <4> QED
        BY <1>2, <4>1, <4>2
    <3> QED
      BY <3>4, <3>7, <3>8
  <2> QED
    BY <2>1, <2>2
<1> DEFINE I == {Make(config[k], k).issues : k \in 1 .. Len(config)}
                \cup {{}, {Issue("item", "path")}}
<1>5. found \in I /\ issues \in Seq(I) /\ Len(issues) = index - 1
  BY <1>0 DEF EntriesInv
<1>6. I' = I
  BY <1>0 DEF Make, Delay
<1>7. /\ issues' \in Seq(I) /\ Len(issues') = index /\ issues'[index] = found
      /\ \A k \in 1 .. index - 1 : issues'[k] = issues[k]
  <2> HIDE DEF I
  <2> QED
    BY <1>0, <1>5
<1>8. ASSUME NEW k \in Taken' PROVE issues'[k] = Make(config[k], k).issues
  <2>1. k \in 1 .. index /\ config[k].mapping /\ config[k].path
    BY <1>0 DEF Taken
  <2>2. CASE k = index
    BY <1>0, <1>7, <2>1, <2>2
  <2>3. CASE k # index
    <3>1. k \in Taken /\ k \in 1 .. index - 1
      BY <1>0, <2>1, <2>3 DEF Taken
    <3> QED
      BY <1>7, <3>1 DEF EntriesInv
  <2> QED
    BY <2>2, <2>3
<1>9. \A k \in 1 .. Len(config) : (Make(config[k], k).issues)' = Make(config[k], k).issues
  BY <1>0 DEF Make, Delay
<1>10. Taken' \subseteq 1 .. Len(config)
  BY <1>0 DEF Taken
<1>11. index' \in 1 .. Len(config) + 1 /\ index = index' - 1
  BY <1>0
<1> HIDE DEF S, T, I
<1>12. {Made(k) : k \in WithPath}' = T
  BY <1>1 DEF T
<1>13. \A k \in Taken' : issues'[k] = (Make(config[k], k).issues)'
  BY <1>8, <1>9, <1>10
<1> QED
  BY <1>0, <1>1, <1>4, <1>6, <1>7, <1>11, <1>12, <1>13 DEF EntriesInv, I

\* A limit that is read stands under its own key or under max:.
LEMMA OverflowsHolds == \A item : Overflows(item) => HoldsInfinite(item)
<1> SUFFICES ASSUME NEW item, Overflows(item) PROVE HoldsInfinite(item)
  OBVIOUS
<1>1. CASE item.delay = Infinite
  BY <1>1 DEF HoldsInfinite
<1>2. ASSUME NEW at \in {"space", "size"}, item[at] \notin {Absent, None, Junk},
             NEW level \in LEVELS, RawLimit(item[at], level) = Infinite
      PROVE  HoldsInfinite(item)
  <2>1. item[at][level] = Infinite \/ item[at]["max"] = Infinite
    BY <1>2 DEF RawLimit
  <2> QED
    BY <1>2, <2>1 DEF HoldsInfinite
<1> QED
  BY <1>1, <1>2 DEF Overflows

LEMMA NextEntries == EntriesInv /\ TakeItem => EntriesInv'
<1> SUFFICES ASSUME EntriesInv, TakeItem PROVE EntriesInv'
  OBVIOUS
<1>1. Item \in Items
  BY DEF EntriesInv, TakeItem, TakeText, TakePathless, TakeMapping, Raise, More, Item
<1>2. CASE TakeText
  BY <1>2, TookEntries DEF TakeText, Made, Item
<1>3. CASE TakePathless
  BY <1>3, TookEntries DEF TakePathless, Item
<1>4. CASE TakeMapping
  BY <1>4, TookEntries DEF TakeMapping, Made, Item
<1>5. CASE Raise
  <2>1. raised' = TRUE /\ UNCHANGED <<config, default_delay, index, entries, issues>>
    BY <1>5 DEF Raise
  <2>8. \E k \in DOMAIN config : HoldsInfinite(config[k])
    <3>1. index \in DOMAIN config /\ Overflows(config[index])
      BY <1>5 DEF Raise, More, Item, EntriesInv
    <3>2. HoldsInfinite(config[index])
      BY <1>1, <3>1, OverflowsHolds DEF Item
    <3> QED
      BY <3>1, <3>2
  <2>2. WithPath' = WithPath /\ Taken' = Taken
    BY <2>1 DEF WithPath, Taken
  <2>3. \A item, k : Make(item, k)' = Make(item, k) /\ TextEntry(item, k)' = TextEntry(item, k)
    BY <2>1 DEF Make, TextEntry, Delay
  <2>4. \A k : Made(k)' = Made(k)
    BY <2>1, <2>3 DEF Made
  <2>5. \A k : (Make(config[k], k).issues)' = Make(config[k], k).issues
    BY <2>1, <2>3
  <2>6. {Made(k) : k \in WithPath}' = {Made(k) : k \in WithPath}
    BY <2>2, <2>4
  <2>7. {Make(config[k], k).issues : k \in 1 .. Len(config)}'
          = {Make(config[k], k).issues : k \in 1 .. Len(config)}
    BY <2>1, <2>5
  <2> QED
    BY <2>1, <2>2, <2>4, <2>5, <2>6, <2>7, <2>8 DEF EntriesInv
<1> QED
  BY <1>2, <1>3, <1>4, <1>5 DEF TakeItem

(***************************************************************************)
(* What is made of one item.                                               *)
(***************************************************************************)
Limits == [LEVELS -> ParsedLimits \cup {None}]

LEMMA NotLimits == None \notin Limits /\ None \notin ParsedLimits /\ None \notin RawBlocks
BY ConfigAssumption DEF Limits

\* What _parse_limits takes over, it takes over as it is.
LEMMA ParsedTyped ==
  ASSUME NEW block \in RawBlocks, NEW at
  PROVE  /\ ParseLimits(block, at) \in Limits
         /\ \A l \in LEVELS :
              /\ at # "space" /\ ParseLimits(block, at)[l] # None
                   => ParseLimits(block, at)[l].percent = None
              /\ Parses(block[l], at) => ParseLimits(block, at)[l] = block[l]
<1>1. \A l \in LEVELS : RawLimit(block, l) \in RawLimits /\ block[l] \in RawLimits
  BY DEF RawLimit, RawBlocks, LEVELS
<1>2. \A l \in LEVELS : ParseLimits(block, at)[l] =
        IF Parses(RawLimit(block, l), at) THEN RawLimit(block, l) ELSE None
  BY DEF ParseLimits
<1>3. \A raw \in RawLimits : Parses(raw, at) => raw \in ParsedLimits
  BY DEF Parses, RawLimits
<1>4. \A raw \in ParsedLimits : Parses(raw, at) /\ at # "space" => raw.percent = None
  BY DEF Parses
<1>5. \A l \in LEVELS : Parses(block[l], at) => RawLimit(block, l) = block[l]
  BY DEF RawLimit, Parses
<1>6. ParseLimits(block, at) \in Limits
  BY <1>1, <1>2, <1>3 DEF ParseLimits, Limits
<1>7. \A l \in LEVELS : Parses(block[l], at) => ParseLimits(block, at)[l] = block[l]
  BY <1>2, <1>5
<1> QED
  BY <1>1, <1>2, <1>3, <1>4, <1>6, <1>7

\* A block that stands where it belongs is parsed, any other has no limits; its
\* issues are about it, and only _validate_order's is about the order.
LEMMA BlockCases ==
  ASSUME NEW item \in Items, NEW at \in {"space", "size"}
  PROVE  LET block == Block(item, at)
             limits == ParseLimits(item[at], at)
             parsed == item.section = SectionOf(at) /\ item[at] \in RawBlocks
         IN  /\ block.limits = IF parsed THEN limits ELSE None
             /\ parsed => limits \in Limits /\ limits # None
             /\ Issue(at, "order") \in block.issues <=> parsed /\ Misordered(limits, at)
             /\ \A i \in block.issues : i.at = at
<1> DEFINE block == Block(item, at)
           limits == ParseLimits(item[at], at)
           parsed == item.section = SectionOf(at) /\ item[at] \in RawBlocks
<1>1. item[at] \in RawBlocks \cup {Absent, None, Junk}
  BY DEF Items
<1>2. {Absent, None, Junk} \cap RawBlocks = {}
  BY ConfigAssumption
<1>3. CASE parsed
  <2>1. item[at] \notin {Absent, None, Junk}
    BY <1>2, <1>3
  <2>2. block = [limits |-> limits,
                 issues |-> LimitIssues(item[at], at)
                   \cup (IF Misordered(limits, at) THEN {Issue(at, "order")} ELSE {})]
    BY <1>3, <2>1 DEF Block
  <2>3. \A i \in LimitIssues(item[at], at) : i.at = at /\ i # Issue(at, "order")
    BY DEF LimitIssues, Issue, GivenKeys, BlockKeys, LEVELS
  <2>4. limits \in Limits /\ limits # None
    BY <1>3, ParsedTyped, NotLimits
  <2>5. Issue(at, "order").at = at
    BY DEF Issue
  <2>6. block.limits = limits /\ block.issues = LimitIssues(item[at], at)
                   \cup (IF Misordered(limits, at) THEN {Issue(at, "order")} ELSE {})
    BY <2>2
  <2> HIDE DEF limits, block
  <2>7. /\ Issue(at, "order") \in block.issues <=> Misordered(limits, at)
        /\ \A i \in block.issues : i.at = at
    BY <2>3, <2>5, <2>6
  <2> QED
    BY <1>3, <2>4, <2>6, <2>7 DEF limits, block
<1>4. CASE ~parsed
  <2>1. block.limits = None /\ block.issues \in {{}, {Issue(at, at)}}
    BY <1>1, <1>4 DEF Block
  <2>2. Issue(at, at).at = at /\ Issue(at, at) # Issue(at, "order")
    BY DEF Issue
  <2> QED
    BY <1>4, <2>1, <2>2
<1> QED
  BY <1>3, <1>4

\* What Make makes of the two blocks.
Space0(item) == ParseLimits(item.space, "space")
Size0(item)  == ParseLimits(item.size, "size")
Spaced(item) ==
  item.section = "paths" /\ item.space \in RawBlocks /\ Space0(item) # NoLimits
Sized(item) == item.section = "files" /\ item.size \in RawBlocks

LEMMA MakeCases ==
  ASSUME NEW item \in Items, NEW k
  PROVE  LET made == Make(item, k)
         IN  /\ made.entry.space = IF Spaced(item) THEN Space0(item) ELSE None
             /\ made.entry.size = IF Sized(item) THEN Size0(item) ELSE None
             /\ Issue("space", "order") \in made.issues
                  <=> Spaced(item) /\ Misordered(Space0(item), "space")
             /\ Issue("size", "order") \in made.issues
                  <=> Sized(item) /\ Misordered(Size0(item), "size")
             /\ Spaced(item) => Space0(item) \in Limits /\ Space0(item) # None
             /\ Sized(item) => Size0(item) \in Limits /\ Size0(item) # None
<1> DEFINE made == Make(item, k)
           block == Block(item, "space")
           parsed == item.section = "paths" /\ item.space \in RawBlocks
<1>1. /\ block.limits = IF parsed THEN Space0(item) ELSE None
      /\ parsed => Space0(item) \in Limits /\ Space0(item) # None
      /\ Issue("space", "order") \in block.issues <=> parsed /\ Misordered(Space0(item), "space")
      /\ \A i \in block.issues : i.at = "space"
  BY BlockCases DEF SectionOf, Space0
<1>2. /\ Size(item).limits = IF Sized(item) THEN Size0(item) ELSE None
      /\ Sized(item) => Size0(item) \in Limits /\ Size0(item) # None
      /\ Issue("size", "order") \in Size(item).issues
           <=> Sized(item) /\ Misordered(Size0(item), "size")
      /\ \A i \in Size(item).issues : i.at = "size"
  BY BlockCases DEF SectionOf, Size0, Size, Sized
<1>3. /\ Space(item).limits = IF Spaced(item) THEN Space0(item) ELSE None
      /\ \A i \in Space(item).issues : i.at = "space"
      /\ Issue("space", "order") \in Space(item).issues <=> Issue("space", "order") \in block.issues
      /\ parsed /\ Space0(item) = NoLimits => ~Misordered(Space0(item), "space")
  <2>1. None # NoLimits
    <3>1. NoLimits \in Limits
      BY DEF NoLimits, Limits
    <3> QED
      BY <3>1, NotLimits
  <2>2. Issue("space", "space").at = "space" /\ Issue("space", "space") # Issue("space", "order")
    BY DEF Issue
  <2>3. \A limits : limits = NoLimits => ~Misordered(limits, "space")
    BY DEF NoLimits, Misordered, LimitValues, CheckOrder, InOrder, Configured, LEVELS
  <2> HIDE DEF block
  <2>4. CASE block.limits = NoLimits
    <3>1. Space(item) = [limits |-> None, issues |-> block.issues \cup {Issue("space", "space")}]
      BY <2>4 DEF Space, block
    <3> QED
      BY <1>1, <2>1, <2>2, <2>3, <2>4, <3>1 DEF Spaced
  <2>5. CASE block.limits # NoLimits
    <3>1. Space(item) = block
      BY <2>5 DEF Space, block
    <3> QED
      BY <1>1, <2>1, <2>3, <2>5, <3>1 DEF Spaced
  <2> QED
    BY <2>4, <2>5
<1>4. /\ made.entry.space = Space(item).limits /\ made.entry.size = Size(item).limits
      /\ \A i \in {Issue("space", "order"), Issue("size", "order")} :
           i \in made.issues <=> i \in Space(item).issues \cup Size(item).issues
  BY DEF Make, Issue
<1>5. Issue("space", "order").at = "space" /\ Issue("size", "order").at = "size"
  BY DEF Issue
<1>6. (Issue("space", "order") \in made.issues <=> Issue("space", "order") \in Space(item).issues)
      /\ (Issue("size", "order") \in made.issues <=> Issue("size", "order") \in Size(item).issues)
  BY <1>2, <1>3, <1>4, <1>5
<1> HIDE DEF made, block
<1> QED
  BY <1>1, <1>2, <1>3, <1>4, <1>6 DEF made, Spaced

(***************************************************************************)
(* The order of limits, before and after they are resolved.                *)
(***************************************************************************)
\* Limits that compare alike are in order alike.
LEMMA SameOrder ==
  ASSUME NEW f, NEW g, NEW descending,
         \A l \in LEVELS : f[l] = None <=> g[l] = None,
         \A l, m \in LEVELS : f[l] # None /\ f[m] # None =>
            (f[l] > f[m] <=> g[l] > g[m]) /\ (f[l] < f[m] <=> g[l] < g[m])
  PROVE  CheckOrder(f, descending) <=> CheckOrder(g, descending)
<1>1. Configured(f) = Configured(g)
  BY DEF Configured
<1>2. ASSUME NEW l \in LEVELS, NEW m \in LEVELS
      PROVE  InOrder(f, l, m, descending) <=> InOrder(g, l, m, descending)
  <2>1. {l, m} \subseteq Configured(f) => f[l] # None /\ f[m] # None
    BY DEF Configured
  <2>2. CASE {l, m} \subseteq Configured(f)
    <3>1. (f[l] > f[m] <=> g[l] > g[m]) /\ (f[l] < f[m] <=> g[l] < g[m])
      BY <2>1, <2>2
    <3>2. InOrder(f, l, m, descending) <=> (IF descending THEN f[l] > f[m] ELSE f[l] < f[m])
      BY <2>2 DEF InOrder
    <3>3. InOrder(g, l, m, descending) <=> (IF descending THEN g[l] > g[m] ELSE g[l] < g[m])
      BY <1>1, <2>2 DEF InOrder
    <3> QED
      BY <3>1, <3>2, <3>3
  <2>3. CASE ~({l, m} \subseteq Configured(f))
    BY <1>1, <2>3 DEF InOrder
  <2> QED
    BY <2>2, <2>3
<1>3. {"warning", "critical", "full"} \subseteq LEVELS
  BY DEF LEVELS
<1> QED
  BY <1>2, <1>3 DEF CheckOrder

\* What one divides by Hundred.
LEMMA Division ==
  ASSUME NEW n \in Nat
  PROVE  /\ n \div Hundred \in Nat /\ n % Hundred \in Nat /\ n % Hundred < Hundred
         /\ n = Hundred * (n \div Hundred) + (n % Hundred)
BY HundredAssumption

\* Rounding keeps apart what differs by more than one.
LEMMA RoundedApart ==
  ASSUME NEW a \in Nat, NEW b \in Nat, b > a + Hundred
  PROVE  RoundPercent(a) \in Nat /\ RoundPercent(b) \in Nat /\ RoundPercent(a) < RoundPercent(b)
<1> DEFINE p == a \div Hundred
           q == b \div Hundred
           r == a % Hundred
           t == b % Hundred
<1>1. /\ Hundred \in Nat /\ Hundred > 0
      /\ p \in Nat /\ r \in Nat /\ r < Hundred /\ a = Hundred * p + r
      /\ q \in Nat /\ t \in Nat /\ t < Hundred /\ b = Hundred * q + t
  BY Division, HundredAssumption
<1>2. /\ RoundPercent(a) \in {p, p + 1} /\ (RoundPercent(a) = p + 1 => 2 * r >= Hundred)
      /\ RoundPercent(b) \in {q, q + 1} /\ (RoundPercent(b) = q => 2 * t <= Hundred)
  BY <1>1 DEF RoundPercent
<1> HIDE DEF p, q, r, t
<1>3. q > p
  <2>1. Hundred * q > Hundred * p
    BY <1>1
  <2> QED
    BY <1>1, <2>1
<1>4. CASE q > p + 1
  BY <1>1, <1>2, <1>4
<1>5. CASE q = p + 1
  <2>1. Hundred * q = Hundred * p + Hundred
    BY <1>1, <1>5
  <2>2. t > r
    BY <1>1, <2>1
  <2> QED
    BY <1>1, <1>2, <1>5, <2>2
<1> QED
  BY <1>1, <1>3, <1>4, <1>5

\* On a disk of more bytes than there are fractions of a percent, percentages
\* that compare one way resolve to byte counts that do.
LEMMA ScaledOrder ==
  ASSUME NEW total \in Nat, total > Hundred, NEW p \in Nat, NEW q \in Nat
  PROVE  /\ RoundPercent(total * p) \in Int
         /\ p > q <=> RoundPercent(total * p) > RoundPercent(total * q)
         /\ p < q <=> RoundPercent(total * p) < RoundPercent(total * q)
<1>0. Hundred \in Nat
  BY HundredAssumption
<1>1. ASSUME NEW m \in Nat, NEW n \in Nat, m < n
      PROVE  /\ RoundPercent(total * m) \in Nat /\ RoundPercent(total * n) \in Nat
             /\ RoundPercent(total * m) < RoundPercent(total * n)
  <2>1. n = m + 1 + (n - m - 1) /\ n - m - 1 \in Nat
    BY <1>1
  <2>2. total * n >= total * m + total
    <3>1. total * (m + 1 + (n - m - 1)) = total * m + total + total * (n - m - 1)
      OBVIOUS
    <3>2. total * (n - m - 1) \in Nat /\ total * m \in Nat
      BY <2>1
    <3> QED
      BY <2>1, <3>1, <3>2
  <2>3. total * m \in Nat /\ total * n \in Nat
    OBVIOUS
  <2>4. total * n > total * m + Hundred
    BY <1>0, <2>2, <2>3
  <2> QED
    BY <2>3, <2>4, RoundedApart
<1>2. RoundPercent(total * p) \in Nat
  BY <1>1
<1>3. CASE p = q
  BY <1>2, <1>3
<1>4. CASE p < q
  BY <1>1, <1>4
<1>5. CASE q < p
  BY <1>1, <1>5
<1> QED
  BY <1>2, <1>3, <1>4, <1>5

\* A limit as _validate_order reads it and as it is resolved at a poll.
LEMMA ResolveOne ==
  ASSUME NEW limits \in Limits, NEW l \in LEVELS, limits[l] # None, NEW total
  PROVE  /\ limits[l] \in ParsedLimits
         /\ limits[l].percent = None =>
              /\ limits[l].bytes \in Nat
              /\ LimitValues(limits)[l] = limits[l].bytes
              /\ ResolveAll(limits, total)[l] = limits[l].bytes
         /\ limits[l].percent # None =>
              /\ limits[l].percent \in 1 .. Hundred
              /\ LimitValues(limits)[l] = limits[l].percent
              /\ total \in Nat \ {0} =>
                   ResolveAll(limits, total)[l] = RoundPercent(total * limits[l].percent)
<1>1. limits[l] \in ParsedLimits
  BY DEF Limits
<1>2. CASE limits[l] \in [bytes : Nat, percent : {None}]
  BY <1>1, <1>2, NoneAssumption DEF LimitValues, ResolveAll, Resolve
<1>3. CASE limits[l] \in [bytes : {None}, percent : 1 .. Hundred]
  <2>1. limits[l].percent \in 1 .. Hundred /\ limits[l].percent # None /\ limits[l].bytes = None
    BY <1>3, NoneAssumption
  <2>2. ASSUME total \in Nat \ {0}
        PROVE  ResolveAll(limits, total)[l] = RoundPercent(total * limits[l].percent)
    <3>1. total \notin {None, 0}
      BY <2>2, NoneAssumption
    <3> QED
      BY <2>1, <3>1 DEF ResolveAll, Resolve
  <2> QED
    BY <1>1, <2>1, <2>2 DEF LimitValues
<1> QED
  BY <1>1, <1>2, <1>3 DEF ParsedLimits

\* The order of limits of one kind: _validate_order, when the configuration is
\* read, and check_order, on the limits as they are resolved at a poll, agree for
\* byte counts always, and for percentages on every disk of more bytes than there
\* are fractions of a percent.
THEOREM OrdersAgree ==
  ASSUME NEW limits \in Limits, NEW at, NEW total,
         \/ \A l \in Configured(limits) : limits[l].percent = None
         \/ /\ \A l \in Configured(limits) : limits[l].percent # None
            /\ total \in Nat /\ total > Hundred
  PROVE  Misordered(limits, at) <=> ~CheckOrder(ResolveAll(limits, total), at = "space")
<1> DEFINE f == LimitValues(limits)
           g == ResolveAll(limits, total)
           d == at = "space"
<1>1. OneKind(limits)
  BY DEF OneKind
<1>2. \A l \in LEVELS : limits[l] = None => f[l] = None /\ g[l] = None
  BY DEF LimitValues, ResolveAll
<1>3. CASE \A l \in Configured(limits) : limits[l].percent = None
  <2>1. \A l \in LEVELS : limits[l] # None => f[l] = g[l] /\ f[l] \in Nat
    BY <1>3, ResolveOne DEF Configured
  <2>2. \A l \in LEVELS : f[l] = g[l]
    BY <1>2, <2>1
  <2> HIDE DEF f, g, d
  <2>3. CheckOrder(f, d) <=> CheckOrder(g, d)
    BY <2>2, SameOrder
  <2> QED
    BY <1>1, <2>3 DEF Misordered, f, g, d
<1>4. CASE /\ \A l \in Configured(limits) : limits[l].percent # None
           /\ total \in Nat /\ total > Hundred
  <2>1. total \in Nat \ {0} /\ total > Hundred
    BY <1>4, HundredAssumption
  <2>2. ASSUME NEW l \in LEVELS, limits[l] # None
        PROVE  f[l] \in Nat /\ g[l] = RoundPercent(total * f[l])
    <3>1. limits[l].percent # None
      BY <1>4, <2>2 DEF Configured
    <3>2. 1 .. Hundred \subseteq Nat
      BY HundredAssumption
    <3> QED
      BY <2>1, <2>2, <3>1, <3>2, ResolveOne
  <2>3. \A l \in LEVELS : f[l] # None => limits[l] # None
    BY <1>2
  <2> HIDE DEF f, g, d
  <2>4. \A l \in LEVELS : f[l] = None <=> g[l] = None
    <3>1. \A l \in LEVELS : limits[l] # None => g[l] \in Int
      BY <2>1, <2>2, ScaledOrder
    <3> QED
      BY <1>2, <2>2, <3>1, NoneAssumption
  <2>5. ASSUME NEW l \in LEVELS, NEW k \in LEVELS, f[l] # None, f[k] # None
        PROVE  (f[l] > f[k] <=> g[l] > g[k]) /\ (f[l] < f[k] <=> g[l] < g[k])
    <3>1. f[l] \in Nat /\ f[k] \in Nat
          /\ g[l] = RoundPercent(total * f[l]) /\ g[k] = RoundPercent(total * f[k])
      BY <2>2, <2>3, <2>5
    <3>2. PICK p, q \in Nat : p = f[l] /\ q = f[k]
      BY <3>1
    <3>3. (p > q <=> RoundPercent(total * p) > RoundPercent(total * q))
          /\ (p < q <=> RoundPercent(total * p) < RoundPercent(total * q))
      BY <2>1, ScaledOrder, Zenon
    <3>4. g[l] = RoundPercent(total * p) /\ g[k] = RoundPercent(total * q)
      BY <3>1, <3>2
    <3> QED
      BY <3>2, <3>3, <3>4
  <2>6. CheckOrder(f, d) <=> CheckOrder(g, d)
    BY <2>4, <2>5, SameOrder
  <2> QED
    BY <1>1, <2>6 DEF Misordered, f, g, d
<1> QED
  BY <1>3, <1>4

(***************************************************************************)
(* The properties of the entries.                                          *)
(***************************************************************************)
LEMMA TakenFacts ==
  ASSUME EntriesInv, NEW k \in Taken
  PROVE  /\ config[k] \in Items /\ config[k].mapping /\ k \in WithPath
         /\ EntryOf(k) = Make(config[k], k).entry
         /\ issues[k] = Make(config[k], k).issues
<1>1. k \in 1 .. index - 1 /\ config[k].mapping /\ config[k].path
  BY DEF Taken
<1>2. k \in WithPath
  BY <1>1 DEF WithPath
<1>3. config[k] \in Items
  BY <1>1 DEF EntriesInv
<1>4. EntryOf(k) = Make(config[k], k).entry
  BY <1>1, <1>2, EntryOfIsMade DEF Made
<1> QED
  BY <1>1, <1>2, <1>3, <1>4 DEF EntriesInv

LEMMA RestLemma == EntriesInv => RestSurvives
<1> SUFFICES ASSUME EntriesInv PROVE RestSurvives
  OBVIOUS
<1>1. index > Len(config) => Len(entries) = Cardinality({k \in DOMAIN config : config[k].path})
  <2> DEFINE f == [n \in 1 .. Len(entries) |-> entries[n].path]
  <2>1. entries \in Seq({Made(k) : k \in WithPath}) /\ Len(entries) \in Nat
    BY DEF EntriesInv
  <2>2. \A n \in 1 .. Len(entries) : entries[n].path \in WithPath
    <3>1. \A n \in 1 .. Len(entries) : \E k \in WithPath : entries[n] = Made(k)
      BY <2>1
    <3> QED
      BY <3>1, MadePath
  <2>3. \A k \in WithPath : \E n \in 1 .. Len(entries) : entries[n].path = k
    BY MadePath DEF EntriesInv
  <2>4. f \in Bijection(1 .. Len(entries), WithPath)
    BY <2>2, <2>3 DEF EntriesInv, Bijection, Injection, Surjection, IsInjective
  <2>5. IsFiniteSet(1 .. Len(entries)) /\ Cardinality(1 .. Len(entries)) = Len(entries)
    <3>1. Len(entries) \in Int /\ 1 \in Int
          /\ (IF 1 > Len(entries) THEN 0 ELSE Len(entries) - 1 + 1) = Len(entries)
      BY <2>1
    <3>2. IsFiniteSet(1 .. Len(entries)) /\ Cardinality(1 .. Len(entries))
             = IF 1 > Len(entries) THEN 0 ELSE Len(entries) - 1 + 1
      BY <3>1, FS_Interval
    <3> QED
      BY <3>1, <3>2
  <2>6. ExistsBijection(1 .. Len(entries), WithPath)
    BY <2>4 DEF ExistsBijection
  <2>7. Cardinality(WithPath) = Len(entries)
    BY <2>5, <2>6, FS_Bijection
  <2>8. index > Len(config) => 1 .. index - 1 = DOMAIN config
    BY DEF EntriesInv
  <2> QED
    BY <2>7, <2>8 DEF WithPath
<1>2. ASSUME NEW k \in Taken, config[k].delay \notin {Absent, Junk}
      PROVE  EntryOf(k).delay = config[k].delay
  BY <1>2, TakenFacts DEF Make, Delay
<1>3. ASSUME NEW k \in Taken, config[k].section = "paths",
             config[k].space \notin {Absent, None, Junk},
             NEW l \in LEVELS, Parses(config[k].space[l], "space")
      PROVE  EntryOf(k).space # None /\ EntryOf(k).space[l] = config[k].space[l]
  <2>1. config[k] \in Items /\ EntryOf(k) = Make(config[k], k).entry
    BY TakenFacts
  <2>2. config[k].space \in RawBlocks
    BY <1>3, <2>1 DEF Items
  <2>3. Space0(config[k])[l] = config[k].space[l]
    BY <1>3, <2>2, ParsedTyped DEF Space0
  <2>4. Space0(config[k])[l] # None
    BY <1>3, <2>3 DEF Parses
  <2>5. Spaced(config[k])
    BY <1>3, <2>2, <2>4 DEF Spaced, NoLimits
  <2> QED
    BY <2>1, <2>3, <2>5, MakeCases
<1>4. ASSUME NEW k \in Taken, config[k].section = "files",
             config[k].size \notin {Absent, None, Junk},
             NEW l \in LEVELS, Parses(config[k].size[l], "size")
      PROVE  EntryOf(k).size # None /\ EntryOf(k).size[l] = config[k].size[l]
  <2>1. config[k] \in Items /\ EntryOf(k) = Make(config[k], k).entry
    BY TakenFacts
  <2>2. config[k].size \in RawBlocks
    BY <1>4, <2>1 DEF Items
  <2>3. Size0(config[k])[l] = config[k].size[l]
    BY <1>4, <2>2, ParsedTyped DEF Size0
  <2>4. Sized(config[k])
    BY <1>4, <2>2 DEF Sized
  <2> QED
    BY <2>1, <2>3, <2>4, MakeCases
<1>5. raised => \E k \in DOMAIN config : HoldsInfinite(config[k])
  BY DEF EntriesInv
<1> QED
  BY <1>1, <1>2, <1>3, <1>4, <1>5 DEF RestSurvives

\* What OrderCheckAgrees says of one block.
Reported(at, k) == Issue(at, "order") \in issues[k]

WrongOrder(at, limits, total) == ~CheckOrder(ResolveAll(limits, total), at = "space")

LEMMA OrderLemma == EntriesInv => OrderCheckAgrees
<1> SUFFICES ASSUME EntriesInv, NEW k \in Taken
             PROVE  /\ EntryOf(k).space # None => \A total \in Disks :
                         /\ Reported("space", k) => WrongOrder("space", EntryOf(k).space, total)
                         /\ WrongOrder("space", EntryOf(k).space, total) =>
                              Reported("space", k) \/ Mixed(EntryOf(k).space)
                    /\ EntryOf(k).size # None =>
                         (Reported("size", k) <=> WrongOrder("size", EntryOf(k).size, None))
  BY Zenon DEF OrderCheckAgrees, Reported, WrongOrder
<1> DEFINE item == config[k]
           space == Space0(item)
           size == Size0(item)
<1>1. /\ item \in Items /\ EntryOf(k) = Make(item, k).entry
      /\ issues[k] = Make(item, k).issues
  BY TakenFacts
<1>2. /\ EntryOf(k).space = IF Spaced(item) THEN space ELSE None
      /\ EntryOf(k).size = IF Sized(item) THEN size ELSE None
      /\ Issue("space", "order") \in issues[k] <=> Spaced(item) /\ Misordered(space, "space")
      /\ Issue("size", "order") \in issues[k] <=> Sized(item) /\ Misordered(size, "size")
      /\ Spaced(item) => space \in Limits /\ space # None
      /\ Sized(item) => size \in Limits /\ size # None
  BY <1>1, MakeCases
<1>3. ASSUME Spaced(item), NEW total \in Disks
      PROVE  /\ Reported("space", k) => WrongOrder("space", space, total)
             /\ WrongOrder("space", space, total) => Reported("space", k) \/ Mixed(space)
  <2>1. Reported("space", k) <=> Misordered(space, "space")
    BY <1>2, <1>3 DEF Reported
  <2>2. total \in Nat /\ total > Hundred
    BY DisksAssumption
  <2>3. space \in Limits
    BY <1>2, <1>3
  <2> HIDE DEF space, item
  <2>4. CASE Mixed(space)
    <3>1. ~OneKind(space)
      BY <2>4 DEF Mixed, OneKind
    <3> QED
      BY <2>1, <2>4, <3>1 DEF Misordered
  <2>5. CASE ~Mixed(space)
    <3>1. \/ \A l \in Configured(space) : space[l].percent = None
          \/ \A l \in Configured(space) : space[l].percent # None
      BY <2>5 DEF Mixed
    <3>2. Misordered(space, "space") <=> ~CheckOrder(ResolveAll(space, total), "space" = "space")
      BY <2>2, <2>3, <3>1, OrdersAgree
    <3> QED
      BY <2>1, <3>2 DEF WrongOrder
  <2> QED
    BY <2>4, <2>5
<1>4. ASSUME Sized(item)
      PROVE  Reported("size", k) <=> WrongOrder("size", size, None)
  <2>1. \A l \in Configured(size) : size[l].percent = None
    BY <1>4, ParsedTyped DEF Sized, Size0, Configured
  <2>2. Misordered(size, "size") <=> ~CheckOrder(ResolveAll(size, None), "size" = "space")
    <3> HIDE DEF size
    <3> QED
      BY <1>2, <1>4, <2>1, OrdersAgree
  <2> HIDE DEF size, item
  <2> QED
    BY <1>2, <1>4, <2>2 DEF Reported, WrongOrder
<1> HIDE DEF item, space, size
<1> QED
  BY <1>2, <1>3, <1>4

LEMMA SomeViolated ==
  ASSUME NEW violated \in SUBSET LEVELS, violated # {}
  PROVE  Walk(violated).state # "GOOD"
BY DEF Walk, LEVELS

LEMMA SilentLemma == EntriesInv => SilentEntryIsReported
<1> SUFFICES ASSUME EntriesInv, NEW k \in Taken
             PROVE  \/ CanAlarm(EntryOf(k))
                    \/ issues[k] # {}
                    \/ EntryOf(k).allow_empty /\ EntryOf(k).size = NoLimits
  BY DEF SilentEntryIsReported
<1> DEFINE item == config[k]
           e == EntryOf(k)
           space == Space0(item)
           size == Size0(item)
<1>1. /\ item \in Items /\ e = Make(item, k).entry
      /\ issues[k] = Make(item, k).issues
  BY TakenFacts
<1>2. /\ e.space = IF Spaced(item) THEN space ELSE None
      /\ e.size = IF Sized(item) THEN size ELSE None
      /\ Spaced(item) => space \in Limits /\ space # None
      /\ Sized(item) => size \in Limits /\ size # None
  BY <1>1, MakeCases
<1>3. CASE e.delay # None
  BY <1>3 DEF CanAlarm
<1>4. CASE e.space # None
  <2>1. e.space \in Limits /\ e.space # NoLimits
    BY <1>2, <1>4 DEF Spaced
  <2>2. PICK l \in LEVELS : e.space[l] # None
    BY <2>1 DEF NoLimits, Limits
  <2>3. PICK total \in Disks : total \in Nat \ {0}
    BY DisksAssumption, HundredAssumption
  <2> DEFINE r == ResolveAll(e.space, total)
  <2>4. r[l] \in Nat
    <3>1. 1 .. Hundred \subseteq Nat
      BY HundredAssumption
    <3>2. \A p \in Nat : RoundPercent(total * p) \in Nat
      <4>1. \A n \in Nat : RoundPercent(n) \in Nat
        BY Division DEF RoundPercent
      <4> QED
        BY <2>3, <4>1
    <3>3. /\ e.space[l].percent = None => r[l] \in Nat
          /\ e.space[l].percent # None => r[l] = RoundPercent(total * e.space[l].percent)
                                         /\ e.space[l].percent \in 1 .. Hundred
      BY <2>1, <2>2, <2>3, ResolveOne
    <3> HIDE DEF r
    <3> QED
      BY <3>1, <3>2, <3>3
  <2> HIDE DEF r
  <2>5. l \in {m \in Configured(r) : 0 <= r[m]}
    BY <2>4, NoneAssumption DEF Configured
  <2>6. EvaluateSpace(0, total, r) = Walk({m \in Configured(r) : 0 <= r[m]})
    BY <2>3, NoneAssumption DEF EvaluateSpace
  <2>7. EvaluateSpace(0, total, r).state # "GOOD"
    BY <2>5, <2>6, SomeViolated DEF Configured
  <2>8. 0 \in 0 .. total
    BY <2>3
  <2> QED
    BY <1>4, <2>3, <2>7, <2>8 DEF CanAlarm, r
<1>5. CASE e.size # None
  <2>1. Sized(item) /\ e.size = size /\ size \in Limits
    BY <1>2, <1>5
  <2> DEFINE r == ResolveAll(e.size, None)
  <2>2. CASE \E l \in LEVELS : e.size[l] # None
    <3>1. PICK l \in LEVELS : e.size[l] # None
      BY <2>2
    <3>2. e.size[l].percent = None
      BY <2>1, <3>1, ParsedTyped DEF Sized, Size0
    <3>3. r[l] \in Nat
      BY <2>1, <3>1, <3>2, ResolveOne
    <3>4. r[l] \in Onsets(e)
      BY <3>1, <3>3, NoneAssumption DEF Onsets
    <3> HIDE DEF r
    <3>5. l \in {m \in Configured(r) : r[l] >= r[m]}
      BY <3>3, NoneAssumption DEF Configured
    <3>6. \/ EvaluateSize(r[l], r, e.allow_empty).state = "EMPTY"
          \/ EvaluateSize(r[l], r, e.allow_empty) = Walk({m \in Configured(r) : r[l] >= r[m]})
      BY <3>3, NoneAssumption DEF EvaluateSize
    <3>7. EvaluateSize(r[l], r, e.allow_empty).state # "GOOD"
      BY <3>5, <3>6, SomeViolated DEF Configured
    <3> QED
      BY <1>5, <3>4, <3>7 DEF CanAlarm, r
  <2>3. CASE \A l \in LEVELS : e.size[l] = None
    <3>1. e.size = NoLimits
      BY <2>1, <2>3 DEF NoLimits, Limits
    <3>2. CASE e.allow_empty
      BY <3>1, <3>2
    <3>3. CASE ~e.allow_empty
      <4>1. EvaluateSize(0, r, e.allow_empty).state = "EMPTY"
        BY <3>3, NoneAssumption DEF EvaluateSize
      <4>2. 0 \in Onsets(e)
        BY DEF Onsets
      <4> HIDE DEF r
      <4> QED
        BY <1>5, <4>1, <4>2 DEF CanAlarm, r
    <3> QED
      BY <3>2, <3>3
  <2> QED
    BY <2>2, <2>3
<1>6. CASE e.delay = None /\ e.space = None /\ e.size = None
  <2>1. Issue("item", "unmonitored") \in Make(item, k).issues
    BY <1>1, <1>6 DEF Make
  <2> QED
    BY <1>1, <2>1
<1> QED
  BY <1>3, <1>4, <1>5, <1>6

(***************************************************************************)
(* The settings after each layer, as functions of what is given.           *)
(***************************************************************************)
FromFile        == WithFile(Defaults)
FromEnvironment == WithEnvironment(FromFile)
FromArguments   == WithArguments(FromEnvironment)
Final           == ResolveDiscover(ResolvePaths(FromArguments))

Names == LayerKeys \cup {"discover"}

Says(layer, k) == layer[k] \notin {Absent, Junk, None}

LEMMA DefaultNames == DOMAIN Defaults = Names
BY DEF Defaults, Names, LayerKeys, NumberKeys, TextKeys

LEMMA GivenNames == \A layer, peers : DOMAIN Given(layer, peers) = LayerKeys
BY DEF Given

LEMMA CfgOK == input \in Inputs => FileOK(cfg)
<1> SUFFICES ASSUME input \in Inputs PROVE FileOK(cfg)
  OBVIOUS
<1>1. CASE Readable(ConfigPath)
  BY <1>1, StartupAssumption DEF cfg, Readable, InputOK
<1>2. CASE ~Readable(ConfigPath)
  <2>1. cfg = EmptyFile
    BY <1>2 DEF cfg
  <2>2. \A k \in LayerKeys : EmptyFile.given[k] = Absent
    BY DEF EmptyFile
  <2>3. EmptyFile.items = <<>> /\ EmptyFile.discover = Absent
    BY DEF EmptyFile
  <2>4. <<>> \in Seq(Items) /\ ~IsList(Absent)
    BY DEF IsList
  <2>5. LayerOK(EmptyFile.given, {None}, {Junk})
    BY <2>2, ConfigAssumption DEF LayerOK, LayerKeys, NumberKeys, PathKeys, TextKeys
  <2> QED
    BY <2>1, <2>2, <2>3, <2>4, <2>5 DEF FileOK, LayerKeys
<1> QED
  BY <1>1, <1>2

\* What the file leaves of every setting.
LEMMA FileValues ==
  /\ DOMAIN FromFile = Names
  /\ \A k \in LayerKeys \ {"peers", "config_path", "daemon"} :
       FromFile[k] = IF Says(cfg.given, k) THEN cfg.given[k] ELSE Defaults[k]
  /\ FromFile.daemon = IF cfg.given.daemon = Absent THEN FALSE
                       ELSE cfg.given.daemon \notin {FALSE, None}
  /\ FromFile.peers = IF IsList(cfg.given.peers) THEN PeersFrom(cfg.given.peers) ELSE <<>>
  /\ FromFile.discover = Discover(cfg.discover)
<1> DEFINE given == [Given(cfg.given, None) EXCEPT
                       !.daemon = DaemonOf(cfg.given.daemon), !.config_path = LoadedPath]
           s == Apply(Defaults, given)
           p == IF IsList(cfg.given.peers) THEN PeersFrom(cfg.given.peers) ELSE <<>>
<1>1. DOMAIN given = LayerKeys
  BY GivenNames
<1>2. /\ \A k \in LayerKeys \ {"peers", "config_path", "daemon"} :
           given[k] = IF Says(cfg.given, k) THEN cfg.given[k] ELSE None
      /\ given.daemon = DaemonOf(cfg.given.daemon)
  BY GivenNames DEF Given, Says, LayerKeys
<1> HIDE DEF given
<1>3. DOMAIN s = Names
      /\ \A k \in LayerKeys : s[k] = IF given[k] # None THEN given[k] ELSE Defaults[k]
  BY <1>1, DefaultNames DEF Apply, Names
<1>4. s.daemon = IF cfg.given.daemon = Absent THEN FALSE
                 ELSE cfg.given.daemon \notin {FALSE, None}
  <2>1. "daemon" \in LayerKeys /\ Defaults.daemon = FALSE
    BY DEF LayerKeys, Defaults
  <2>2. DaemonOf(cfg.given.daemon) = IF cfg.given.daemon = Absent THEN None
                                     ELSE cfg.given.daemon \notin {FALSE, None}
    BY DEF DaemonOf
  <2>3. None # TRUE /\ None # FALSE
    BY ConfigAssumption
  <2> QED
    BY <1>2, <1>3, <2>1, <2>2, <2>3
<1> HIDE DEF s
<1>5. FromFile = [s EXCEPT !.peers = p, !.discover = Discover(cfg.discover)]
  BY DEF FromFile, WithFile, s, given
<1> HIDE DEF p
<1>6. /\ DOMAIN FromFile = Names
      /\ \A k \in Names \ {"peers", "discover"} : FromFile[k] = s[k]
      /\ FromFile.peers = p /\ FromFile.discover = Discover(cfg.discover)
  BY <1>3, <1>5 DEF Names, LayerKeys
<1>7. LayerKeys \subseteq Names /\ "discover" \notin LayerKeys
      /\ "daemon" \in Names \ {"peers", "discover"}
  BY DEF Names, LayerKeys, NumberKeys, TextKeys
<1> QED
  BY <1>2, <1>3, <1>4, <1>6, <1>7 DEF p, Says

\* What the environment leaves of every setting.
LEMMA EnvironmentValues ==
  /\ DOMAIN FromEnvironment = Names
  /\ \A k \in LayerKeys \ {"peers"} :
       FromEnvironment[k] =
         IF Says(input.environment, k) THEN input.environment[k] ELSE FromFile[k]
  /\ FromEnvironment.peers =
       IF EnvironmentPeers(input.environment.peers) = None THEN FromFile.peers
       ELSE EnvironmentPeers(input.environment.peers)
  /\ FromEnvironment.discover = Discover(cfg.discover)
<1> DEFINE given == Given(input.environment, EnvironmentPeers(input.environment.peers))
<1>1. DOMAIN given = LayerKeys
  BY GivenNames
<1>2. /\ \A k \in LayerKeys \ {"peers"} :
           given[k] = IF Says(input.environment, k) THEN input.environment[k] ELSE None
      /\ given.peers = EnvironmentPeers(input.environment.peers)
  BY DEF Given, Says, LayerKeys
<1> HIDE DEF given
<1>3. FromEnvironment =
        [k \in Names |-> IF k \in LayerKeys /\ given[k] # None THEN given[k] ELSE FromFile[k]]
  BY <1>1, FileValues DEF FromEnvironment, WithEnvironment, Apply, given
<1>4. LayerKeys \subseteq Names /\ "discover" \notin LayerKeys /\ "discover" \in Names
      /\ "peers" \in LayerKeys
  BY DEF Names, LayerKeys, NumberKeys, TextKeys
<1> QED
  BY <1>2, <1>3, <1>4, FileValues DEF Says

\* What the command line leaves of every setting.
LEMMA ArgumentValues ==
  /\ DOMAIN FromArguments = Names
  /\ \A k \in LayerKeys \ {"peers", "config_path"} :
       FromArguments[k] =
         IF Says(input.arguments, k) THEN input.arguments[k] ELSE FromEnvironment[k]
  /\ FromArguments.config_path =
       IF LoadedPath = None THEN FromEnvironment.config_path ELSE LoadedPath
  /\ LET peers == IF IsList(input.arguments.peers) THEN PeersFrom(input.arguments.peers)
                  ELSE None
     IN  FromArguments.peers = IF peers = None THEN FromEnvironment.peers ELSE peers
  /\ FromArguments.discover = Discover(cfg.discover)
<1> DEFINE peers == IF IsList(input.arguments.peers) THEN PeersFrom(input.arguments.peers)
                    ELSE None
           given == [Given(input.arguments, peers) EXCEPT !.config_path = LoadedPath]
<1>1. DOMAIN given = LayerKeys
  BY GivenNames
<1>2. /\ \A k \in LayerKeys \ {"peers", "config_path"} :
           given[k] = IF Says(input.arguments, k) THEN input.arguments[k] ELSE None
      /\ given.peers = peers /\ given.config_path = LoadedPath
  BY GivenNames DEF Given, Says, LayerKeys
<1> HIDE DEF given
<1>3. FromArguments =
        [k \in Names |-> IF k \in LayerKeys /\ given[k] # None THEN given[k]
                         ELSE FromEnvironment[k]]
  BY <1>1, EnvironmentValues DEF FromArguments, WithArguments, Apply, given, peers
<1>4. LayerKeys \subseteq Names /\ "discover" \notin LayerKeys /\ "discover" \in Names
      /\ "peers" \in LayerKeys /\ "config_path" \in LayerKeys
  BY DEF Names, LayerKeys, NumberKeys, TextKeys
<1> HIDE DEF peers
<1> QED
  BY <1>2, <1>3, <1>4, EnvironmentValues DEF Says, peers

PathNames == {"run_dir", "pid_file", "log_file"}

\* What resolving makes of them.
LEMMA FinalValues ==
  LET s   == FromArguments
      run == Expand(s.run_dir, [port |-> s.web_port])
      all == [port |-> s.web_port, run_dir |-> run]
      own(k, default) == IF s.daemon /\ s[k] = None THEN default ELSE s[k]
      d   == Discover(cfg.discover)
      interval == IF d.interval = None THEN EffectivePeerInterval(Final) ELSE d.interval
  IN  /\ DOMAIN Final = Names
      /\ \A k \in LayerKeys \ PathNames : Final[k] = s[k]
      /\ Final.run_dir = run
      /\ Final.pid_file = Expand(own("pid_file", DEFAULT_PID_FILE), all)
      /\ Final.log_file = Expand(own("log_file", DEFAULT_LOG_FILE), all)
      /\ Final.discover.enabled =
           IF s.discover_peers = None THEN d.enabled ELSE s.discover_peers
      /\ Final.discover.filter =
           IF s.discover_filter = None THEN d.filter ELSE s.discover_filter
      /\ Final.discover.interval = interval
      /\ Final.discover.grace = IF d.grace = None THEN 3 * interval ELSE d.grace
<1> DEFINE s == FromArguments
           run == Expand(s.run_dir, [port |-> s.web_port])
           all == [port |-> s.web_port, run_dir |-> run]
           own(k, default) == IF s.daemon /\ s[k] = None THEN default ELSE s[k]
           pid == Expand(own("pid_file", DEFAULT_PID_FILE), all)
           log == Expand(own("log_file", DEFAULT_LOG_FILE), all)
           d   == Discover(cfg.discover)
           r   == ResolvePaths(s)
           interval == IF d.interval = None THEN EffectivePeerInterval(r) ELSE d.interval
           discover ==
             [enabled  |-> IF r.discover_peers = None THEN d.enabled ELSE r.discover_peers,
              filter   |-> IF r.discover_filter = None THEN d.filter ELSE r.discover_filter,
              interval |-> interval,
              grace    |-> IF d.grace = None THEN 3 * interval ELSE d.grace]
<1>1. r = [s EXCEPT !.run_dir = run, !.pid_file = pid, !.log_file = log]
  BY DEF ResolvePaths
<1>2. DOMAIN s = Names /\ s.discover = d
  BY ArgumentValues
<1>3. /\ PathNames \subseteq Names /\ "discover" \in Names \ PathNames
      /\ {"discover_peers", "discover_filter", "peer_interval", "poll_interval"}
           \subseteq Names \ (PathNames \cup {"discover"})
      /\ LayerKeys \subseteq Names /\ "discover" \notin LayerKeys
  BY DEF Names, LayerKeys, NumberKeys, TextKeys, PathNames
<1> HIDE DEF s, run, pid, log, d
<1>4. /\ DOMAIN r = Names /\ \A k \in Names \ PathNames : r[k] = s[k]
      /\ r.run_dir = run /\ r.pid_file = pid /\ r.log_file = log
  BY <1>1, <1>2, <1>3 DEF PathNames
<1>5. r.discover = d
  BY <1>2, <1>3, <1>4
<1> HIDE DEF r, discover
<1>6. Final = [r EXCEPT !.discover = discover]
  BY <1>5 DEF Final, ResolveDiscover, r, discover, s
<1>7. /\ DOMAIN Final = Names /\ \A k \in Names \ {"discover"} : Final[k] = r[k]
      /\ Final.discover = discover
  BY <1>3, <1>4, <1>6
<1>8. EffectivePeerInterval(Final) = EffectivePeerInterval(r)
  BY <1>3, <1>7 DEF EffectivePeerInterval
<1>9. /\ r.discover_peers = s.discover_peers /\ r.discover_filter = s.discover_filter
  BY <1>3, <1>4
<1>10. /\ discover.enabled = IF s.discover_peers = None THEN d.enabled ELSE s.discover_peers
       /\ discover.filter = IF s.discover_filter = None THEN d.filter ELSE s.discover_filter
       /\ discover.interval = interval
       /\ discover.grace = IF d.grace = None THEN 3 * interval ELSE d.grace
  BY <1>9 DEF discover
<1>11. /\ \A k \in LayerKeys \ PathNames : Final[k] = s[k]
       /\ Final.run_dir = run /\ Final.pid_file = pid /\ Final.log_file = log
  BY <1>3, <1>4, <1>7 DEF PathNames
<1> QED
  BY <1>7, <1>8, <1>10, <1>11 DEF s, run, pid, log, d

(***************************************************************************)
(* How far main has come, and what it has got.                             *)
(***************************************************************************)
Stages ==
  {"load", "exited", "file", "raised", "environment", "arguments", "resolve",
   "entries", "ready"}

AfterFile        == {"environment", "arguments", "resolve", "entries", "ready"}
AfterEnvironment == {"arguments", "resolve", "entries", "ready"}
AfterArguments   == {"resolve", "entries", "ready"}
AfterResolve     == {"entries", "ready"}

\* At every stage, the settings are what the layers so far make of the defaults,
\* and their problems are on the list.
StageInv ==
  /\ input \in Inputs
  /\ config = cfg.items
  /\ stage \in Stages
  /\ stage \in {"load", "file"} => settings = Defaults
  /\ stage = "environment" => settings = FromFile
  /\ stage = "arguments" => settings = FromEnvironment
  /\ stage = "resolve" => settings = FromArguments
  /\ stage \in AfterResolve =>
       settings = Final /\ default_delay = FromArguments.default_delay
  /\ stage \in AfterFile => ~CannotRead /\ FileIssues \subseteq reported
  /\ stage \in AfterEnvironment => EnvironmentIssues \subseteq reported
  /\ stage \in AfterArguments =>
       ArgumentIssues \subseteq reported /\ ~HasMalformed(input.arguments.peers)
  /\ stage = "raised" => CannotRead \/ HasMalformed(input.arguments.peers)
  /\ stage \notin AfterResolve => EntriesInit
  /\ stage = "ready" => ~More /\ ~raised

StartInv == StageInv /\ EntriesInv

LEMMA InitStage == StartInit => StartInv
<1> SUFFICES ASSUME StartInit PROVE StartInv
  OBVIOUS
<1>1. input \in Inputs /\ config = cfg.items /\ stage = "load" /\ settings = Defaults
      /\ EntriesInit
  BY DEF StartInit
<1>2. config \in Seq(Items)
  BY <1>1, CfgOK DEF FileOK
<1>3. EntriesInv
  BY <1>1, <1>2, InitEntries
<1> QED
  BY <1>1, <1>3 DEF StartInv, StageInv, Stages, AfterFile, AfterEnvironment,
     AfterArguments, AfterResolve

LEMMA SameInput ==
  ASSUME input' = input
  PROVE  /\ cfg' = cfg /\ (CannotRead' <=> CannotRead)
         /\ FromFile' = FromFile /\ FromEnvironment' = FromEnvironment
         /\ FromArguments' = FromArguments /\ Final' = Final
         /\ FileIssues' = FileIssues /\ EnvironmentIssues' = EnvironmentIssues
         /\ ArgumentIssues' = ArgumentIssues
<1>1. ConfigPath' = ConfigPath
  BY DEF ConfigPath
<1>2. cfg' = cfg
  BY <1>1 DEF cfg, Readable
<1>3. LoadedPath' = LoadedPath
  BY <1>1, <1>2 DEF LoadedPath
<1>4. \A s : WithFile(s)' = WithFile(s) /\ WithEnvironment(s)' = WithEnvironment(s)
             /\ WithArguments(s)' = WithArguments(s)
  BY <1>2, <1>3 DEF WithFile, WithEnvironment, WithArguments
<1>5. FromFile' = FromFile
  BY <1>4 DEF FromFile
<1>6. FromEnvironment' = FromEnvironment
  BY <1>4, <1>5 DEF FromEnvironment
<1>7. FromArguments' = FromArguments
  BY <1>4, <1>6 DEF FromArguments
<1>8. Final' = Final
  BY <1>7 DEF Final
<1>9. (CannotRead' <=> CannotRead)
  BY <1>2 DEF CannotRead
<1>10. FileIssues' = FileIssues
  BY <1>2 DEF FileIssues
<1>11. EnvironmentIssues' = EnvironmentIssues /\ ArgumentIssues' = ArgumentIssues
  BY DEF EnvironmentIssues, ArgumentIssues
<1> QED
  BY <1>2, <1>5, <1>6, <1>7, <1>8, <1>9, <1>10, <1>11

LEMMA SameEntries ==
  ASSUME UNCHANGED <<config, index, entries, issues, raised>>,
         default_delay' = default_delay \/ index = 1
  PROVE  EntriesInv => EntriesInv'
<1> SUFFICES ASSUME EntriesInv PROVE EntriesInv'
  OBVIOUS
<1>1. CASE default_delay' = default_delay
  <2>1. \A item, k : Make(item, k)' = Make(item, k) /\ TextEntry(item, k)' = TextEntry(item, k)
    BY <1>1 DEF Make, TextEntry, Delay
  <2>2. WithPath' = WithPath /\ Taken' = Taken
    BY DEF WithPath, Taken
  <2>3. \A k : Made(k)' = Made(k)
    BY <2>1 DEF Made
  <2>4. \A k : (Make(config[k], k).issues)' = Make(config[k], k).issues
    BY <2>1
  <2>5. {Made(k) : k \in WithPath}' = {Made(k) : k \in WithPath}
    BY <2>2, <2>3
  <2>6. {Make(config[k], k).issues : k \in 1 .. Len(config)}'
          = {Make(config[k], k).issues : k \in 1 .. Len(config)}
    BY <2>4
  <2> QED
    BY <2>2, <2>3, <2>4, <2>5, <2>6 DEF EntriesInv
<1>2. CASE index = 1
  <2>1. WithPath' = {} /\ Taken' = {} /\ WithPath = {}
    BY <1>2 DEF WithPath, Taken
  <2> DEFINE S == {Made(k) : k \in WithPath}
             T == {Made(k) : k \in WithPath}'
             I == {Make(config[k], k).issues : k \in 1 .. Len(config)}
                   \cup {{}, {Issue("item", "path")}}
             J == {Make(config[k], k).issues : k \in 1 .. Len(config)}'
                   \cup {{}, {Issue("item", "path")}}
  <2>2. S = {} /\ T = {}
    BY <2>1
  <2>3. entries \in Seq(S) /\ issues \in Seq(I) /\ Len(issues) = 0
    BY <1>2 DEF EntriesInv
  <2> HIDE DEF S, T, I, J
  <2>4. issues \in Seq(J)
    BY <2>3
  <2>5. entries' \in Seq(T) /\ issues' \in Seq(J)
    BY <2>2, <2>3, <2>4
  <2> QED
    BY <2>1, <2>5 DEF EntriesInv, T, J
<1> QED
  BY <1>1, <1>2

LEMMA NextStage == StartInv /\ [StartNext]_vars => StartInv'
<1> SUFFICES ASSUME StartInv, [StartNext]_vars PROVE StartInv'
  OBVIOUS
<1> USE DEF Stages, AfterFile, AfterEnvironment, AfterArguments, AfterResolve
<1>1. /\ stage \in Stages /\ StageInv /\ EntriesInv
  BY DEF StartInv, StageInv
<1>2. input' = input /\ config' = config
  BY DEF StartNext, LoadConfig, FileRaises, ApplyFile, ApplyEnvironment,
     ArgumentsRaise, ApplyArguments, ResolveSettings, MakeEntries, Finish, Ended, vars, entryVars, TakeItem, TakeText,
     TakePathless, TakeMapping, Raise, Took
<1>3. /\ cfg' = cfg /\ (CannotRead' <=> CannotRead)
      /\ FromFile' = FromFile /\ FromEnvironment' = FromEnvironment
      /\ FromArguments' = FromArguments /\ Final' = Final
      /\ FileIssues' = FileIssues /\ EnvironmentIssues' = EnvironmentIssues
      /\ ArgumentIssues' = ArgumentIssues
      /\ (HasMalformed(input.arguments.peers)' <=> HasMalformed(input.arguments.peers))
  BY <1>2, SameInput DEF HasMalformed
<1>4. /\ input' \in Inputs /\ config' = cfg'.items
  BY <1>1, <1>2, <1>3 DEF StageInv
<1>5. ASSUME UNCHANGED <<entryVars, input>>
      PROVE  /\ EntriesInv' /\ (EntriesInit => EntriesInit') /\ (More' <=> More)
             /\ raised' = raised /\ default_delay' = default_delay
  <2>1. UNCHANGED <<config, index, entries, issues, raised, default_delay>>
    BY <1>5 DEF entryVars
  <2>2. EntriesInv'
    BY <1>1, <2>1, SameEntries
  <2> QED
    BY <2>1, <2>2 DEF EntriesInit, More
<1>6. CASE LoadConfig
  <2>1. stage = "load" /\ stage' \in {"exited", "file"} /\ settings' = settings
        /\ UNCHANGED <<entryVars, input>>
    BY <1>6 DEF LoadConfig
  <2> QED
    BY <1>1, <1>4, <1>5, <2>1 DEF StartInv, StageInv
<1>7. CASE FileRaises
  <2>1. stage = "file" /\ stage' = "raised" /\ CannotRead /\ UNCHANGED <<entryVars, input>>
    BY <1>7 DEF FileRaises
  <2> QED
    BY <1>1, <1>3, <1>4, <1>5, <2>1 DEF StartInv, StageInv
<1>8. CASE ApplyFile
  <2>1. stage = "file" /\ stage' = "environment" /\ UNCHANGED <<entryVars, input>>
        /\ ~CannotRead /\ settings' = FromFile /\ reported' = FileIssues
    BY <1>1, <1>8 DEF ApplyFile, FromFile, StageInv
  <2> QED
    BY <1>1, <1>3, <1>4, <1>5, <2>1 DEF StartInv, StageInv
<1>9. CASE ApplyEnvironment
  <2>1. stage = "environment" /\ stage' = "arguments" /\ UNCHANGED <<entryVars, input>>
        /\ settings' = FromEnvironment /\ reported' = reported \cup EnvironmentIssues
    BY <1>1, <1>9 DEF ApplyEnvironment, FromEnvironment, StageInv
  <2> QED
    BY <1>1, <1>3, <1>4, <1>5, <2>1 DEF StartInv, StageInv
<1>15. CASE ArgumentsRaise
  <2>1. stage = "arguments" /\ stage' = "raised" /\ UNCHANGED <<entryVars, input>>
        /\ HasMalformed(input.arguments.peers)
    BY <1>15 DEF ArgumentsRaise
  <2> QED
    BY <1>1, <1>3, <1>4, <1>5, <2>1 DEF StartInv, StageInv
<1>10. CASE ApplyArguments
  <2>1. stage = "arguments" /\ stage' = "resolve" /\ UNCHANGED <<entryVars, input>>
        /\ ~HasMalformed(input.arguments.peers)
        /\ settings' = FromArguments /\ reported' = reported \cup ArgumentIssues
    BY <1>1, <1>10 DEF ApplyArguments, FromArguments, StageInv
  <2> QED
    BY <1>1, <1>3, <1>4, <1>5, <2>1 DEF StartInv, StageInv
<1>11. CASE ResolveSettings
  <2>1. /\ stage = "resolve" /\ stage' = "entries" /\ reported \subseteq reported'
        /\ settings' = Final /\ default_delay' = FromArguments.default_delay
        /\ UNCHANGED <<config, index, entries, issues, raised>> /\ index = 1
    BY <1>1, <1>11 DEF ResolveSettings, Final, StageInv, EntriesInit
  <2>2. EntriesInv'
    BY <1>1, <2>1, SameEntries
  <2> QED
    BY <1>1, <1>3, <1>4, <2>1, <2>2 DEF StartInv, StageInv
<1>12. CASE MakeEntries
  <2>1. stage = "entries" /\ TakeItem /\ UNCHANGED <<stage, settings, reported>>
    BY <1>12 DEF MakeEntries
  <2>2. default_delay' = default_delay
    BY <2>1 DEF TakeItem, TakeText, TakePathless, TakeMapping, Raise, Took
  <2>3. EntriesInv'
    BY <1>1, <2>1, NextEntries
  <2> QED
    BY <1>1, <1>3, <1>4, <2>1, <2>2, <2>3 DEF StartInv, StageInv
<1>13. CASE Finish
  <2>1. /\ stage = "entries" /\ stage' = "ready" /\ reported \subseteq reported'
        /\ settings' = settings /\ UNCHANGED <<entryVars, input>> /\ ~More /\ ~raised
    BY <1>13 DEF Finish
  <2> QED
    BY <1>1, <1>3, <1>4, <1>5, <2>1 DEF StartInv, StageInv
<1>14. CASE UNCHANGED vars
  <2>1. UNCHANGED <<entryVars, input>> /\ UNCHANGED <<stage, settings, reported>>
    BY <1>14 DEF vars
  <2> QED
    BY <1>1, <1>3, <1>4, <1>5, <2>1 DEF StartInv, StageInv
<1> QED
  BY <1>6, <1>7, <1>8, <1>9, <1>10, <1>11, <1>12, <1>13, <1>14, <1>15
  DEF StartNext, Ended

LEMMA StartInvHolds == StartSpec => []StartInv
<1> QED
  BY InitStage, NextStage, PTL DEF StartSpec

\* Unless an item of it holds an infinite number, every item of a configuration
\* with a path, and every limit and delay in it that can be read, has its place in
\* the entries in the end, whatever else is wrong with it and its neighbours; and
\* nothing but an infinite number ends entries_from_config with an exception.
THEOREM RestSurvivesTheorem == StartSpec => []RestSurvives
<1>1. StartInv => RestSurvives
  BY RestLemma DEF StartInv
<1> QED
  BY <1>1, StartInvHolds, PTL

\* An order of limits that _validate_order reports is one the poller refuses on
\* every disk, and one the poller refuses on some disk has been reported, unless
\* the block mixes percentages and byte counts, which _validate_order never reports.
THEOREM OrderCheckAgreesTheorem == StartSpec => []OrderCheckAgrees
<1>1. StartInv => OrderCheckAgrees
  BY OrderLemma DEF StartInv
<1> QED
  BY <1>1, StartInvHolds, PTL

\* An entry that can never raise an alarm is reported as such when the
\* configuration is read, whatever it holds.
THEOREM SilentEntryTheorem == StartSpec => []SilentEntryIsReported
<1>1. StartInv => SilentEntryIsReported
  BY SilentLemma DEF StartInv
<1> QED
  BY <1>1, StartInvHolds, PTL

\* Whatever main ends with an exception over stands in the file or on the command
\* line, whatever the environment holds.
THEOREM EnvironmentIsHarmlessTheorem == StartSpec => []EnvironmentIsHarmless
<1>1. ASSUME StartInv, stage = "raised" PROVE EnvironmentIsHarmless
  BY <1>1 DEF StartInv, StageInv, EnvironmentIsHarmless, CannotRead
<1>2. ASSUME StartInv, raised PROVE EnvironmentIsHarmless
  BY <1>2 DEF StartInv, StageInv, EntriesInv, EnvironmentIsHarmless
<1>3. StartInv => EnvironmentIsHarmless
  BY <1>1, <1>2 DEF EnvironmentIsHarmless
<1> QED
  BY <1>3, StartInvHolds, PTL

(***************************************************************************)
(* Lists of peers.                                                         *)
(***************************************************************************)
\* The library's least element of a set of numbers.
LEMMA SmallestOf ==
  ASSUME NEW S \in SUBSET Nat, S # {}
  PROVE  \E m \in S : \A n \in S : m <= n
<1>1. PICK m \in S : \A n \in S : ~ (<<n, m>> \in OpToRel(<, Nat))
  BY NatLessThanWellFounded, WFMin
<1>2. \A n \in S : ~ (n < m)
  BY <1>1 DEF OpToRel
<1> QED
  BY <1>2

LEMMA Count ==
  ASSUME NEW n \in Nat
  PROVE  IsFiniteSet(1 .. n) /\ Cardinality(1 .. n) = n
<1>1. n \in Int /\ 1 \in Int /\ (IF 1 > n THEN 0 ELSE n - 1 + 1) = n
  OBVIOUS
<1>2. IsFiniteSet(1 .. n) /\ Cardinality(1 .. n) = IF 1 > n THEN 0 ELSE n - 1 + 1
  BY <1>1, FS_Interval
<1> QED
  BY <1>1, <1>2

\* The members of a finite set of numbers, counted upwards, are numbered from 1 on.
LEMMA Ranks ==
  ASSUME NEW n \in Nat, NEW S \in SUBSET (1 .. n)
  PROVE  LET rank(k) == Cardinality({j \in S : j <= k})
         IN  /\ Cardinality(S) \in Nat
             /\ \A k \in S : rank(k) \in 1 .. Cardinality(S)
             /\ \A k, m \in S : rank(k) = rank(m) => k = m
             /\ \A i \in 1 .. Cardinality(S) : \E k \in S : rank(k) = i
<1> DEFINE upTo(k) == {j \in S : j <= k}
           rank(k) == Cardinality(upTo(k))
           N == Cardinality(S)
<1>1. IsFiniteSet(S) /\ N \in Nat
  BY Count, FS_Subset, FS_CardinalityType
<1>2. ASSUME NEW k \in S PROVE rank(k) \in 1 .. N
  <2>1. upTo(k) \in SUBSET S /\ k \in upTo(k)
    OBVIOUS
  <2> HIDE DEF upTo
  <2>2. IsFiniteSet(upTo(k)) /\ rank(k) <= N /\ rank(k) \in Nat
    BY <1>1, <2>1, FS_Subset, FS_CardinalityType
  <2>3. rank(k) # 0
    BY <2>1, <2>2, FS_EmptySet
  <2> HIDE DEF rank, N
  <2> QED
    BY <1>1, <2>2, <2>3
<1>3. ASSUME NEW k \in S, NEW m \in S, k < m PROVE rank(k) # rank(m)
  <2>0. S \subseteq Int /\ k \in Int /\ m \in Int
    OBVIOUS
  <2>4. ASSUME NEW j \in S, j <= k PROVE j <= m
    BY <1>3, <2>0, <2>4
  <2>5. m \in upTo(m) /\ m \notin upTo(k) /\ upTo(m) \subseteq S
    BY <1>3, <2>0
  <2>1. upTo(k) \in SUBSET upTo(m) /\ m \in upTo(m) /\ m \notin upTo(k)
        /\ upTo(m) \in SUBSET S
    BY <2>4, <2>5, Zenon
  <2> HIDE DEF upTo
  <2>2. IsFiniteSet(upTo(m))
    BY <1>1, <2>1, FS_Subset
  <2> QED
    BY <2>1, <2>2, FS_Subset
<1>4. \A k, m \in S : rank(k) = rank(m) => k = m
  <2> SUFFICES ASSUME NEW k \in S, NEW m \in S, k # m PROVE rank(k) # rank(m)
    OBVIOUS
  <2>1. k < m \/ m < k
    OBVIOUS
  <2> QED
    BY <1>3, <2>1
<1> HIDE DEF rank, N
<1> DEFINE f == [k \in S |-> rank(k)]
<1>5. f \in Injection(S, 1 .. N)
  BY <1>2, <1>4 DEF Injection, IsInjective
<1>6. IsFiniteSet(1 .. N) /\ Cardinality(1 .. N) = N
  BY <1>1, Count
<1>7. f \in Surjection(S, 1 .. N)
  <2>1. Cardinality(S) = Cardinality(1 .. N)
    BY <1>6 DEF N
  <2> QED
    BY <1>5, <1>6, <2>1, FS_Injection
<1>8. \A i \in 1 .. N : \E k \in S : rank(k) = i
  BY <1>7 DEF Surjection
<1> QED
  BY <1>1, <1>2, <1>4, <1>8 DEF N, rank

\* Item k is usable and the first with its URL.
First(items, k) ==
  items[k].url # Junk /\ \A j \in 1 .. k - 1 : items[j].url # items[k].url

LEMMA PeerTyped ==
  ASSUME NEW item \in PeerItems, item.url # Junk
  PROVE  Peer(item) \in Peers /\ Peer(item).url = item.url
<1>1. item.url \in STRING \cup {Malformed} /\ item.timeout \in Int \cup {Absent, Junk}
  BY DEF PeerItems
<1> DEFINE enabled == item.enabled \notin {FALSE, None}
           timeout == IF item.timeout \in {Absent, Junk} THEN None ELSE item.timeout
<1>2. timeout \in Int \cup {None}
  BY <1>1
<1>3. enabled \in BOOLEAN
  BY Zenon
<1>4. Peer(item) = [url |-> item.url, enabled |-> enabled, timeout |-> timeout]
  BY DEF Peer
<1> HIDE DEF enabled, timeout
<1> QED
  BY <1>1, <1>2, <1>3, <1>4 DEF Peers

\* The peers are the first usable items of every URL, and with nothing to leave
\* out they are in the order of the items.
LEMMA PeersFromFacts ==
  ASSUME NEW items \in Seq(PeerItems)
  PROVE  LET p == PeersFrom(items)
         IN  /\ p \in Seq(Peers)
             /\ \A m, n \in 1 .. Len(p) : p[m].url = p[n].url => m = n
             /\ \A n \in 1 .. Len(p) :
                  \E k \in 1 .. Len(items) : First(items, k) /\ p[n].url = items[k].url
             /\ \A k \in 1 .. Len(items) :
                  items[k].url # Junk => \E n \in 1 .. Len(p) : p[n].url = items[k].url
             /\ (\A k \in 1 .. Len(items) : First(items, k)) =>
                  /\ Len(p) = Len(items)
                  /\ \A n \in 1 .. Len(p) : p[n].url = items[n].url
<1> DEFINE p == PeersFrom(items)
           L == Len(items)
           kept == {k \in DOMAIN items : /\ items[k].url # Junk
                                         /\ \A j \in 1 .. k - 1 : items[j].url # items[k].url}
           rank(k) == Cardinality({j \in kept : j <= k})
           nth(n) == CHOOSE k \in kept : rank(k) = n
           N == Cardinality(kept)
<1>1. L \in Nat /\ DOMAIN items = 1 .. L /\ \A k \in 1 .. L : items[k] \in PeerItems
  OBVIOUS
<1>2. kept \in SUBSET (1 .. L) /\ \A k \in 1 .. L : k \in kept <=> First(items, k)
  BY <1>1 DEF First
<1>3. p = [n \in 1 .. N |-> Peer(items[nth(n)])]
  BY DEF PeersFrom
<1> HIDE DEF kept, p, L
<1>4. /\ N \in Nat
      /\ \A k \in kept : rank(k) \in 1 .. N
      /\ \A k, m \in kept : rank(k) = rank(m) => k = m
      /\ \A i \in 1 .. N : \E k \in kept : rank(k) = i
  BY <1>1, <1>2, Ranks
<1> HIDE DEF rank, N
<1>5. \A n \in 1 .. N : nth(n) \in kept /\ rank(nth(n)) = n
  BY <1>4, Zenon
<1>6. \A k \in kept : nth(rank(k)) = k
  BY <1>4, <1>5
<1> HIDE DEF nth
<1>7. \A n \in 1 .. N : Peer(items[nth(n)]) \in Peers
                        /\ Peer(items[nth(n)]).url = items[nth(n)].url
  <2> SUFFICES ASSUME NEW n \in 1 .. N
               PROVE  Peer(items[nth(n)]) \in Peers
                      /\ Peer(items[nth(n)]).url = items[nth(n)].url
    OBVIOUS
  <2>1. nth(n) \in 1 .. L /\ items[nth(n)].url # Junk /\ items[nth(n)] \in PeerItems
    BY <1>1, <1>2, <1>5 DEF First
  <2> QED
    BY <2>1, PeerTyped
<1>8. /\ p \in Seq(Peers) /\ Len(p) = N
      /\ \A n \in 1 .. N : p[n].url = items[nth(n)].url
  <2>1. \A n \in 1 .. N : p[n] \in Peers /\ p[n].url = items[nth(n)].url
    BY <1>3, <1>7
  <2>2. p \in [1 .. N -> Peers]
    BY <1>3, <1>7
  <2> QED
    BY <1>4, <2>1, <2>2
<1>9. \A m, n \in 1 .. N : p[m].url = p[n].url => m = n
  <2> SUFFICES ASSUME NEW m \in 1 .. N, NEW n \in 1 .. N, p[m].url = p[n].url
               PROVE  m = n
    OBVIOUS
  <2>1. /\ nth(m) \in 1 .. L /\ nth(n) \in 1 .. L
        /\ items[nth(m)].url = items[nth(n)].url
        /\ First(items, nth(m)) /\ First(items, nth(n))
    BY <1>2, <1>5, <1>8
  <2>2. ~ nth(m) \in 1 .. nth(n) - 1 /\ ~ nth(n) \in 1 .. nth(m) - 1
    BY <2>1 DEF First
  <2>3. nth(m) = nth(n)
    BY <2>1, <2>2, <1>1
  <2> QED
    BY <2>3, <1>5
<1>10. ASSUME NEW n \in 1 .. N
       PROVE  \E k \in 1 .. L : First(items, k) /\ p[n].url = items[k].url
  BY <1>2, <1>5, <1>8
<1>11. ASSUME NEW k \in 1 .. L, items[k].url # Junk
       PROVE  \E n \in 1 .. N : p[n].url = items[k].url
  <2> DEFINE S == {j \in 1 .. L : items[j].url = items[k].url}
  <2>1. S \in SUBSET Nat /\ k \in S
    BY <1>1
  <2>2. PICK m \in S : \A j \in S : m <= j
    BY <2>1, SmallestOf
  <2>3. ASSUME NEW j \in 1 .. m - 1 PROVE items[j].url # items[m].url
    <3>1. j \in 1 .. L /\ ~ m <= j /\ items[m].url = items[k].url
      BY <1>1, <2>2
    <3> QED
      BY <2>2, <3>1
  <2>4. m \in 1 .. L /\ items[m].url = items[k].url
    BY <2>2
  <2>5. m \in kept
    BY <1>2, <1>11, <2>3, <2>4 DEF First
  <2>6. rank(m) \in 1 .. N /\ nth(rank(m)) = m
    BY <1>4, <1>6, <2>5
  <2>7. p[rank(m)].url = items[k].url
    BY <1>8, <2>4, <2>6
  <2> QED
    BY <2>6, <2>7
<1>12. ASSUME \A k \in 1 .. L : First(items, k)
       PROVE  N = L /\ \A n \in 1 .. N : p[n].url = items[n].url
  <2>1. kept = 1 .. L
    BY <1>2, <1>12
  <2>2. N = L
    BY <1>1, <2>1, Count DEF N
  <2>3. ASSUME NEW n \in 1 .. L PROVE nth(n) = n
    <3>1. n \in Nat /\ {j \in 1 .. L : j <= n} = 1 .. n
      BY <1>1
    <3>2. rank(n) = n
      BY <2>1, <3>1, Count DEF rank
    <3> QED
      BY <1>6, <2>1, <3>2
  <2> QED
    BY <1>8, <2>2, <2>3
<1> QED
  BY <1>8, <1>9, <1>10, <1>11, <1>12 DEF p, L

Urls(list) == [k \in DOMAIN list |-> list[k].url]

LEMMA PeersUrls ==
  ASSUME NEW items \in Seq(PeerItems)
  PROVE  LET p == PeersFrom(items)
         IN  /\ p # None
             /\ Cardinality(ToSet(Urls(p))) = Len(Urls(p))
             /\ ToSet(Urls(p)) = ToSet(Urls(items)) \ {Junk}
             /\ (\A k \in 1 .. Len(items) : First(items, k)) => Urls(p) = Urls(items)
<1> DEFINE p == PeersFrom(items)
           N == Len(p)
           L == Len(items)
           P == ToSet(Urls(p))
           I == ToSet(Urls(items))
<1>1. /\ p \in Seq(Peers) /\ N \in Nat /\ L \in Nat
      /\ DOMAIN p = 1 .. N /\ DOMAIN items = 1 .. L
      /\ Len(Urls(p)) = N
  <2>1. p \in Seq(Peers)
    BY PeersFromFacts
  <2> HIDE DEF p
  <2>2. Len(Urls(p)) = N
    BY <2>1 DEF Urls
  <2> QED
    BY <2>1, <2>2
<1>2. p # None
  BY <1>1, StartupAssumption
<1>3. /\ \A m, n \in 1 .. N : p[m].url = p[n].url => m = n
      /\ \A n \in 1 .. N : \E k \in 1 .. L : First(items, k) /\ p[n].url = items[k].url
      /\ \A k \in 1 .. L : items[k].url # Junk => \E n \in 1 .. N : p[n].url = items[k].url
      /\ (\A k \in 1 .. L : First(items, k)) =>
           N = L /\ \A n \in 1 .. N : p[n].url = items[n].url
  BY PeersFromFacts
<1> HIDE DEF p, N, L
<1>4. P = {p[n].url : n \in 1 .. N} /\ I = {items[k].url : k \in 1 .. L}
  BY <1>1 DEF Urls, ToSet
<1> HIDE DEF P, I
<1>5. Cardinality(P) = N
  <2> DEFINE f == [n \in 1 .. N |-> p[n].url]
  <2>1. f \in Bijection(1 .. N, P)
    BY <1>3, <1>4 DEF Bijection, Injection, Surjection, IsInjective
  <2>2. ExistsBijection(1 .. N, P)
    BY <2>1 DEF ExistsBijection
  <2> QED
    BY <1>1, <2>2, FS_CountingElements
<1>6. P = I \ {Junk}
  <2>1. ASSUME NEW u \in P PROVE u \in I /\ u # Junk
    BY <1>3, <1>4 DEF First
  <2>2. ASSUME NEW u \in I, u # Junk PROVE u \in P
    BY <1>3, <1>4, <2>2
  <2> QED
    BY <2>1, <2>2
<1>7. ASSUME \A k \in 1 .. L : First(items, k) PROVE Urls(p) = Urls(items)
  <2>1. N = L /\ \A n \in 1 .. N : p[n].url = items[n].url
    BY <1>3, <1>7
  <2>2. Urls(p) = [n \in 1 .. N |-> p[n].url] /\ Urls(items) = [n \in 1 .. L |-> items[n].url]
    BY <1>1, Zenon DEF Urls
  <2> QED
    BY <2>1, <2>2
<1> QED
  BY <1>1, <1>2, <1>5, <1>6, <1>7 DEF P, I, p, N, L

LEMMA NoPeerIssues ==
  ASSUME NEW items \in Seq(PeerItems), NEW at, PeerIssues(at, items) = {}
  PROVE  \A k \in 1 .. Len(items) : First(items, k)
BY DEF PeerIssues, First

\* The list of peers main starts with is that of one layer, never a mixture, with
\* nobody twice; a higher list was refused whole and reported.
THEOREM PeersComeFromOneLayerTheorem == StartSpec => []PeersComeFromOneLayer
<1>1. ASSUME StartInv, stage = "ready"
      PROVE  LET urls == Urls(settings.peers)
                 written(l) == IF l = 0 \/ ~IsList(Layers[l].peers) THEN <<>>
                               ELSE Urls(Layers[l].peers)
             IN  /\ Cardinality(ToSet(urls)) = Len(urls)
                 /\ \E l \in 0 .. 3 :
                      /\ ToSet(urls) = ToSet(written(l)) \ {Junk}
                      /\ \A m \in l + 1 .. 3 :
                           IsList(Layers[m].peers) => Issue("environment", "peers") \in reported
                      /\ reported = {} => urls = written(l)
  <2> DEFINE file == cfg.given.peers
             env  == input.environment.peers
             args == input.arguments.peers
             urls == Urls(settings.peers)
             written(l) == IF l = 0 \/ ~IsList(Layers[l].peers) THEN <<>>
                           ELSE Urls(Layers[l].peers)
  <2>1. /\ input \in Inputs /\ settings = Final
        /\ FileIssues \subseteq reported /\ EnvironmentIssues \subseteq reported
        /\ ArgumentIssues \subseteq reported
    BY <1>1 DEF StartInv, StageInv, AfterFile, AfterEnvironment, AfterArguments, AfterResolve
  <2>2. /\ IsList(file) => file \in Seq(PeerItems)
        /\ IsList(env) => env \in Seq(PeerItems)
        /\ IsList(args) => args \in Seq(PeerItems)
    BY <2>1, CfgOK, StartupAssumption DEF FileOK, InputOK, LayerOK, IsList
  <2>3. settings.peers = FromArguments.peers
    BY <2>1, FinalValues DEF LayerKeys, PathNames, NumberKeys, TextKeys
  <2>4. /\ Layers[1].peers = file /\ Layers[2].peers = env /\ Layers[3].peers = args
    BY DEF Layers
  <2>5. CASE IsList(args)
    <3>1. args \in Seq(PeerItems) /\ PeersFrom(args) # None
      BY <2>2, <2>5, PeersUrls
    <3>2. settings.peers = PeersFrom(args)
      BY <2>3, <2>5, <3>1, ArgumentValues
    <3>3. written(3) = Urls(args)
      BY <2>4, <2>5
    <3>4. reported = {} => urls = written(3)
      <4>1. reported = {} => PeerIssues("arguments", args) = {}
        BY <2>1, <2>5 DEF ArgumentIssues
      <4> QED
        BY <3>1, <3>2, <3>3, <4>1, PeersUrls, NoPeerIssues
    <3>5. Cardinality(ToSet(urls)) = Len(urls) /\ ToSet(urls) = ToSet(written(3)) \ {Junk}
      BY <3>1, <3>2, <3>3, PeersUrls
    <3> HIDE DEF urls, written
    <3>6. 3 \in 0 .. 3 /\ 3 + 1 .. 3 = {}
      OBVIOUS
    <3> QED
      BY <3>4, <3>5, <3>6 DEF urls, written
  <2>6. CASE ~IsList(args) /\ EnvironmentPeers(env) # None
    <3>1. IsList(env) /\ PeerIssues("environment", env) = {} /\ EnvironmentPeers(env) = PeersFrom(env)
          /\ env \in Seq(PeerItems)
      BY <2>2, <2>6 DEF EnvironmentPeers
    <3>2. settings.peers = PeersFrom(env)
      BY <2>3, <2>6, <3>1, ArgumentValues, EnvironmentValues
    <3>3. written(2) = Urls(env)
      BY <2>4, <3>1
    <3>4. /\ Cardinality(ToSet(urls)) = Len(urls) /\ ToSet(urls) = ToSet(written(2)) \ {Junk}
          /\ urls = written(2)
      BY <3>1, <3>2, <3>3, PeersUrls, NoPeerIssues
    <3>5. \A m \in 2 + 1 .. 3 : ~IsList(Layers[m].peers)
      <4>1. \A m \in 2 + 1 .. 3 : m = 3
        OBVIOUS
      <4> QED
        BY <2>4, <2>6, <4>1
    <3> HIDE DEF urls, written
    <3>6. 2 \in 0 .. 3
      OBVIOUS
    <3> QED
      BY <3>4, <3>5, <3>6 DEF urls, written
  <2>7. CASE ~IsList(args) /\ EnvironmentPeers(env) = None
    <3>1. IsList(env) => Issue("environment", "peers") \in reported
      BY <2>1, <2>7 DEF EnvironmentIssues
    <3>2. settings.peers = IF IsList(file) THEN PeersFrom(file) ELSE <<>>
      BY <2>3, <2>7, ArgumentValues, EnvironmentValues, FileValues
    <3>3. \A m \in 1 + 1 .. 3 :
            IsList(Layers[m].peers) => Issue("environment", "peers") \in reported
      <4>1. \A m \in 1 + 1 .. 3 : m = 2 \/ m = 3
        OBVIOUS
      <4> QED
        BY <2>4, <2>7, <3>1, <4>1
    <3>4. CASE IsList(file)
      <4>1. file \in Seq(PeerItems) /\ settings.peers = PeersFrom(file)
        BY <2>2, <3>2, <3>4
      <4>2. written(1) = Urls(file)
        BY <2>4, <3>4
      <4>3. reported = {} => urls = written(1)
        <5>1. reported = {} => PeerIssues("file", file) = {}
          BY <2>1, <3>4 DEF FileIssues
        <5> QED
          BY <4>1, <4>2, <5>1, PeersUrls, NoPeerIssues
      <4>4. Cardinality(ToSet(urls)) = Len(urls) /\ ToSet(urls) = ToSet(written(1)) \ {Junk}
        BY <4>1, <4>2, PeersUrls
      <4> HIDE DEF urls, written
      <4>5. 1 \in 0 .. 3
        OBVIOUS
      <4> QED
        BY <3>3, <4>3, <4>4, <4>5 DEF urls, written
    <3>5. CASE ~IsList(file)
      <4>1. settings.peers = <<>> /\ written(0) = <<>>
        BY <3>2, <3>5
      <4>2. urls = <<>>
        BY <4>1 DEF Urls
      <4>3. ToSet(urls) = {} /\ ToSet(written(0)) = {} /\ Len(urls) = 0
        BY <4>1, <4>2 DEF ToSet
      <4>4. Cardinality(ToSet(urls)) = Len(urls)
        BY <4>3, FS_EmptySet
      <4>5. \A m \in 0 + 1 .. 3 :
              IsList(Layers[m].peers) => Issue("environment", "peers") \in reported
        <5>1. \A m \in 0 + 1 .. 3 : m = 1 \/ m \in 1 + 1 .. 3
          OBVIOUS
        <5> QED
          BY <2>4, <3>3, <3>5, <5>1
      <4> HIDE DEF urls, written
      <4>6. 0 \in 0 .. 3
        OBVIOUS
      <4>7. ToSet(urls) = ToSet(written(0)) \ {Junk} /\ urls = written(0)
        BY <4>1, <4>2, <4>3
      <4> QED
        BY <4>4, <4>5, <4>6, <4>7 DEF urls, written
    <3> QED
      BY <3>4, <3>5
  <2> QED
    BY <2>5, <2>6, <2>7
<1>2. StartInv => PeersComeFromOneLayer
  BY <1>1, Zenon DEF PeersComeFromOneLayer, Urls
<1> QED
  BY <1>2, StartInvHolds, PTL

(***************************************************************************)
(* Which layer a setting is from.                                          *)
(***************************************************************************)
LEMMA UsableSays ==
  \A k, l : l \in Usable(k) <=> l \in 1 .. 3 /\ Says(Layers[l], k)
BY DEF Usable, Written, Says

LEMMA FromFileSays ==
  ASSUME input \in Inputs, NEW k \in LayerKeys \ {"peers", "config_path"},
         Says(cfg.given, k)
  PROVE  FromFile[k] = cfg.given[k]
<1>1. CASE k # "daemon"
  BY <1>1, FileValues
<1>2. CASE k = "daemon"
  <2> DEFINE raw == cfg.given.daemon
  <2>1. raw \in BOOLEAN \cup {Absent, None, Junk}
    BY CfgOK DEF FileOK, LayerOK
  <2>2. raw = TRUE \/ raw = FALSE
    BY <1>2, <2>1 DEF Says
  <2>3. raw # Absent /\ raw # None /\ None # TRUE
    BY <1>2, ConfigAssumption DEF Says
  <2>4. FromFile.daemon = IF raw = Absent THEN FALSE ELSE raw \notin {FALSE, None}
    BY FileValues
  <2> HIDE DEF raw
  <2>5. FromFile.daemon = raw
    <3>1. CASE raw = TRUE
      <4>1. raw \notin {FALSE, None}
        BY <2>3, <3>1
      <4> QED
        BY <2>3, <2>4, <3>1, <4>1
    <3>2. CASE raw = FALSE
      <4>1. ~ (raw \notin {FALSE, None})
        BY <3>2
      <4> QED
        BY <2>3, <2>4, <3>2, <4>1
    <3> QED
      BY <2>2, <3>1, <3>2
  <2> QED
    BY <1>2, <2>5 DEF raw
<1> QED
  BY <1>1, <1>2

\* The value the last of the layers that says something leaves behind.
LEMMA Highest ==
  ASSUME input \in Inputs, NEW k \in LayerKeys \ {"peers", "config_path"},
         NEW l \in Usable(k), \A m \in Written(k) : m > l => m \notin Usable(k)
  PROVE  FromArguments[k] = Layers[l][k] /\ FromArguments[k] # None
<1>1. /\ Layers[1] = cfg.given /\ Layers[2] = input.environment
      /\ Layers[3] = input.arguments
  BY DEF Layers
<1>2. l \in 1 .. 3 /\ Says(Layers[l], k)
  BY UsableSays
<1>3. \A m \in 1 .. 3 : m > l => ~Says(Layers[m], k)
  <2> SUFFICES ASSUME NEW m \in 1 .. 3, m > l, Says(Layers[m], k) PROVE FALSE
    OBVIOUS
  <2>1. m \in Usable(k)
    BY UsableSays
  <2>2. m \in Written(k)
    BY <2>1 DEF Usable
  <2> QED
    BY <2>1, <2>2
<1>4. Layers[l][k] # None
  BY <1>2 DEF Says
<1>5. CASE l = 3
  BY <1>1, <1>2, <1>4, <1>5, ArgumentValues
<1>6. CASE l = 2
  <2>1. ~Says(input.arguments, k)
    BY <1>1, <1>3, <1>6
  <2> QED
    BY <1>1, <1>2, <1>4, <1>6, <2>1, ArgumentValues, EnvironmentValues
<1>7. CASE l = 1
  <2>1. ~Says(input.arguments, k) /\ ~Says(input.environment, k)
    BY <1>1, <1>3, <1>7
  <2>2. FromFile[k] = cfg.given[k]
    BY <1>1, <1>2, <1>7, FromFileSays
  <2> QED
    BY <1>1, <1>4, <1>7, <2>1, <2>2, ArgumentValues, EnvironmentValues
<1> QED
  BY <1>2, <1>5, <1>6, <1>7

LEMMA Unsaid ==
  ASSUME NEW k \in LayerKeys \ {"peers", "config_path", "daemon"}, Usable(k) = {}
  PROVE  FromArguments[k] = Defaults[k]
<1>1. /\ Layers[1] = cfg.given /\ Layers[2] = input.environment
      /\ Layers[3] = input.arguments
  BY DEF Layers
<1>2. ~Says(cfg.given, k) /\ ~Says(input.environment, k) /\ ~Says(input.arguments, k)
  <2>1. 1 \in 1 .. 3 /\ 2 \in 1 .. 3 /\ 3 \in 1 .. 3
    OBVIOUS
  <2> QED
    BY <1>1, <2>1, UsableSays
<1> QED
  BY <1>2, ArgumentValues, EnvironmentValues, FileValues

LEMMA ExpandValues ==
  ASSUME NEW path, NEW values, path # None
  PROVE  /\ Expand(path, values).text = path
         /\ Expand(path, values).where
              = [p \in Uses[path] \cap DOMAIN values |-> values[p]]
BY DEF Expand

\* What is in effect of a setting that some layer has given a usable value.
LEMMA EffectOf ==
  ASSUME settings = Final, NEW k \in LayerKeys \ {"peers", "config_path"},
         FromArguments[k] # None
  PROVE  InEffect(k) = FromArguments[k]
<1> DEFINE values == [port |-> FromArguments.web_port]
           run == Expand(FromArguments.run_dir, values)
           all == [port |-> FromArguments.web_port, run_dir |-> run]
<1>0. k \in PathNames => InEffect(k) = Final[k].text
  BY DEF InEffect, PathNames
<1>7. /\ Final.run_dir = run
      /\ FromArguments.pid_file # None => Final.pid_file = Expand(FromArguments.pid_file, all)
      /\ FromArguments.log_file # None => Final.log_file = Expand(FromArguments.log_file, all)
  BY FinalValues
<1> HIDE DEF values, all
<1>8. \A path, v : path # None => Expand(path, v).text = path
  BY ExpandValues
<1>9. /\ k \in PathNames => InEffect(k) = Final[k].text /\ FromArguments[k] # None
      /\ k \in PathNames <=> k \in {"run_dir", "pid_file", "log_file"}
  BY <1>0 DEF PathNames
<1>1. CASE k = "run_dir"
  <2>1. Final[k] = Expand(FromArguments[k], values)
    BY <1>1, <1>7 DEF run
  <2> QED
    BY <1>1, <1>8, <1>9, <2>1
<1>2. CASE k = "pid_file"
  <2>1. Final[k] = Expand(FromArguments[k], all)
    BY <1>2, <1>7
  <2> QED
    BY <1>2, <1>8, <1>9, <2>1
<1>3. CASE k = "log_file"
  <2>1. Final[k] = Expand(FromArguments[k], all)
    BY <1>3, <1>7
  <2> QED
    BY <1>3, <1>8, <1>9, <2>1
<1>4. CASE k = "discover_peers"
  BY <1>4, FinalValues DEF InEffect
<1>5. CASE k = "discover_filter"
  BY <1>5, FinalValues DEF InEffect
<1>6. CASE k \notin PathNames \cup {"discover_peers", "discover_filter"}
  BY <1>6, FinalValues DEF InEffect, PathNames
<1> QED
  BY <1>1, <1>2, <1>3, <1>4, <1>5, <1>6 DEF PathNames

\* Every setting main is ready with has the value of the highest layer that holds
\* a usable one, and any unusable one has been reported.
THEOREM HighestLayerWinsTheorem == StartSpec => []HighestLayerWins
<1>1. ASSUME StartInv, stage = "ready"
      PROVE  /\ input \in Inputs /\ settings = Final /\ ~CannotRead
             /\ EnvironmentIssues \subseteq reported /\ ArgumentIssues \subseteq reported
  BY <1>1 DEF StartInv, StageInv, AfterFile, AfterEnvironment, AfterArguments, AfterResolve
<1>2. ASSUME StartInv, stage = "ready", NEW k \in LayerKeys \ {"peers", "config_path"},
             NEW l \in Usable(k), \A m \in Written(k) : m > l => m \notin Usable(k)
      PROVE  InEffect(k) = Layers[l][k]
  BY <1>1, <1>2, Highest, EffectOf
<1>3. ASSUME StartInv, stage = "ready", NEW k \in LayerKeys \ {"peers", "config_path"},
             NEW l \in Written(k) \ Usable(k)
      PROVE  (\E issue \in reported : issue.key = k) \/ (k = "daemon" /\ l = 1)
  <2>1. l \in 1 .. 3 /\ Layers[l][k] = Junk
    BY DEF Usable, Written
  <2>2. FileOK(cfg) /\ InputOK(input)
    BY <1>1, <1>3, CfgOK, StartupAssumption
  <2>3. Junk # Absent /\ Junk # None /\ Junk \notin Int /\ Junk \notin BOOLEAN
        /\ Junk \notin DOMAIN Uses
    BY ConfigAssumption, StartupAssumption
  <2>4. k \in NumberKeys \cup PathKeys
              \cup {"web_host", "daemon", "discover_peers", "discover_filter"}
    BY DEF LayerKeys, PathKeys, TextKeys
  <2>5. CASE l = 1
    <3>1. cfg.given[k] = Junk
      BY <2>1, <2>5 DEF Layers
    <3>2. k \notin NumberKeys
      BY <1>1, <1>3, <3>1 DEF CannotRead
    <3>3. k \notin PathKeys
      BY <2>2, <2>3, <3>1 DEF FileOK, LayerOK
    <3>4. k \notin {"web_host", "discover_peers", "discover_filter"}
      BY <2>2, <2>3, <3>1 DEF FileOK, LayerOK
    <3> QED
      BY <2>4, <2>5, <3>2, <3>3, <3>4
  <2>6. CASE l = 2
    <3>1. input.environment[k] = Junk
      BY <2>1, <2>6 DEF Layers
    <3>2. Issue("environment", k) \in reported
      BY <1>1, <1>3, <3>1 DEF EnvironmentIssues
    <3> QED
      BY <3>2 DEF Issue
  <2>7. CASE l = 3
    <3>1. input.arguments[k] = Junk
      BY <2>1, <2>7 DEF Layers
    <3>2. LayerOK(input.arguments, {}, {})
      BY <2>2 DEF InputOK
    <3>3. k \notin NumberKeys
      BY <2>3, <3>1, <3>2 DEF LayerOK
    <3>4. k \notin PathKeys
      BY <2>3, <3>1, <3>2 DEF LayerOK
    <3>5. k \notin {"web_host", "daemon", "discover_peers"}
      BY <2>3, <3>1, <3>2 DEF LayerOK
    <3>6. k = "discover_filter"
      BY <2>4, <3>3, <3>4, <3>5
    <3>7. Issue("arguments", "discover_filter") \in reported
      BY <1>1, <1>3, <3>1, <3>6 DEF ArgumentIssues
    <3> QED
      BY <3>6, <3>7 DEF Issue
  <2> QED
    BY <2>1, <2>5, <2>6, <2>7
<1>4. ASSUME StartInv, stage = "ready", NEW k \in NumberKeys, Written(k) = {}
      PROVE  InEffect(k) = Defaults[k]
  <2>1. k \in LayerKeys \ {"peers", "config_path", "daemon"} /\ Usable(k) = {}
    BY <1>4 DEF LayerKeys, NumberKeys, TextKeys, Usable
  <2>2. FromArguments[k] = Defaults[k]
    BY <2>1, Unsaid
  <2>3. InEffect(k) = Final[k] /\ Final[k] = FromArguments[k]
    BY <1>1, <1>4, FinalValues DEF InEffect, NumberKeys, LayerKeys, PathNames
  <2> QED
    BY <2>2, <2>3
<1>5. ASSUME StartInv, stage = "ready", cfg # EmptyFile
      PROVE  settings.config_path = ConfigPath
  <2>1. LayerOK(input.environment, {}, {Junk}) /\ LayerOK(input.arguments, {}, {})
    BY <1>1, <1>5, StartupAssumption DEF InputOK
  <2>2. input.environment.config_path # None /\ input.arguments.config_path # None
    BY <2>1 DEF LayerOK
  <2>3. ConfigPath # None
    BY <2>2, StartupAssumption DEF ConfigPath
  <2>4. LoadedPath = ConfigPath
    BY <1>5 DEF LoadedPath
  <2>5. settings.config_path = FromArguments.config_path
    BY <1>1, <1>5, FinalValues DEF LayerKeys, PathNames
  <2> QED
    BY <2>3, <2>4, <2>5, ArgumentValues
<1>6. StartInv => HighestLayerWins
  <2> SUFFICES ASSUME StartInv, stage = "ready"
               PROVE  /\ \A k \in LayerKeys \ {"peers", "config_path"} :
                           /\ \A l \in Usable(k) :
                                (\A m \in Written(k) : m > l => m \notin Usable(k))
                                  => InEffect(k) = Layers[l][k]
                           /\ \A l \in Written(k) \ Usable(k) :
                                (\E issue \in reported : issue.key = k)
                                  \/ (k = "daemon" /\ l = 1)
                           /\ (Written(k) = {} /\ k \in NumberKeys)
                                => InEffect(k) = Defaults[k]
                      /\ cfg # EmptyFile => settings.config_path = ConfigPath
    BY DEF HighestLayerWins
  <2> QED
    BY <1>2, <1>3, <1>4, <1>5
<1> QED
  BY <1>6, StartInvHolds, PTL

(***************************************************************************)
(* What is derived.                                                        *)
(***************************************************************************)
\* What the layers leave of a setting is what one of them says, or the default.
LEMMA Sources ==
  ASSUME NEW k \in LayerKeys \ {"peers", "config_path", "daemon"}
  PROVE  \/ FromArguments[k] = Defaults[k] /\ Usable(k) = {}
         \/ FromArguments[k] = cfg.given[k] /\ Says(cfg.given, k)
         \/ FromArguments[k] = input.environment[k] /\ Says(input.environment, k)
         \/ FromArguments[k] = input.arguments[k] /\ Says(input.arguments, k)
<1>1. /\ Layers[1] = cfg.given /\ Layers[2] = input.environment
      /\ Layers[3] = input.arguments
  BY DEF Layers
<1>2. CASE \E l \in 1 .. 3 : Says(Layers[l], k)
  <2>1. Says(cfg.given, k) \/ Says(input.environment, k) \/ Says(input.arguments, k)
    BY <1>1, <1>2
  <2> QED
    BY <2>1, ArgumentValues, EnvironmentValues, FileValues
<1>3. CASE ~ \E l \in 1 .. 3 : Says(Layers[l], k)
  <2>1. Usable(k) = {}
    BY <1>3, UsableSays
  <2> QED
    BY <2>1, Unsaid
<1> QED
  BY <1>2, <1>3

\* The numbers in effect are numbers.
LEMMA FinalNumbers ==
  ASSUME input \in Inputs
  PROVE  /\ \A k \in NumberKeys \ {"peer_interval"} : FromArguments[k] \in Int
         /\ FromArguments.peer_interval \in Int \cup {None}
<1>1. LayerOK(cfg.given, {None}, {Junk}) /\ LayerOK(input.environment, {}, {Junk})
      /\ LayerOK(input.arguments, {}, {})
  BY CfgOK, StartupAssumption DEF FileOK, InputOK
<1>2. ASSUME NEW k \in NumberKeys
      PROVE  FromArguments[k] \in Int \/ FromArguments[k] = Defaults[k]
  <2>1. k \in LayerKeys \ {"peers", "config_path", "daemon"}
    BY DEF NumberKeys, LayerKeys, TextKeys
  <2>2. /\ Says(cfg.given, k) => cfg.given[k] \in Int
        /\ Says(input.environment, k) => input.environment[k] \in Int
        /\ Says(input.arguments, k) => input.arguments[k] \in Int
    BY <1>1, <1>2 DEF LayerOK, Says
  <2> QED
    BY <2>1, <2>2, Sources
<1>3. /\ \A k \in NumberKeys \ {"peer_interval"} : Defaults[k] \in Int
      /\ Defaults.peer_interval = None /\ "peer_interval" \in NumberKeys
  BY DEF Defaults, NumberKeys
<1> QED
  BY <1>2, <1>3

\* The paths in effect are texts, or not there.
LEMMA FinalTexts ==
  ASSUME input \in Inputs, NEW k \in PathNames
  PROVE  /\ FromArguments[k] \in DOMAIN Uses \cup {None}
         /\ Usable(k) # {} => FromArguments[k] \in DOMAIN Uses
         /\ Usable(k) = {} => FromArguments[k] = Defaults[k]
<1>1. LayerOK(cfg.given, {None}, {Junk}) /\ LayerOK(input.environment, {}, {Junk})
      /\ LayerOK(input.arguments, {}, {})
  BY CfgOK, StartupAssumption DEF FileOK, InputOK
<1>2. k \in LayerKeys \ {"peers", "config_path", "daemon"} /\ k \in PathKeys
  BY DEF PathNames, LayerKeys, NumberKeys, TextKeys, PathKeys
<1>3. /\ Says(cfg.given, k) => cfg.given[k] \in DOMAIN Uses
      /\ Says(input.environment, k) => input.environment[k] \in DOMAIN Uses
      /\ Says(input.arguments, k) => input.arguments[k] \in DOMAIN Uses
  BY <1>1, <1>2 DEF LayerOK, Says
<1>4. Defaults[k] \in DOMAIN Uses \cup {None}
  BY StartupAssumption DEF Defaults, PathNames
<1>5. Usable(k) # {} => FromArguments[k] \in DOMAIN Uses
  <2> SUFFICES ASSUME Usable(k) # {} PROVE FromArguments[k] \in DOMAIN Uses
    OBVIOUS
  <2> QED
    BY <1>2, <1>3, Sources
<1>6. Usable(k) = {} => FromArguments[k] = Defaults[k]
  BY <1>2, Unsaid
<1> QED
  BY <1>4, <1>5, <1>6

LEMMA ExpandedRunDir ==
  ASSUME NEW path \in DOMAIN Uses, path # None, NEW port \in Int
  PROVE  Expand(path, [port |-> port]) \in RunDirs
<1> DEFINE values == [port |-> port]
           where == [p \in Uses[path] \cap DOMAIN values |-> values[p]]
<1>1. DOMAIN values = {"port"} /\ values["port"] = port
  OBVIOUS
<1>2. Expand(path, values) = [text |-> path, where |-> where]
  BY DEF Expand
<1> HIDE DEF values
<1>3. Uses[path] \cap DOMAIN values = {} \/ Uses[path] \cap DOMAIN values = {"port"}
  BY <1>1
<1>4. where \in [{} -> Int] \cup [{"port"} -> Int]
  <2>1. CASE Uses[path] \cap DOMAIN values = {}
    BY <2>1
  <2>2. CASE Uses[path] \cap DOMAIN values = {"port"}
    BY <1>1, <2>2
  <2> QED
    BY <1>3, <2>1, <2>2
<1> HIDE DEF where
<1> QED
  BY <1>2, <1>4 DEF RunDirs, values

LEMMA ExpandedPath ==
  ASSUME NEW path \in DOMAIN Uses, path # None, NEW port \in Int, NEW run \in RunDirs
  PROVE  Expand(path, [port |-> port, run_dir |-> run]) \in Expanded
<1> DEFINE values == [port |-> port, run_dir |-> run]
           names == Uses[path] \cap DOMAIN values
           where == [p \in names |-> values[p]]
<1>1. DOMAIN values = {"port", "run_dir"} /\ values["port"] = port /\ values["run_dir"] = run
  OBVIOUS
<1>2. Expand(path, values) = [text |-> path, where |-> where]
  BY DEF Expand
<1> HIDE DEF values
<1>3. \/ names = {} \/ names = {"port"} \/ names = {"run_dir"}
      \/ names = {"port", "run_dir"}
  BY <1>1
<1>4. \A p \in names : values[p] \in Int \cup RunDirs
  BY <1>1
<1> HIDE DEF names
<1>5. where \in Filled(names)
  BY <1>4 DEF Filled
<1> HIDE DEF where
<1>6. where \in Filled({}) \cup Filled({"port"}) \cup Filled({"run_dir"})
                  \cup Filled({"port", "run_dir"})
  BY <1>3, <1>5
<1> QED
  BY <1>2, <1>6 DEF Expanded, values

\* The two intervals of discovery, when the file could be read.
LEMMA Scanning ==
  ASSUME input \in Inputs, ~CannotRead
  PROVE  LET fetching == EffectivePeerInterval(Final)
             scanning == Final.discover.interval
             grace    == Final.discover.grace
         IN  /\ IF IsList(cfg.discover) /\ IsPositive(cfg.discover.interval)
                THEN scanning = cfg.discover.interval ELSE scanning = fetching
             /\ grace < 3 * scanning => IsList(cfg.discover) /\ cfg.discover.grace = grace
             /\ fetching > 0 => scanning > 0 /\ grace > 0
<1> DEFINE fetching == EffectivePeerInterval(Final)
           scanning == Final.discover.interval
           grace    == Final.discover.grace
           d        == Discover(cfg.discover)
           ownInterval == IsList(cfg.discover) /\ IsPositive(cfg.discover.interval)
           ownGrace    == IsList(cfg.discover) /\ IsPositive(cfg.discover.grace)
<1>1. fetching \in Int
  <2>1. Final.peer_interval = FromArguments.peer_interval
        /\ Final.poll_interval = FromArguments.poll_interval
    BY FinalValues DEF LayerKeys, NumberKeys, PathNames
  <2>2. FromArguments.poll_interval \in Int /\ FromArguments.peer_interval \in Int \cup {None}
    BY FinalNumbers DEF NumberKeys
  <2> QED
    BY <2>1, <2>2 DEF EffectivePeerInterval
<1>2. /\ d.interval = IF ownInterval THEN cfg.discover.interval ELSE None
      /\ d.grace = IF ownGrace THEN cfg.discover.grace ELSE None
  BY DEF Discover, DefaultDiscover
<1>3. FileOK(cfg)
  BY CfgOK
<1>4. /\ ownInterval => /\ cfg.discover.interval \in Int /\ cfg.discover.interval > 0
                        /\ cfg.discover.interval # None
      /\ ownGrace => /\ cfg.discover.grace \in Int /\ cfg.discover.grace > 0
                     /\ cfg.discover.grace # None
  BY <1>3 DEF FileOK, CannotRead, IsPositive
<1>5. /\ scanning = IF d.interval = None THEN fetching ELSE d.interval
      /\ grace = IF d.grace = None THEN 3 * scanning ELSE d.grace
  BY FinalValues
<1> HIDE DEF fetching, scanning, grace, d, ownInterval, ownGrace
<1>6. /\ scanning = IF ownInterval THEN cfg.discover.interval ELSE fetching
      /\ scanning \in Int /\ (fetching > 0 => scanning > 0)
  BY <1>1, <1>2, <1>4, <1>5
<1>7. \/ ownGrace /\ grace = cfg.discover.grace /\ grace > 0
      \/ ~ownGrace /\ grace = 3 * scanning
  BY <1>2, <1>4, <1>5
<1>8. /\ grace < 3 * scanning => ownGrace /\ cfg.discover.grace = grace
      /\ fetching > 0 => grace > 0
  BY <1>6, <1>7
<1> QED
  BY <1>6, <1>8 DEF fetching, scanning, grace, ownInterval, ownGrace

\* The files a daemon writes, and the port in their names.
LEMMA Files ==
  ASSUME input \in Inputs
  PROVE  /\ \A k \in {"pid_file", "log_file"} :
              IF Usable(k) # {} THEN Final[k] # None
              ELSE IF Final.daemon THEN Final[k].where.run_dir = Final.run_dir
              ELSE Final[k] = None
         /\ \A k \in PathNames :
              (Final[k] # None /\ "port" \in DOMAIN Final[k].where) =>
                Final[k].where.port = Final.web_port
<1> DEFINE s   == FromArguments
           one == [port |-> s.web_port]
           run == Expand(s.run_dir, one)
           all == [port |-> s.web_port, run_dir |-> run]
           own(k, default) == IF s.daemon /\ s[k] = None THEN default ELSE s[k]
<1>1. /\ Final.run_dir = run
      /\ Final.pid_file = Expand(own("pid_file", DEFAULT_PID_FILE), all)
      /\ Final.log_file = Expand(own("log_file", DEFAULT_LOG_FILE), all)
  BY FinalValues
<1>2. Final.web_port = s.web_port /\ Final.daemon = s.daemon
  BY FinalValues DEF LayerKeys, NumberKeys, TextKeys, PathNames
<1>3. s.web_port \in Int
  BY FinalNumbers DEF NumberKeys
<1>4. run \in RunDirs
  <2>1. s.run_dir \in DOMAIN Uses
    BY FinalTexts, StartupAssumption DEF PathNames, Defaults
  <2>2. s.run_dir # None
    BY <2>1, StartupAssumption
  <2> QED
    BY <1>3, <2>1, <2>2, ExpandedRunDir
<1>5. /\ DOMAIN one = {"port"} /\ one["port"] = s.web_port
      /\ DOMAIN all = {"port", "run_dir"} /\ all["port"] = s.web_port /\ all["run_dir"] = run
  OBVIOUS
<1>6. \A path \in DOMAIN Uses : path # None => Expand(path, all) # None
  BY <1>3, <1>4, ExpandedPath, StartupAssumption
<1>7. \A path, v : IF path = None THEN Expand(path, v) = None
                   ELSE Expand(path, v).where
                          = [p \in Uses[path] \cap DOMAIN v |-> v[p]]
  BY DEF Expand
<1> HIDE DEF s, one, run, all
<1>8. ASSUME NEW k \in {"pid_file", "log_file"}, NEW default \in {DEFAULT_PID_FILE, DEFAULT_LOG_FILE},
             Final[k] = Expand(own(k, default), all)
      PROVE  IF Usable(k) # {} THEN Final[k] # None
             ELSE IF Final.daemon THEN Final[k].where.run_dir = Final.run_dir
             ELSE Final[k] = None
  <2>0. k \in PathNames /\ Defaults[k] = None
    BY DEF PathNames, Defaults
  <2>1. CASE Usable(k) # {}
    <3>1. s[k] \in DOMAIN Uses
      BY <2>0, <2>1, FinalTexts DEF s
    <3>2. s[k] # None
      BY <3>1, StartupAssumption
    <3>3. Final[k] = Expand(s[k], all)
      BY <1>8, <3>2
    <3> QED
      BY <1>6, <2>1, <3>1, <3>2, <3>3
  <2>2. CASE Usable(k) = {} /\ s.daemon
    <3>1. s[k] = None
      BY <2>0, <2>2, FinalTexts DEF s
    <3>2. Final[k] = Expand(default, all)
      BY <1>8, <2>2, <3>1
    <3>3. default # None /\ "run_dir" \in Uses[default]
      BY StartupAssumption
    <3>4. Final[k].where = [p \in Uses[default] \cap DOMAIN all |-> all[p]]
      BY <1>7, <3>2, <3>3
    <3>5. Final[k].where.run_dir = run
      BY <1>5, <3>3, <3>4
    <3> QED
      BY <1>1, <1>2, <2>2, <3>5
  <2>3. CASE Usable(k) = {} /\ ~s.daemon
    <3>1. s[k] = None
      BY <2>0, <2>3, FinalTexts DEF s
    <3>2. Final[k] = Expand(None, all)
      BY <1>8, <2>3, <3>1
    <3>3. Final[k] = None
      BY <1>7, <3>2
    <3> QED
      BY <1>2, <2>3, <3>3
  <2> QED
    BY <2>1, <2>2, <2>3
<1>9. \A path, v : /\ Expand(path, v) # None /\ v \in {one, all}
                   /\ "port" \in DOMAIN Expand(path, v).where
                   => Expand(path, v).where.port = s.web_port
  <2> SUFFICES ASSUME NEW path, NEW v \in {one, all}, Expand(path, v) # None,
                      "port" \in DOMAIN Expand(path, v).where
               PROVE  Expand(path, v).where.port = s.web_port
    OBVIOUS
  <2>3. path = None => Expand(path, v) = None
    BY Zenon DEF Expand
  <2>4. path # None => Expand(path, v).where = [p \in Uses[path] \cap DOMAIN v |-> v[p]]
    BY ExpandValues
  <2>1. Expand(path, v).where = [p \in Uses[path] \cap DOMAIN v |-> v[p]]
    BY <2>3, <2>4
  <2>2. v["port"] = s.web_port
    BY <1>5
  <2> QED
    BY <2>1, <2>2
<1>10. \A k \in PathNames : \E path : \E v \in {one, all} : Final[k] = Expand(path, v)
  BY <1>1 DEF PathNames, run
<1>11. \A k \in {"pid_file", "log_file"} :
         IF Usable(k) # {} THEN Final[k] # None
         ELSE IF Final.daemon THEN Final[k].where.run_dir = Final.run_dir
         ELSE Final[k] = None
  BY <1>1, <1>8
<1>12. ASSUME NEW k \in PathNames, Final[k] # None, "port" \in DOMAIN Final[k].where
       PROVE  Final[k].where.port = Final.web_port
  <2>1. PICK path : \E v \in {one, all} : Final[k] = Expand(path, v)
    BY <1>10
  <2> QED
    BY <1>2, <1>9, <1>12, <2>1
<1> QED
  BY <1>11, <1>12

\* What main derives follows the settings in effect, not those of a lower layer:
\* delays, scan interval and grace, and in a daemon the files it writes.
THEOREM DerivedFromFinalTheorem == StartSpec => []DerivedFromFinal
<1>1. ASSUME StartInv, stage = "ready"
      PROVE  /\ input \in Inputs /\ settings = Final /\ ~CannotRead
             /\ default_delay = FromArguments.default_delay
             /\ ~More /\ ~raised /\ EntriesInv
  BY <1>1 DEF StartInv, StageInv, AfterFile, AfterResolve
<1>2. ASSUME StartInv, stage = "ready", NEW k \in DOMAIN config,
             config[k].path, ~config[k].mapping
      PROVE  EntryOf(k).delay = settings.default_delay
  <2>1. config \in Seq(Items) /\ index \in 1 .. Len(config) + 1 /\ ~(index <= Len(config))
    BY <1>1, <1>2 DEF EntriesInv, More
  <2>2. Len(config) \in Nat /\ DOMAIN config = 1 .. Len(config)
    BY <2>1
  <2>3. k \in 1 .. index - 1
    BY <1>2, <2>1, <2>2
  <2>4. k \in WithPath
    BY <1>2, <2>3 DEF WithPath
  <2>5. EntryOf(k) = TextEntry(config[k], k)
    BY <1>1, <1>2, <2>4, EntryOfIsMade DEF Made
  <2>6. EntryOf(k).delay = default_delay
    BY <2>5 DEF TextEntry
  <2>7. settings.default_delay = FromArguments.default_delay
    BY <1>1, <1>2, FinalValues DEF LayerKeys, NumberKeys, PathNames
  <2> QED
    BY <1>1, <1>2, <2>6, <2>7
<1>3. ASSUME StartInv, stage = "ready"
      PROVE  LET fetching == IF settings.peer_interval \in {None, 0} THEN settings.poll_interval
                             ELSE settings.peer_interval
                 scanning == settings.discover.interval
             IN  /\ IF IsList(cfg.discover) /\ IsPositive(cfg.discover.interval)
                    THEN scanning = cfg.discover.interval
                    ELSE scanning = fetching
                 /\ settings.discover.grace < 3 * scanning =>
                      IsList(cfg.discover) /\ cfg.discover.grace = settings.discover.grace
                 /\ fetching > 0 => scanning > 0 /\ settings.discover.grace > 0
  BY <1>1, <1>3, Scanning DEF EffectivePeerInterval
<1>4. ASSUME StartInv, stage = "ready"
      PROVE  /\ \A k \in {"pid_file", "log_file"} :
                  IF Usable(k) # {} THEN settings[k] # None
                  ELSE IF settings.daemon THEN settings[k].where.run_dir = settings.run_dir
                  ELSE settings[k] = None
             /\ \A k \in {"run_dir", "pid_file", "log_file"} :
                  (settings[k] # None /\ "port" \in DOMAIN settings[k].where) =>
                    settings[k].where.port = settings.web_port
  BY <1>1, <1>4, Files DEF PathNames
<1>5. StartInv => DerivedFromFinal
  BY <1>2, <1>3, <1>4 DEF DerivedFromFinal
<1> QED
  BY <1>5, StartInvHolds, PTL
================================================================================
