------------------------------- MODULE Dashboard -------------------------------
(***************************************************************************)
(* The dashboard pages in the browser: web/static/diskwatcher.js.          *)
(*                                                                         *)
(* A page asks the server for everything every few seconds and draws what  *)
(* it gets: host groups and peer groups, each open or collapsed.  Several  *)
(* requests may be under way, and their answers are drawn in the order in  *)
(* which they come.  What the operator chose for a group and for the state *)
(* filter lives in the page's memory and in the browser's storage, which   *)
(* all pages of the browser share and read when they are loaded.           *)
(*                                                                         *)
(* Abstractions.  All pages show the same groups, each page as one table.  *)
(* A group's entries are the set of states they are in; "critical" stands  *)
(* for CRITICAL and worse and for an entry without a rank, "warning" for   *)
(* everything below.  Refresh intervals are on or off.  Sorting, cards and *)
(* cells are left out.                                                     *)
(***************************************************************************)
CONSTANTS
  Tabs,       \* the tabs of one browser
  Tables,     \* the pages
  Controls,   \* pages with Expand all / Collapse all / Auto and the filter
  Hosts,      \* groups of entries of this instance
  Peers,      \* groups of entries of peers
  Answers,    \* what the server may answer
  Calls,      \* requests one page may have under way, by name
  Storage,    \* localStorage: "works", "full" (cannot be written), "off" (throws)
  Sent,       \* a request that waits for its answer
  None        \* no page, no data, no request

Groups   == Hosts \cup Peers
States   == {"warning", "critical"}
Statuses == {"local", "ok", "error", "pending", "disabled", "gone"}

\* A host without entries is not in the answer; neither is a peer that is gone.
Answer == [Groups -> [entries : SUBSET States, status : Statuses]]

ASSUME DashboardAssumption ==
  /\ Controls \subseteq Tables /\ Hosts \cap Peers = {}
  /\ Answers \subseteq Answer
  /\ \A d \in Answers, g \in Groups : d[g].status = "local" <=> g \in Hosts
  /\ Storage \in {"works", "full", "off"}
  /\ None \notin Tables /\ {None, Sent} \cap Answers = {} /\ None # Sent
  /\ None \notin [Tables \X Groups -> {"none", "open", "closed"}]

VARIABLES
  server,    \* what the server would answer now
  up,        \* does it answer?
  storage,   \* the browser's localStorage, None for what is unset or unreadable
  tab,       \* the page loaded in each tab
  wish       \* the operator's last word about each group of each page

vars == <<server, up, storage, tab, wish>>

\* hostOverrides, and stateFilters of the pages that have a filter.
NoOverrides == [id \in Tables \X Groups |-> "none"]
NoFilters   == [table \in Controls |-> "all"]

Closed == [page |-> None, data |-> None, calls |-> [c \in Calls |-> None],
           overrides |-> NoOverrides, filters |-> NoFilters,
           view |-> [g \in Groups |-> "absent"], select |-> FALSE, timer |-> FALSE]

Init ==
  /\ server \in Answers
  /\ up = TRUE
  /\ storage = [overrides |-> None, filters |-> None, refresh |-> TRUE]
  /\ tab = [t \in Tabs |-> Closed]
  /\ wish = NoOverrides

(***************************************************************************)
(* Drawing.                                                                *)
(***************************************************************************)
activeFilter(page) ==
  IF page.page \in Controls THEN page.filters[page.page] ELSE "all"

\* applyStateFilter, filterPeers: a peer with nothing left is left out.
Filtered(data, key) ==
  IF key = "all" THEN data
  ELSE [g \in Groups |->
         [entries |-> data[g].entries \cap {key},
          status  |-> IF g \in Peers /\ key \notin data[g].entries
                      THEN "gone" ELSE data[g].status]]

Listed(data, g) ==
  IF g \in Hosts THEN data[g].entries # {} ELSE data[g].status # "gone"

\* Mistaken variant: a peer is judged by the entries it has left.
PeerNeedsAttentionByEntries(data, p) == "critical" \in data[p].entries

\* A peer that does not deliver current data holds its group open.
PeerNeedsAttention(data, p) ==
  IF data[p].status # "ok" THEN data[p].status # "disabled"
  ELSE "critical" \in data[p].entries

NeedsAttention(data, g) ==
  IF g \in Peers THEN PeerNeedsAttention(data, g) ELSE "critical" \in data[g].entries

\* isCollapsed, isPeerCollapsed
Collapsed(override, data, g) ==
  override = "closed" \/ (override = "none" /\ ~NeedsAttention(data, g))

\* groupedRows
GroupedRows(page, data) ==
  [g \in Groups |->
    IF ~Listed(data, g) THEN "absent"
    ELSE IF Collapsed(page.overrides[page.page, g], data, g) THEN "closed"
    ELSE "open"]

\* renderAll(currentData)
RenderAll(page) ==
  IF page.data = None THEN page
  ELSE [page EXCEPT !.view = GroupedRows(page, Filtered(page.data, activeFilter(page)))]

Becomes(t, page) == tab' = [tab EXCEPT ![t] = RenderAll(page)]

(***************************************************************************)
(* The world around the page.                                              *)
(***************************************************************************)
ServerChanges ==
  /\ server' \in Answers /\ up' \in BOOLEAN
  /\ UNCHANGED <<storage, tab, wish>>

Leave(t) ==
  /\ tab[t].page # None
  /\ tab' = [tab EXCEPT ![t] = Closed]
  /\ UNCHANGED <<server, up, storage, wish>>

(***************************************************************************)
(* Loading a page, and refreshing it.                                      *)
(***************************************************************************)
Stored(value, nothing) ==
  IF Storage = "off" \/ value = None THEN nothing ELSE value

\* fetch in refreshData; the answer comes later.
WithCall(calls) ==
  {[calls EXCEPT ![c] = Sent] : c \in {c \in Calls : calls[c] = None}}

\* Mistaken variant: the old interval is cleared after the new one is set.
ApplyRefreshIntervalAndClear(page, on) == [page EXCEPT !.timer = FALSE]

\* applyRefreshInterval
ApplyRefreshInterval(page, on) == [page EXCEPT !.timer = on]

\* startDashboard: reading the refresh interval throws where storage is off, and
\* what comes after it is not done.
Open(t, table) ==
  /\ tab[t].page = None
  /\ \E calls \in WithCall(Closed.calls) :
       LET loaded == [Closed EXCEPT
             !.page = table,
             !.overrides = Stored(storage.overrides, NoOverrides),
             !.filters = Stored(storage.filters, NoFilters)]
       IN  tab' = [tab EXCEPT ![t] =
             IF Storage = "off" THEN [loaded EXCEPT !.select = TRUE]
             ELSE ApplyRefreshInterval(
               [loaded EXCEPT !.select = storage.refresh, !.calls = calls],
               storage.refresh)]
  /\ UNCHANGED <<server, up, storage, wish>>

\* The interval of applyRefreshInterval, or the button: refreshData.
RefreshData(t) ==
  /\ tab[t].page # None
  /\ \E calls \in WithCall(tab[t].calls) : tab' = [tab EXCEPT ![t].calls = calls]
  /\ UNCHANGED <<server, up, storage, wish>>

TimerFires(t) == tab[t].timer /\ RefreshData(t)
Button(t)     == Storage # "off" /\ RefreshData(t)

\* The server answers from what it has now, or the fetch fails.
Answered(t, c) ==
  /\ tab[t].calls[c] = Sent
  /\ tab' = [tab EXCEPT ![t].calls[c] = IF up THEN server ELSE None]
  /\ UNCHANGED <<server, up, storage, wish>>

Arrives(t, c) ==
  /\ tab[t].calls[c] \in Answers
  /\ Becomes(t, [tab[t] EXCEPT !.data = tab[t].calls[c], !.calls[c] = None])
  /\ UNCHANGED <<server, up, storage, wish>>

\* The refresh select: storage first, which throws when it cannot be written.
SelectInterval(t, on) ==
  /\ tab[t].page # None /\ Storage # "off" /\ tab[t].select # on
  /\ LET chosen == [tab[t] EXCEPT !.select = on]
     IN  IF Storage = "works"
         THEN /\ storage' = [storage EXCEPT !.refresh = on]
              /\ tab' = [tab EXCEPT ![t] = ApplyRefreshInterval(chosen, on)]
         ELSE /\ tab' = [tab EXCEPT ![t] = chosen]
              /\ UNCHANGED storage
  /\ UNCHANGED <<server, up, wish>>

(***************************************************************************)
(* What the operator does with the groups.                                 *)
(***************************************************************************)
\* saveOverrides, saveFilters
Save(field, value) ==
  storage' = IF Storage = "works" THEN [storage EXCEPT ![field] = value] ELSE storage

\* hostOverrides takes the opinions, is saved, and the page is drawn again.
Override(t, opinions) ==
  /\ Save("overrides", opinions)
  /\ Becomes(t, [tab[t] EXCEPT !.overrides = opinions])
  /\ UNCHANGED <<server, up>>

Flip(seen) == IF seen = "closed" THEN "open" ELSE "closed"

\* toggleGroup with the state the header was drawn in.
ToggleGroup(t, g) ==
  LET id == <<tab[t].page, g>>
  IN  /\ tab[t].view[g] # "absent"
      /\ Override(t, [tab[t].overrides EXCEPT ![id] = Flip(tab[t].view[g])])
      /\ wish' = [wish EXCEPT ![id] = Flip(tab[t].view[g])]

\* setAllGroups: every group of the data, whether the filter shows it or not.
SetAllGroups(t, opinion) ==
  LET ids == {tab[t].page} \X {g \in Groups : Listed(tab[t].data, g)}
      All(opinions) ==
        [id \in Tables \X Groups |-> IF id \in ids THEN opinion ELSE opinions[id]]
  IN  /\ tab[t].page \in Controls /\ tab[t].data # None
      /\ Override(t, All(tab[t].overrides))
      /\ wish' = All(wish)

\* Mistaken variant: the choices of every page are dropped.
ForgetEverything(opinions, table) == NoOverrides

Forget(opinions, table) ==
  [id \in Tables \X Groups |-> IF id[1] = table THEN "none" ELSE opinions[id]]

\* resetGroups
ResetGroups(t) ==
  /\ tab[t].page \in Controls
  /\ Override(t, Forget(tab[t].overrides, tab[t].page))
  /\ wish' = [id \in Tables \X Groups |->
               IF id[1] = tab[t].page THEN "none" ELSE wish[id]]

\* setStateFilter: the active filter again, or "all", clears it.
SetStateFilter(t, key) ==
  LET next == IF activeFilter(tab[t]) = key THEN "all" ELSE key
      filters == [tab[t].filters EXCEPT ![tab[t].page] = next]
  IN  /\ tab[t].page \in Controls
      /\ Save("filters", filters)
      /\ Becomes(t, [tab[t] EXCEPT !.filters = filters])
      /\ UNCHANGED <<server, up, wish>>

Operator(t) ==
  \/ \E table \in Tables : Open(t, table)
  \/ Leave(t) \/ Button(t) \/ ResetGroups(t)
  \/ \E on \in BOOLEAN : SelectInterval(t, on)
  \/ \E g \in Groups : ToggleGroup(t, g)
  \/ \E opinion \in {"open", "closed"} : SetAllGroups(t, opinion)
  \/ \E key \in States \cup {"all"} : SetStateFilter(t, key)

Next ==
  \/ ServerChanges
  \/ \E t \in Tabs : Operator(t) \/ TimerFires(t)
  \/ \E t \in Tabs, c \in Calls : Answered(t, c) \/ Arrives(t, c)

Spec == Init /\ [][Next]_vars

\* The browser runs its timers, and every request ends, one way or the other.
FairSpec ==
  /\ Spec
  /\ \A t \in Tabs : WF_vars(TimerFires(t))
  /\ \A t \in Tabs, c \in Calls : WF_vars(Answered(t, c)) /\ WF_vars(Arrives(t, c))

(***************************************************************************)
(* Properties.                                                             *)
(***************************************************************************)
\* A group stays as the operator last put it on that page, through refreshes,
\* filters, visits to other pages and reloads, until Auto.  (With one tab: a
\* second one saves its own memory over what the first has saved.)
WishesAreKept ==
  \A t \in Tabs : \A g \in Groups :
    LET id == <<tab[t].page, g>>
    IN  (tab[t].view[g] # "absent" /\ wish[id] # "none") => tab[t].view[g] = wish[id]

\* Where the operator has said nothing, what is drawn without a filter is open
\* exactly when something in it asks for attention: an entry that is critical or
\* worse, or a peer that delivers nothing.
HealthDecides ==
  \A t \in Tabs : \A g \in Groups :
    LET shown == tab[t].data[g]
    IN  (/\ tab[t].view[g] # "absent"
         /\ wish[tab[t].page, g] = "none"
         /\ activeFilter(tab[t]) = "all")
        => (tab[t].view[g] = "open"
            <=> \/ shown.status \in {"error", "pending"}
                \/ shown.status \in {"local", "ok"} /\ "critical" \in shown.entries)

\* A page that stays loaded with its refresh select on comes to show what the
\* server has, once that no longer changes, in whatever order earlier answers
\* arrive.
PageCatchesUp ==
  \A t \in Tabs : \A d \in Answers :
    <>[](server = d /\ up /\ tab[t].page # None /\ tab[t].select)
      => <>[](tab[t].data = d)

\* "Clicking the WARNING ... card shows only entries in that category" (and
\* fails to hold): with a filter on, the groups that have such entries are open.
\* They are judged by what the filter leaves of them, so under WARNING those
\* without a choice are collapsed.  No run checks it.
FilteredIsShown ==
  \A t \in Tabs : \A g \in Groups :
    (tab[t].view[g] # "absent" /\ wish[tab[t].page, g] = "none"
       /\ activeFilter(tab[t]) # "all")
      => tab[t].view[g] = "open"
===============================================================================
