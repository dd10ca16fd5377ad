---------------------------- MODULE DashboardProofs ----------------------------
(***************************************************************************)
(* What the dashboard draws, for any pages, groups, answers and requests   *)
(* under way, in any order in which the answers come.                      *)
(***************************************************************************)
EXTENDS Dashboard, TLAPS

Opinions == [Tables \X Groups -> {"none", "open", "closed"}]
Filters  == [Controls -> States \cup {"all"}]
Absence  == [g \in Groups |-> "absent"]

Page == [page : Tables \cup {None}, data : Answers \cup {None},
         calls : [Calls -> Answers \cup {Sent, None}],
         overrides : Opinions, filters : Filters,
         view : [Groups -> {"absent", "open", "closed"}],
         select : BOOLEAN, timer : BOOLEAN]

Stores == [overrides : Opinions \cup {None}, filters : Filters \cup {None},
           refresh : BOOLEAN]

Types ==
  /\ server \in Answers /\ up \in BOOLEAN
  /\ storage \in Stores
  /\ tab \in [Tabs -> Page]
  /\ wish \in Opinions

\* What is on the screen is what the page's own data, choices and filter say.
Drawn(page) ==
  page.view = IF page.data = None THEN Absence
              ELSE GroupedRows(page, Filtered(page.data, activeFilter(page)))

\* A tab without a page has asked for nothing and drawn nothing.
Blank(page) == page.data = None /\ \A c \in Calls : page.calls[c] = None

PageOK(page) == page \in Page /\ Drawn(page) /\ (page.page = None => Blank(page))

ScreenIsDrawn == \A t \in Tabs : PageOK(tab[t])

Inv == Types /\ ScreenIsDrawn

(***************************************************************************)
(* Drawing.                                                                *)
(***************************************************************************)
LEMMA GroupedRowsType ==
  ASSUME NEW page, NEW data
  PROVE  GroupedRows(page, data) \in [Groups -> {"absent", "open", "closed"}]
BY DEF GroupedRows

\* renderAll brings the screen up to date, whatever was on it.
LEMMA RenderAllDraws ==
  ASSUME NEW page \in Page, page.page # None,
         page.data = None => page.view = Absence
  PROVE  /\ PageOK(RenderAll(page))
         /\ RenderAll(page).overrides = page.overrides
         /\ RenderAll(page).page = page.page
<1>1. CASE page.data = None
  BY <1>1 DEF RenderAll, PageOK, Drawn
<1>2. CASE page.data # None
  <2> DEFINE rows  == GroupedRows(page, Filtered(page.data, activeFilter(page)))
             drawn == [page EXCEPT !.view = rows]
  <2>1. rows \in [Groups -> {"absent", "open", "closed"}]
    BY GroupedRowsType
  <2>2. RenderAll(page) = drawn
    BY <1>2 DEF RenderAll
  <2> HIDE DEF rows
  <2>3. /\ drawn \in Page /\ drawn.view = rows /\ drawn.data = page.data
        /\ drawn.page = page.page /\ drawn.overrides = page.overrides
        /\ drawn.filters = page.filters
    BY <2>1 DEF Page
  <2> HIDE DEF drawn
  <2>4. activeFilter(drawn) = activeFilter(page)
    BY <2>3 DEF activeFilter
  <2>5. GroupedRows(drawn, Filtered(drawn.data, activeFilter(drawn))) = rows
    BY <2>3, <2>4 DEF rows, GroupedRows
  <2> QED
    BY <1>2, <2>2, <2>3, <2>5 DEF PageOK, Drawn
<1> QED
  BY <1>1, <1>2

\* What does not touch the data, the choices or the filter needs no drawing.
LEMMA StaysDrawn ==
  ASSUME NEW old, PageOK(old), NEW new \in Page, new.page # None,
         new.page = old.page, new.data = old.data, new.view = old.view,
         new.overrides = old.overrides, new.filters = old.filters
  PROVE  PageOK(new)
<1>1. activeFilter(new) = activeFilter(old)
  BY DEF activeFilter
<1>2. GroupedRows(new, Filtered(new.data, activeFilter(new)))
        = GroupedRows(old, Filtered(old.data, activeFilter(old)))
  BY <1>1 DEF GroupedRows
<1> QED
  BY <1>2 DEF PageOK, Drawn

LEMMA ClosedOK == PageOK(Closed)
<1>1. Closed \in Page
  BY DEF Closed, Page, NoOverrides, NoFilters, Opinions, Filters
<1> QED
  BY <1>1 DEF PageOK, Blank, Drawn, Closed, Absence

(***************************************************************************)
(* One tab changes at a time.                                              *)
(***************************************************************************)
LEMMA OneTabChanges ==
  ASSUME Inv, NEW t \in Tabs, NEW page, PageOK(page),
         tab' = [tab EXCEPT ![t] = page]
  PROVE  tab' \in [Tabs -> Page] /\ ScreenIsDrawn'
<1>1. \A s \in Tabs : tab'[s] = IF s = t THEN page ELSE tab[s]
  BY DEF Inv, Types
<1>2. tab' \in [Tabs -> Page]
  BY DEF Inv, Types, PageOK
<1>3. \A s \in Tabs : PageOK(tab'[s])
  BY <1>1 DEF Inv, ScreenIsDrawn
<1> QED
  BY <1>2, <1>3 DEF ScreenIsDrawn

\* A page with which nothing but a request or the interval has happened.
LEMMA QuietStep ==
  ASSUME Inv, NEW t \in Tabs, NEW page \in Page, page.page # None,
         page.page = tab[t].page, page.data = tab[t].data, page.view = tab[t].view,
         page.overrides = tab[t].overrides, page.filters = tab[t].filters
  PROVE  PageOK(page)
<1>1. PageOK(tab[t])
  BY DEF Inv, ScreenIsDrawn
<1> QED
  BY <1>1, StaysDrawn

LEMMA WithCallType ==
  ASSUME NEW calls \in [Calls -> Answers \cup {Sent, None}], NEW more \in WithCall(calls)
  PROVE  more \in [Calls -> Answers \cup {Sent, None}]
BY DEF WithCall

\* The page Open loads.
LEMMA OpenPage ==
  ASSUME Inv, NEW t \in Tabs, NEW table \in Tables, Open(t, table)
  PROVE  \E page : /\ tab' = [tab EXCEPT ![t] = page]
                   /\ PageOK(page) /\ page.page = table
                   /\ page.overrides = Stored(storage.overrides, NoOverrides)
<1> DEFINE kept   == Stored(storage.overrides, NoOverrides)
           filter == Stored(storage.filters, NoFilters)
           loaded == [Closed EXCEPT !.page = table, !.overrides = kept, !.filters = filter]
<1>1. kept \in Opinions /\ filter \in Filters
  BY DEF Inv, Types, Stores, Stored, NoOverrides, NoFilters, Opinions, Filters
<1>2. PICK calls \in WithCall(Closed.calls) :
        tab' = [tab EXCEPT ![t] =
          IF Storage = "off" THEN [loaded EXCEPT !.select = TRUE]
          ELSE ApplyRefreshInterval(
            [loaded EXCEPT !.select = storage.refresh, !.calls = calls], storage.refresh)]
  BY DEF Open
<1>3. calls \in [Calls -> Answers \cup {Sent, None}] /\ storage.refresh \in BOOLEAN
  <2>1. Closed.calls \in [Calls -> Answers \cup {Sent, None}]
    BY DEF Closed
  <2> QED
    BY <2>1, WithCallType DEF Inv, Types, Stores
<1>4. /\ loaded \in Page /\ loaded.page = table /\ loaded.data = None
      /\ loaded.overrides = kept /\ loaded.view = Absence
  <2> HIDE DEF kept, filter
  <2>1. /\ Closed \in Page /\ Closed.data = None /\ Closed.view = Absence
    BY ClosedOK DEF Closed, Absence, PageOK
  <2> QED
    BY <1>1, <2>1 DEF Page
<1> HIDE DEF loaded, kept
<1> DEFINE page == IF Storage = "off" THEN [loaded EXCEPT !.select = TRUE]
                   ELSE ApplyRefreshInterval(
                     [loaded EXCEPT !.select = storage.refresh, !.calls = calls],
                     storage.refresh)
<1>5. /\ page \in Page /\ page.page = table /\ page.data = None
      /\ page.overrides = kept /\ page.view = Absence
  BY <1>3, <1>4 DEF Page, ApplyRefreshInterval
<1> HIDE DEF page
<1>6. PageOK(page)
  BY <1>5, DashboardAssumption DEF PageOK, Drawn
<1>7. tab' = [tab EXCEPT ![t] = page]
  BY <1>2 DEF page, loaded, kept
<1> QED
  BY <1>5, <1>6, <1>7 DEF kept

\* What the operator does with the groups or the filter.
LEMMA OverridePage ==
  ASSUME Inv, NEW t \in Tabs, NEW opinions \in Opinions, tab[t].page # None,
         Override(t, opinions)
  PROVE  \E page : /\ tab' = [tab EXCEPT ![t] = page]
                   /\ PageOK(page) /\ page.page = tab[t].page
                   /\ page.overrides = opinions
<1> DEFINE chosen == [tab[t] EXCEPT !.overrides = opinions]
<1>1. PageOK(tab[t])
  BY DEF Inv, ScreenIsDrawn
<1>2. /\ chosen \in Page /\ chosen.page = tab[t].page /\ chosen.data = tab[t].data
      /\ chosen.view = tab[t].view /\ chosen.overrides = opinions
  BY <1>1 DEF PageOK, Page
<1>3. tab' = [tab EXCEPT ![t] = RenderAll(chosen)]
  BY DEF Override, Becomes
<1> HIDE DEF chosen
<1>4. chosen.data = None => chosen.view = Absence
  BY <1>1, <1>2 DEF PageOK, Drawn
<1>5. PageOK(RenderAll(chosen)) /\ RenderAll(chosen).overrides = opinions
      /\ RenderAll(chosen).page = tab[t].page
  BY <1>2, <1>4, RenderAllDraws
<1> QED
  BY <1>3, <1>5

(***************************************************************************)
(* What a step does to the operator's choices.                             *)
(***************************************************************************)
Moved(t, page) == tab' = [tab EXCEPT ![t] = page] /\ PageOK(page)

\* Nobody's choices change: answers, the interval, the filter, leaving.
Quiet(t, page) ==
  /\ Moved(t, page)
  /\ page.page # None => tab[t].page # None /\ page.overrides = tab[t].overrides
  /\ storage'.overrides = storage.overrides /\ wish' = wish

\* A page is loaded.
Loads(t, page) ==
  /\ Moved(t, page)
  /\ page.overrides = Stored(storage.overrides, NoOverrides)
  /\ UNCHANGED <<storage, wish>>

\* The operator speaks: where the page's memory changes, it and wish change to
\* the same.
Chooses(t, page) ==
  /\ Moved(t, page)
  /\ tab[t].page # None
  /\ Save("overrides", page.overrides)
  /\ wish' \in Opinions
  /\ \A id \in Tables \X Groups :
       \/ page.overrides[id] = wish'[id]
       \/ page.overrides[id] = tab[t].overrides[id] /\ wish'[id] = wish[id]

Step(t) == \E page : Quiet(t, page) \/ Loads(t, page) \/ Chooses(t, page)

\* Types of what is not a page.
Outside ==
  server' \in Answers /\ up' \in BOOLEAN /\ storage' \in Stores

LEMMA SaveOverrides ==
  ASSUME Inv, NEW opinions \in Opinions, Save("overrides", opinions)
  PROVE  storage' \in Stores
BY DEF Inv, Types, Stores, Save

LEMMA SaveFilters ==
  ASSUME Inv, NEW filters \in Filters, Save("filters", filters)
  PROVE  storage' \in Stores /\ storage'.overrides = storage.overrides
BY DEF Inv, Types, Stores, Save

LEMMA LeaveStep ==
  ASSUME Inv, NEW t \in Tabs, Leave(t)
  PROVE  Step(t) /\ Outside
<1>1. Quiet(t, Closed)
  BY ClosedOK DEF Leave, Quiet, Moved, Closed
<1> QED
  BY <1>1 DEF Step, Outside, Leave, Inv, Types

LEMMA OpenStep ==
  ASSUME Inv, NEW t \in Tabs, NEW table \in Tables, Open(t, table)
  PROVE  Step(t) /\ Outside
<1>1. \E page : Loads(t, page)
  BY OpenPage DEF Open, Loads, Moved
<1> QED
  BY <1>1 DEF Step, Outside, Open, Inv, Types

LEMMA RefreshStep ==
  ASSUME Inv, NEW t \in Tabs, RefreshData(t)
  PROVE  Step(t) /\ Outside
<1>1. PICK calls \in WithCall(tab[t].calls) : tab' = [tab EXCEPT ![t].calls = calls]
  BY DEF RefreshData
<1> DEFINE page == [tab[t] EXCEPT !.calls = calls]
<1>2. tab[t] \in Page /\ calls \in [Calls -> Answers \cup {Sent, None}]
  <2>1. tab[t] \in Page
    BY DEF Inv, Types
  <2>2. tab[t].calls \in [Calls -> Answers \cup {Sent, None}]
    BY <2>1 DEF Page
  <2> QED
    BY <2>1, <2>2, WithCallType
<1>3. /\ page \in Page /\ page.page = tab[t].page /\ page.data = tab[t].data
      /\ page.view = tab[t].view /\ page.overrides = tab[t].overrides
      /\ page.filters = tab[t].filters
  BY <1>2 DEF Page
<1>4. tab' = [tab EXCEPT ![t] = page]
  BY <1>1
<1> HIDE DEF page
<1>5. PageOK(page)
  BY <1>3, QuietStep DEF RefreshData
<1>6. Quiet(t, page)
  BY <1>3, <1>4, <1>5 DEF Quiet, Moved, RefreshData
<1> QED
  BY <1>6 DEF Step, Outside, RefreshData, Inv, Types

\* A request belongs to a page.
LEMMA CallsHavePages ==
  ASSUME Inv, NEW t \in Tabs, NEW c \in Calls, tab[t].calls[c] # None
  PROVE  tab[t].page # None
BY DEF Inv, ScreenIsDrawn, PageOK, Blank

LEMMA AnsweredStep ==
  ASSUME Inv, NEW t \in Tabs, NEW c \in Calls, Answered(t, c)
  PROVE  Step(t) /\ Outside
<1> DEFINE page == [tab[t] EXCEPT !.calls[c] = IF up THEN server ELSE None]
<1>1. tab[t] \in Page /\ (IF up THEN server ELSE None) \in Answers \cup {Sent, None}
  BY DEF Inv, Types
<1>2. tab[t].page # None
  BY CallsHavePages, DashboardAssumption DEF Answered
<1>3. /\ page \in Page /\ page.page = tab[t].page /\ page.data = tab[t].data
      /\ page.view = tab[t].view /\ page.overrides = tab[t].overrides
      /\ page.filters = tab[t].filters
  BY <1>1 DEF Page
<1>4. tab' = [tab EXCEPT ![t] = page]
  BY DEF Answered
<1> HIDE DEF page
<1>5. PageOK(page)
  BY <1>2, <1>3, QuietStep
<1>6. Quiet(t, page)
  BY <1>2, <1>3, <1>4, <1>5 DEF Quiet, Moved, Answered
<1> QED
  BY <1>6 DEF Step, Outside, Answered, Inv, Types

LEMMA ArrivesStep ==
  ASSUME Inv, NEW t \in Tabs, NEW c \in Calls, Arrives(t, c)
  PROVE  Step(t) /\ Outside
<1> DEFINE got == [tab[t] EXCEPT !.data = tab[t].calls[c], !.calls[c] = None]
<1>1. tab[t] \in Page /\ PageOK(tab[t]) /\ tab[t].calls[c] \in Answers
  BY DEF Inv, Types, ScreenIsDrawn, Arrives
<1>2. /\ got \in Page /\ got.page = tab[t].page /\ got.data = tab[t].calls[c]
      /\ got.overrides = tab[t].overrides
  BY <1>1 DEF Page
<1>3. tab' = [tab EXCEPT ![t] = RenderAll(got)]
  BY DEF Arrives, Becomes
<1> HIDE DEF got
<1>4. got.data # None /\ tab[t].page # None
  BY <1>1, <1>2, CallsHavePages, DashboardAssumption
<1>5. /\ PageOK(RenderAll(got)) /\ RenderAll(got).overrides = tab[t].overrides
      /\ RenderAll(got).page = tab[t].page
  BY <1>2, <1>4, RenderAllDraws
<1>6. Quiet(t, RenderAll(got))
  BY <1>3, <1>4, <1>5 DEF Quiet, Moved, Arrives
<1> QED
  BY <1>6 DEF Step, Outside, Arrives, Inv, Types

LEMMA SelectIntervalStep ==
  ASSUME Inv, NEW t \in Tabs, NEW on \in BOOLEAN, SelectInterval(t, on)
  PROVE  Step(t) /\ Outside
<1> DEFINE chosen == [tab[t] EXCEPT !.select = on]
           page   == IF Storage = "works" THEN ApplyRefreshInterval(chosen, on) ELSE chosen
<1>1. tab[t] \in Page /\ tab[t].page # None
  BY DEF Inv, Types, SelectInterval
<1>2. /\ page \in Page /\ page.page = tab[t].page /\ page.data = tab[t].data
      /\ page.view = tab[t].view /\ page.overrides = tab[t].overrides
      /\ page.filters = tab[t].filters
  BY <1>1 DEF Page, ApplyRefreshInterval
<1>3. tab' = [tab EXCEPT ![t] = page]
  BY DEF SelectInterval
<1>4. storage' \in Stores /\ storage'.overrides = storage.overrides
  BY DEF SelectInterval, Inv, Types, Stores
<1> HIDE DEF page
<1>5. PageOK(page)
  BY <1>1, <1>2, QuietStep
<1>6. Quiet(t, page)
  BY <1>1, <1>2, <1>3, <1>4, <1>5 DEF Quiet, Moved, SelectInterval
<1> QED
  BY <1>4, <1>6 DEF Step, Outside, SelectInterval, Inv, Types

LEMMA SetStateFilterStep ==
  ASSUME Inv, NEW t \in Tabs, NEW key \in States \cup {"all"}, SetStateFilter(t, key)
  PROVE  Step(t) /\ Outside
<1> DEFINE next    == IF activeFilter(tab[t]) = key THEN "all" ELSE key
           filters == [tab[t].filters EXCEPT ![tab[t].page] = next]
           chosen  == [tab[t] EXCEPT !.filters = filters]
<1>1. tab[t] \in Page /\ PageOK(tab[t]) /\ tab[t].page # None
  BY DashboardAssumption DEF Inv, Types, ScreenIsDrawn, SetStateFilter
<1>2. filters \in Filters
  BY <1>1 DEF Page, Filters
<1>3. tab' = [tab EXCEPT ![t] = RenderAll(chosen)] /\ Save("filters", filters)
  BY DEF SetStateFilter, Becomes
<1> HIDE DEF filters
<1>4. /\ chosen \in Page /\ chosen.page = tab[t].page /\ chosen.data = tab[t].data
      /\ chosen.view = tab[t].view /\ chosen.overrides = tab[t].overrides
  BY <1>1, <1>2 DEF Page
<1> HIDE DEF chosen
<1>5. chosen.data = None => chosen.view = Absence
  BY <1>1, <1>4 DEF PageOK, Drawn
<1>6. /\ PageOK(RenderAll(chosen)) /\ RenderAll(chosen).overrides = tab[t].overrides
      /\ RenderAll(chosen).page = tab[t].page
  BY <1>1, <1>4, <1>5, RenderAllDraws
<1>7. storage' \in Stores /\ storage'.overrides = storage.overrides
  BY <1>2, <1>3, SaveFilters
<1>8. Quiet(t, RenderAll(chosen))
  BY <1>1, <1>3, <1>6, <1>7 DEF Quiet, Moved, SetStateFilter
<1> QED
  BY <1>7, <1>8 DEF Step, Outside, SetStateFilter, Inv, Types

\* The three ways to choose differ only in the groups they speak about.
LEMMA ChooseStep ==
  ASSUME Inv, NEW t \in Tabs, NEW opinions \in Opinions, tab[t].page # None,
         Override(t, opinions), wish' \in Opinions,
         \A id \in Tables \X Groups :
           \/ opinions[id] = wish'[id]
           \/ opinions[id] = tab[t].overrides[id] /\ wish'[id] = wish[id]
  PROVE  Step(t) /\ Outside
<1>1. PICK page : /\ tab' = [tab EXCEPT ![t] = page]
                  /\ PageOK(page) /\ page.page = tab[t].page
                  /\ page.overrides = opinions
  BY OverridePage
<1>2. Save("overrides", opinions) /\ server' = server /\ up' = up
  BY DEF Override
<1>3. Chooses(t, page)
  BY <1>1, <1>2 DEF Chooses, Moved
<1> QED
  BY <1>2, <1>3, SaveOverrides DEF Step, Outside, Inv, Types

LEMMA ToggleGroupStep ==
  ASSUME Inv, NEW t \in Tabs, NEW g \in Groups, ToggleGroup(t, g)
  PROVE  Step(t) /\ Outside
<1> DEFINE id       == <<tab[t].page, g>>
           opinion  == Flip(tab[t].view[g])
           opinions == [tab[t].overrides EXCEPT ![id] = opinion]
<1>1. tab[t] \in Page /\ PageOK(tab[t]) /\ wish \in Opinions
  BY DEF Inv, Types, ScreenIsDrawn
<1>2. tab[t].page \in Tables
  <2>1. tab[t].data # None
    BY <1>1 DEF PageOK, Drawn, Absence, ToggleGroup
  <2> QED
    BY <1>1, <2>1 DEF PageOK, Blank, Page
<1>3. id \in Tables \X Groups /\ opinion \in {"open", "closed"}
  BY <1>2 DEF Flip
<1>4. opinions \in Opinions /\ [wish EXCEPT ![id] = opinion] \in Opinions
  BY <1>1, <1>3 DEF Page, Opinions
<1>5. Override(t, opinions) /\ wish' = [wish EXCEPT ![id] = opinion]
  BY DEF ToggleGroup
<1>6. \A i \in Tables \X Groups :
        \/ opinions[i] = wish'[i]
        \/ opinions[i] = tab[t].overrides[i] /\ wish'[i] = wish[i]
  <2>1. tab[t].overrides \in Opinions
    BY <1>1 DEF Page
  <2> HIDE DEF id, opinion
  <2> QED
    BY <1>1, <1>5, <2>1 DEF Opinions
<1>7. tab[t].page # None
  BY <1>2, DashboardAssumption
<1> HIDE DEF opinions
<1> QED
  BY <1>4, <1>5, <1>6, <1>7, ChooseStep

LEMMA SetAllGroupsStep ==
  ASSUME Inv, NEW t \in Tabs, NEW opinion \in {"open", "closed"}, SetAllGroups(t, opinion)
  PROVE  Step(t) /\ Outside
<1> DEFINE ids == {tab[t].page} \X {g \in Groups : Listed(tab[t].data, g)}
           All(opinions) ==
             [id \in Tables \X Groups |-> IF id \in ids THEN opinion ELSE opinions[id]]
<1>1. tab[t].overrides \in Opinions /\ wish \in Opinions
  BY DEF Inv, Types, Page
<1>2. /\ Override(t, All(tab[t].overrides)) /\ wish' = All(wish)
      /\ tab[t].page \in Controls
  BY DEF SetAllGroups
<1> HIDE DEF ids
<1>3. All(tab[t].overrides) \in Opinions /\ All(wish) \in Opinions
  BY <1>1 DEF Opinions
<1>4. \A id \in Tables \X Groups :
        \/ All(tab[t].overrides)[id] = wish'[id]
        \/ All(tab[t].overrides)[id] = tab[t].overrides[id] /\ wish'[id] = wish[id]
  BY <1>2
<1>5. tab[t].page # None
  BY <1>2, DashboardAssumption
<1> HIDE DEF All
<1> QED
  BY <1>2, <1>3, <1>4, <1>5, ChooseStep

LEMMA ResetGroupsStep ==
  ASSUME Inv, NEW t \in Tabs, ResetGroups(t)
  PROVE  Step(t) /\ Outside
<1> DEFINE opinions == Forget(tab[t].overrides, tab[t].page)
<1>1. tab[t].overrides \in Opinions /\ wish \in Opinions
  BY DEF Inv, Types, Page
<1>2. /\ Override(t, opinions) /\ tab[t].page \in Controls
      /\ wish' = [id \in Tables \X Groups |->
                   IF id[1] = tab[t].page THEN "none" ELSE wish[id]]
  BY DEF ResetGroups
<1>3. opinions \in Opinions /\ wish' \in Opinions
  BY <1>1, <1>2 DEF Opinions, Forget
<1>4. \A id \in Tables \X Groups :
        \/ opinions[id] = wish'[id]
        \/ opinions[id] = tab[t].overrides[id] /\ wish'[id] = wish[id]
  BY <1>2 DEF Forget
<1>5. tab[t].page # None
  BY <1>2, DashboardAssumption
<1> HIDE DEF opinions
<1> QED
  BY <1>2, <1>3, <1>4, <1>5, ChooseStep

\* Every step of the system is the world's, or one page's.
LEMMA NextSteps ==
  ASSUME Inv, Next
  PROVE  \/ UNCHANGED <<storage, tab, wish>> /\ Outside
         \/ \E t \in Tabs : Step(t) /\ Outside
<1>1. CASE ServerChanges
  BY <1>1 DEF ServerChanges, Outside, Inv, Types
<1>2. CASE \E t \in Tabs : Operator(t)
  <2>1. PICK t \in Tabs : Operator(t)
    BY <1>2
  <2>2. Button(t) => Step(t) /\ Outside
    BY RefreshStep DEF Button
  <2>3. Step(t) /\ Outside
    BY <2>1, <2>2, OpenStep, LeaveStep, ResetGroupsStep, SelectIntervalStep,
       ToggleGroupStep, SetAllGroupsStep, SetStateFilterStep DEF Operator
  <2> QED
    BY <2>3
<1>3. CASE \E t \in Tabs : TimerFires(t)
  BY <1>3, RefreshStep DEF TimerFires
<1>4. CASE \E t \in Tabs, c \in Calls : Answered(t, c) \/ Arrives(t, c)
  BY <1>4, AnsweredStep, ArrivesStep
<1> QED
  BY <1>1, <1>2, <1>3, <1>4 DEF Next

(***************************************************************************)
(* The theorems.                                                           *)
(***************************************************************************)
LEMMA InitInv == Init => Inv
<1>1. ASSUME Init
      PROVE  Types
  <2>1. Closed \in Page /\ NoOverrides \in Opinions
    BY ClosedOK DEF PageOK, NoOverrides, Opinions
  <2> QED
    BY <1>1, <2>1 DEF Init, Types, Stores
<1>2. Init => ScreenIsDrawn
  BY ClosedOK DEF Init, ScreenIsDrawn
<1> QED
  BY <1>1, <1>2 DEF Inv

LEMMA NextInv == Inv /\ [Next]_vars => Inv'
<1> SUFFICES ASSUME Inv, [Next]_vars
             PROVE  Inv'
  OBVIOUS
<1>1. CASE UNCHANGED <<storage, tab, wish>> /\ Outside
  BY <1>1 DEF Inv, Types, Outside, ScreenIsDrawn
<1>2. ASSUME NEW t \in Tabs, Step(t), Outside
      PROVE  Inv'
  <2>1. PICK page : Quiet(t, page) \/ Loads(t, page) \/ Chooses(t, page)
    BY <1>2 DEF Step
  <2>2. Moved(t, page) /\ wish' \in Opinions
    BY <2>1 DEF Quiet, Loads, Chooses, Inv, Types
  <2>3. tab' \in [Tabs -> Page] /\ ScreenIsDrawn'
    BY <2>2, OneTabChanges DEF Moved
  <2> QED
    BY <1>2, <2>2, <2>3 DEF Inv, Types, Outside
<1>3. CASE UNCHANGED vars
  BY <1>3 DEF vars, Inv, Types, ScreenIsDrawn
<1> QED
  BY <1>1, <1>2, <1>3, NextSteps

\* renderAll is called wherever it has to be: after every step of any number of
\* tabs, whatever the storage does and in whatever order answers come, each page
\* shows what its data, choices and filter say.
THEOREM PagesAreDrawn == Spec => []ScreenIsDrawn
<1>1. Spec => []Inv
  BY InitInv, NextInv, PTL DEF Spec
<1>2. Inv => ScreenIsDrawn
  BY DEF Inv
<1> QED
  BY <1>1, <1>2, PTL

\* With one tab, storage and page memory hold no opinion the operator has not
\* last expressed, whether or not they can be written.
Unasked(opinions) ==
  \A id \in Tables \X Groups : wish[id] = "none" => opinions[id] = "none"

NothingUnasked ==
  /\ Storage # "works" => storage.overrides = None
  /\ storage.overrides # None => Unasked(storage.overrides)
  /\ \A t \in Tabs : tab[t].page # None => Unasked(tab[t].overrides)

LEMMA NothingUnaskedStays ==
  ASSUME Inv, NothingUnasked, [Next]_vars, NEW s, Tabs = {s}
  PROVE  NothingUnasked'
<1>1. CASE UNCHANGED <<storage, tab, wish>>
  BY <1>1 DEF NothingUnasked, Unasked
<1>2. ASSUME Step(s), s \in Tabs
      PROVE  NothingUnasked'
  <2>1. PICK page : Quiet(s, page) \/ Loads(s, page) \/ Chooses(s, page)
    BY <1>2 DEF Step
  <2>2. tab'[s] = page
    BY <1>2, <2>1 DEF Quiet, Loads, Chooses, Moved, Inv, Types
  <2>3. CASE Quiet(s, page)
    BY <1>2, <2>2, <2>3 DEF Quiet, NothingUnasked, Unasked
  <2>4. CASE Loads(s, page)
    <3>1. Unasked(page.overrides)
      BY <2>4 DEF Loads, NothingUnasked, Unasked, Stored, NoOverrides
    <3> QED
      BY <2>2, <2>4, <3>1 DEF Loads, NothingUnasked, Unasked
  <2>5. CASE Chooses(s, page)
    <3>1. \A id \in Tables \X Groups : wish'[id] = "none" => page.overrides[id] = "none"
      BY <1>2, <2>5 DEF Chooses, NothingUnasked, Unasked
    <3>2. storage'.overrides = IF Storage = "works" THEN page.overrides ELSE None
      BY <2>5 DEF Chooses, Save, NothingUnasked, Inv, Types, Stores
    <3> QED
      BY <2>2, <3>1, <3>2 DEF NothingUnasked, Unasked
  <2> QED
    BY <2>1, <2>3, <2>4, <2>5
<1> QED
  BY <1>1, <1>2, NextSteps DEF vars

LEMMA InitNothingUnasked == Init => NothingUnasked
BY DEF Init, NothingUnasked, Closed

\* Where the operator of the one tab there is has said nothing, health decides
\* what is open: with any storage, for any groups, answers and order of arrival.
THEOREM HealthDecidesTheorem ==
  ASSUME NEW s, Tabs = {s}
  PROVE  Spec => []HealthDecides
<1> DEFINE Both == Inv /\ NothingUnasked
<1>1. Init => Both
  BY InitInv, InitNothingUnasked
<1>2. Both /\ [Next]_vars => Both'
  BY NextInv, NothingUnaskedStays
<1>3. Both => HealthDecides
  <2> SUFFICES ASSUME Both, NEW t \in Tabs, NEW g \in Groups,
                      tab[t].view[g] # "absent", wish[tab[t].page, g] = "none",
                      activeFilter(tab[t]) = "all"
               PROVE  LET shown == tab[t].data[g]
                      IN  tab[t].view[g] = "open"
                            <=> \/ shown.status \in {"error", "pending"}
                                \/ shown.status \in {"local", "ok"}
                                   /\ "critical" \in shown.entries
    BY DEF HealthDecides
  <2> DEFINE data == tab[t].data
  <2>1. PageOK(tab[t]) /\ tab[t] \in Page
    BY DEF Inv, Types, ScreenIsDrawn
  <2>2. data \in Answers /\ tab[t].page \in Tables /\ tab[t].page # None
    <3>1. data # None
      BY <2>1 DEF PageOK, Drawn, Absence
    <3> QED
      BY <2>1, <3>1 DEF PageOK, Blank, Page
  <2>3. tab[t].overrides[tab[t].page, g] = "none"
    BY <2>2 DEF NothingUnasked, Unasked
  <2>4. tab[t].view = GroupedRows(tab[t], data)
    BY <2>1, <2>2, DashboardAssumption DEF PageOK, Drawn, Filtered
  <2>5. Listed(data, g) /\ (tab[t].view[g] = "open" <=> NeedsAttention(data, g))
    BY <2>3, <2>4 DEF GroupedRows, Collapsed
  <2>6. data[g].status \in Statuses /\ (data[g].status = "local" <=> g \in Hosts)
    BY <2>2, DashboardAssumption DEF Answer
  <2> DEFINE asks == \/ data[g].status \in {"error", "pending"}
                     \/ data[g].status \in {"local", "ok"} /\ "critical" \in data[g].entries
  <2>7. g \in Hosts => (NeedsAttention(data, g) <=> asks)
    BY <2>6, DashboardAssumption DEF NeedsAttention
  <2>8. g \in Peers => (NeedsAttention(data, g) <=> asks)
    BY <2>5, <2>6, DashboardAssumption
       DEF NeedsAttention, PeerNeedsAttention, Listed, Statuses
  <2> QED
    BY <2>5, <2>7, <2>8 DEF Groups
<1> QED
  BY <1>1, <1>2, <1>3, PTL DEF Spec

\* With one tab and a storage that can be written, storage and page memory both
\* hold just what the operator last expressed.
Remembered ==
  /\ storage.overrides = None => wish = NoOverrides
  /\ storage.overrides # None => storage.overrides = wish
  /\ \A t \in Tabs : tab[t].page # None => tab[t].overrides = wish

LEMMA InitRemembered == Init => Remembered
BY DEF Init, Remembered, Closed

LEMMA RememberedStays ==
  ASSUME Inv, Remembered, [Next]_vars, NEW s, Tabs = {s}, Storage = "works"
  PROVE  Remembered'
<1>1. CASE UNCHANGED <<storage, tab, wish>>
  BY <1>1 DEF Remembered
<1>2. ASSUME Step(s), s \in Tabs
      PROVE  Remembered'
  <2>1. PICK page : Quiet(s, page) \/ Loads(s, page) \/ Chooses(s, page)
    BY <1>2 DEF Step
  <2>2. tab'[s] = page
    BY <1>2, <2>1 DEF Quiet, Loads, Chooses, Moved, Inv, Types
  <2>3. CASE Quiet(s, page)
    BY <1>2, <2>2, <2>3 DEF Quiet, Remembered
  <2>4. CASE Loads(s, page)
    <3>1. page.overrides = wish
      BY <2>4 DEF Loads, Remembered, Stored
    <3> QED
      BY <2>2, <2>4, <3>1 DEF Loads, Remembered
  <2>5. CASE Chooses(s, page)
    <3>1. /\ page.overrides \in Opinions /\ tab[s].overrides = wish
          /\ page.overrides # None
      BY <1>2, <2>5, DashboardAssumption DEF Chooses, Moved, PageOK, Page, Remembered, Opinions
    <3>2. \A id \in Tables \X Groups : page.overrides[id] = wish'[id]
      BY <2>5, <3>1 DEF Chooses
    <3>3. page.overrides = wish'
      BY <2>5, <3>1, <3>2 DEF Chooses, Opinions
    <3>4. storage'.overrides = page.overrides
      BY <2>5 DEF Chooses, Save, Inv, Types, Stores
    <3> QED
      BY <2>2, <3>1, <3>3, <3>4 DEF Remembered
  <2> QED
    BY <2>1, <2>3, <2>4, <2>5
<1> QED
  BY <1>1, <1>2, NextSteps DEF vars

\* A group stays as the operator last put it, through refreshes, filters, visits
\* to other pages and reloads: with one tab and a storage that can be written,
\* for any groups, answers and order of arrival.
THEOREM WishesAreKeptTheorem ==
  ASSUME NEW s, Tabs = {s}, Storage = "works"
  PROVE  Spec => []WishesAreKept
<1> DEFINE Both == Inv /\ Remembered
<1>1. Init => Both
  BY InitInv, InitRemembered
<1>2. Both /\ [Next]_vars => Both'
  BY NextInv, RememberedStays
<1>3. Both => WishesAreKept
  <2> SUFFICES ASSUME Both, NEW t \in Tabs, NEW g \in Groups,
                      tab[t].view[g] # "absent", wish[<<tab[t].page, g>>] # "none"
               PROVE  tab[t].view[g] = wish[<<tab[t].page, g>>]
    BY DEF WishesAreKept
  <2>1. PageOK(tab[t]) /\ tab[t] \in Page
    BY DEF Inv, Types, ScreenIsDrawn
  <2>2. tab[t].data # None
    BY <2>1 DEF PageOK, Drawn, Absence
  <2>3. tab[t].page \in Tables /\ tab[t].overrides = wish
    BY <2>1, <2>2 DEF PageOK, Blank, Page, Remembered
  <2>4. wish[<<tab[t].page, g>>] \in {"open", "closed"}
    BY <2>3 DEF Inv, Types, Opinions
  <2>5. \E data : tab[t].view = GroupedRows(tab[t], data)
    BY <2>1, <2>2 DEF PageOK, Drawn
  <2> QED
    BY <2>3, <2>4, <2>5 DEF GroupedRows, Collapsed
<1> QED
  BY <1>1, <1>2, <1>3, PTL DEF Spec
================================================================================
