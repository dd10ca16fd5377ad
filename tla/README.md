# Models of mu2edaq-diskwatcher

TLA+ modules that model the daemon in `src/`, TLC configurations that check
them on small instances, and TLAPS proofs about them. Everything runs inside
this directory:

    tlc -workers 2 -config Poller.cfg MCPoller     # check one run
    tlapm PollerProofs.tla                         # check one module's proofs

`PROJECT.json` lists the runs, the source lines behind every definition, the
mistaken variants that show each property can fail, the disagreements found
between code and documentation, and the hazards the properties are for. In
what follows, file names without a directory are those of
`src/src/mu2edaq_diskwatcher/`.

## 1. Inventory of the system

A diskwatcher is one process per node. It stats a configured list of files and
directories on a timer, classifies what it reads, and serves the result over
HTTP as pages and as JSON. It also fetches `/api/state` of its peers, other
diskwatchers that are configured or discovered by multicast, and shows their
entries beside its own.

| Component | State | Operations | Correct when |
|---|---|---|---|
| Threshold arithmetic (`thresholds.py`) | none | resolve a limit, classify free space or size, check order | alarms follow the numbers, worse readings never give milder alarms |
| Watch entry poll (`poller.py` `poll_entry`) | the state dict it builds | stat, disk usage, evaluate; or the failure branch | alarms agree with the numbers shown, staleness goes only when the path is touched, a failure costs one reading |
| Local poller (`poller.py`, `cli.py` `main`) | thread, pool, futures, results | `do_poll`, `poll_loop`, first poll before the web server | every published list is one whole, recent poll; a stall is visible |
| State store (`state.py` `StateStore`) | entries, time and duration of the poll | `replace`, `snapshot`, `meta` | readers never see part of a poll |
| State API (`web/api.py`, `state.py`) | none of its own | `/api/state`, `/api/health`, feeds of the pages, the aggregate with peers | answers agree with the stores and with themselves, one hop only |
| Federation (`peers.py`, `state.py` `PeerStore`) | discovery's `_seen`, peer records and their order | scan, expire, fetch, update, remove | list follows configuration and discovery; outages keep data; no loops |
| Remote probing (`ssh.py`) | probe mode per host | python3 snippet, stat fallback | MISSING, UNKNOWN and measured stay apart |
| Configuration (`config.py`) | none | entries, limits, peers, problems | a bad item costs only itself and is reported |
| Settings (`settings.py`, `cli.py`) | the layered settings | defaults, file, environment, arguments, what is derived from them | later layers win, bad values are reported, derived values follow the final ones |
| Life cycle (`daemon.py`, start and stop scripts, `lib/diskwatcher-proc.sh`) | pid files, processes | daemonize, find, kill, replace | one instance per directory, none left over, its pid file names it |
| Discovery responder (`discovery.py`) | an external library's thread | start, stop | - |
| Dashboard (`web/static/diskwatcher.js`, templates, `web/views.py`) | the page, `localStorage` | refresh, open and collapse groups, filter | choices stay, alarms stand open, the page catches up |
| Fleet tools (`tools/`) | none | remote start, stop, status of many nodes | - |
| Display formatting (`formatting.py`) | none | durations and byte counts as text | - |

How they interact: `main` loads the configuration, daemonizes, polls once by
itself, then starts the polling thread, the peer thread and a threaded web
server. The polling thread writes the state store, the peer thread the peer
store and the discovery bookkeeping, and request handlers read all of them,
each object behind a lock of its own. Peers and ssh targets are processes on
other machines that come and go.

What is hard about it: the monitored path changes between the system calls of
one poll; up to twenty polls run at once, complete in any order, and any of
them may hang in the kernel or raise; a request may read the store twice with
a publication in between; the peer thread works with clock readings taken at
the beginning of a cycle of unknown length while multicast answers get lost;
probes of one ssh host share a cached decision; and a configuration that is
partly wrong has to be lived with. Nothing but the pid file is persisted, so
there is no crash recovery beyond the life cycle scripts.

## 2. The modules

    Thresholds <- WatchEntry <- MCWatchEntry, WatchEntryProofs
        ^-------- Config     <- Startup <- MCStartup, StartupProofs
    Board <= Poller <- StateApi <- MCStateApi, PollerProofs
               ^------ MCPoller                       (<= : is implemented by)
    Peers      <- MCPeers, PeersProofs
    Federation <- MCFederation, FederationProofs
    SshProbe   <- MCSshProbe, SshProbeProofs
    Lifecycle  <- MCLifecycle, LifecycleProofs
    Dashboard  <- MCDashboard, DashboardProofs

Definitions with the comment *Mistaken variant* model plausible bugs. No
specification uses them: `PROJECT.json` pairs each with the property that
fails when it takes the place of the definition it varies.

**Thresholds** is the arithmetic of `thresholds.py` as pure operators. Limits
are functions from the three levels to Threshold records or byte counts.
Percentages are counted in a fraction of a percent, of which `Hundred` make a
hundred percent (tenths in the runs); `round` goes to the even neighbour on a tie
as Python's does.

**WatchEntry** is one entry polled again and again. Its actions are the system
calls of `poll_entry` (`StatFile`, `StatDirectory`, `MeasureUsage`, `PollFails`)
between which the path may change (`ChangePath`) and time may pass. `WarningFails`
is the poll of a directory with a log that cannot be written: the warning about
the order of its limits is printed inside the `try`, and the `except` branch
(`Failed`) then updates a dict that already holds the time stamps and disk figures.
`warned` is the process-wide mark that the warning has been printed, `misread` a
history that counts such polls. `state` is the finished state dict without display
strings, `started` the reference time that `do_poll` takes before it submits
anything. A path has a modification time up to now, a size, and a disk usage that
may be unreadable or of zero capacity.

**Poller** is `do_poll`, its `ThreadPoolExecutor`, `poll_loop`, `StateStore` and
the order of `main`. An entry's task is queued, running, done or raised, and
collected; `results` is the list `do_poll` fills; `store`, `last` and `age` are
the store's entries, the poll they came from and the age of `_last_poll`. What
a poll reports is abstracted to an answer. A path may also be `Hung` (`os.stat`
does not return) or `Raises` (an exception other than `OSError`). When a
future's result raises, the thread leaves the collecting loop, but the `with`
block still waits for all submitted tasks: that is `thread = "failing"`, which
ends in `AbandonPoll`. `main` polls once itself before `up`; an exception there
ends the process.

**Board** says what the poller promises to its readers: a poll opens, paths
change, and in one step the board takes one new reading per entry, each a
condition its path had while the poll was open. `Promise` in Poller instantiates
it, with the store's entries reduced to what they show.

**StateApi** adds a request to `/api/state` that calls `STORE.snapshot` and then
`STORE.meta`, two acquisitions of the lock with polls going on between them.

**Peers** is the peer thread of one daemon: `active_peers` (`BeginCycle`,
`Multicast`, `Probe`, `Expire`, `Remove`), `do_peer_poll` (`Submit`, `AskPeer`,
`Update`, `EndCycle`) and the sleep. A peer is its URL. Time stamps are kept as
ages; stamping with the cycle's `now` gives a stamp the age of the cycle. The data
of a record is one value, as the code always keeps or replaces those fields
together. `previous` is what `Submit` reads of the store, and failed fetches
return. Fetches of the peers in `Breaks` may end with an exception that
`fetch_state` does not translate. Our own responder and our own address behind
another name are the URLs in `Own`.

**Federation** puts several daemons together, without the timing and the
bookkeeping of discovery. `daemon[n]` is the process of a node: its state store,
the fetches under way (`flight`), its peer records, and a request with `?peers=1`
that reads the local entries, the peers and the counts in three steps
(`ReadLocal`, `ReadPeers`, `ReadCounts`). A fetch is answered with what the other
node serves at that moment (`Served`), or is lost; results are installed in any
order. `Restart` gives a node a fresh process, `Forget` is the expiry of a
discovered peer. An entry carries the node and the number of the poll it came
from, which no code looks at: with them the properties can say what an answer is
made of. An alias of the node itself is among the URLs.

**SshProbe** is `remote_probe` for several entries at once with the cached probe
mode of their hosts. The two steps of the python3 snippet are two actions. A
command that is lost stands for refused, timed out and unparseable alike.

**Config** is `entries_from_config`: items are taken one after the other and
become an entry and a set of reported problems, or end everything with an exception
(`Raise`) over an infinite number. Limit blocks are records of raw values; what a problem says is abstracted to what it is about. An item's path is
the position it stands at, so that entries can be told apart and followed back to
their items. An `ssh:` value is handed on by the code as it is, and left out.

**Startup** is `main` up to `daemonize`. A layer (the file's `watcher:`, the
environment, the arguments) is a function of the settings' names, `Absent`,
`None` and `Junk` among its values, and `ApplyFile`, `ApplyEnvironment` and
`ApplyArguments` put one after the other into `settings`, lists of peers
included; what a layer makes of the settings, and what it reports, are operators
(`WithFile`, `FileIssues` and so on). `LoadConfig` decides between the file, no file and exit; `FileRaises`
is a value of the file that `int`, `float` or `urlsplit` raises over, and
`ArgumentsRaise` a malformed URL after `--peer`. `ResolveSettings` is
`resolve_paths` and `resolve_discover`, and only then `MakeEntries` runs Config
with the final default delay. A path is its text with what its placeholders were
replaced by.

**Lifecycle** is the instances of the daemon on one host. `proc` is the process
table: a pid is free, a stranger's or a diskwatcher's, with the checkout it runs
in and its stage in `main`, and a number is taken by anybody once it is free. The
scripts tell a diskwatcher by the text of its arguments (`dw_is_diskwatcher`),
which other processes may have, too: `Lookalikes` are the directories such
processes work in. They are found and signalled like diskwatchers. The
scripts' steps are the actions `ReadPidFiles`, `Sweep`, `Refuse`, `NothingToStop`,
`CleanUpStale`, `Terminate`, `AllGone`, `TimeIsUp`, `Clear`, `CannotLaunch` and
`Launch`, between which processes fork, write their pid file, bind the port, hang,
die, and the machine may restart. `found` is the script's list of pids. The
field `same` is a history: the pids that still are the processes they were when
the script began to look, which is what the properties compare with. A process
that hangs in the kernel is `doomed` by a signal and ends when it comes back.

**Dashboard** is `diskwatcher.js` in one browser. A tab is a record of what the
loaded page has in memory: `currentData`, the requests under way, `hostOverrides`,
`stateFilters`, the refresh select and timer, and `view`, what `renderAll` drew
last. `storage` is the browser's `localStorage`, which pages read once, when they
are loaded, and write whole. `wish` is a history of what the operator last asked of
each group.

## 3. The runs

| Run | What it shows | Instance |
|---|---|---|
| `WatchEntry` | A directory whose order warning cannot be printed is shown as missing once at most (`MisreadAtMostOnce`); the alarm is the worst one the published numbers justify and UNKNOWN when there are none (`AlarmMatchesReading`); the order flag says exactly whether each alarm can occur (`OrderedMeansReachable`); fuller disks and larger files never get milder alarms (`AlarmsEscalate`); STALE goes only with a newer modification time (`StaleUntilTouched`) | 26 entries: every kind, absolute, relative, mixed, equal, misordered and rounded-to-zero limits; sizes 0, 1, 2, 4; capacities 0 and 4; clock to 2; a log that may fail |
| `Poller` | Whole polls in the right slots (`TypeOK`, `StoreIsWhole`), and answers of `/api/state` that list one whole poll with the time of that poll or of one published during the request (`AnswerTimesNearItsEntries`) | StateApi: 0 to 3 entries, 2 workers, 3 poll numbers, paths that raise |
| `PollerLive` | No result older than its poll (`FreshReadings`); the refinement of Board (`ImplementsBoard`); the store comes to show settled paths (`SettledIsShown`); a hung or raising path makes `/api/health` say stalled for good (`StallIsReported`); polling recovers (`PollingRecovers`) | 0 to 2 entries on 1 worker, so that a task has to queue; 2 answers, both faults |
| `Peers` | `_order` and `_records` stay in step (`OrderMatchesRecords`); the store lists what discovery knows (`ListMatchesDiscovery`); disabled peers stay so although announced (`DisabledIsRespected`); failed fetches keep the data the store has, unless `fetch_state` lets the exception through (`OutageKeepsData`); one unanswered scan drops nobody (`SingleLossNeverDrops`), silence does in the end (`SilentPeerGoes`); statuses settle (`FetchedStatusSettles`) | two configured peers, one disabled and announced; one discovered, reachable by multicast and probe; answers of the first may break the fetch; cycles of up to 2 ticks, interval 1, grace 3 |
| `Federation` | Under a peer's URL are rows of one reading that the node there published, never ours and never third parties' (`OneHop`); the aggregate counts what the same answer lists under connected peers (`AggregateAddsUp`); counts and list of an answer differ only about peers replaced in between (`CountsFollowList`); what is shown of a node never goes back (`NeverGoesBack`); a peer that stays up ends up shown as it is, one that stays down is not counted (`PeersAreFollowed`) | two nodes that list each other, one discovers itself under an alias; A polls once, B twice, and B may restart between its polls, A before its own; two entries, one monitored |
| `SshProbe` | Failures have a cause during the probe, and so do readings (`ResultIsTrue`); a directory goes unmeasured only for a cause (`UnmeasuredHasACause`) | a directory and a file on two machines with one host name |
| `Startup` | Every setting in effect is that of the highest layer with a usable value, unusable ones are reported, the path shown is that of the file read (`HighestLayerWins`); the peers are those of one layer, once each (`PeersComeFromOneLayer`); intervals, grace, paths and delays follow the final settings (`DerivedFromFinal`); bad items and keys cost only themselves, unless they hold an infinite number, and nothing else ends `entries_from_config` (`RestSurvives`); no environment ends `main` (`EnvironmentIsHarmless`); an order reported at load is wrong at every poll, and one wrong at a poll has been reported unless the block mixes kinds (`OrderCheckAgrees`); an entry that can raise no alarm is reported (`SilentEntryIsReported`) | about 6500 lists of two items, every combination of four or five kinds of limit per level; some 12 000 combinations of layers that set, omit or garble intervals, delays, discovery, paths, daemon mode, peers and config paths |
| `Lifecycle` | No copy that ran in the directory outlives the signals, recorded or not (`OldCopiesEnd`); once all is quiet a serving daemon is named by its pid file (`PidFileNamesDaemon`); a script ends even if a copy hangs for ever (`ScriptsEnd`) | one checkout, three pids, strangers and look-alikes, one script at a time, an old release's pid file, copies started by hand in the foreground, `lsof` installed |
| `Dashboard` | What the operator chose for a group stays, through refreshes, filters, other pages and reloads (`WishesAreKept`); other groups are open exactly when they need attention (`HealthDecides`); a page with auto-refresh on catches up with the server, whatever the order of answers (`PageCatchesUp`) | one tab, two pages, one of them with filter and roll-up buttons, a host group and a peer group, two answers, two requests under way |

Runs that are expected to find a violation state what the repository says of
itself, and fail:

| Run | Disagreement |
|---|---|
| `PollerBadEntry` | `config.py` promises to keep running on a partly bad configuration; one entry whose poll raises something other than `OSError` (an `ssh:` that is a string, or has no host) makes `main`'s first poll raise and ends the process |
| `LifecycleCheckouts` | "two checkouts on one host do not stop each other": only the sweep compares the working directory, a pid file is believed as soon as it names any diskwatcher |
| `DashboardStorage` | "storage disabled must not take the dashboard down": `startDashboard` reads `localStorage` outside any `try`, and throws before the first refresh |

Others came up that no run repeats; the properties named are in the modules.

- A fetch that fails with `http.client.HTTPException` erases the last good data,
  against "an outage dims, it does not erase" (`README.md:260`): the run makes
  such fetches, and `OutageKeepsData` of Peers fails as soon as it does not except
  them (`fetch[u] # "breaks"`).
- Limits in the wrong order that mix percentages and byte counts are not "reported
  at startup" (`README.md:140-142`): `_validate_order` cannot compare them and only
  the poller flags them. `OrderCheckAgrees` fails without `Mixed`.
- The scripts take any process for a daemon whose arguments look like one's, such as
  `python3 -c '... # diskwatcher.py'` (`tests/test_scripts.py:192-198` relies on
  it): a look-alike that works in the checkout is found and killed.
- The default grace of three intervals does not survive one lost reply when a
  cycle takes more than two intervals: `SingleLossNeverDrops` fails with
  `MaxBusy = 3`.
- A missing path with `python3` in its name is taken for a host without python3
  (`ssh.py:98`): `FallbackMeansNoPython3` of SshProbe fails.
- An infinite number raises out of code that "never raises", and every entry is
  lost: as a delay at `config.py:208`, as a limit at `thresholds.py:106`, which
  `config.py:74-77` does not expect. `RestSurvives` excepts it, and `NeverRaises` of
  Config fails under `Startup.cfg`. An interval or grace of `.inf` under `discover:`
  does the same at `config.py:413`, and a URL that `urlsplit` refuses at
  `config.py:271`, for the file and for `--peer` (`CannotRead`, `ArgumentsRaise` of
  Startup).
- A number under `watcher:` that cannot be converted, or is null, ends `main`
  (`cli.py:157`; `FileRaises`), although a partly bad configuration is to be
  survived; the same text in the environment is reported and ignored.
- An interval of zero or less is refused under `discover:` only. A negative
  `poll_interval` or `peer_interval` reaches `time.sleep`, outside the `try` of
  both loops, and ends the thread.
- With an empty file given by `--config` and another path in the environment, the
  environment's path is shown, which `cli.py:216-217` means to prevent:
  `config_path` is applied only `if cfg`.
- `daemon: "no"` (a quoted text) turns daemon mode on, as `bool` does, unreported.
- A typo in one `--peer` costs that peer, but its list replaces the file's; a typo
  in the environment's list costs the whole variable, and a repeated URL there is
  reported as "keeping the first" and costs it, too (`EnvironmentPeers`).
- `--no-peers` "disables federation" in its help text (`cli.py:101`) and leaves
  discovery on.
- One node under two URLs, configured by one name and discovered by another, is
  fetched, listed and counted twice; Federation keeps records by URL and says so
  in `AggregateAddsUp`, which counts an entry once per URL.
- `/api/state` can report the time of a newer poll than that of its entries:
  `AnswerTimesItsEntries` of StateApi fails under `Poller.cfg`.
- `max:` in a `space:` block is reported as ignored and is not:
  `IgnoredHasNoEffect` of Config fails under `Startup.cfg`. An item that is an
  empty text is dropped without a report (`config.py:137`).
- Under the WARNING filter of Disk Space, which "shows only entries in that
  category" (`CHANGELOG.md:20`), groups are judged by what the filter leaves of
  them: no entry is critical, so every group without a choice is collapsed and no
  entry is shown (`FilteredIsShown` of Dashboard).
- Two tabs of one browser lose each other's choices, as each saves the whole of
  its own memory: `WishesAreKept` fails with two tabs. Where storage cannot be
  written (`Storage = "full"`), changing the refresh interval throws before the
  interval is applied.
- A second start between the two forks of the first, or a daemon started by hand
  beside a running one, leaves a serving daemon without its pid file: the loser
  of the port removes it at exit (`PidFileNamesDaemon` fails with `Patient = FALSE`,
  with `ByHand = {"daemon"}`, with two scripts at once, and with `HasLsof = FALSE`,
  where a start misses a daemon that has not written its file yet). Without `lsof` an unrecorded copy survives
  (`OldCopiesEnd` fails with `HasLsof = FALSE`).
- The stop script leaves the old release's pid file alone when it names a
  diskwatcher here, and removes it when it does not; but on a checkout shared by
  several nodes a file that names nothing here is the one that "may belong to a
  daemon on another node" (`stop-mu2edaq-diskwatcher.sh:40-43`).

### Bounds

- *Poller.* Poll numbers are counted round `Generations`. One number is enough
  for `PollerLive`, whose properties compare conditions rather than numbers;
  `Poller` has three, which tell a result of this poll from one of the last and
  from one before a request began. Ages stop one tick above three
  intervals, where `/api/health` changes its mind for the last time. Two
  entries are enough to confuse slots; two workers let tasks overlap, one makes
  them queue. The proofs cover every size.
- *Peers.* Ages stop above `Grace + MaxBusy`, beyond which every comparison is
  decided. `MaxBusy` is the longest cycle in ticks; with an interval of one tick
  a cycle of two ticks plus the sleep is the longest for which grace suffices.
  `missed` counts to two, all that "a single loss" needs.
- *WatchEntry.* Three clock values give age 0, an age equal to the delay and one
  beyond it; four sizes give a reading below, at and above each limit.
- *Federation.* A node polls at most `MaxPolls` times: one reading of A and two of
  B, before and after a restart, tell an old reading from a new one. Two nodes that
  list each other are enough for entries to come back or travel on: a second hop
  would show A's rows under B's URL. A status takes three values, all that the
  counting distinguishes. Requests are served by one node.
- *Startup.* Inputs are grouped: settings that do not meet in any expression are
  not combined. Within a group every combination is taken. One limit block at a
  time takes all combinations, beside a well-formed neighbour; the two blocks of an
  item do not interact except through the delay, which the small combinations of
  both cover. Percentages are counted in tenths; a property about the order of
  limits is judged on a disk of just more bytes than there are tenths, and on a
  larger one.
- *Lifecycle.* Three pids are a daemon, what it forks into and somebody else, or
  two copies and a stranger; a pid given up is taken again at once. `Patient` says
  that no script begins before the last start has forked: the way a control
  room uses the scripts, and the condition of `PidFileNamesDaemon`.
  `LifecycleCheckouts` has two checkouts, and interchangeable pids.
- *Dashboard.* Two requests are what it takes to come in the wrong order. Two
  pages tell a choice for one page from a choice for all. In one answer the local
  group is alarmed, in the other the peer is lost.

### Fairness

`FairSpec` of Poller is weak fairness of time and of the poller's threads as a
whole: whenever some step stays possible, one is taken. The operating system's
scheduler gives that. No step is possible for a task whose path hangs, so
fairness does not make `os.stat` return. Paths change without fairness, and the
liveness properties say what they assume of them. `FairSpec` of Peers is the
same for the peer thread; every call it makes has a timeout (fetches, scans), so
weak fairness is justified there without exception. In Federation every peer
thread goes on and every fetch ends, with an answer or without; polls, restarts and
requests have no fairness, and `PeersAreFollowed` says what it assumes of them
(`<>[][~FetchLost(n, u)]_vars`: from some time on no fetch of that peer is
lost). Scripts of Lifecycle are
run to their end by the shell and count seconds while they wait; processes get
no fairness, so a hung one may hang for ever. In Dashboard the browser runs its
timers and ends every request, with an answer or a failure; the operator and the
server do as they like. The other modules state safety only. TLC runs liveness
without symmetry.

Deadlock is checked in every run: where a process may end (`Stopped` in Poller,
`Ended` in Startup) an explicit stuttering action says so.

## 4. Proofs

**PollerProofs** proves for any number of entries, workers, answers, polls and
any interval that satisfies `ConstantsAssumption`:

- `TypeCorrect`: `Spec => []TypeOK`;
- `WholePolls`: `Spec => []StoreIsWhole`;
- `ReadingsAreFresh`: `Spec => []FreshReadings`;
- `PollerImplementsBoard`: `Spec => ImplementsBoard`.

The argument is one inductive invariant, `Inv == TypeOK /\ StoreIsWhole /\
FreshReadings /\ PollProgress`. `StoreIsWhole` alone is not inductive: that
`Publish` installs a whole poll depends on every collected slot holding the
reading of its own entry and of the current poll, which depends on what
`FinishTask` put into the future, and on nothing being left in either list when
a poll begins. `PollProgress` says these things. `FreshReadings` needs that a
path that can answer now has been noted in the history `during`. `NextInv` has a
step per action. The refinement follows from the invariant action by action:
`BeginPoll` opens the board, `Publish` and `PollNothing` publish, `AbandonPoll`
abandons, `ChangePath` changes and everything else stutters.

Its second half is about StateApi: `ApiImplementsSpec` shows that the
poller is not disturbed by requests, so its theorems hold in `ApiSpec`, and
`AnswersAreNear`, `ApiSpec => []AnswerTimesNearItsEntries`, needs of the request
that what it holds between its two reads is one whole poll, and that the store's
poll is still that one or has been published since it read (`ApiInv`). A store that
has had a poll never loses it (`LastStays`).

**WatchEntryProofs** begins with the pure operators, for all integers:
`SpaceAlarmMonotone` and `SizeAlarmMonotone` (a worse reading never gets a
milder alarm, even with misordered or missing limits) and `OrderedIffReachable`
(`check_order` accepts exactly the limits under which each configured space
alarm can occur). `WalkMonotone` is the lemma behind the first two. It then
proves, for any limits, delays, sizes, capacities and clock, every property the
run checks: `MisreadAtMostOnceTheorem`, `AlarmsMatchReadings`,
`OrderFlagIsTrue`, `AlarmsAlwaysEscalate` and `StaleStays`. `IsReading` says what a
state dict contains after a poll that read the path at a given time, and
`ReadingIsReading` derives it from the updates that build the dict one after the
other; `FailuresAreFailures` says what the `except` branch makes of a dict, a new
one or one that was half done. The invariant adds to types that a poll is misread
only once the warning is marked as printed, and that what is published is nothing,
a failure, or a reading made not later than the last poll began: the last part
is what `StaleStays` needs, as ages are counted from the beginnings of polls. From
`IsReading` the alarms follow by the facts above; `WalkIsWorst` and
`ShownAtItsLimit` connect them to the properties, which do not speak of walks.

**SshProbeProofs** proves for any entries, machines and host names:

- `ResultsAreTrue`: `Spec => ResultIsTrue`;
- `UnmeasuredIsCaused`: `Mentions = {} => (Spec => UnmeasuredHasACause)`, where
  `Mentions` are the entries whose path contains "python3".

The first needs that a probe has seen what is there now (`SeenInv`) and that one
waiting for the disk has found its path there before; the second that the cached
mode has a machine without python3 behind it (`ModeInv`), which is what a path
in `Mentions` destroys.

**LifecycleProofs** proves for any checkouts, pids and number of scripts under
`LifecycleAssumption`:

- `TypeCorrect`: `Spec => []TypeOK`;
- `OldCopiesAreGone`: `HasLsof => (Spec => []OldCopiesEnd)`;
- `PidFilesAreRight`: `OneAtATime => (Spec => []PidFileNamesDaemon)`.

`Inv` is types, that a script that has a phase has a directory, and that the pids in
`same` are alive: a pid leaves `same` in the step in which its process ends. What
looks like a diskwatcher may be anything, so nothing is said of `found` but that the
copies are in it. `OldCopiesEnd` needs to be
strengthened along the script: `Covered(s)` says for each phase what is known of a
copy that is still the one the script began with: it is in `found` once the sweep
is over, and doomed once the signals are sent. `AliveKeeps` and `CoveredKept` show that no step of
anybody else disturbs this: a process in `same` keeps its directory and stays
doomed until it ends. `OwnStep` and `OthersStep` go through the actions.

`OneAtATime` is the setting of the run, for any number of checkouts and pids:
`lsof` is installed, daemons are started by scripts, and scripts run one at a time,
none before the last start has forked. Without any of these the property is false
(section 3). It speaks of quiet moments only; `NamedInv` speaks of all: a checkout
has at most one daemon for which no signal waits (`Live`), and from `WritePidFile`
on the pid file has its name (`OneLive`). That holds because while a script runs
nothing forks, so that after its sweep every live daemon of its checkout is
in `found`, and after its signals there is none (`Swept`): only then does it clear
the files and launch. A daemon that leaves removes the file with its own name, as
what is doomed hangs and runs no handler (`Doomed`), and copies in the foreground
never write it (`Writers`). `Keeps` says what most steps do to a process.

**PeersProofs** proves for any configuration, network and intervals under
`PeersAssumption`:

- `DisabledPeersAreLeftAlone`: `Spec => []DisabledIsRespected`;
- `TheListIsDiscovery`: `Spec => []ListMatchesDiscovery`;
- `OutagesKeepData`: `Spec => OutageKeepsData`;
- `OneLossIsForgiven`: `GraceIsEnough => (Spec => SingleLossNeverDrops)`;
- `OrderIsKept`: `Spec => []OrderMatchesRecords`.

`OutagesKeepData` compares a new record with the store at the moment it is put
there, while a failed fetch returns what was read when it was submitted:
`PreviousIsCurrent` says that nobody replaces the record of a peer in between but
the fetch of that peer, of which there is one.
`ListMatchesDiscovery` speaks of a sleeping thread only. `ListInv` says what holds
in between: a record without a discovered peer is one still to be removed, a
discovered peer without a record one still to be fetched. The last theorem
bounds the ages of the time stamps: `AgeInv` says that a peer missed by no scan has
been heard in the last one, one missed once in the last but one, and that no
more than `Gap` passes between scans. That gives the least grace with which the
property holds: the longest cycle plus the sleep, plus twice what a scan can be
late because a cycle came just too early for it. Where the peer interval is
not shorter than the scan interval, the default, `GraceIsEnough` says
`Grace >= Interval + MaxBusy`; the run takes the bound itself, and with one tick
more per cycle TLC drops a peer after a single loss. `OrderOK` says of the order
that it names nobody twice, names exactly the peers with a record, and begins with
the configured ones. `Without` takes a peer out of the list by position, and
`KeptPresent` and `KeptAbsent` say what that leaves.

**FederationProofs** proves for any nodes, URLs, aliases and numbers of polls under
`FederationAssumption`:

- `HopsEndAtOne`: `Spec => []OneHop`;
- `ReadingsGoForward`: `Spec => NeverGoesBack`;
- `CountsAreNear`: `Spec => []CountsFollowList`;
- `AggregateIsTheSum`: `Spec => []AggregateAddsUp`.

`OneHop` speaks of records; `HopInv` says it of all that they are made of, the
store of each process (`IsProcess`) and the answers on their way to a peer thread
(`IsAnswer`), whatever polls and restarts have happened since. `OrderInv` adds
that at most one fetch of a URL is under way, none between cycles, and that no
record is newer than the last poll of its node, so that no later answer can be
older than it. `RequestInv` says that list and store agree, between the two reads of
a request, about every peer whose record has not been replaced. `TallyInv` says
that what a request has copied of the own entries carries no stamp. The code counts
one list, the property counts peer by peer: `CountedOnce` shows that they agree, from
`HopInv` (entries under a URL carry that URL, so no entry is in two places) and a
bijection between entries and pairs of a URL and an entry. `OneProcess` and
`OneProcessInOrder` reduce each action to the process it changes.

**StartupProofs** proves all seven properties of the run, for any configuration file,
environment and command line under `ConfigAssumption` and `StartupAssumption`:
`RestSurvivesTheorem`, `OrderCheckAgreesTheorem`, `SilentEntryTheorem`,
`EnvironmentIsHarmlessTheorem`, `HighestLayerWinsTheorem`, `PeersComeFromOneLayerTheorem` and
`DerivedFromFinalTheorem`, each `StartSpec => []P` of the property of its name.
Files may hold any number of items, layers any integers, lists of peers any
length. Two invariants carry them. `EntriesInv` says that the entries so far are
those made of the items taken, one for each item with a path, and the problems
likewise; `StageInv` that at every stage the settings are the defaults with the layers
so far applied. The rest is about functions. `OrdersAgree` is the fact behind
`OrderCheckAgrees`, and says more than the run can: the order check at load time and
the one of a poll give the same verdict on any limits of one kind, percentages being
taken of a disk of more bytes than there are fractions of a percent (on smaller ones
rounding may make two limits equal, which the poll then reports). Which of several equal URLs
`PeersFrom` keeps is the first: `SmallestOf` gives it, from the well-foundedness of
the numbers, where a program would use induction.

**DashboardProofs** proves for any tables, groups and answers, in any order in which
they arrive:

- `PagesAreDrawn`: `Spec => []ScreenIsDrawn`, for any number of tabs: what is on the
  screen is what the page's data, choices and filter say, so `renderAll` is called
  wherever it has to be;
- `HealthDecidesTheorem`: with one tab, `Spec => []HealthDecides`, with any storage;
- `WishesAreKeptTheorem`: with one tab and a storage that can be written,
  `Spec => []WishesAreKept`. With two tabs it is false (section 3).

The two about choices rest on `ScreenIsDrawn` and on what page and storage hold:
no opinion that was not expressed (`NothingUnasked`), and just the last one
expressed (`Remembered`). `Quiet`, `Loads` and `Chooses` reduce the actions to three
kinds of step.

The only assumptions are the named ones on the constants, which TLC evaluates in
the runs, and the conditions written in the theorems. Every safety property that a
passing run checks is proved in this sense. Model-checked only are the liveness
properties, as fairness and `ENABLED` are out of the prover's reach: `SettledIsShown`,
`StallIsReported` and `PollingRecovers` of Poller, `SilentPeerGoes` and
`FetchedStatusSettles` of Peers, `PeersAreFollowed`, `ScriptsEnd` and `PageCatchesUp`.

## 5. Not modelled

- HTML views, templates and display formatting are functions of one snapshot of
  the entries, and so are the endpoints beside `/api/state` and `/api/health`:
  they filter that snapshot. Which entries each page asks for is left out of
  Dashboard, and so are sorting and drawing.
- The discovery protocol and its responder belong to an external library;
  Peers models what its answers lead to, and not what happens if the library
  hands over a malformed record.
- The pool of ten fetch threads of `do_peer_poll` is abstracted to an arbitrary
  order of results.
- The parsing of texts (limits, URLs, filters, numbers) is abstracted to whether
  they parse, are refused, or make `int` or `urlsplit` raise. Percentages are
  whole numbers of some fraction of a percent; what binary floating point makes of
  them is left out. Of the settings, `verbose` and the timeout, exclude and probe
  keys of `discover:` are left out: they are handed on like the keys that are
  modelled. Peers has the last two as the sets `Excluded` and `Probed`.
- The ssh command line: SshProbe begins where the command is sent.
- Redirecting output and a pid file that cannot be written; option parsing and
  dry runs of the scripts. Lifecycle has one host: checkouts shared by
  several nodes have a run directory each, and the signals of one node do not
  reach another.
- Fleet tools drive the start and stop scripts over ssh and keep no state.

## 6. Plan

1. Proofs: of the safety half of the liveness arguments, such as that a peer thread
   can always go on (Peers, Federation) and that a waiting script is never stuck
   (Lifecycle).
2. The remaining endpoints over one snapshot, and the entries each page shows, so
   that the counts of the summary cards are related to the rows below them.
3. A discovery record that is malformed, once the library's promises are known.
