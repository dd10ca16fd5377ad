------------------------------- MODULE Startup -------------------------------
(***************************************************************************)
(* What a daemon makes of its configuration before it does anything else:  *)
(* main of cli.py up to daemonize, with settings.py and the peers: part of *)
(* config.py.  Defaults, file, environment and command line are applied in *)
(* this order, what depends on them is derived, and Config takes the       *)
(* entries last.                                                           *)
(*                                                                         *)
(* A layer is a function of the settings' names: Absent where it says      *)
(* nothing, None where it holds YAML's null, Junk where the value cannot   *)
(* be converted.  argparse refuses junk itself.  A list of peers is a      *)
(* sequence of items; an item that is no mapping or has no usable URL has  *)
(* the URL Junk, one with a URL that urlsplit raises a ValueError over     *)
(* (http://[) the URL Malformed, and `peers: [...]` is `peers: {static: [...]}` here.      *)
(* `discover: true` is the mapping that says enabled and nothing else.     *)
(* verbose, and of discover: timeout, exclude and probe, are left out.     *)
(***************************************************************************)
EXTENDS Config, SequencesExt

CONSTANTS
  Inputs,          \* what is given: see EmptyFile and StartInit
  Uses,            \* path -> the placeholders written in it
  DEFAULT_CONFIG, DEFAULT_RUN_DIR, DEFAULT_PID_FILE, DEFAULT_LOG_FILE,
  DEFAULT_FILTER,  \* {"app": "diskwatcher"}
  Malformed

VARIABLES
  input,      \* the files there are, the environment and the arguments
  stage,      \* how far main has come
  settings,   \* get_settings()
  reported    \* its config_issues: of the environment and peers, then all

vars == <<entryVars, input, stage, settings, reported>>

NumberKeys == {"web_port", "poll_interval", "default_delay", "peer_timeout",
               "peer_interval"}
TextKeys   == {"web_host", "run_dir", "pid_file", "log_file"}
LayerKeys  == NumberKeys \cup TextKeys \cup
                {"config_path", "daemon", "peers", "discover_peers", "discover_filter"}

DefaultDiscover ==
  [enabled |-> FALSE, filter |-> DEFAULT_FILTER, interval |-> None, grace |-> None]

Defaults ==
  [web_host |-> "0.0.0.0", web_port |-> 5002, poll_interval |-> 30,
   default_delay |-> 300, config_path |-> None, daemon |-> FALSE,
   run_dir |-> DEFAULT_RUN_DIR, pid_file |-> None, log_file |-> None,
   peer_timeout |-> 5, peer_interval |-> None, peers |-> <<>>,
   discover |-> DefaultDiscover, discover_peers |-> None, discover_filter |-> None]

\* A file that is empty, or not there.
EmptyFile ==
  [given |-> [k \in LayerKeys |-> Absent], discover |-> Absent, items |-> <<>>]

ConfigPath ==
  IF input.arguments.config_path # Absent THEN input.arguments.config_path
  ELSE IF input.environment.config_path # Absent THEN input.environment.config_path
  ELSE DEFAULT_CONFIG

Required == input.arguments.config_path # Absent \/ input.environment.config_path # Absent

Readable(path) == path \in DOMAIN input.files

cfg == IF Readable(ConfigPath) THEN input.files[ConfigPath] ELSE EmptyFile

(***************************************************************************)
(* Lists of peers.                                                         *)
(***************************************************************************)
Peer(item) ==
  [url |-> item.url, enabled |-> item.enabled \notin {FALSE, None},
   timeout |-> IF item.timeout \in {Absent, Junk} THEN None ELSE item.timeout]

\* _peer_from_item for each, and _dedupe_peers: the first usable item of every URL, in their order.
PeersFrom(items) ==
  LET kept == {k \in DOMAIN items : /\ items[k].url # Junk
                                    /\ \A j \in 1 .. k - 1 : items[j].url # items[k].url}
      nth(n) == CHOOSE k \in kept : Cardinality({j \in kept : j <= k}) = n
  IN  [n \in 1 .. Cardinality(kept) |-> Peer(items[nth(n)])]

\* A timeout is Junk if it is not a positive number.
PeerIssues(at, items) ==
  {Issue(at, k) : k \in {k \in DOMAIN items :
     \/ items[k].url \in {Junk, Malformed} \/ items[k].timeout = Junk
     \/ \E j \in 1 .. k - 1 : items[j].url = items[k].url}}

IsList(raw) == raw \notin {Absent, None, Junk}

HasMalformed(raw) == IsList(raw) /\ \E k \in DOMAIN raw : raw[k].url = Malformed

(***************************************************************************)
(* peers.discover, of which intervals can be .inf.                         *)
(***************************************************************************)
IsPositive(raw) == raw \notin {Absent, None, Junk} /\ raw > 0

Discover(raw) ==
  LET orDefault(value, usable) == IF usable THEN value ELSE None
  IN  IF ~IsList(raw) THEN DefaultDiscover
      ELSE [enabled  |-> raw.enabled \notin {FALSE, None},
            filter   |-> IF IsList(raw.filter) THEN raw.filter ELSE DEFAULT_FILTER,
            interval |-> orDefault(raw.interval, IsPositive(raw.interval)),
            grace    |-> orDefault(raw.grace, IsPositive(raw.grace))]

DiscoverIssues(raw) ==
  IF ~IsList(raw) THEN IF raw = Junk THEN {Issue("discover", "discover")} ELSE {}
  ELSE {Issue("discover", k) : k \in
          {k \in {"interval", "grace"} :
             raw[k] \notin {Absent, None} /\ ~IsPositive(raw[k])}
          \cup (IF raw.filter = Junk THEN {"filter"} ELSE {})}

(***************************************************************************)
(* What the layers can hold.  The file holds anything, but three settings  *)
(* have no key in it.  Of the environment's texts int() and the others may *)
(* refuse some; argparse has refused what it converts itself.  Neither can *)
(* hold a null.                                                            *)
(***************************************************************************)
PathKeys  == TextKeys \ {"web_host"}
PeerItems == [url : STRING \cup {Junk, Malformed}, enabled : BOOLEAN \cup {Absent, None},
              timeout : Int \cup {Absent, Junk}]
Peers     == [url : STRING \cup {Malformed}, enabled : BOOLEAN, timeout : Int \cup {None}]

LayerOK(layer, null, junk) ==
  /\ \A k \in NumberKeys : layer[k] \in Int \cup {Absent} \cup null \cup junk
  /\ \A k \in PathKeys : layer[k] \in DOMAIN Uses \cup {Absent} \cup null
  /\ \A k \in {"daemon", "discover_peers"} :
       layer[k] \in BOOLEAN \cup {Absent} \cup null \cup junk
  /\ layer.peers \in Seq(PeerItems) \cup {Absent} \cup null \cup junk
  /\ {layer.web_host, layer.config_path} \cap {None, Junk} \subseteq null
  /\ layer.discover_filter # None

FileOK(file) ==
  /\ LayerOK(file.given, {None}, {Junk})
  /\ \A k \in {"config_path", "discover_peers", "discover_filter"} :
       file.given[k] = Absent
  /\ file.items \in Seq(Items)
  /\ IsList(file.discover) =>
       {file.discover.interval, file.discover.grace}
         \subseteq Int \cup {Absent, None, Junk, Infinite}

InputOK(given) ==
  /\ \A path \in DOMAIN given.files : FileOK(given.files[path])
  /\ LayerOK(given.environment, {}, {Junk}) /\ LayerOK(given.arguments, {}, {})

\* Expanded paths, as the proofs have to tell them from None.
RunDirs == [text : DOMAIN Uses, where : [{} -> Int] \cup [{"port"} -> Int]]

Filled(names) == [names -> Int \cup RunDirs]

Expanded ==
  [text : DOMAIN Uses, where : Filled({}) \cup Filled({"port"}) \cup Filled({"run_dir"})
                               \cup Filled({"port", "run_dir"})]

\* The file of a daemon that names none is in its run directory.
ASSUME StartupAssumption ==
  /\ \A given \in Inputs : InputOK(given)
  /\ {DEFAULT_RUN_DIR, DEFAULT_PID_FILE, DEFAULT_LOG_FILE} \subseteq DOMAIN Uses
  /\ "run_dir" \in Uses[DEFAULT_PID_FILE] \cap Uses[DEFAULT_LOG_FILE]
  /\ DEFAULT_CONFIG # None /\ Malformed # Junk
  /\ {None, Absent, Junk} \cap (DOMAIN Uses \cup Seq(PeerItems)) = {}
  /\ None \notin Seq(Peers) \cup Expanded

(***************************************************************************)
(* The layers.                                                             *)
(***************************************************************************)
\* Mistaken variant: a value that a lower layer has set stays.
ApplyUnset(to, given) ==
  [k \in DOMAIN to |->
     IF /\ k \in DOMAIN given /\ given[k] # None
        /\ k = "peers" \/ to[k] = Defaults[k]
     THEN given[k] ELSE to[k]]

\* Settings.apply: None leaves a setting alone.
Apply(to, given) ==
  [k \in DOMAIN to |->
     IF k \in DOMAIN given /\ given[k] # None THEN given[k] ELSE to[k]]

\* What a layer gives to Apply, its list of peers apart.
Given(layer, peers) ==
  [k \in LayerKeys |-> IF k = "peers" THEN peers
                       ELSE IF layer[k] \in {Absent, Junk, None} THEN None ELSE layer[k]]

\* The path of the file that was read, if it holds anything.
LoadedPath == IF cfg # EmptyFile THEN ConfigPath ELSE None

StartInit ==
  /\ EntriesInit
  /\ input \in Inputs
  /\ stage = "load" /\ settings = Defaults /\ reported = {}
  /\ config = cfg.items /\ default_delay = None

LoadConfig ==
  /\ stage = "load"
  /\ stage' = IF Required /\ ~Readable(ConfigPath) THEN "exited" ELSE "file"
  /\ UNCHANGED <<entryVars, input, settings, reported>>

\* int() and float() of what is written under watcher: are outside any try, and
\* so are int() of an infinite interval under discover: and urlsplit.
CannotRead ==
  \/ \E k \in NumberKeys : cfg.given[k] \in {None, Junk}
  \/ IsList(cfg.discover) /\ Infinite \in {cfg.discover.interval, cfg.discover.grace}
  \/ HasMalformed(cfg.given.peers)

FileRaises ==
  /\ stage = "file" /\ CannotRead
  /\ stage' = "raised"
  /\ UNCHANGED <<entryVars, input, settings, reported>>

\* bool() of whatever stands after daemon:, a text for instance, is true.
DaemonOf(raw) == IF raw = Absent THEN None ELSE raw \notin {FALSE, None}

WithFile(s) ==
  LET raw == cfg.given.peers
  IN  [Apply(s, [Given(cfg.given, None) EXCEPT
                   !.daemon = DaemonOf(cfg.given.daemon), !.config_path = LoadedPath])
       EXCEPT !.peers = IF IsList(raw) THEN PeersFrom(raw) ELSE <<>>,
              !.discover = Discover(cfg.discover)]

FileIssues ==
  LET raw == cfg.given.peers
  IN  DiscoverIssues(cfg.discover) \cup
        (IF IsList(raw) THEN PeerIssues("file", raw)
         ELSE IF raw = Junk THEN {Issue("file", "peers")} ELSE {})

ApplyFile ==
  /\ stage = "file" /\ ~CannotRead
  /\ stage' = "environment"
  /\ settings' = WithFile(settings)
  /\ reported' = FileIssues
  /\ UNCHANGED <<entryVars, input>>

\* Mistaken variant: the usable peers of a partly bad variable count.
EnvironmentPeersKept(raw) == IF IsList(raw) THEN PeersFrom(raw) ELSE None

\* _peer_list refuses a list with anything wrong in it, a repeated URL included,
\* and what it raises, or urlsplit below it, is caught and reported.
EnvironmentPeers(raw) ==
  IF IsList(raw) /\ PeerIssues("environment", raw) = {} THEN PeersFrom(raw) ELSE None

WithEnvironment(s) ==
  Apply(s, Given(input.environment, EnvironmentPeers(input.environment.peers)))

EnvironmentIssues ==
  LET given == input.environment
  IN  {Issue("environment", k) : k \in {k \in LayerKeys : given[k] = Junk}}
      \cup (IF IsList(given.peers) /\ EnvironmentPeers(given.peers) = None
            THEN {Issue("environment", "peers")} ELSE {})

\* Mistaken variant: without the try around the conversion.
ApplyEnvironmentUnguarded ==
  /\ stage = "environment"
  /\ stage' = IF EnvironmentIssues = {} THEN "arguments" ELSE "raised"
  /\ settings' = WithEnvironment(settings)
  /\ reported' = reported \cup EnvironmentIssues
  /\ UNCHANGED <<entryVars, input>>

ApplyEnvironment ==
  /\ stage = "environment"
  /\ stage' = "arguments"
  /\ settings' = WithEnvironment(settings)
  /\ reported' = reported \cup EnvironmentIssues
  /\ UNCHANGED <<entryVars, input>>

\* --no-peers is the empty list; --peer at least once is another.
WithArguments(s) ==
  LET given == input.arguments
      peers == IF IsList(given.peers) THEN PeersFrom(given.peers) ELSE None
  IN  Apply(s, [Given(given, peers) EXCEPT !.config_path = LoadedPath])

ArgumentIssues ==
  LET given == input.arguments
  IN  (IF IsList(given.peers) THEN PeerIssues("arguments", given.peers) ELSE {})
      \cup (IF given.discover_filter = Junk
            THEN {Issue("arguments", "discover_filter")} ELSE {})

\* peers_from_urls is outside any try.
ArgumentsRaise ==
  /\ stage = "arguments" /\ HasMalformed(input.arguments.peers)
  /\ stage' = "raised"
  /\ UNCHANGED <<entryVars, input, settings, reported>>

ApplyArguments ==
  /\ stage = "arguments" /\ ~HasMalformed(input.arguments.peers)
  /\ stage' = "resolve"
  /\ settings' = WithArguments(settings)
  /\ reported' = reported \cup ArgumentIssues
  /\ UNCHANGED <<entryVars, input>>

(***************************************************************************)
(* What is derived from the final settings.                                *)
(***************************************************************************)
\* expand_path: unknown placeholders stay.
Expand(path, values) ==
  IF path = None THEN None
  ELSE [text |-> path, where |-> [p \in Uses[path] \cap DOMAIN values |-> values[p]]]

ResolvePaths(s) ==
  LET own(k, default) == IF s.daemon /\ s[k] = None THEN default ELSE s[k]
      values == [port |-> s.web_port]
      run    == Expand(s.run_dir, values)
      all    == [port |-> s.web_port, run_dir |-> run]
  IN  [s EXCEPT !.run_dir = run,
                !.pid_file = Expand(own("pid_file", DEFAULT_PID_FILE), all),
                !.log_file = Expand(own("log_file", DEFAULT_LOG_FILE), all)]

\* Mistaken variant: the poll interval of the time before any layer.
EffectivePeerIntervalEarly(s) ==
  IF s.peer_interval \in {None, 0} THEN Defaults.poll_interval ELSE s.peer_interval

\* Zero counts as not set.
EffectivePeerInterval(s) ==
  IF s.peer_interval \in {None, 0} THEN s.poll_interval ELSE s.peer_interval

ResolveDiscover(s) ==
  LET d        == s.discover
      interval == IF d.interval = None THEN EffectivePeerInterval(s) ELSE d.interval
  IN  [s EXCEPT !.discover =
        [enabled  |-> IF s.discover_peers = None THEN d.enabled ELSE s.discover_peers,
         filter   |-> IF s.discover_filter = None THEN d.filter ELSE s.discover_filter,
         interval |-> interval,
         grace    |-> IF d.grace = None THEN 3 * interval ELSE d.grace]]

ResolveSettings ==
  /\ stage = "resolve"
  /\ stage' = "entries"
  /\ settings' = ResolveDiscover(ResolvePaths(settings))
  /\ reported' = reported \cup
       (IF settings'.discover.enabled /\ ~input.installed
        THEN {Issue("discover", "installed")} ELSE {})
  /\ default_delay' = settings.default_delay
  /\ UNCHANGED <<config, index, entries, issues, raised, input>>

MakeEntries ==
  /\ stage = "entries" /\ TakeItem
  /\ UNCHANGED <<input, stage, settings, reported>>

Finish ==
  /\ stage = "entries" /\ ~More /\ ~raised
  /\ stage' = "ready"
  /\ reported' = reported \cup UNION ToSet(issues)
  /\ UNCHANGED <<entryVars, input, settings>>

Ended == (stage \in {"ready", "exited", "raised"} \/ raised) /\ UNCHANGED vars

StartNext ==
  \/ LoadConfig \/ FileRaises \/ ApplyFile \/ ApplyEnvironment
  \/ ArgumentsRaise \/ ApplyArguments
  \/ ResolveSettings \/ MakeEntries \/ Finish \/ Ended

StartSpec == StartInit /\ [][StartNext]_vars
(***************************************************************************)
(* Properties.                                                             *)
(***************************************************************************)
Layers == <<cfg.given, input.environment, input.arguments>>

Written(k) == {l \in 1 .. 3 : Layers[l][k] \notin {Absent, None}}
Usable(k)  == {l \in Written(k) : Layers[l][k] # Junk}

InEffect(k) ==
  CASE k \in {"run_dir", "pid_file", "log_file"} -> settings[k].text
    [] k = "discover_peers"                      -> settings.discover.enabled
    [] k = "discover_filter"                     -> settings.discover.filter
    [] OTHER                                     -> settings[k]

\* Whatever main ends with an exception over stands in the file or on the command
\* line: a number under watcher: that cannot be converted, an infinite number of
\* discovery or of an item, a malformed URL.  The same texts in an environment
\* variable never end it, as Settings.apply_env reports and ignores them.
EnvironmentIsHarmless ==
  (stage = "raised" \/ raised) =>
    \/ \E k \in NumberKeys : cfg.given[k] \in {None, Junk}
    \/ IsList(cfg.discover) /\ Infinite \in {cfg.discover.interval, cfg.discover.grace}
    \/ HasMalformed(cfg.given.peers) \/ HasMalformed(input.arguments.peers)
    \/ \E k \in DOMAIN cfg.items : HoldsInfinite(cfg.items[k])

\* Once main is ready, every setting has the value of the highest layer that
\* holds a usable one, and any unusable one is on the list of problems (except
\* that bool() makes something of everything after daemon:).  The path shown is
\* that of the file whose contents are in effect, whichever layers name others.
HighestLayerWins ==
  stage = "ready" =>
    /\ \A k \in LayerKeys \ {"peers", "config_path"} :
         /\ \A l \in Usable(k) :
              (\A m \in Written(k) : m > l => m \notin Usable(k))
                => InEffect(k) = Layers[l][k]
         /\ \A l \in Written(k) \ Usable(k) :
              (\E issue \in reported : issue.key = k) \/ (k = "daemon" /\ l = 1)
         /\ (Written(k) = {} /\ k \in NumberKeys) => InEffect(k) = Defaults[k]
    /\ cfg # EmptyFile => settings.config_path = ConfigPath

\* The list of peers is that of one layer, whole but for the items that cannot
\* be used, and nobody is on it twice; a list in a higher layer has been refused
\* and reported.  With nothing reported it is the list as written.
PeersComeFromOneLayer ==
  stage = "ready" =>
    LET urls   == [k \in DOMAIN settings.peers |-> settings.peers[k].url]
        written(l) == IF l = 0 \/ ~IsList(Layers[l].peers) THEN <<>>
                      ELSE [k \in DOMAIN Layers[l].peers |-> Layers[l].peers[k].url]
    IN  /\ Cardinality(ToSet(urls)) = Len(urls)
        /\ \E l \in 0 .. 3 :
             /\ ToSet(urls) = ToSet(written(l)) \ {Junk}
             /\ \A m \in l + 1 .. 3 :
                  IsList(Layers[m].peers) => Issue("environment", "peers") \in reported
             /\ reported = {} => urls = written(l)

\* What is derived follows the settings in effect: entries without a delay of
\* their own, the scan interval and a grace of three of them, and in a daemon
\* the files it writes.  With positive numbers neither thread sleeps for a
\* time that time.sleep would refuse.
DerivedFromFinal ==
  stage = "ready" =>
    LET fetching == IF settings.peer_interval \in {None, 0} THEN settings.poll_interval
                    ELSE settings.peer_interval
        scanning == settings.discover.interval
    IN  /\ \A k \in DOMAIN config :
             (config[k].path /\ ~config[k].mapping) =>
               EntryOf(k).delay = settings.default_delay
        /\ IF IsList(cfg.discover) /\ IsPositive(cfg.discover.interval)
           THEN scanning = cfg.discover.interval
           ELSE scanning = fetching
        /\ settings.discover.grace < 3 * scanning =>
             IsList(cfg.discover) /\ cfg.discover.grace = settings.discover.grace
        /\ fetching > 0 => scanning > 0 /\ settings.discover.grace > 0
        /\ \A k \in {"pid_file", "log_file"} :
             IF Usable(k) # {} THEN settings[k] # None
             ELSE IF settings.daemon THEN settings[k].where.run_dir = settings.run_dir
             ELSE settings[k] = None
        /\ \A k \in {"run_dir", "pid_file", "log_file"} :
             (settings[k] # None /\ "port" \in DOMAIN settings[k].where) =>
               settings[k].where.port = settings.web_port
==============================================================================
