------------------------------- MODULE MCStartup -------------------------------
(* Startup on three kinds of input: items with one block of every make and       *)
(* delays of every kind beside a well-formed neighbour; layers that agree and    *)
(* disagree on a setting and hold what cannot be used; and files that are        *)
(* there, empty or not there.                                                    *)
EXTENDS Startup

B(n) == [bytes |-> n, percent |-> None]
P(n) == [bytes |-> None, percent |-> n]

Blocks(limits, maxes, empties) ==
  [{"warning", "critical", "full"} -> limits]
  \X maxes \X empties \X {Absent, Junk}

AsBlock(b) ==
  [warning |-> b[1]["warning"], critical |-> b[1]["critical"],
   full |-> b[1]["full"], max |-> b[2], allow_empty |-> b[3], other |-> b[4]]

SpaceBlocks(maxes) ==
  {AsBlock(b) : b \in Blocks({Absent, Junk, B(30), P(100), P(125)}, maxes, {Absent})}
SizeBlocks ==
  {AsBlock(b) : b \in Blocks({Absent, Junk, P(100), B(1), B(2)}, {Absent, B(2)},
                             {Absent, TRUE})}

Map(section, delay, space, size) ==
  [section |-> section, mapping |-> TRUE, path |-> TRUE, other |-> FALSE,
   delay |-> delay, space |-> space, size |-> size]

Text(section, path) ==
  [Map(section, Absent, Absent, Absent) EXCEPT !.mapping = FALSE, !.path = path]

GoodItem == Map("files", 5, Absent, Absent)

Odd ==
  {[Map(s, d, sp, si) EXCEPT !.path = p, !.other = o] :
     s \in {"files", "paths"}, d \in {Absent, None, Junk, 7, Infinite},
     sp \in {Absent, None, Junk}, si \in {Absent, None, Junk},
     p \in BOOLEAN, o \in BOOLEAN}
  \cup {Text(s, p) : s \in {"files", "paths"}, p \in BOOLEAN}

Blocked ==
  {Map(s, d, b, Absent) :
     s \in {"files", "paths"}, d \in {Absent, None}, b \in SpaceBlocks({Absent, P(50)})}
  \cup
  {Map(s, d, Absent, b) :
     s \in {"files", "paths"}, d \in {Absent, None}, b \in SizeBlocks}

\* Infinite limits where they are read and where they are not.
Endless ==
  {Map(s, Absent, b, Absent) : s \in {"files", "paths"}, b \in SpaceBlocks({Infinite})}
  \cup {Map("files", Absent, Absent,
            [AsBlock(<<[l \in LEVELS |-> Absent], Absent, Absent, Absent>>)
               EXCEPT !.critical = Infinite])}

Configs ==
  {<<GoodItem, item>> : item \in Odd \cup Blocked \cup Endless}
  \cup {<<item, GoodItem>> : item \in {i \in Odd : i.section = "files"}}

Silent == EmptyFile.given

File(given, discover, items) ==
  [given |-> given, discover |-> discover, items |-> items]

Input(file, environment, arguments) ==
  [files |-> ("diskwatcher.yaml" :> file), environment |-> environment,
   arguments |-> arguments, installed |-> TRUE]

Plain == {Input(File(Silent, Absent, items), Silent, Silent) : items \in Configs}

Block4(enabled, filter, interval, grace) ==
  [enabled |-> enabled, filter |-> filter, interval |-> interval, grace |-> grace]

Discovers ==
  {Absent, Junk, Block4(Absent, Absent, Absent, 4), Block4(TRUE, Junk, 3, Absent),
   Block4(FALSE, "trk", -1, Junk), Block4(None, Absent, Infinite, 9)}

Intervals ==
  {[Input(File([Silent EXCEPT !.poll_interval = p, !.peer_interval = q], d,
               <<Text("paths", TRUE)>>),
          [Silent EXCEPT !.poll_interval = r, !.peer_interval = t,
                         !.default_delay = r, !.discover_peers = e],
          [Silent EXCEPT !.poll_interval = a, !.discover_filter = f])
      EXCEPT !.installed = (e # TRUE)] :
     p \in {Absent, None, Junk, 10}, q \in {Absent, 0, 7}, d \in Discovers,
     r \in {Absent, Junk, 20}, t \in {Absent, -2}, e \in {Absent, FALSE, TRUE, Junk},
     a \in {Absent, 40}, f \in {Absent, Junk, "dl"}}

Paths ==
  {Input(File([Silent EXCEPT !.web_port = p, !.run_dir = r, !.daemon = d,
                             !.pid_file = f], Absent, <<>>),
         [Silent EXCEPT !.daemon = e, !.run_dir = s],
         [Silent EXCEPT !.daemon = a, !.web_port = q]) :
     p \in {Absent, 1}, q \in {Absent, 2}, r \in {Absent, None, "data/{port}"},
     s \in {Absent, "other"}, d \in {Absent, None, Junk, TRUE},
     e \in {Absent, Junk, TRUE, FALSE}, a \in {Absent, TRUE},
     f \in {Absent, "{run_dir}/{port}.pid"}}

At(url, timeout) == [url |-> url, timeout |-> timeout, enabled |-> Absent]
Lists == {<<>>, <<At("a", Absent)>>, <<At("b", 3), At("a", Absent)>>,
          <<At("a", Absent), At("a", 4)>>, <<At("b", Absent), At(Malformed, Absent)>>,
          <<At(Junk, Absent), At("b", Junk)>>}

PeerLists ==
  {Input(File([Silent EXCEPT !.peers = p], Absent, <<>>),
         [Silent EXCEPT !.peers = e], [Silent EXCEPT !.peers = a]) :
     p \in Lists \cup {Absent, None, Junk}, e \in Lists \cup {Absent},
     a \in Lists \cup {Absent}}

Files ==
  {[files |-> [path \in there |-> content[path]], installed |-> TRUE,
    environment |-> [Silent EXCEPT !.config_path = e],
    arguments |-> [Silent EXCEPT !.config_path = a]] :
     there \in SUBSET {"diskwatcher.yaml", "env.yaml", "arg.yaml"},
     content \in [{"diskwatcher.yaml", "env.yaml", "arg.yaml"} ->
                    {EmptyFile, File([Silent EXCEPT !.web_port = 1], Absent, <<>>)}],
     e \in {Absent, "env.yaml"}, a \in {Absent, "arg.yaml"}}

MCInputs == Plain \cup Intervals \cup Paths \cup PeerLists \cup Files

MCUses ==
  [path \in {"run/{host}", "other", "data/{port}", "{run_dir}/{port}.pid",
             "{run_dir}/pid", "{run_dir}/log"} |->
     CASE path = "data/{port}" -> {"port"}
       [] path = "{run_dir}/{port}.pid" -> {"run_dir", "port"}
       [] path \in {"{run_dir}/pid", "{run_dir}/log"} -> {"run_dir"}
       [] OTHER -> {}]
=================================================================================
