------------------------------- MODULE Lifecycle -------------------------------
(***************************************************************************)
(* Instances of the daemon on one host: the start and stop scripts with    *)
(* lib/diskwatcher-proc.sh, the double fork and the pid file of daemon.py, *)
(* and main from there to the bound port.                                  *)
(*                                                                         *)
(* A script reads the pid files, sweeps the process table, signals what it *)
(* found, waits, clears the files, and a start then becomes the python     *)
(* process that forks twice.  All of this is several steps: processes end, *)
(* pid numbers are given to others, and daemons move on between them.      *)
(*                                                                         *)
(* Abstractions.  Every checkout has its own port.  The two pid files are  *)
(* read together, and so are the process table and the working directories *)
(* of what it lists; a pid file is written in one step.  A process hung in *)
(* the kernel takes a signal only when the call it is in returns.  The     *)
(* processes a script runs by itself (ps, sleep, ...) are left out.        *)
(***************************************************************************)
EXTENDS Integers, FiniteSets

CONSTANTS
  Dirs,         \* the checkouts on this host
  Pids,         \* the pid numbers in use
  Scripts,      \* how many scripts may run at once, by name
  OldFiles,     \* pids that ./diskwatcher.pid of an old release may hold
  ByHand,       \* how copies are started by hand: {"foreground", "daemon"}
  HasLsof,      \* is lsof installed?
  Patient,      \* are scripts started only after the last start has forked?
  Free,         \* a pid that is nobody's
  Stranger,     \* a process with nothing of a diskwatcher about it
  Lookalikes,   \* where pythons work that only name it in their arguments
  None          \* no pid file, no directory

\* The stages of a diskwatcher: python reading its configuration, the process
\* between the two forks, the daemon before its pid file, the first poll, the
\* web server, and the interpreter shutting down.
Stages == {"loading", "child", "daemon", "polling", "serving", "leaving"}

Process ==
  [dir : Dirs, stage : Stages, daemon : BOOLEAN, hung : BOOLEAN, doomed : BOOLEAN]

\* A python with diskwatcher.py, mu2edaq_diskwatcher or mu2edaq-diskwatcher in
\* its arguments that is no diskwatcher: a test, an editor, a REPL, a tool of
\* the virtual environment run by its path.
Lookalike(d) == [cwd |-> d]

\* What a pid may be besides a diskwatcher.
Others == {Free, Stranger} \cup {Lookalike(d) : d \in Lookalikes}

ASSUME LifecycleAssumption ==
  /\ None \notin Dirs \cup Pids
  /\ Lookalikes \subseteq Dirs \cup {None}
  /\ Free # Stranger /\ Others \cap Process = {}
  /\ \A d \in Lookalikes : Lookalike(d) # Free
  /\ OldFiles \subseteq Pids
  /\ ByHand \subseteq {"foreground", "daemon"}
  /\ HasLsof \in BOOLEAN /\ Patient \in BOOLEAN

VARIABLES
  proc,      \* the process table
  pidFile,   \* run/<host>/mu2edaq-diskwatcher.pid of each checkout
  legacy,    \* ./diskwatcher.pid of each checkout
  script     \* the start and stop scripts that run

vars == <<proc, pidFile, legacy, script>>

Diskwatcher(d, stage, isDaemon) ==
  [dir |-> d, stage |-> stage, daemon |-> isDaemon, hung |-> FALSE,
   doomed |-> FALSE]

\* kind is start, keep (start --no-replace) or stop; found, the pids it will
\* signal.  `same` is not in the code: the pids that still are the processes
\* they were when the script began to look.
Idle == [kind |-> "none", dir |-> None, phase |-> "idle", found |-> {}, same |-> {}]

Init ==
  /\ proc = [p \in Pids |-> Free]
  /\ pidFile = [d \in Dirs |-> None]
  /\ legacy \in [Dirs -> OldFiles \cup {None}]
  /\ script = [s \in Scripts |-> Idle]

(***************************************************************************)
(* Processes.                                                              *)
(***************************************************************************)
Alive(p) == proc[p] # Free
IsDiskwatcher(p) == proc[p] \notin Others

\* dw_is_diskwatcher: alive, a python, and one of three names in its arguments.
\* Every diskwatcher passes, and so does every look-alike.
dw_is_diskwatcher(p) == Alive(p) /\ proc[p] # Stranger

RunsIn(p, d) == IsDiskwatcher(p) /\ proc[p].dir = d

\* What lsof says of the working directory.
WorksIn(p, d) == RunsIn(p, d) \/ proc[p] = Lookalike(d)

\* Scripts do not notice, but those pids no longer are what they were.
Ended(P) == script' = [s \in Scripts |-> [script[s] EXCEPT !.same = @ \ P]]

Stage(p, stage) == proc' = [proc EXCEPT ![p].stage = stage]

\* A process that runs diskwatcher code and is not stuck in the kernel.
Running(p, stage) ==
  IsDiskwatcher(p) /\ proc[p].stage = stage /\ ~proc[p].hung

StrangerComes ==
  \E p \in Pids :
    /\ ~Alive(p)
    /\ \E who \in Others \ {Free} : proc' = [proc EXCEPT ![p] = who]
    /\ UNCHANGED <<pidFile, legacy, script>>

\* A stranger ends, or a diskwatcher is killed from outside: no cleanup.
Dies ==
  \E p \in Pids :
    /\ Alive(p)
    /\ IsDiskwatcher(p) => ~proc[p].hung
    /\ proc' = [proc EXCEPT ![p] = Free]
    /\ Ended({p})
    /\ UNCHANGED <<pidFile, legacy>>

\* The machine restarts: the files stay.
Reboot ==
  /\ proc' = [p \in Pids |-> Free]
  /\ script' = [s \in Scripts |-> Idle]
  /\ UNCHANGED <<pidFile, legacy>>

StartsByHand ==
  \E p \in Pids, d \in Dirs, how \in ByHand :
    /\ ~Alive(p)
    /\ proc' = [proc EXCEPT ![p] =
         Diskwatcher(d, IF how = "daemon" THEN "loading" ELSE "polling",
                     how = "daemon")]
    /\ UNCHANGED <<pidFile, legacy, script>>

\* daemonize: each fork leaves the work to a new pid, and the old one exits.
Fork(p) ==
  /\ IsDiskwatcher(p) /\ proc[p].stage \in {"loading", "child"}
  /\ \E q \in Pids :
       /\ ~Alive(q)
       /\ proc' = [proc EXCEPT
            ![p] = Free,
            ![q] = [proc[p] EXCEPT !.stage =
                      IF proc[p].stage = "loading" THEN "child" ELSE "daemon"]]
  /\ Ended({p})
  /\ UNCHANGED <<pidFile, legacy>>

\* write_pid_file
WritePidFile(p) ==
  /\ Running(p, "daemon")
  /\ pidFile' = [pidFile EXCEPT ![proc[p].dir] = p]
  /\ Stage(p, "polling")
  /\ UNCHANGED <<legacy, script>>

\* A poll hangs on a path, and the path comes back; signals sent meanwhile
\* take effect then.
Hangs(p) ==
  /\ Running(p, "polling") \/ Running(p, "serving")
  /\ proc' = [proc EXCEPT ![p].hung = TRUE]
  /\ UNCHANGED <<pidFile, legacy, script>>

ComesBack(p) ==
  /\ IsDiskwatcher(p) /\ proc[p].hung
  /\ IF proc[p].doomed
     THEN proc' = [proc EXCEPT ![p] = Free] /\ Ended({p})
     ELSE proc' = [proc EXCEPT ![p].hung = FALSE] /\ UNCHANGED script
  /\ UNCHANGED <<pidFile, legacy>>

PortTaken(d) == \E p \in Pids : RunsIn(p, d) /\ proc[p].stage = "serving"

\* After the first poll app.run binds the port; when it is taken, or when the
\* first poll raised, main is left.
Bind(p) ==
  /\ Running(p, "polling") /\ ~PortTaken(proc[p].dir)
  /\ Stage(p, "serving")
  /\ UNCHANGED <<pidFile, legacy, script>>

GivesUp(p) ==
  /\ Running(p, "polling")
  /\ Stage(p, "leaving")
  /\ UNCHANGED <<pidFile, legacy, script>>

\* The web server ends (an interrupt, an exception).
StopsServing(p) ==
  /\ Running(p, "serving")
  /\ Stage(p, "leaving")
  /\ UNCHANGED <<pidFile, legacy, script>>

\* Mistaken variant: a foreground copy removes the pid file, too.
LeaveRemovesAlways(p) ==
  /\ Running(p, "leaving")
  /\ pidFile' = [pidFile EXCEPT ![proc[p].dir] = None]
  /\ proc' = [proc EXCEPT ![p] = Free]
  /\ Ended({p})
  /\ UNCHANGED legacy

\* The atexit handler remove_pid_file, whosever pid the file holds, and exit.
Leave(p) ==
  /\ Running(p, "leaving")
  /\ pidFile' = [d \in Dirs |-> IF proc[p].daemon /\ d = proc[p].dir
                                THEN None ELSE pidFile[d]]
  /\ proc' = [proc EXCEPT ![p] = Free]
  /\ Ended({p})
  /\ UNCHANGED legacy

(***************************************************************************)
(* Scripts.                                                                *)
(***************************************************************************)
Goto(s, phase) == script' = [script EXCEPT ![s].phase = phase]

Forked(p) == IsDiskwatcher(p) => proc[p].stage \notin {"loading", "child"}

Call(s, d, kind) ==
  /\ script[s].phase = "idle"
  /\ Patient => \A p \in Pids : Forked(p)
  /\ script' = [script EXCEPT ![s] =
       [kind |-> kind, dir |-> d, phase |-> "reading", found |-> {}, same |-> {}]]
  /\ UNCHANGED <<proc, pidFile, legacy>>

\* Mistaken variant: the recorded pid is the only one looked for.
ReadPidFilesOnly(s) ==
  /\ script[s].phase = "reading"
  /\ script' = [script EXCEPT
       ![s].found = {p \in Pids : p = pidFile[script[s].dir] /\ dw_is_diskwatcher(p)},
       ![s].same  = {p \in Pids : Alive(p)},
       ![s].phase = "chosen"]
  /\ UNCHANGED <<proc, pidFile, legacy>>

\* dw_pid_from_file, for both files: no look at the working directory.
ReadPidFiles(s) ==
  LET d == script[s].dir
  IN  /\ script[s].phase = "reading"
      /\ script' = [script EXCEPT
           ![s].found = {p \in {pidFile[d], legacy[d]} \cap Pids : dw_is_diskwatcher(p)},
           ![s].same  = {p \in Pids : Alive(p)},
           ![s].phase = "sweeping"]
      /\ UNCHANGED <<proc, pidFile, legacy>>

\* dw_running_pids: with no lsof, no candidate is confirmed.
Sweep(s) ==
  /\ script[s].phase = "sweeping"
  /\ script' = [script EXCEPT
       ![s].found = @ \cup {p \in Pids : /\ HasLsof
                                         /\ dw_is_diskwatcher(p)
                                         /\ WorksIn(p, script[s].dir)},
       ![s].phase = "chosen"]
  /\ UNCHANGED <<proc, pidFile, legacy>>

\* start --no-replace refuses to start.
Refuse(s) ==
  /\ script[s].phase = "chosen" /\ script[s].found # {}
  /\ script[s].kind = "keep"
  /\ script' = [script EXCEPT ![s] = Idle]
  /\ UNCHANGED <<proc, pidFile, legacy>>

NothingToStop(s) ==
  /\ script[s].phase = "chosen" /\ script[s].found = {}
  /\ script[s].kind # "stop"
  /\ Goto(s, "launching")
  /\ UNCHANGED <<proc, pidFile, legacy>>

\* stop with nothing running removes stale files; the old release's only when
\* its pid is no diskwatcher here.
CleanUpStale(s) ==
  LET d == script[s].dir
  IN  /\ script[s].phase = "chosen" /\ script[s].found = {}
      /\ script[s].kind = "stop"
      /\ pidFile' = [pidFile EXCEPT ![d] = None]
      /\ legacy' = [legacy EXCEPT ![d] =
                      IF @ \in Pids /\ dw_is_diskwatcher(@) THEN @ ELSE None]
      /\ script' = [script EXCEPT ![s] = Idle]
      /\ UNCHANGED proc

\* SIGTERM or SIGKILL to whoever has those pids now: the end, or, for one that
\* hangs in the kernel, its end as soon as it comes back.
Signal(P, s, phase) ==
  LET hanging == {p \in P : IsDiskwatcher(p) /\ proc[p].hung}
      dying   == P \ hanging
  IN  /\ proc' = [p \in Pids |->
           IF p \in dying THEN Free
           ELSE IF p \in hanging THEN [proc[p] EXCEPT !.doomed = TRUE]
           ELSE proc[p]]
      /\ script' = [t \in Scripts |->
           [script[t] EXCEPT !.same  = @ \ dying,
                             !.phase = IF t = s THEN phase ELSE @]]
      /\ UNCHANGED <<pidFile, legacy>>

\* dw_kill_pids: SIGTERM to all, then wait until all are gone or the time is up.
Terminate(s) ==
  /\ script[s].phase = "chosen" /\ script[s].found # {}
  /\ script[s].kind # "keep"
  /\ Signal(script[s].found, s, "waiting")

AllGone(s) ==
  /\ script[s].phase = "waiting"
  /\ \A p \in script[s].found : ~Alive(p)
  /\ Goto(s, "clearing")
  /\ UNCHANGED <<proc, pidFile, legacy>>

\* Mistaken variant: no timeout.
TimeIsUpNever(s) == FALSE

TimeIsUp(s) ==
  /\ script[s].phase = "waiting"
  /\ Signal(script[s].found, s, "clearing")

\* rm -f of both files.
Clear(s) ==
  LET d == script[s].dir
  IN  /\ script[s].phase = "clearing"
      /\ pidFile' = [pidFile EXCEPT ![d] = None]
      /\ legacy' = [legacy EXCEPT ![d] = None]
      /\ IF script[s].kind = "stop"
         THEN script' = [script EXCEPT ![s] = Idle]
         ELSE Goto(s, "launching")
      /\ UNCHANGED proc

\* No virtual environment: the start ends here.
CannotLaunch(s) ==
  /\ script[s].phase = "launching"
  /\ script' = [script EXCEPT ![s] = Idle]
  /\ UNCHANGED <<proc, pidFile, legacy>>

\* exec python diskwatcher.py: the script has become the daemon to be.
Launch(s) ==
  /\ script[s].phase = "launching"
  /\ \E p \in Pids :
       /\ ~Alive(p)
       /\ proc' = [proc EXCEPT ![p] = Diskwatcher(script[s].dir, "loading", TRUE)]
  /\ script' = [script EXCEPT ![s] = Idle]
  /\ UNCHANGED <<pidFile, legacy>>

ScriptStep(s) ==
  \/ ReadPidFiles(s) \/ Sweep(s) \/ Refuse(s) \/ NothingToStop(s)
  \/ CleanUpStale(s) \/ Terminate(s) \/ AllGone(s) \/ TimeIsUp(s) \/ Clear(s)
  \/ CannotLaunch(s) \/ Launch(s)

ProcessStep(p) ==
  \/ Fork(p) \/ WritePidFile(p) \/ Hangs(p) \/ ComesBack(p) \/ Bind(p)
  \/ GivesUp(p) \/ StopsServing(p) \/ Leave(p)

Next ==
  \/ StrangerComes \/ Dies \/ Reboot \/ StartsByHand
  \/ \E s \in Scripts, d \in Dirs, kind \in {"start", "keep", "stop"} :
       Call(s, d, kind)
  \/ \E s \in Scripts : ScriptStep(s)
  \/ \E p \in Pids : ProcessStep(p)

Spec == Init /\ [][Next]_vars

\* A script that was started is run to its end; its waiting is counted in
\* seconds.  Processes need no fairness: nothing is promised of them.
FairSpec == Spec /\ \A s \in Scripts : WF_vars(ScriptStep(s))

(***************************************************************************)
(* Properties.                                                             *)
(***************************************************************************)
Phases == {"idle", "reading", "sweeping", "chosen", "waiting", "clearing", "launching"}

ScriptState ==
  [kind : {"none", "start", "keep", "stop"}, dir : Dirs \cup {None},
   phase : Phases, found : SUBSET Pids, same : SUBSET Pids]

\* The types of the variables.
TypeOK ==
  /\ proc \in [Pids -> Others \cup Process]
  /\ pidFile \in [Dirs -> Pids \cup {None}]
  /\ legacy \in [Dirs -> Pids \cup {None}]
  /\ script \in [Scripts -> ScriptState]

\* After the signals no copy that ran out of this directory when the script
\* began to look runs on, recorded or not: what is left hangs in the kernel and
\* ends when it comes back.  (A copy that forks meanwhile has another pid and
\* gets away.)
OldCopiesEnd ==
  \A s \in Scripts : script[s].phase \in {"clearing", "launching"} =>
    \A p \in script[s].same : RunsIn(p, script[s].dir) => proc[p].doomed

\* When nothing is on its way, a serving daemon is the one its pid file names:
\* after starts and stops by one script at a time, each begun when the last
\* start had forked, after crashes, reboots, daemons that leave late, and copies
\* started by hand in the foreground.  Two scripts at once, or a daemon started
\* by hand beside one that leaves, may lose the file.
Settled ==
  /\ \A s \in Scripts : script[s].phase = "idle"
  /\ \A p \in Pids : IsDiskwatcher(p) => proc[p].stage = "serving"

PidFileNamesDaemon ==
  Settled => \A p \in Pids :
    (IsDiskwatcher(p) /\ proc[p].daemon /\ ~proc[p].doomed)
      => pidFile[proc[p].dir] = p

\* A script gets to its end, or to where it executes python, although a copy it
\* signals hangs for ever.
ScriptsEnd ==
  \A s \in Scripts :
    script[s].phase # "idle" ~> script[s].phase \in {"idle", "launching"}

\* Expected to fail.  "two checkouts on one host do not stop each other": what a
\* script is going to signal runs, or ran, out of its own directory.
CheckoutsKeepApart ==
  \A s \in Scripts : \A p \in script[s].found \cap script[s].same :
    IsDiskwatcher(p) => proc[p].dir = script[s].dir
===============================================================================
