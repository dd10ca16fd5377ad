-------------------------------- MODULE SshProbe --------------------------------
(***************************************************************************)
(* Remote probing: remote_probe of ssh.py, run by the poller's pool for    *)
(* several entries at once.  A probe runs a python3 snippet on the entry's *)
(* machine, or, once its host has been found to have no python3, a stat    *)
(* that cannot measure disks.  What was found is remembered per host name, *)
(* in _PROBE_MODE, for the life of the process.                            *)
(*                                                                         *)
(* An ssh command either comes back with what the machine answered, or the *)
(* link fails it: refused, timed out, or an answer that does not parse.    *)
(* WatchEntry takes it from there.                                         *)
(***************************************************************************)
CONSTANTS
  Entries,        \* remote entries
  Directories,    \* those of them polled with want_disk
  Machines,
  Machine,        \* entry -> the machine its ssh: block leads to
  Host,           \* machine -> the `host` it is called by; the port may differ
  Mentions,       \* entries whose path contains "python3"
  None            \* Python's None

Conditions == {"gone", "opaque", "fine"}   \* opaque: its disk is unmeasurable
Hosts == {Host[m] : m \in Machines}

ASSUME SshAssumption ==
  /\ Directories \subseteq Entries /\ Mentions \subseteq Entries
  /\ Machine \in [Entries -> Machines]
  /\ DOMAIN Host = Machines
  /\ None \notin {"failed", "unmeasured", "measured"}

VARIABLES
  path,       \* entry -> the condition of its path
  link,       \* machine -> do ssh commands get through?
  python,     \* machine -> is python3 installed?
  mode,       \* _PROBE_MODE; "python3" stands for no key as well
  call,       \* entry -> what its probe is waiting for
  result,     \* entry -> what its last probe returned
  seen,       \* history: conditions of path and link while a probe runs
  lacked      \* history: machines that have ever lacked python3

vars == <<path, link, python, mode, call, result, seen, lacked>>

Where(e) == [path |-> path[e], link |-> link[Machine[e]]]

Init ==
  /\ path \in [Entries -> Conditions]
  /\ link = [m \in Machines |-> TRUE]
  /\ python \in [Machines -> BOOLEAN]
  /\ mode = [h \in Hosts |-> "python3"]
  /\ call = [e \in Entries |-> "none"]
  /\ result = [e \in Entries |-> None]
  /\ seen = [e \in Entries |-> {}]
  /\ lacked = {m \in Machines : ~python[m]}

(***************************************************************************)
(* The machines.                                                           *)
(***************************************************************************)
\* The history of the probes in progress takes note of a change.
Noted ==
  seen' = [e \in Entries |->
             IF call[e] = "none" THEN {}
             ELSE seen[e] \cup {[path |-> path'[e], link |-> link'[Machine[e]]]}]

ChangePath ==
  /\ \E e \in Entries, c \in Conditions : path' = [path EXCEPT ![e] = c]
  /\ UNCHANGED <<link, python, mode, call, result, lacked>>
  /\ Noted

ChangeLink ==
  /\ \E m \in Machines : link' = [link EXCEPT ![m] = ~@]
  /\ UNCHANGED <<path, python, mode, call, result, lacked>>
  /\ Noted

ChangePython ==
  \E m \in Machines :
    /\ python' = [python EXCEPT ![m] = ~@]
    /\ lacked' = IF python[m] THEN lacked \cup {m} ELSE lacked
    /\ UNCHANGED <<path, link, mode, call, result, seen>>

(***************************************************************************)
(* remote_probe.                                                           *)
(***************************************************************************)
BeginProbe(e) ==
  /\ call[e] = "none"
  /\ call' = [call EXCEPT ![e] =
                IF mode[Host[Machine[e]]] = "stat" THEN "stat" ELSE "python3"]
  /\ result' = [result EXCEPT ![e] = None]
  /\ seen' = [seen EXCEPT ![e] = {Where(e)}]
  /\ UNCHANGED <<path, link, python, mode, lacked>>

Finish(e, outcome) ==
  /\ call' = [call EXCEPT ![e] = "none"]
  /\ result' = [result EXCEPT ![e] = outcome]
  /\ seen' = [seen EXCEPT ![e] = {}]
  /\ UNCHANGED <<path, link, python, mode, lacked>>

\* _run timed out, or ssh failed, or neither parser could read the output.
CallLost(e) ==
  /\ call[e] # "none" /\ ~link[Machine[e]]
  /\ Finish(e, "failed")

Answered(e) == link[Machine[e]]

\* _no_python3: exit status 127, or a message in which "python3" occurs next to
\* "no such file", as it does for a missing path of such a name.
NoPython3(e) ==
  \/ ~python[Machine[e]]
  \/ path[e] = "gone" /\ e \in Mentions

\* Mistaken variant: any failure of the snippet is taken for a missing python3.
FallBackAlways(e) ==
  /\ call[e] = "python3" /\ Answered(e)
  /\ ~python[Machine[e]] \/ path[e] = "gone"
  /\ mode' = [mode EXCEPT ![Host[Machine[e]]] = "stat"]
  /\ call' = [call EXCEPT ![e] = "stat"]
  /\ UNCHANGED <<path, link, python, result, seen, lacked>>

FallBack(e) ==
  /\ call[e] = "python3" /\ Answered(e)
  /\ NoPython3(e)
  /\ mode' = [mode EXCEPT ![Host[Machine[e]]] = "stat"]
  /\ call' = [call EXCEPT ![e] = "stat"]
  /\ UNCHANGED <<path, link, python, result, seen, lacked>>

\* The snippet's os.stat raised.
SnippetFails(e) ==
  /\ call[e] = "python3" /\ Answered(e)
  /\ ~NoPython3(e) /\ path[e] = "gone"
  /\ Finish(e, "failed")

\* The snippet's os.stat succeeded; the disk usage comes next if it is wanted.
SnippetStats(e) ==
  /\ call[e] = "python3" /\ Answered(e)
  /\ python[Machine[e]] /\ path[e] # "gone"
  /\ IF e \in Directories
     THEN call' = [call EXCEPT ![e] = "disk"]
          /\ UNCHANGED <<path, link, python, mode, result, seen, lacked>>
     ELSE Finish(e, "unmeasured")

\* Mistaken variant: a disk that cannot be measured fails the probe.
SnippetMeasuresOrFails(e) ==
  /\ call[e] = "disk" /\ Answered(e)
  /\ Finish(e, IF path[e] = "fine" THEN "measured" ELSE "failed")

\* The snippet's shutil.disk_usage, whose failure is printed as -1.
SnippetMeasures(e) ==
  /\ call[e] = "disk" /\ Answered(e)
  /\ Finish(e, IF path[e] = "fine" THEN "measured" ELSE "unmeasured")

\* _stat_fallback
StatAnswers(e) ==
  /\ call[e] = "stat" /\ Answered(e)
  /\ Finish(e, IF path[e] = "gone" THEN "failed" ELSE "unmeasured")

Next ==
  \/ ChangePath \/ ChangeLink \/ ChangePython
  \/ \E e \in Entries :
       \/ BeginProbe(e) \/ CallLost(e) \/ FallBack(e) \/ SnippetFails(e)
       \/ SnippetStats(e) \/ SnippetMeasures(e) \/ StatAnswers(e)

Spec == Init /\ [][Next]_vars

(***************************************************************************)
(* Properties.                                                             *)
(***************************************************************************)
Ends(e) == call[e] # "none" /\ call'[e] = "none"

\* MISSING and UNKNOWN stay distinguishable (remote_probe): a probe fails only
\* if the path was gone or the machine out of reach at some time during it, and
\* reports a path, or its disk, only if it was there, or measurable, during it,
\* whatever happened between its two commands.
TellsTheTruth(e) ==
  /\ result'[e] = "failed" => \E w \in seen[e] : w.path = "gone" \/ ~w.link
  /\ result'[e] \in {"unmeasured", "measured"} =>
       \E w \in seen[e] : w.path # "gone" /\ w.link
  /\ result'[e] = "measured" => \E w \in seen[e] : w.path = "fine"

ResultIsTrue == [][\A e \in Entries : Ends(e) => TellsTheTruth(e)]_vars

HostLacked(e) == \E m \in lacked : Host[m] = Host[Machine[e]]

\* A directory that exists goes unmeasured (a disk space alarm of UNKNOWN) only
\* if its disk could not be measured at some time during the probe, or if a
\* machine of that host name has been without python3.
HasACause(e) ==
  (e \in Directories /\ result'[e] = "unmeasured") =>
    HostLacked(e) \/ \E w \in seen[e] : w.path # "fine"

UnmeasuredHasACause == [][\A e \in Entries : Ends(e) => HasACause(e)]_vars

\* Expected to fail where a path contains "python3".  _no_python3 is true when
\* the remote failed because python3 is not installed.
FallbackMeansNoPython3 ==
  \A e \in Entries : mode[Host[Machine[e]]] = "stat" => HostLacked(e)
===============================================================================
