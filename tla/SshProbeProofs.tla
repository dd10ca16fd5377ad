---------------------------- MODULE SshProbeProofs ----------------------------
(***************************************************************************)
(* What remote_probe reports is true of some moment of the probe, for any  *)
(* entries, machines and host names.                                       *)
(***************************************************************************)
EXTENDS SshProbe, TLAPS

\* The types of the variables, as far as the proofs need them.
Types ==
  /\ DOMAIN path = Entries /\ DOMAIN link = Machines /\ DOMAIN python = Machines
  /\ DOMAIN mode = Hosts
  /\ call \in [Entries -> {"none", "python3", "disk", "stat"}]
  /\ DOMAIN result = Entries /\ DOMAIN seen = Entries
  /\ lacked \subseteq Machines

\* The history of a probe in progress holds what its path and link are like now;
\* one that has come to the disk has found its path there before.
SeenInv ==
  \A e \in Entries :
    /\ call[e] # "none" => Where(e) \in seen[e]
    /\ call[e] = "disk" =>
         e \in Directories /\ \E w \in seen[e] : w.path # "gone" /\ w.link

Inv == Types /\ SeenInv

LEMMA InitInv == Init => Inv
BY SshAssumption DEF Init, Inv, Types, SeenInv

\* The steps of one probe leave the path, the link and every other probe alone.
OnlyFor(e) ==
  /\ UNCHANGED <<path, link, python, lacked>>
  /\ DOMAIN mode' = DOMAIN mode
  /\ call' \in [Entries -> {"none", "python3", "disk", "stat"}]
  /\ DOMAIN result' = Entries /\ DOMAIN seen' = Entries
  /\ \A f \in Entries \ {e} : call'[f] = call[f] /\ seen'[f] = seen[f]

LEMMA ProbesAreSeparate ==
  ASSUME Types, NEW e \in Entries,
         \/ BeginProbe(e) \/ CallLost(e) \/ FallBack(e) \/ SnippetFails(e)
         \/ SnippetStats(e) \/ SnippetMeasures(e) \/ StatAnswers(e)
  PROVE  OnlyFor(e)
BY DEF Types, OnlyFor, BeginProbe, CallLost, FallBack, SnippetFails, SnippetStats,
   SnippetMeasures, StatAnswers, Finish

LEMMA NextInv == Inv /\ [Next]_vars => Inv'
<1> SUFFICES ASSUME Inv, [Next]_vars PROVE Inv'
  OBVIOUS
<1> USE DEF Inv
<1>1. CASE ChangePath
  <2>1. Types'
    BY <1>1 DEF ChangePath, Noted, Types
  <2>2. \A e \in Entries :
          call'[e] # "none" => Where(e)' \in seen'[e] /\ seen[e] \subseteq seen'[e]
    BY <1>1 DEF ChangePath, Noted, Types, Where
  <2> QED
    BY <1>1, <2>1, <2>2 DEF SeenInv, ChangePath
<1>2. CASE ChangeLink
  <2>1. Types'
    BY <1>2 DEF ChangeLink, Noted, Types
  <2>2. \A e \in Entries :
          call'[e] # "none" => Where(e)' \in seen'[e] /\ seen[e] \subseteq seen'[e]
    BY <1>2 DEF ChangeLink, Noted, Types, Where
  <2> QED
    BY <1>2, <2>1, <2>2 DEF SeenInv, ChangeLink
<1>3. CASE ChangePython
  BY <1>3 DEF ChangePython, Types, SeenInv, Where
<1>4. ASSUME NEW e \in Entries,
             \/ BeginProbe(e) \/ CallLost(e) \/ FallBack(e) \/ SnippetFails(e)
             \/ SnippetStats(e) \/ SnippetMeasures(e) \/ StatAnswers(e)
      PROVE  Inv'
  <2>1. OnlyFor(e)
    BY <1>4, ProbesAreSeparate
  <2>2. Types'
    BY <2>1 DEF Types, OnlyFor
  <2>3. \A f \in Entries : Where(f)' = Where(f)
    BY <2>1 DEF OnlyFor, Where
  <2>4. /\ call'[e] # "none" => Where(e) \in seen'[e]
        /\ call'[e] = "disk" =>
             e \in Directories /\ \E w \in seen'[e] : w.path # "gone" /\ w.link
    <3>1. CASE BeginProbe(e)
      BY <3>1 DEF BeginProbe, Types
    <3>2. CASE FallBack(e)
      BY <3>2 DEF FallBack, Types, SeenInv
    <3>3. CASE SnippetStats(e)
      <4>1. Where(e) \in seen[e] /\ Where(e).path # "gone" /\ Where(e).link
        BY <3>3 DEF SnippetStats, SeenInv, Where, Answered
      <4> QED
        BY <3>3, <4>1 DEF SnippetStats, Finish, Types
    <3>4. CASE CallLost(e) \/ SnippetFails(e) \/ SnippetMeasures(e) \/ StatAnswers(e)
      BY <3>4 DEF CallLost, SnippetFails, SnippetMeasures, StatAnswers, Finish, Types
    <3> QED
      BY <1>4, <3>1, <3>2, <3>3, <3>4
  <2>5. SeenInv'
    BY <2>1, <2>3, <2>4 DEF SeenInv, OnlyFor
  <2> QED
    BY <2>2, <2>5
<1>5. CASE UNCHANGED vars
  BY <1>5 DEF vars, Types, SeenInv, Where
<1> QED
  BY <1>1, <1>2, <1>3, <1>4, <1>5 DEF Next

LEMMA Invariance == Spec => []Inv
BY InitInv, NextInv, PTL DEF Spec

\* Only a step of its own ends a probe, with what it finds at that moment.
LEMMA HowProbesEnd ==
  ASSUME Inv, [Next]_vars, NEW e \in Entries, Ends(e)
  PROVE  \/ CallLost(e) \/ SnippetFails(e) \/ SnippetStats(e)
         \/ SnippetMeasures(e) \/ StatAnswers(e)
<1>1. ASSUME NEW f \in Entries,
             \/ BeginProbe(f) \/ CallLost(f) \/ FallBack(f) \/ SnippetFails(f)
             \/ SnippetStats(f) \/ SnippetMeasures(f) \/ StatAnswers(f)
      PROVE  f = e
  BY <1>1, ProbesAreSeparate DEF OnlyFor, Ends, Inv
<1>2. ~BeginProbe(e) /\ ~FallBack(e)
  BY DEF BeginProbe, FallBack, Ends, Inv, Types
<1>3. ~ChangePath /\ ~ChangeLink /\ ~ChangePython /\ ~UNCHANGED vars
  BY DEF ChangePath, ChangeLink, ChangePython, Ends, vars
<1> QED
  BY <1>1, <1>2, <1>3 DEF Next

\* MISSING and UNKNOWN stay apart (remote_probe): whatever a probe reports was so
\* at some time during it, for any number of probes sharing hosts.
THEOREM ResultsAreTrue == Spec => ResultIsTrue
<1>1. ASSUME Inv, [Next]_vars, NEW e \in Entries, Ends(e)
      PROVE  TellsTheTruth(e)
  <2>1. Where(e) \in seen[e]
    BY <1>1 DEF Inv, SeenInv, Ends
  <2>2. Where(e).path = path[e] /\ Where(e).link = link[Machine[e]]
    BY DEF Where
  <2>3. call[e] = "disk" => \E w \in seen[e] : w.path # "gone" /\ w.link
    BY <1>1 DEF Inv, SeenInv
  <2>4. CASE CallLost(e)
    BY <1>1, <2>1, <2>2, <2>4 DEF CallLost, Finish, TellsTheTruth, Inv, Types
  <2>5. CASE SnippetFails(e)
    BY <1>1, <2>1, <2>2, <2>5 DEF SnippetFails, Finish, TellsTheTruth, Inv, Types
  <2>6. CASE SnippetStats(e)
    BY <1>1, <2>1, <2>2, <2>6
       DEF SnippetStats, Finish, TellsTheTruth, Answered, Inv, Types, Ends
  <2>7. CASE SnippetMeasures(e)
    BY <1>1, <2>1, <2>2, <2>3, <2>7
       DEF SnippetMeasures, Finish, TellsTheTruth, Inv, Types
  <2>8. CASE StatAnswers(e)
    BY <1>1, <2>1, <2>2, <2>8
       DEF StatAnswers, Finish, TellsTheTruth, Answered, Inv, Types
  <2> QED
    BY <1>1, <2>4, <2>5, <2>6, <2>7, <2>8, HowProbesEnd
<1>2. Inv /\ [Next]_vars => [\A e \in Entries : Ends(e) => TellsTheTruth(e)]_vars
  BY <1>1
<1> QED
  BY <1>2, Invariance, PTL DEF Spec, ResultIsTrue

(***************************************************************************)
(* The cached mode.                                                        *)
(***************************************************************************)
\* Without paths that mention python3, a host is remembered as having none, and
\* a probe uses stat, only if a machine of that name has been without it.
ModeInv ==
  /\ \A m \in Machines : ~python[m] => m \in lacked
  /\ \A h \in Hosts : mode[h] = "stat" => \E m \in lacked : Host[m] = h
  /\ \A e \in Entries : call[e] = "stat" => HostLacked(e)

LEMMA InitMode == Init => ModeInv
BY DEF Init, ModeInv

LEMMA NextMode ==
  ASSUME Mentions = {}, Inv, ModeInv, [Next]_vars
  PROVE  ModeInv'
<1> USE DEF Inv
<1>0. \A e \in Entries : Machine[e] \in Machines /\ Host[Machine[e]] \in Hosts
  BY SshAssumption DEF Hosts
<1>1. CASE ChangePath \/ ChangeLink \/ UNCHANGED vars
  BY <1>1 DEF ChangePath, ChangeLink, vars, ModeInv, HostLacked
<1>2. CASE ChangePython
  <2>1. lacked \subseteq lacked' /\ UNCHANGED <<mode, call>>
    BY <1>2 DEF ChangePython
  <2>2. \A m \in Machines : ~python'[m] => m \in lacked'
    BY <1>2 DEF ChangePython, Types, ModeInv
  <2> QED
    BY <2>1, <2>2 DEF ModeInv, HostLacked
<1>3. ASSUME NEW e \in Entries, FallBack(e)
      PROVE  ModeInv'
  <2>1. Machine[e] \in lacked
    BY <1>0, <1>3 DEF FallBack, NoPython3, ModeInv
  <2>2. /\ UNCHANGED <<python, lacked>>
        /\ \A h \in Hosts \ {Host[Machine[e]]} : mode'[h] = mode[h]
        /\ \A f \in Entries \ {e} : call'[f] = call[f]
    BY <1>3 DEF FallBack, Types
  <2> QED
    BY <1>0, <2>1, <2>2 DEF ModeInv, HostLacked
<1>4. ASSUME NEW e \in Entries, BeginProbe(e)
      PROVE  ModeInv'
  <2>1. /\ UNCHANGED <<python, lacked, mode>>
        /\ call'[e] = "stat" => mode[Host[Machine[e]]] = "stat"
        /\ \A f \in Entries \ {e} : call'[f] = call[f]
    BY <1>4 DEF BeginProbe, Types
  <2> QED
    BY <1>0, <2>1 DEF ModeInv, HostLacked
<1>5. ASSUME NEW e \in Entries,
             \/ CallLost(e) \/ SnippetFails(e) \/ SnippetStats(e)
             \/ SnippetMeasures(e) \/ StatAnswers(e)
      PROVE  ModeInv'
  <2>1. /\ UNCHANGED <<python, lacked, mode>>
        /\ call'[e] # "stat"
        /\ \A f \in Entries \ {e} : call'[f] = call[f]
    BY <1>5 DEF CallLost, SnippetFails, SnippetStats, SnippetMeasures, StatAnswers,
       Finish, Types
  <2> QED
    BY <2>1 DEF ModeInv, HostLacked
<1> QED
  BY <1>1, <1>2, <1>3, <1>4, <1>5 DEF Next

\* A directory that exists is UNKNOWN only for a cause (remote_probe,
\* _PROBE_MODE), provided no watched path mentions python3, as _no_python3 reads
\* the name of a missing path for a missing program.
THEOREM UnmeasuredIsCaused == Mentions = {} => (Spec => UnmeasuredHasACause)
<1> SUFFICES ASSUME Mentions = {} PROVE Spec => UnmeasuredHasACause
  OBVIOUS
<1>1. ASSUME Inv, ModeInv, [Next]_vars, NEW e \in Entries, Ends(e)
      PROVE  HasACause(e)
  <2>1. Where(e) \in seen[e] /\ Where(e).path = path[e]
    BY <1>1 DEF Inv, SeenInv, Ends, Where
  <2>2. CASE CallLost(e) \/ SnippetFails(e)
    BY <1>1, <2>2 DEF CallLost, SnippetFails, Finish, HasACause, Inv, Types
  <2>3. CASE SnippetStats(e)
    BY <1>1, <2>3 DEF SnippetStats, HasACause, Ends, Inv, Types
  <2>4. CASE SnippetMeasures(e)
    BY <1>1, <2>1, <2>4 DEF SnippetMeasures, Finish, HasACause, Inv, Types
  <2>5. CASE StatAnswers(e)
    BY <1>1, <2>5 DEF StatAnswers, HasACause, ModeInv
  <2> QED
    BY <1>1, <2>2, <2>3, <2>4, <2>5, HowProbesEnd
<1>2. Inv /\ ModeInv /\ [Next]_vars
        => [\A e \in Entries : Ends(e) => HasACause(e)]_vars
  BY <1>1
<1>3. Spec => []ModeInv
  <2>1. Inv /\ ModeInv /\ [Next]_vars => ModeInv'
    BY NextMode
  <2> QED
    BY <2>1, InitMode, Invariance, PTL DEF Spec
<1> QED
  BY <1>2, <1>3, Invariance, PTL DEF Spec, UnmeasuredHasACause
===============================================================================
